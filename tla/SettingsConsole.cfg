\* A console that asked for every change: does it get every change?
SPECIFICATION Spec
CONSTANTS
  k1 = k1
  Consoles <- OneConsole
  Feeders <- OneCamera
  Wrap = 65536
  SavesFail = FALSE
  Numbers101 = FALSE
  MaxQueue = 1
  MaxSetups = 1
  MaxEdits = 1
  MaxCams = 1
  MaxConnects = 2
INVARIANT ConsoleCurrent
CHECK_DEADLOCK FALSE
