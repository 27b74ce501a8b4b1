\* Does every changed record reach the disk?
SPECIFICATION FairSpec
CONSTANTS
  k1 = k1
  Consoles <- OneConsole
  Feeders <- OneCamera
  Wrap = 65536
  SavesFail = FALSE
  Numbers101 = FALSE
  MaxQueue = 1
  MaxSetups = 1
  MaxEdits = 1
  MaxCams = 1
  MaxConnects = 2
PROPERTY EveryChangeSaved
CHECK_DEADLOCK FALSE
