\* One console and one camera.
SPECIFICATION Spec
CONSTANTS
  k1 = k1
  Consoles <- OneConsole
  Feeders <- OneCamera
  MaxCams = 1
  Wrap = 65536
  SavesFail = TRUE
  Numbers101 = TRUE
  MaxQueue = 1
  MaxSetups = 1
  MaxEdits = 1
  MaxConnects = 3
INVARIANTS TypeOK UnsavedIsFlagged CameraCurrent
PROPERTIES MonotonicReads
CHECK_DEADLOCK FALSE
