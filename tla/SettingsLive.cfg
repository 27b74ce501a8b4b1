\* One console and two camera numbers, one of them taken: does the camera catch up?
SPECIFICATION FairSpec
CONSTANTS
  k1 = k1
  Consoles <- OneConsole
  Feeders <- OneCamera
  MaxCams = 2
  Wrap = 65536
  SavesFail = FALSE
  Numbers101 = FALSE
  MaxQueue = 1
  MaxSetups = 1
  MaxEdits = 1
  MaxConnects = 2
PROPERTIES CameraEventuallyCurrent
CHECK_DEADLOCK FALSE
