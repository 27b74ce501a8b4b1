\* One camera and a viewer, whose children also draw test cards; a camera whose server
\* may move, with two buffers and the shortest turn in which a session may end and the
\* next begin; frames of odd and even size.
SPECIFICATION PartSpec
CONSTANTS
  f1 = f1  f2 = f2  v1 = v1  v2 = v2
  Feeders <- OneFeeder
  Viewers <- OneViewer
  DoCrc = TRUE
  Limit = 1
  MaxFrames = 2
  MaxCards = 2
  a1 = a1  a2 = a2  s1 = s1  s2 = s2  None = None
  Addrs <- AddrSet
  Numbers = {1, 2}
  Sizes <- SizeSet  Usual = s1
  Grants <- GrantSet
  Events = 4  Buffers = 2
  MaxTroubles = 1  MaxEdits = 1
  Average <- Joined
  FrameSet <- OddAndEven
  MaxImages = 4
INVARIANTS TypeOK SafeRegister ArchivedIsWhole CameraTypeOK PictureAsTold OneStalePicture
INVARIANTS NeverStarved ScalingTypeOK EachIsHalved
PROPERTIES GoneIsNoticed KeepsSending
CHECK_DEADLOCK FALSE
