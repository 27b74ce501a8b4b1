\* One camera and one viewer.
SPECIFICATION Spec
CONSTANTS
  f1 = f1  f2 = f2  v1 = v1  v2 = v2
  Feeders <- OneFeeder
  Viewers <- OneViewer
  DoCrc = TRUE
  Limit = 1
  MaxFrames = 2
  MaxCards = 2
INVARIANT NeverTorn
