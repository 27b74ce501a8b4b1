\* Two cameras; besides the pictures the server has at the start, two events of any kind: a
\* picture, a change of camera or something that goes wrong.
SPECIFICATION FairSpec
CONSTANTS
  c1 = c1
  c2 = c2
  None = None
  Cams <- Both
  FirstCam = c1
  RoomUp = 2
  RoomDown = 1
  MaxEvents = 2
INVARIANTS TypeOK AnswerExpected CurrentAtRest WedgedByForce
PROPERTIES ShowsSelected EventuallyCurrent
CHECK_DEADLOCK FALSE
