\* Four messages of up to three units over a socket that holds four.
SPECIFICATION FairSpec
CONSTANTS
  Room = 4
  MaxLen = 3
  MaxMsgs = 4
  MaxBreaks = 2
INVARIANTS TypeOK InOrder RightLength
PROPERTIES Arrives
CHECK_DEADLOCK FALSE
