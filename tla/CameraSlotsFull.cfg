\* Two cameras and a table of one slot.
SPECIFICATION Spec
CONSTANTS
  d1 = d1  d2 = d2
  s1 = s1  s2 = s2  s3 = s3
  None = None
  Devices <- TwoDevices
  Sessions <- TwoSessions
  MaxCams = 1
  MaxTime = 2
  MaxConnects = 3
  MaxWrites = 1
  MaxRestarts = 1
INVARIANT SlotInTable
CHECK_DEADLOCK FALSE
SYMMETRY Symmetry
