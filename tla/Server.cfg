\* Three connections from two addresses, one entry to bar; one window; two writers of sensors.
SPECIFICATION PartSpec
CONSTANTS
  k1 = k1  k2 = k2  k3 = k3  a1 = a1  a2 = a2  h1 = h1
  x1 = x1  x2 = x2  w1 = w1  w2 = w2  c1 = c1
  None = None
  Conns <- ConnSet  Addrs <- AddrSet  Services <- HttpSet  Http <- HttpSet
  TableLen = 1  MaxFails = 1
  Exchanges <- ExchangeSet  MaxEdits = 3
  Writers <- WriterSet  Clients <- ClientSet
  Last = 2  Width = 3  MaxChanges = 3  MaxConnects = 2
INVARIANTS TypeOK CountsEveryChild OnlyFailedBarred PartsTypeOK OpenIsShown SensorsCurrent
PROPERTIES ShutsDown EventuallyShut SensorsEventuallyTold
CHECK_DEADLOCK FALSE
