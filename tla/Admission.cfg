SPECIFICATION Spec
CONSTANTS
  c1 = c1
  c2 = c2
  c3 = c3
  s1 = s1
  s2 = s2
  home = home
  cafe = cafe
  Connections = {c1, c2, c3}
  Sessions = {s1, s2}
  Addresses = {home, cafe}
  Address <- MCAddress
  Carrier <- MCCarrier
  Configs <- MCConfigs
  Window <- Three
  SweepAt = 1
  Delay = 1
  MaxTime = 6
  Until <- MCUntil
SYMMETRY AlikeSessions
INVARIANTS
  TypeOK
  CountsMatch
  LimitsHold
  WindowsLimit
