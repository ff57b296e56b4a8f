SPECIFICATION FairSpec
PROPERTY HubReachesShips
CHECK_DEADLOCK FALSE
CONSTANTS
  Hub = hub
  Path = {p}
  Writer = {w1, w2}
  KeyRef = {k1, k2}
  Quartermaster = q
  None = None
  a = a
  p = p
  w1 = w1
  w2 = w2
  k1 = k1
  k2 = k2
  i1 = i1
  i2 = i2
  i3 = i3
  Ship = {a}
  Envelope <- HubWrites
  Registration <- HubSigners
  MaxLosses = 0
  MaxPulls = 2
