SPECIFICATION Spec
INVARIANT TypeOK
INVARIANT MappingTrue
CHECK_DEADLOCK FALSE
CONSTANTS
  Path = {p, q}
  Content = {c1, c2, c3}
  Id = {i1, i2, i3}
  None = None
  p = p
  q = q
  c1 = c1
  c2 = c2
  c3 = c3
  i1 = i1
  i2 = i2
  i3 = i3
  Process = {d1, d2}
  Request <- MovedAndBack
  MaxRetries = 1
  MaxFaults = 0
