SPECIFICATION FairSpec
PROPERTY ImplementsView
PROPERTY RequestsEnd
CHECK_DEADLOCK FALSE
CONSTANTS
  Txn = {t1, t2}
  Path = {p, q}
  Writer = {w1, w2}
  KeyRef = {k1}
  Line = {x, y}
  Key = {i1, i2, i3, i4, i5, i6}
  Seq = {s1, s2, s3, s4, s5, s6}
  None = None
  Registry <- FullRegistry
  p = p
  q = q
  w1 = w1
  w2 = w2
  k1 = k1
  k2 = k2
  x = x
  y = y
  i1 = i1
  i2 = i2
  i3 = i3
  i4 = i4
  i5 = i5
  i6 = i6
  s1 = s1
  s2 = s2
  s3 = s3
  s4 = s4
  s5 = s5
  s6 = s6
  Envelope <- MoveEnvelopes
  MaxRequests = 4
