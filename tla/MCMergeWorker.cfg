SPECIFICATION WorkerSpec
SYMMETRY WorkerSymmetry
INVARIANT WorkerTypeOK
INVARIANT CompletedIsMerged
INVARIANT MergedOnce
PROPERTY OnlyLateWritesDropped
PROPERTY PassesImplementView
CHECK_DEADLOCK FALSE
CONSTANTS
  Path = {p}
  Writer = {w1, w2, q}
  KeyRef = {k1}
  Line = {x, y, z, h}
  None = None
  Registry <- FullRegistry
  Quartermaster = q
  Heading = {h}
  Key <- Keys
  Seq <- Seqs
  p = p
  w1 = w1
  w2 = w2
  k1 = k1
  x = x
  y = y
  z = z
  i1 = i1
  i2 = i2
  i3 = i3
  s1 = s1
  s2 = s2
  s3 = s3
  Txn = {t1, v1, v2}
  Worker = {v1, v2}
  Envelope <- ConflictEnvelopes
  MaxRequests = 4
  MaxPasses = 2
