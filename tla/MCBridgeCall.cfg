SPECIFICATION FairSpec
INVARIANT TypeOK
PROPERTY ImplementsRounds
CHECK_DEADLOCK FALSE
CONSTANTS
  Request = {r1, r2, r3, r4}
  Station = {s1, s2}
  None = None
  MaxPending = 2
  Keep = 1
  MaxFaults = 1
