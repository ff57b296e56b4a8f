SPECIFICATION Spec
INVARIANT TypeOK
INVARIANT LogMatchesTables
INVARIANT RequestsMatchGrants
INVARIANT EnabledWasGranted
SYMMETRY Sym
CONSTANTS
  e1 = e1
  Entry = {e1}
  Installs <- Curated
  Crew = {c1}
  Request = {r1, r2}
  Worker = {w1, w2}
  None = None
  MaxCalls = 5
