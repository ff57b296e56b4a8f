SPECIFICATION FairSpec
INVARIANT TypeOK
INVARIANT CompletedIsSent
INVARIANT RepeatsNeedErrors
PROPERTY JobsEnd
CHECK_DEADLOCK FALSE
CONSTANTS
  Queue = {"dispatch", "reply", "mirror"}
  Drain = {d1, d2}
  MaxAttempts = 2
  Keep = 1
  MaxJobs = 2
  MaxFaults = 1
  MaxStops = 1
