SPECIFICATION Spec
CONSTANTS
  Client = {c1, c2}
  Req = {r1}
  Limit = 2
  Window = 2
  MaxSamples = 3
  KeepSamples = 2
  NotStarted = NotStarted
  MaxTime = 3
  MaxSetback = 1
  MaxRecords = 4
INVARIANTS
  TypeOK
  
  RefusedForCause
  SamplesAreLatest
  PercentileRight
\* Time, requests and records are bounded: there is an end.
CHECK_DEADLOCK FALSE
