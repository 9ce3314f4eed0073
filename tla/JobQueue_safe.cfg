\* A lease that outlives a job: JobTTL + Grace <= LeaseTTL, as the defaults
\* have it (10 minutes and a grace against 15 minutes).
SPECIFICATION Spec
CONSTANTS
  Jobs = {1, 2}
  Workers = {w1, w2}
  MaxAttempts = 2
  LeaseTTL = 2
  JobTTL = 1
  Grace = 1
  BackoffCap = 2
  MaxTime = 7
  MaxFaults = 2
SYMMETRY WorkerSymmetry
INVARIANTS
  TypeOK
  OneRunner
  FailedOnlyWhenExhausted
  AttemptsBounded
PROPERTY ImplementsExclusiveQueue
CHECK_DEADLOCK FALSE
