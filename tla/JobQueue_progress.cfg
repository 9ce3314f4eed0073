SPECIFICATION TimelySpec
CONSTANTS
  Jobs = {1, 2}
  Workers = {w1}
  MaxAttempts = 2
  LeaseTTL = 2
  JobTTL = 1
  Grace = 1
  BackoffCap = 2
  MaxTime = 24
  MaxFaults = 2
  LastEnqueue = 2
PROPERTY Settles
CHECK_DEADLOCK FALSE
