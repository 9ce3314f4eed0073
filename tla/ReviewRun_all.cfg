SPECIFICATION FairSpec
CONSTANTS
  Jobs = {1, 2}
  Workers = {w1, w2}
  MaxAttempts = 2
  NoJob = 0
  MaxHead = 2
  Findings = {f1, f2}
  Severe = {f1}
  MaxFindings = 1
  MaxIssues = 1
  MaxRetries = 2
  MaxFaults = 1
INVARIANT TypeOK
INVARIANT RepeatsNeedOverlap
INVARIANT DiffNotEarlier
PROPERTY EventuallyReviewed
CHECK_DEADLOCK FALSE
