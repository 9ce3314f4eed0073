SPECIFICATION Spec
CONSTANTS
  Jobs = {1}
  Workers = {w1}
  MaxAttempts = 2
  NoJob = 0
  MaxHead = 2
  Findings = {f1, f2}
  Severe = {f1}
  MaxFindings = 1
  MaxIssues = 1
  MaxRetries = 2
  MaxFaults = 1
INVARIANT CompletedMeansReviewed
CHECK_DEADLOCK FALSE
