SPECIFICATION FairSpec
CONSTANTS
  Jobs = {j1, j2}
  Workers = {w1, w2}
  MaxAttempts = 2
  NoJob = NoJob
  MaxHead = 2
  Findings = {f1, f2}
  Notable = {f1, f2}
  f1 = f1
  f2 = f2
  Reports <- CleanOrFull
  Fits <- Short
  MaxPushFindings = 1
  MaxRetries = 2
  MaxDenials = 1
  MaxFaults = 1
INVARIANT LinkedMeansAnnounced
INVARIANT OneIssueInUse
INVARIANT AnnouncedOnce
PROPERTY EventuallyAnnounced
CHECK_DEADLOCK FALSE
