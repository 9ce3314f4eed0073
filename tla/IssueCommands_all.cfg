SPECIFICATION FairSpec
CONSTANTS
  f1 = f1
  Jobs = {j1, j2}
  Workers = {w1, w2}
  MaxAttempts = 2
  NoJob = NoJob
  Issues = {1}
  PRIssues = {1}
  Files = {f1}
  Stored <- OneFile
  MaxFixFiles = 1
  MaxCloseIssues = 1
  MaxPushes = 2
  MaxFaults = 1
INVARIANT TypeOK
INVARIANT ClosedRowClosedIssue
INVARIANT OneOpenFixPR
INVARIANT FixRevertsNothing
INVARIANT MergedMeansResolved
PROPERTY ApprovalAnswered
CHECK_DEADLOCK FALSE
