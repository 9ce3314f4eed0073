SPECIFICATION Spec
CONSTANTS
  Workers = {w1, w2}
  Keys = {k1, k2}
  TTL = 1
  JobTTL = 1
  MaxComments = 1
  PerPage = 1
  MaxWeight = 2
  MaxEvents = 4
INVARIANT TypeOK
INVARIANT SettingsRecent
INVARIANT SuppressionNeedsVote
INVARIANT SweepCounts
SYMMETRY Interchangeable
CHECK_DEADLOCK FALSE
