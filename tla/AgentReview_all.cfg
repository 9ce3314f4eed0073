SPECIFICATION FairSpec
CONSTANTS
  a1 = a1
  a2 = a2
  Specialists = {a1, a2}
  Changes <- SomeChanges
  PerPage = 3
  IgnoredPaths = {5}
  MaxLines = 2
  AgentSlots = 2
  ChunkSlots = 1
  Answers <- SomeAnswers
  Compiled <- SomeCompiled
  NewLines <- SomeNewLines
  Downvoted <- SomeDownvoted
  PerFileCap = 1
  MaxFindings = 2
  IncludeNits = FALSE
INVARIANT ChunksPartition
INVARIANT CompletedIsWhole
INVARIANT SeverestKept
INVARIANT OrderIrrelevant
PROPERTY ReviewsReturn
CHECK_DEADLOCK FALSE
