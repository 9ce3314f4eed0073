SPECIFICATION DiffSpec
CONSTANTS
  Paths <- MCPaths
  Quoted <- MCQuoted
  AfterB <- MCAfterB
  Ignored <- MCIgnored
  Diffs <- MCDiffs
  MaxLine = 7
INVARIANT AnchoredKept
INVARIANT StrayDropped
CHECK_DEADLOCK FALSE
