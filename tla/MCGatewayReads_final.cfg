CONSTANTS
  TopBlock = 3
  Touched <- MCTouched
  Requests = {r1}
  Staker = staker
  LatestTag = latest
  MaxReorgs = 1
  None = None
SPECIFICATION ReadsSpec
INVARIANTS
  FinalRowsAreExact
CHECK_DEADLOCK FALSE
