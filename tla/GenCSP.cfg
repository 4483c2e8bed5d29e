SPECIFICATION Spec
CONSTANTS
  Trees <- MCTrees
  MaxRuns = 2
  MaxHand = 1
INVARIANTS TypeOK Unmixed Complete
CHECK_DEADLOCK FALSE
