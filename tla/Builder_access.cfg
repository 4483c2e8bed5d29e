SPECIFICATION FairSpec
CONSTANTS
  Docs <- MCDocs
  Reserved <- MCReserved
  IntBits = 8
INVARIANTS DeleteForEveryNode
CHECK_DEADLOCK FALSE
