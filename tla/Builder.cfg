SPECIFICATION FairSpec
CONSTANTS
  Docs <- MCDocs
  Reserved <- MCReserved
  IntBits = 8
INVARIANTS TypeOK NamesDistinct ConstantsDistinct MethodsAreDeclared  MethodsMatchAccess SiblingOrderIrrelevant
PROPERTIES Terminates
CHECK_DEADLOCK FALSE
