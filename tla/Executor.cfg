SPECIFICATION Spec
CONSTANTS
  Procs = {p1, p2}
  NoValue = NoValue
  Uris <- MCUris
  Values <- MCValues
  AcceptCodes = {200}
  RefuseCodes = {304}
  MaxCalls = 2
SYMMETRY Symmetry
INVARIANTS TypeOK InFlight AnswersAreTrue
PROPERTIES AtMostOnce Transparent
CHECK_DEADLOCK FALSE
