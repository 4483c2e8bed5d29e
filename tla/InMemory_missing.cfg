SPECIFICATION Spec
CONSTANTS
  Procs = {p1, p2}
  NoProc = NoProc
  NoValue = NoValue
  v1 = v1
  Uris <- MCUris
  Values <- MCValues
  MaxExec = 1
PROPERTIES MissingIsNotFound
