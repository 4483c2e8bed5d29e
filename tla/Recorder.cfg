SPECIFICATION Spec
CONSTANTS
  URIs <- MCURIs
  Payloads <- MCPayloads
  MaxOps = 4
  MaxViews = 2
INVARIANTS TypeOK ViewsBehindQueue DocumentCarriesQueue
PROPERTIES RecordsCalls
CHECK_DEADLOCK FALSE
