SPECIFICATION FairSpec
CONSTANTS
  Settings <- MCSettings
  MaxRequests = 2
  MaxAborts = 2
INVARIANTS
  HandlersInOrder
  ActiveCountsRequests
  OwnData
PROPERTIES
  RequestsEnd
CHECK_DEADLOCK FALSE
