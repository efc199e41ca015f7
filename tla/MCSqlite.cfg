SPECIFICATION FairSpec
CONSTANTS
  Process = {p1, p2, p3}
  NumIndexes = 3
  ErrorCode <- MCErrorCode
INVARIANTS
  TypeOK
  ServedFromIndexes
PROPERTIES
  SearchNeverBusy
  BusyOnlyAmongOpeners
  OpeningEnds
CHECK_DEADLOCK FALSE
