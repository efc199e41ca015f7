SPECIFICATION FairSpec
CONSTANTS
  CR = CR
  LF = LF
  Plain = {a}
  MaxLength = 5
  lineGroupSize = 1
INVARIANTS
  TypeOK
  LinesYielded
  AllYielded
  NothingLost
PROPERTIES
  Ends
CHECK_DEADLOCK FALSE
