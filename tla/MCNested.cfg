SPECIFICATION FairSpec
CONSTANTS
  Row <- MCRow
  NoRow = NoRow
  Geometry <- MCGeometry
  NoPoint = NoPoint
  FloatMax <- Greatest
  FloatMin <- Least
  RequestId = {1, 2}
INVARIANTS
  CoversPoint
PROPERTIES
  LookupSpec
  UpdateReturns
CHECK_DEADLOCK FALSE
