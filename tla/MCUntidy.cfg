SPECIFICATION Spec
CONSTANTS
  Row <- MCRow
  NoRow = NoRow
  Geometry <- MCGeometry
  NoPoint = NoPoint
  FloatMax <- Greatest
  FloatMin <- Least
  RequestId = {1}
INVARIANTS
  TypeOK
  IInv
  PrefixChain
  MaximalDepth
  HeapOwned
  ResultMatchesDepth
CHECK_DEADLOCK FALSE
