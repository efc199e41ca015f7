SPECIFICATION MainSpec
CONSTANTS
  Row <- MCRow
  NoRow = NoRow
  Geometry <- MCGeometry
  NoPoint = NoPoint
  FloatMax <- Greatest
  FloatMin <- Least
  RequestId = {0, 1}
  Line <- MCLine
  MaxLines = 2
INVARIANTS
  ScreenIsCurrent
CHECK_DEADLOCK FALSE
