SPECIFICATION FairMainSpec
CONSTANTS
  Row <- MCRow
  NoRow = NoRow
  Geometry <- MCGeometry
  NoPoint = NoPoint
  FloatMax <- Greatest
  FloatMin <- Least
  RequestId = {0, 1}
  Line <- MCLine
  MaxLines = 3
INVARIANTS
  MainTypeOK
  AnswersInOrder
  AnswersAreLookups
  ScreenShowsAnAnswer
  CleanExit
  CompleteAtEnd
PROPERTIES
  EndsWithInput
  Serves
CHECK_DEADLOCK FALSE
