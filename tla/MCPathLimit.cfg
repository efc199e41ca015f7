SPECIFICATION Spec
CONSTANTS
  BufferSize = 3
  MaxPoints = 4
  Long = {2, 3}
INVARIANT OnlyNumPoints
CHECK_DEADLOCK FALSE
