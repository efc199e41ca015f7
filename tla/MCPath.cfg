SPECIFICATION Spec
CONSTANTS
  BufferSize = 3
  MaxPoints = 4
  Long = {2, 3}
INVARIANTS
  OutputIsPrefix
  AllWritten
  LossBounded
CHECK_DEADLOCK FALSE
