SPECIFICATION FairSpec
CONSTANTS
  Sentence <- MCSentence
  Damaged <- MCDamaged
  RingSize = 5
  MaxTokens = 16
INVARIANTS
  TypeOK
  LinesInOrder
  OnlyDamageStops
PROPERTIES
  MidSentenceStops
CHECK_DEADLOCK FALSE
