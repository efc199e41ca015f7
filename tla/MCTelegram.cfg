SPECIFICATION FairSpec
CONSTANTS
  Chat = {alice, bob}
  DebugChat = TRUE
  MaxRequests = 2
  MaxLives = 2
INVARIANTS
  TypeOK
  OwnChat
  AckFirst
PROPERTIES
  EveryRequestAnswered
  OracleReplaced
  ServedByOracle
CHECK_DEADLOCK FALSE
