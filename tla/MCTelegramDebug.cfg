SPECIFICATION FairSpec
CONSTANTS
  Chat = {alice, bob}
  DebugChat = FALSE
  MaxRequests = 2
  MaxLives = 2
PROPERTIES
  DebugChatOptional
CHECK_DEADLOCK FALSE
