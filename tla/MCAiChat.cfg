SPECIFICATION FairChatSpec
CONSTANTS
  Channels = {"shell", "im"}
  MaxMsgs = 5
  CompressAt = 4
  Rounds = 2
  Retries = 1
  NoChannel = NoChannel
  MaxChats = 5
INVARIANTS MemoryInv ClearForgets
PROPERTIES OthersKept ChatEnds
CHECK_DEADLOCK FALSE
