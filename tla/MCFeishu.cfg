SPECIFICATION FsSpec
CONSTANTS
  Ids = {1, 2, 3}
  InboundDepth = 1
  OutboundDepth = 1
  MaxMsgLen = 2
  MaxReply = 1
  MaxResults = 0
  MaxResets = 1
  DedupSlots = 2
  StaleAge = 1
  TokenRetries = 2
  MaxLost = 1
INVARIANTS
  FeishuInv
PROPERTIES
  EventsSeen
CHECK_DEADLOCK FALSE
