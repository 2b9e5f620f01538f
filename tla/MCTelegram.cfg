SPECIFICATION Spec
CONSTANTS
  Ids = {1, 2, 3, 4}
  InboundDepth = 2
  OutboundDepth = 1
  MaxMsgLen = 2
  MaxReply = 3
  MaxResults = 1
  MaxResets = 1
  TextUpdates = {1, 2, 3}
  LongUpdates = {3}
  RespSize = 3
INVARIANTS
  TelegramInv
PROPERTIES
  UpdatesTaken
  StopReturns
CHECK_DEADLOCK FALSE
