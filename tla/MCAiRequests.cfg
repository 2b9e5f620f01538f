SPECIFICATION FairSpec
CONSTANTS
  Chats = {telegram}
  Shells = {shell}
  Beats = {hb}
  Depth = 2
  None = None
INVARIANTS RequestsInv
PROPERTIES CallReturns EngineStops
CHECK_DEADLOCK FALSE
