SPECIFICATION FairSpec
CONSTANTS
  Chats = {telegram}
  Shells = {}
  Beats = {hb}
  Depth = 2
  None = None
PROPERTIES ShutdownEnds
CHECK_DEADLOCK FALSE
