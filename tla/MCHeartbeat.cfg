SPECIFICATION FairSpec
CONSTANTS
  Events = {e1, e2, e3}
  Handles = {w1, w2}
  MaxEvents = 2
  None = None
INVARIANTS HeartbeatInv TickNeverBlocks EventsInv
PROPERTIES EventsChecked StopReturns
CHECK_DEADLOCK FALSE
