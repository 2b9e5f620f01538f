SPECIFICATION Spec
CONSTANTS
  LoadedPeer = p2
  Peers = {p1, p2, p3}
  Self = self
  NoId = none
  Capable = {p2, p3}
  LoadOf <- Loads
  MaxNodes = 3
  Period = 1
  Timeout = 1
  MaxLate = 1
  W = 6
INVARIANTS NodesInv SilentNodesLeave LeastLoaded
PROPERTIES SilentOrRacedLeave
CHECK_DEADLOCK FALSE
