SPECIFICATION FairSpec
CONSTANTS
  Services = {s1, s2, s3, extra}
  Extra = extra
  Graphs <- AllGraphs
  MaxServices = 3
INVARIANTS ServiceInv
PROPERTIES CycleIsReal InitAfterDeps CallsReturn
CHECK_DEADLOCK FALSE
