SPECIFICATION FairSpec
CONSTANTS
  Names = {"heartbeat", "report"}
  Cells = {c1, c2}
  Intervals = {0, 1, 2}
  Counts <- CountValues
  MaxTasks = 2
  W = 8
  MaxLate = 1
  Free = Free
INVARIANTS SchedInv
PROPERTIES PassLeavesNothingDue OncePerPass TaskRuns StopReturns Refined
