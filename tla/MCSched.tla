------------------------------ MODULE MCSched ------------------------------
(* TLC instance of the scheduler: tasks that repeat for ever, run once or  *)
(* run twice.                                                              *)
EXTENDS Sched

CountValues == {-1, 1, 2}
=============================================================================
