---------------------------- MODULE MCSchedTool ----------------------------
(* TLC instance of the scheduled AI tasks: one task that repeats for ever  *)
(* and one that runs once.                                                 *)
EXTENDS SchedTool

Asked == {[name |-> "news", count |-> -1], [name |-> "water", count |-> 1]}
=============================================================================
