--------------------------- MODULE MCServiceCore ---------------------------
(* TLC instance of the service core: every dependency graph over a few     *)
(* services, cyclic and incomplete ones included, and one service more     *)
(* than the arrays of the sort hold, which depends on nothing.             *)
EXTENDS ServiceCore

CONSTANT Extra

AllGraphs ==
  {d \in [Services -> SUBSET Services] :
     d[Extra] = {} /\ \A s \in Services : Extra \notin d[s]}
=============================================================================
