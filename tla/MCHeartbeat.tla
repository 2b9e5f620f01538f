---------------------------- MODULE MCHeartbeat ----------------------------
(* TLC instances of the heartbeat service. *)
EXTENDS Heartbeat, TLC

Symmetry == Permutations(Events) \cup Permutations(Handles)
=============================================================================
