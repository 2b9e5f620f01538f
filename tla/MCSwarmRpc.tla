---------------------------- MODULE MCSwarmRpc -----------------------------
(* TLC instances of the swarm's remote procedure call. *)
EXTENDS SwarmRpc
=============================================================================
