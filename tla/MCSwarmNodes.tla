--------------------------- MODULE MCSwarmNodes ----------------------------
(* TLC instances of the swarm's membership table: idle peers and a loaded  *)
(* one.                                                                    *)
EXTENDS SwarmNodes

CONSTANT LoadedPeer

Loads == [p \in Peers |-> IF p = LoadedPeer THEN 50 ELSE 0]
=============================================================================
