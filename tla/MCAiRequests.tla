---------------------------- MODULE MCAiRequests ----------------------------
(* TLC instances of the AI engine's request queue. *)
EXTENDS AiRequests
=============================================================================
