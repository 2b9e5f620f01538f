------------------------------ MODULE MCFeishu ------------------------------
(* TLC instance of the Feishu service: more events than the ring has       *)
(* slots, repeated by the server.                                          *)
EXTENDS Feishu
=============================================================================
