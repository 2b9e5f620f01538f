------------------------------ MODULE MCAiChat ------------------------------
(* TLC instance of the requests of the AI worker: two channels and a table *)
(* that four messages fill.                                                *)
EXTENDS AiChat
=============================================================================
