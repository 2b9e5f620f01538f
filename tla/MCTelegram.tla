---------------------------- MODULE MCTelegram -----------------------------
(* TLC instance of the Telegram service: four updates, one of them no text *)
(* message and one twice as long as the others; replies of two parts.      *)
EXTENDS Telegram
=============================================================================
