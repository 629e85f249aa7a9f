-------------------------- MODULE MCTelegramAgent --------------------------
(* A small instance of TelegramAgent for TLC. *)
EXTENDS TelegramAgent
=============================================================================
