------------------------------- MODULE MCClient -------------------------------
(* One client and its server, for TLC. *)
EXTENDS Client
===============================================================================
