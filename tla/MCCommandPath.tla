----------------------------- MODULE MCCommandPath -----------------------------
(* Queues of two messages and three requests: a start, an override and a stop. *)
EXTENDS CommandPath
=============================================================================
