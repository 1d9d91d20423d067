--------------------------- MODULE MCTaskOrchestrator ---------------------------
(* Two phones and three commands: a stop can race two starts. *)
EXTENDS TaskOrchestrator
=============================================================================
