----------------------------- MODULE MCRemoteBridge -----------------------------
(* Two phones; a timeout of two units, watched every unit. *)
EXTENDS RemoteBridge
=============================================================================
