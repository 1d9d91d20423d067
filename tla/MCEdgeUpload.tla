------------------------------ MODULE MCEdgeUpload ------------------------------
(* EdgeUpload with the algorithms the repository names.                       *)
EXTENDS EdgeUpload
=============================================================================
