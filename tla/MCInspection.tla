------------------------------ MODULE MCInspection ------------------------------
(* Values for Inspection: distances at the safety distance, below and above.  *)
EXTENDS Inspection

MCDistances == {1, 2, 3}
=============================================================================
