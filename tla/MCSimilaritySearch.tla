-------------------------- MODULE MCSimilaritySearch --------------------------
(* Values for SimilaritySearch: an offset in the middle, one the servo calls  *)
(* centred, and one it must align; distances as for VisualServo.              *)
EXTENDS SimilaritySearch

MCXErrors   == {-2, 0, 1}
MCDistances == {1, 2, 3}
MCAreas     == {0, 1}
=============================================================================
