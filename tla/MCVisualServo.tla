----------------------------- MODULE MCVisualServo -----------------------------
(* Values for VisualServo: offsets on both sides and in the middle of the     *)
(* tolerance, distances at, between and above the two thresholds.             *)
EXTENDS VisualServo

MCXErrors   == {-2, 1}
MCDistances == {1, 2, 3}
MCAreas     == {0, 1}
=============================================================================
