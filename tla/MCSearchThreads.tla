---------------------------- MODULE MCSearchThreads ----------------------------
(* Scans of three beams, which are kept, and of five, of which every second is
   kept; the second to the fourth are ahead. *)
EXTENDS SearchThreads

MCAngleMin == -2
MCScans == {<<>>} \union [1..3 -> {None, 1, 3}] \union [1..5 -> {1, 3}]
=============================================================================
