------------------------------ MODULE StopAndLook ------------------------------
(***************************************************************************)
(* What the visual servo promises in step mode, whatever the cloud answers:  *)
(* it looks and settles standing still, a step of the sweep is followed by   *)
(* settling before the car looks again, and no turn follows a turn directly. *)
(* A verdict may interrupt a drive, a pursuit or a stop at an obstacle with  *)
(* the next turn at once, and a target given up sends the car to look from   *)
(* any phase: only those two skip the settling.                              *)
(***************************************************************************)
VARIABLES
  phase,    \* what the car is at
  rolling,  \* the last velocity command was not a stop
  seen      \* a target was seen and has not been given up

\* Looking for a result; turning and driving of the sweep; driving at a target;
\* settling after one of these; aligning or arrived; stopped by an obstacle.
Phases == {"off", "look", "turn", "drive", "approach", "settle", "track", "blocked"}

Init == phase = "off" /\ rolling = FALSE /\ seen = FALSE

Begin == phase = "off" /\ phase' = "look" /\ rolling' = FALSE /\ seen' = FALSE
End   == phase # "off" /\ phase' = "off" /\ rolling' = FALSE /\ seen' = FALSE

\* The steps of the sweep: never from a turn, and never from a settling car.
Sweep(p) ==
  /\ phase \in {"look", "drive", "approach", "track", "blocked"}
  /\ phase' = p /\ rolling' = TRUE
  /\ UNCHANGED seen
Turn  == Sweep("turn")
Drive == Sweep("drive")

\* A target is seen, in any phase.
Approach == phase # "off" /\ phase' = "approach" /\ rolling' = TRUE /\ seen' = TRUE
Track    == phase # "off" /\ phase' = "track" /\ rolling' \in BOOLEAN /\ seen' = TRUE

\* An obstacle is near.
Block == phase # "off" /\ phase' = "blocked" /\ rolling' = FALSE /\ UNCHANGED seen

Settle == /\ phase \in {"turn", "drive", "approach"}
          /\ phase' = "settle" /\ rolling' = FALSE
          /\ UNCHANGED seen
Look   == phase = "settle" /\ phase' = "look" /\ rolling' = FALSE /\ UNCHANGED seen

\* A target seen before is given up: the sweep begins anew with a look.
GiveUp == /\ phase # "off" /\ seen
          /\ phase' = "look" /\ rolling' = FALSE /\ seen' = FALSE

Next == Begin \/ End \/ Turn \/ Drive \/ Approach \/ Track \/ Block \/ Settle \/ Look \/ GiveUp

\* Every stage of the sweep comes to an end.
Progress == \A p \in {"turn", "drive", "settle", "look"} : phase = p ~> phase # p

Safety == Init /\ [][Next]_<<phase, rolling, seen>>
Spec == Safety /\ Progress
=============================================================================
