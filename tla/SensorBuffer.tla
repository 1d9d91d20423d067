------------------------------ MODULE SensorBuffer ------------------------------
(***************************************************************************)
(* The lidar side of src/jetcar_edge/sensor_buffer.py: a scan is thinned to    *)
(* about MaxRanges beams, and the distance ahead is the smallest valid reading *)
(* within HalfAngle of the direction of travel.                              *)
(*                                                                         *)
(* A scan is the sequence of its readings, None for a reading that is not      *)
(* finite; beam i points to AngleMin + (i - 1) * Increment, all angles and      *)
(* distances in units.  The IMU is only stored, and nothing reads it here.     *)
(***************************************************************************)
EXTENDS Integers, Sequences, FiniteSetsExt

CONSTANTS
  None,
  MaxRanges,              \* max_lidar_ranges
  AngleMin, Increment,    \* angle_min and angle_increment of the messages
  RangeMin, RangeMax,     \* range_min and range_max
  HalfAngle               \* half_angle_rad

ASSUME SensorAssumption ==
  /\ {MaxRanges, AngleMin, RangeMin, RangeMax} \subseteq Int
  /\ Increment \in Nat \ {0} /\ HalfAngle \in Nat /\ None \notin Int

\* update_lidar: every how many beams one is kept.
StepOf(scan) ==
  IF MaxRanges > 0 /\ Len(scan) > MaxRanges THEN Len(scan) \div MaxRanges ELSE 1

\* The readings that are kept, ranges[::step].
Kept(scan) ==
  [i \in 1..((Len(scan) - 1) \div StepOf(scan)) + 1 |-> scan[(i - 1) * StepOf(scan) + 1]]

\* Fault: the angle is that of the message.
KeptIncrementOfMessage(scan) == Increment

\* The angle from a kept reading to the next.
KeptIncrement(scan) == Increment * StepOf(scan)

Ahead(angle) == -HalfAngle <= angle /\ angle <= HalfAngle
Valid(reading) == reading # None /\ RangeMin <= reading /\ reading <= RangeMax

\* The kept beams that tell the distance ahead.
FrontBeams(scan) ==
  {i \in DOMAIN Kept(scan) :
     Valid(Kept(scan)[i]) /\ Ahead(AngleMin + (i - 1) * KeptIncrement(scan))}

\* Fault: the first of them is taken.
FrontDistanceFirst(scan) ==
  IF FrontBeams(scan) = {} THEN None ELSE Kept(scan)[Min(FrontBeams(scan))]

\* front_distance_m
FrontDistance(scan) ==
  IF FrontBeams(scan) = {} THEN None ELSE Min({Kept(scan)[i] : i \in FrontBeams(scan)})
-----------------------------------------------------------------------------
(* What the readings of the message themselves say                            *)

\* The distances the message has ahead of the car.
Seen(scan) ==
  {scan[i] : i \in {j \in DOMAIN scan : Valid(scan[j]) /\ Ahead(AngleMin + (j - 1) * Increment)}}

\* The obstacles ahead that cover as many neighbouring beams as one is kept of:
\* the farthest reading of each.
Obstacles(scan) ==
  {Max({scan[j] : j \in i..i + StepOf(scan) - 1}) :
     i \in {k \in 1..Len(scan) - StepOf(scan) + 1 :
       \A j \in k..k + StepOf(scan) - 1 :
         Valid(scan[j]) /\ Ahead(AngleMin + (j - 1) * Increment)}}
=============================================================================
