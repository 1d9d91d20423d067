------------------------------ MODULE VisualServo ------------------------------
(***************************************************************************)
(* The visual-servo controller of src/jetcar_edge/motion_controller.py: it  *)
(* turns the verdicts of the cloud's similarity algorithm, the lidar's front *)
(* distance and the passing of time into velocity commands.                 *)
(*                                                                         *)
(* Time is counted in units.  A time stamp t of the code is kept as the age *)
(* "now - t", capped at AgeCap, an age at which every timeout has expired;  *)
(* the code's 0.0 for "never" is AgeCap, or None where the code tests it.   *)
(* Each handler is one action: this module is what the controller does when *)
(* its handlers do not overlap (Inspection.tla shows what overlap does).    *)
(***************************************************************************)
EXTENDS Integers

CONSTANTS
  None,                 \* no reading, no position, no area, never seen
  Enabled,              \* VisualServoConfig.enabled
  StepSearch,           \* step_search_enabled: step and look, or turn without end
  AlignTolerance,       \* of the target's offset from the image centre
  SafetyStopDistance, TargetStopDistance,      \* of the front distance
  TargetStopArea,       \* of the target's bounding box
  LostTimeout, CommandTimeout, ResultTimeout,  \* in time units
  ApproachStepSeconds, SearchForwardSeconds, SettleSeconds,
  SearchStepDegrees, SearchStepJitter, SearchForwardAfter,
  SearchRate,           \* degrees turned in a time unit at search_angular_z
  TickPeriod, TickLag,  \* the node's timer fires after TickPeriod..TickPeriod+TickLag
  AgeCap,               \* bound on the ages
  Distances, XErrors, Areas                    \* the inputs considered

-----------------------------------------------------------------------------
Larger(a, b)  == IF a >= b THEN a ELSE b
Smaller(a, b) == IF a <= b THEN a ELSE b
Magnitude(x)  == IF x >= 0 THEN x ELSE -x

\* The angles a search step may have: the base angle, shifted by the jitter,
\* and never less than one degree.
StepDegrees ==
  LET base == Larger(1, SearchStepDegrees)
      jitter == Larger(0, SearchStepJitter)
  IN  { Larger(1, base + j) : j \in -jitter..jitter }

\* How long a turn by d degrees takes, in whole time units.
StepSeconds(d) == (d + SearchRate - 1) \div SearchRate

Readings == Distances \union {None}
Verdicts == [matched : BOOLEAN, x : XErrors \union {None}, area : Areas \union {None}]

TickGap == TickPeriod + TickLag

SwitchesOK == Enabled \in BOOLEAN /\ StepSearch \in BOOLEAN

InputsOK ==
  /\ Distances \subseteq Int /\ XErrors \subseteq Int /\ Areas \subseteq Int
  /\ None \notin Int
  /\ AlignTolerance \in Int /\ TargetStopArea \in Int
  /\ SafetyStopDistance \in Int /\ TargetStopDistance \in Int

DurationsOK ==
  /\ {LostTimeout, CommandTimeout, ResultTimeout} \subseteq Nat \ {0}
  /\ {ApproachStepSeconds, SearchForwardSeconds, SettleSeconds} \subseteq Nat \ {0}
  /\ TickPeriod \in Nat \ {0} /\ TickLag \in Nat /\ AgeCap \in Nat
  /\ SearchForwardAfter \in Nat
  /\ \A d \in StepDegrees : d \in Nat \ {0} /\ StepSeconds(d) \in Nat \ {0}

\* An age at the cap must have outlived every timeout.
AgeCapOK ==
  /\ AgeCap > LostTimeout + TickGap /\ AgeCap > CommandTimeout + TickGap
  /\ AgeCap > ResultTimeout + TickGap /\ AgeCap > SettleSeconds + TickGap
  /\ AgeCap > ApproachStepSeconds + TickGap /\ AgeCap > SearchForwardSeconds + TickGap
  /\ \A d \in StepDegrees : AgeCap > StepSeconds(d) + TickGap

ConstantsOK == SwitchesOK /\ InputsOK /\ DurationsOK /\ AgeCapOK

ASSUME ServoAssumption == ConstantsOK
-----------------------------------------------------------------------------
VARIABLES
  motionActive,   \* _active
  motionState,    \* _state
  targetAge,      \* since _last_target_at, None for 0.0
  resultAge,      \* since _last_result_at
  stateAge,       \* since _state_started_at
  commandAge,     \* since _last_command_at
  stepSeconds,    \* _current_search_step_seconds
  motionSeconds,  \* _current_motion_seconds
  degrees,        \* _search_degrees_since_forward
  cmd,            \* the last velocity command on /cmd_vel
  front,          \* what SensorBuffer.front_distance_m() would return
  sinceTick       \* since the node's timer last fired

progressVars == <<stepSeconds, motionSeconds, degrees>>
servoVars == <<motionActive, motionState, targetAge, resultAge, stateAge,
               commandAge, progressVars, cmd>>
vars == <<servoVars, front, sinceTick>>

TimedMotion  == {"step_rotating", "search_forward", "approach_forward"}
MotionStates == TimedMotion \union
  {"idle", "waiting_result", "searching", "settling", "aligning", "arrived", "safety_stop"}
Commands == {"stop", "scan", "turn", "forward", "cautious"}

Init ==
  /\ motionActive = FALSE /\ motionState = "idle"
  /\ targetAge = None /\ resultAge = AgeCap /\ stateAge = AgeCap /\ commandAge = AgeCap
  /\ stepSeconds = 0 /\ motionSeconds = 0 /\ degrees = 0
  /\ cmd = "stop"
  /\ front \in Readings
  /\ sinceTick = 0

Publish(c) == cmd' = c /\ commandAge' = 0

\* The state in which the controller looks for a target it does not see.
LookingState == IF StepSearch THEN "waiting_result" ELSE "searching"
LookingCommand == IF StepSearch THEN "stop" ELSE "scan"

ServoStart ==
  /\ Enabled
  /\ motionActive' = TRUE /\ motionState' = LookingState
  /\ targetAge' = None /\ resultAge' = AgeCap /\ stateAge' = 0
  /\ degrees' = 0 /\ motionSeconds' = 0
  /\ Publish(LookingCommand)
  /\ UNCHANGED stepSeconds

\* What stop() does unless the controller is inactive and idle already.
ServoStop ==
  /\ motionActive \/ motionState # "idle"
  /\ motionActive' = FALSE /\ motionState' = "idle"
  /\ Publish("stop")
  /\ UNCHANGED <<targetAge, resultAge, stateAge, progressVars>>
-----------------------------------------------------------------------------
(* The sweep: turn a step, settle, wait for a result; after enough degrees,   *)
(* drive a little way and start again.                                        *)

FrontOpen == front # None => front > TargetStopDistance
TooClose  == front # None /\ front <= SafetyStopDistance

\* Fault: the degrees already turned are forgotten.
BeginSearchStepForgetful(turned) == \E d \in StepDegrees :
  /\ motionState' = "step_rotating" /\ stateAge' = 0
  /\ stepSeconds' = StepSeconds(d) /\ degrees' = d
  /\ Publish("scan")
  /\ UNCHANGED motionSeconds

BeginSearchStep(turned) == \E d \in StepDegrees :
  /\ motionState' = "step_rotating" /\ stateAge' = 0
  /\ stepSeconds' = StepSeconds(d) /\ degrees' = turned + d
  /\ Publish("scan")
  /\ UNCHANGED motionSeconds

BeginSearchForward ==
  /\ motionState' = "search_forward" /\ stateAge' = 0
  /\ motionSeconds' = SearchForwardSeconds /\ degrees' = 0
  /\ Publish("forward")
  /\ UNCHANGED stepSeconds

\* Fault: the lidar is not consulted before driving.
NextSearchActionBlind ==
  \/ degrees < SearchForwardAfter /\ BeginSearchStep(degrees)
  \/ degrees >= SearchForwardAfter /\ BeginSearchForward

NextSearchAction ==
  \/ degrees < SearchForwardAfter /\ BeginSearchStep(degrees)
  \/ degrees >= SearchForwardAfter /\ FrontOpen /\ BeginSearchForward
  \/ degrees >= SearchForwardAfter /\ ~FrontOpen /\ BeginSearchStep(0)

\* Fault: a motion ends without settling.
EndMotionLooking ==
  /\ motionState' = "waiting_result" /\ stateAge' = 0 /\ motionSeconds' = 0
  /\ Publish("stop")
  /\ UNCHANGED <<stepSeconds, degrees>>

BeginSettling ==
  /\ motionState' = "settling" /\ stateAge' = 0 /\ motionSeconds' = 0
  /\ Publish("stop")
  /\ UNCHANGED <<stepSeconds, degrees>>
-----------------------------------------------------------------------------
(* handle_similarity_result                                                   *)

SafetyStop ==
  /\ motionState' = "safety_stop" /\ Publish("stop")
  /\ UNCHANGED <<targetAge, stateAge, progressVars>>

NoMatch ==
  /\ \/ ~StepSearch /\ motionState' = "searching" /\ Publish("scan")
        /\ UNCHANGED <<stateAge, progressVars>>
     \/ /\ StepSearch /\ motionState \in {"step_rotating", "settling"}
        /\ UNCHANGED <<motionState, stateAge, progressVars, cmd, commandAge>>
     \/ /\ StepSearch /\ motionState \notin {"step_rotating", "settling"}
        /\ NextSearchAction
  /\ UNCHANGED targetAge

Align ==
  /\ motionState' = "aligning" /\ Publish("turn")
  /\ UNCHANGED <<stateAge, progressVars>>

\* Fault: the car is not stopped when it has arrived.
ArriveRolling ==
  /\ motionState' = "arrived"
  /\ UNCHANGED <<cmd, commandAge, stateAge, progressVars>>

Arrive ==
  /\ motionState' = "arrived" /\ Publish("stop")
  /\ UNCHANGED <<stateAge, progressVars>>

BeginApproachStep ==
  /\ motionState' = "approach_forward" /\ stateAge' = 0
  /\ motionSeconds' = ApproachStepSeconds
  /\ Publish(IF front = None THEN "cautious" ELSE "forward")
  /\ UNCHANGED <<stepSeconds, degrees>>

Visible(r) == r.matched /\ r.x # None
Centred(r) == Magnitude(r.x) <= AlignTolerance
\* Fault: only the size of the target is looked at.
ReachedBySize(r) == r.area # None /\ r.area >= TargetStopArea
Reached(r) == (r.area # None /\ r.area >= TargetStopArea) \/ ~FrontOpen

Pursue(r) ==
  /\ targetAge' = 0
  /\ \/ ~Centred(r) /\ Align
     \/ Centred(r) /\ Reached(r) /\ Arrive
     \/ Centred(r) /\ ~Reached(r) /\ BeginApproachStep

HandleSimilarityResult(r) ==
  /\ motionActive
  /\ resultAge' = 0
  /\ \/ TooClose /\ SafetyStop
     \/ ~TooClose /\ ~Visible(r) /\ NoMatch
     \/ ~TooClose /\ Visible(r) /\ Pursue(r)
  /\ UNCHANGED motionActive

\* The caller stops a servo that answers "arrived" or "safety_stop" before it
\* returns from its own callback.
AtTarget(r) == motionActive /\ (TooClose \/ (Visible(r) /\ Centred(r) /\ Reached(r)))

EndAtTarget(r) ==
  /\ AtTarget(r)
  /\ resultAge' = 0 /\ targetAge' = IF TooClose THEN targetAge ELSE 0
  /\ motionActive' = FALSE /\ motionState' = "idle" /\ Publish("stop")
  /\ UNCHANGED <<stateAge, progressVars>>
-----------------------------------------------------------------------------
(* tick                                                                       *)

\* Fault: an alignment is not given up when the target is lost.
LostDueUnlessAligning ==
  targetAge # None /\ targetAge > LostTimeout /\ motionState # "aligning"
LostDue == targetAge # None /\ targetAge > LostTimeout

TargetLost ==
  /\ LostDue
  /\ motionState' = LookingState /\ targetAge' = None /\ stateAge' = 0
  /\ Publish(LookingCommand)
  /\ UNCHANGED progressVars

MotionLength == IF motionState = "step_rotating" THEN stepSeconds ELSE motionSeconds
InTimedMotion == StepSearch /\ motionState \in TimedMotion
MotionDue == InTimedMotion /\ stateAge >= MotionLength
CommandDue == commandAge > CommandTimeout
RenewDue == InTimedMotion /\ stateAge < MotionLength /\ CommandDue
RenewedCommand == CASE motionState = "step_rotating" -> "scan"
                    [] motionState = "search_forward" -> "forward"
                    [] OTHER -> "cautious"
SettleDue == StepSearch /\ motionState = "settling" /\ stateAge >= SettleSeconds
\* Fault: the timeout runs only once a first result has come.
ResultDueAfterFirst ==
  /\ StepSearch /\ motionState = "waiting_result" /\ resultAge < AgeCap
  /\ Smaller(resultAge, stateAge) >= ResultTimeout
ResultDue == StepSearch /\ motionState = "waiting_result"
             /\ Smaller(resultAge, stateAge) >= ResultTimeout
ScanDue  == ~StepSearch /\ CommandDue /\ motionState = "searching"
\* Fault: the state is called what no handler calls it.
AlignDueMisnamed == ~StepSearch /\ CommandDue /\ motionState = "approaching"
AlignDue == ~StepSearch /\ CommandDue /\ motionState = "aligning"
TickDue == MotionDue \/ RenewDue \/ SettleDue \/ ResultDue \/ ScanDue \/ AlignDue

\* Fault: the wait for a result is not dated anew.
SettledKeepingDate ==
  /\ motionState' = "waiting_result"
  /\ Publish("stop")
  /\ UNCHANGED <<stateAge, progressVars>>

Settled ==
  /\ motionState' = "waiting_result" /\ stateAge' = 0
  /\ Publish("stop")
  /\ UNCHANGED progressVars

Renew(c) == Publish(c) /\ UNCHANGED <<motionState, stateAge, progressVars>>

ServoTick ==
  /\ motionActive
  /\ \/ TargetLost
     \/ /\ ~LostDue
        /\ \/ MotionDue /\ BeginSettling
           \/ RenewDue /\ Renew(RenewedCommand)
           \/ SettleDue /\ Settled
           \/ ResultDue /\ NextSearchAction
           \/ ScanDue /\ Renew("scan")
           \/ AlignDue /\ Renew("stop")
           \/ ~TickDue /\ UNCHANGED <<motionState, stateAge, progressVars, cmd, commandAge>>
        /\ UNCHANGED targetAge
  /\ UNCHANGED <<motionActive, resultAge>>
-----------------------------------------------------------------------------
(* The environment: the clock, the lidar and the node's timer.                *)

Older(age) == IF age < AgeCap THEN age + 1 ELSE age

\* One unit passes.  The timer is served before it is TickGap late.
Elapse ==
  /\ sinceTick < TickGap
  /\ sinceTick' = sinceTick + 1
  /\ targetAge' = IF targetAge = None THEN None ELSE Older(targetAge)
  /\ resultAge' = Older(resultAge)
  /\ stateAge' = Older(stateAge)
  /\ commandAge' = Older(commandAge)
  /\ UNCHANGED <<motionActive, motionState, progressVars, cmd, front>>

UpdateLidar ==
  /\ front' \in Readings
  /\ UNCHANGED <<servoVars, sinceTick>>

Tick ==
  /\ sinceTick >= TickPeriod
  /\ sinceTick' = 0
  /\ \/ ServoTick
     \/ ~motionActive /\ UNCHANGED servoVars
  /\ UNCHANGED front

\* SimilaritySearchController.start() returns early while a search is active,
\* so it starts the servo only when the servo is inactive.
Start == ~motionActive /\ ServoStart /\ UNCHANGED <<front, sinceTick>>
Stop == ServoStop /\ UNCHANGED <<front, sinceTick>>
Result == \E r \in Verdicts :
  /\ HandleSimilarityResult(r) \/ EndAtTarget(r)
  /\ UNCHANGED <<front, sinceTick>>

Next == Start \/ Stop \/ Result \/ Tick \/ Elapse \/ UpdateLidar

Safety == Init /\ [][Next]_vars

\* The clock advances and the executor serves its timer.
Spec == Safety /\ WF_vars(Tick) /\ WF_vars(Elapse)
-----------------------------------------------------------------------------
(* Properties                                                                 *)

\* Every variable has its type.
TypeOK ==
  /\ motionActive \in BOOLEAN /\ motionState \in MotionStates /\ cmd \in Commands
  /\ targetAge \in 0..AgeCap \union {None}
  /\ resultAge \in 0..AgeCap /\ stateAge \in 0..AgeCap /\ commandAge \in 0..AgeCap
  /\ stepSeconds \in Nat /\ motionSeconds \in Nat /\ degrees \in Nat
  /\ front \in Readings
  /\ sinceTick \in 0..TickGap

\* A car that waits for a result, settles, has arrived or met an obstacle, or
\* whose controller is off, was last told to stop: whatever order results,
\* timeouts and restarts come in, no handler leaves one of these states with a
\* velocity command standing (motion_controller.py publishes and changes
\* _state separately at every exit of every handler).
RestStatesAreStill ==
  (motionState \in {"idle", "waiting_result", "settling", "arrived", "safety_stop"}
    \/ ~motionActive) => cmd = "stop"

\* A velocity command stands for a bounded time: a turn or a drive of the sweep
\* for its duration, a pursuit for LostTimeout after the target was last seen,
\* an alignment outside step mode for CommandTimeout, each plus the time the
\* timer may be late.  Only the endless scan of the other mode is unbounded.
\* tick() alone ends a motion when the cloud falls silent.
MotionExpires ==
  cmd # "stop" =>
    \/ ~StepSearch /\ motionState = "searching"
    \/ StepSearch /\ motionState \in TimedMotion /\ stateAge < MotionLength + TickGap
    \/ StepSearch /\ motionState = "aligning"
         /\ targetAge # None /\ targetAge <= LostTimeout + TickGap
    \/ ~StepSearch /\ motionState = "aligning" /\ commandAge <= CommandTimeout + TickGap
    \/ ~StepSearch /\ motionState = "approach_forward"
         /\ targetAge # None /\ targetAge <= LostTimeout + TickGap

\* In step mode no wait of the sweep outlasts its timeout, plus the time the timer
\* may be late, even when results are lost or come while they are ignored: settling
\* ends after SettleSeconds, a wait for a result after ResultTimeout.  With
\* MotionExpires this bounds every stage of the sweep in time.
WaitsExpire ==
  /\ motionState = "settling" => stateAge < SettleSeconds + TickGap
  /\ motionState = "waiting_result" => stateAge < ResultTimeout + TickGap

\* A command to drive forward is published only while the lidar shows room (or
\* shows nothing).  A renewal does not read the lidar again, so this needs
\* drives no longer than CommandTimeout, as the shipped configuration has them.
ShortDrives == ApproachStepSeconds <= CommandTimeout /\ SearchForwardSeconds <= CommandTimeout
PublishesDrive ==
  cmd' \in {"forward", "cautious"} /\ (cmd' # cmd \/ commandAge' < commandAge)
ForwardNeedsClearFront == [][ShortDrives /\ PublishesDrive => FrontOpen]_vars

\* When the cloud falls silent and the way is free the sweep keeps relocating:
\* it drives forward again and again.  (A car that met an obstacle before it
\* ever saw a target stays in safety_stop until the next result.)
SweepRelocates ==
  <>[](motionActive /\ resultAge = AgeCap /\ FrontOpen /\ motionState # "safety_stop")
    => []<>(motionState = "search_forward")

\* The refinement mapping to the stop-and-look contract.
phase == CASE motionState \in {"idle", "searching"}  -> "off"
           [] motionState = "waiting_result"         -> "look"
           [] motionState = "step_rotating"          -> "turn"
           [] motionState = "search_forward"         -> "drive"
           [] motionState = "approach_forward"       -> "approach"
           [] motionState = "settling"               -> "settle"
           [] motionState \in {"aligning", "arrived"} -> "track"
           [] motionState = "safety_stop"            -> "blocked"
rolling == cmd # "stop"
seen == motionActive /\ targetAge # None
Contract == INSTANCE StopAndLook WITH phase <- phase, rolling <- rolling, seen <- seen

\* In step mode the controller keeps the contract, whatever order results,
\* timeouts, obstacles and restarts come in: it looks, settles and rests without
\* moving; a turn is never followed directly by another turn, and leads to the
\* next look only through settling, unless a target seen before is given up
\* meanwhile (tick() then goes straight to waiting_result).  A verdict that does
\* not match turns a car that drives, pursues or stands before an obstacle at
\* once; the contract allows it.
StopsToLook == Contract!Safety

\* No turn, no drive of the sweep, no settling and no wait for a result lasts for
\* ever, even when frames or results are lost: a result or one of tick()'s
\* timeouts ends it.  An approach ends too, or is renewed by a result.  (A drive
\* may be renewed without end only if SearchForwardAfter is 0.)
SweepProgresses ==
  /\ Contract!Progress
  /\ phase = "approach" ~> phase # "approach" \/ resultAge = 0
=============================================================================
