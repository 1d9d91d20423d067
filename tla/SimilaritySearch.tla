--------------------------- MODULE SimilaritySearch ---------------------------
(***************************************************************************)
(* The search controller of src/jetcar_edge/similarity_search_controller.py *)
(* on top of the visual servo: it counts confirmed verdicts in a row, lets   *)
(* the servo pursue a target only after enough of them, and ends the search *)
(* when the target is in the middle of the image or the servo has arrived.  *)
(*                                                                         *)
(* As in VisualServo each handler is one action.  start() is only ever      *)
(* called with motion_on_match_only false, so the branch for it is left out; *)
(* so is the branch for a motion state "disabled", which the servo never    *)
(* answers (AutoStopWithoutMotion shows the consequence).                   *)
(***************************************************************************)
EXTENDS Integers, Sequences

CONSTANTS
  None, StepSearch, AlignTolerance, SafetyStopDistance, TargetStopDistance,
  TargetStopArea, LostTimeout, CommandTimeout, ResultTimeout, ApproachStepSeconds,
  SearchForwardSeconds, SettleSeconds, SearchStepDegrees, SearchStepJitter,
  SearchForwardAfter, SearchRate, TickPeriod, TickLag, AgeCap, Distances, XErrors, Areas,
  TrackConfirm,     \* track_confirm_frames
  FoundConfirm,     \* found_confirm_frames
  FoundTolerance,   \* found_center_tolerance
  StaleSeconds,     \* stale_result_seconds
  StopOnArrival     \* stop_on_arrival, which the node sets to auto_stop_on_match

ASSUME ConfirmAssumption ==
  /\ {TrackConfirm, FoundConfirm} \subseteq Nat \ {0} /\ FoundTolerance \in Nat
  /\ StaleSeconds \in Nat /\ AgeCap > StaleSeconds + TickPeriod + TickLag
  /\ StopOnArrival \in BOOLEAN

VARIABLES
  motionActive, motionState, targetAge, resultAge, stateAge, commandAge,
  stepSeconds, motionSeconds, degrees, cmd, front, sinceTick,
  motionEnabled,  \* the servo's enabled, similarity_motion_enabled of the configuration
  searchActive,   \* _active
  searchState,    \* _state
  matchStreak,    \* _match_streak, counted up to Enough
  silence,        \* age of _last_result_at, None for 0.0
  said,           \* the events published by the last handler
  recent          \* history: the last Enough verdicts of this search

Servo == INSTANCE VisualServo WITH Enabled <- TRUE

ASSUME ServoAssumption == Servo!ConstantsOK

servoVars == <<motionActive, motionState, targetAge, resultAge, stateAge, commandAge,
               stepSeconds, motionSeconds, degrees, cmd>>
searchVars == <<motionEnabled, searchActive, searchState, matchStreak, silence, recent>>
vars == <<servoVars, front, sinceTick, searchVars, said>>

\* A longer streak changes nothing.
Enough == Servo!Larger(TrackConfirm, FoundConfirm)

Messages == [confirmed : BOOLEAN, x : XErrors \union {None}, area : Areas \union {None}]
Events == {"search_started", "search_stopped", "search_warning", "search_result",
           "target_found", "target_tracking"}

Init ==
  /\ Servo!Init
  /\ motionEnabled \in BOOLEAN   \* read once, when the node starts
  /\ searchActive = FALSE /\ searchState = "idle"
  /\ matchStreak = 0 /\ silence = None
  /\ said = {} /\ recent = <<>>

-----------------------------------------------------------------------------
(* start and stop                                                             *)

\* Fault: the streak of the previous search is kept.
StartKeepingStreak ==
  /\ ~searchActive
  /\ searchActive' = TRUE /\ searchState' = "searching"
  /\ silence' = None /\ recent' = <<>> /\ said' = {"search_started"}
  /\ IF motionEnabled THEN Servo!ServoStart ELSE UNCHANGED servoVars
  /\ UNCHANGED <<motionEnabled, matchStreak, front, sinceTick>>

Start ==
  /\ ~searchActive
  /\ searchActive' = TRUE /\ searchState' = "searching"
  /\ matchStreak' = 0 /\ silence' = None
  /\ IF motionEnabled THEN Servo!ServoStart ELSE UNCHANGED servoVars
  /\ said' = {"search_started"} /\ recent' = <<>>
  /\ UNCHANGED <<motionEnabled, front, sinceTick>>

\* Fault: the servo is stopped only when it is waiting for something.
StopServoUnlessDriving ==
  IF motionState \notin {"idle", "search_forward"} THEN Servo!ServoStop
  ELSE UNCHANGED servoVars

\* _motion.stop() does nothing to a servo that is inactive and idle.
StopServo ==
  IF motionActive \/ motionState # "idle" THEN Servo!ServoStop
  ELSE UNCHANGED servoVars

Ended == searchActive' = FALSE /\ searchState' = "idle"

Stop ==
  /\ searchActive
  /\ Ended /\ StopServo
  /\ said' = {"search_stopped"}
  /\ UNCHANGED <<motionEnabled, matchStreak, silence, recent, front, sinceTick>>
-----------------------------------------------------------------------------
(* handle_cloud_result                                                        *)

\* Fault: a verdict that does not confirm the target leaves the streak alone.
StreakAfterSticky(m) ==
  IF m.confirmed THEN Servo!Smaller(matchStreak + 1, Enough) ELSE matchStreak

StreakAfter(m) ==
  IF m.confirmed THEN Servo!Smaller(matchStreak + 1, Enough) ELSE 0

\* What the servo is given: only a tracked target counts as matched.
Verdict(m) == [matched |-> StreakAfter(m) >= TrackConfirm, x |-> m.x, area |-> m.area]

Sighted(m) == m.confirmed /\ StreakAfter(m) >= FoundConfirm
InTheMiddle(m) == m.x # None /\ Servo!Magnitude(m.x) <= FoundTolerance

\* Fault: the search is not ended when the target is found.
FoundCentredGoesOn(m) ==
  /\ Sighted(m) /\ InTheMiddle(m)
  /\ StopServo /\ searchState' = "found" /\ UNCHANGED searchActive
  /\ said' = {"search_result", "target_found"}

\* The target is in the middle: whatever the servo was doing, it is stopped.
FoundCentred(m) ==
  /\ Sighted(m) /\ InTheMiddle(m)
  /\ StopServo /\ Ended
  /\ said' = {"search_result", "target_found", "search_stopped"}

\* The servo handles the verdict, answers that it is there, and is stopped.
FoundArrived(m) ==
  /\ Sighted(m) /\ ~InTheMiddle(m)
  /\ StopOnArrival /\ Servo!EndAtTarget(Verdict(m))
  /\ Ended
  /\ said' = {"search_result", "target_found", "search_stopped"}

Follow(m) ==
  /\ ~(Sighted(m) /\ InTheMiddle(m))
  /\ ~(Sighted(m) /\ StopOnArrival /\ Servo!AtTarget(Verdict(m)))
  /\ \/ Servo!HandleSimilarityResult(Verdict(m))
     \/ ~motionActive /\ UNCHANGED servoVars
  /\ \/ Sighted(m) /\ searchState' = "approaching" /\ said' = {"search_result", "target_tracking"}
     \/ ~Sighted(m) /\ UNCHANGED searchState /\ said' = {"search_result"}
  /\ UNCHANGED searchActive

HandleCloudResult(m) ==
  /\ searchActive
  /\ silence' = 0
  /\ matchStreak' = StreakAfter(m)
  /\ recent' = LET all == Append(recent, m.confirmed)
               IN  IF Len(all) > Enough THEN Tail(all) ELSE all
  /\ FoundCentred(m) \/ FoundArrived(m) \/ Follow(m)
  /\ UNCHANGED <<motionEnabled, front, sinceTick>>

Result == \E m \in Messages : HandleCloudResult(m)
-----------------------------------------------------------------------------
(* tick, the clock and the lidar                                              *)

\* Fault: a pursuit is not watched for silence.
SilenceDueWhileSearching == silence # None /\ silence > StaleSeconds /\ searchState = "searching"
SilenceDue == silence # None /\ silence > StaleSeconds

Tick ==
  /\ sinceTick >= TickPeriod /\ sinceTick' = 0
  /\ \/ /\ searchActive
        /\ \/ SilenceDue /\ silence' = 0 /\ said' = {"search_warning"}
           \/ ~SilenceDue /\ UNCHANGED silence /\ said' = {}
        /\ \/ Servo!ServoTick
           \/ ~motionActive /\ UNCHANGED servoVars
     \/ ~searchActive /\ said' = {} /\ UNCHANGED <<servoVars, silence>>
  /\ UNCHANGED <<motionEnabled, searchActive, searchState, matchStreak, recent, front>>

Elapse ==
  /\ Servo!Elapse
  /\ silence' = IF silence = None THEN None ELSE Servo!Older(silence)
  /\ said' = {}
  /\ UNCHANGED <<motionEnabled, searchActive, searchState, matchStreak, recent>>

UpdateLidar == Servo!UpdateLidar /\ said' = {} /\ UNCHANGED searchVars

Next == Start \/ Stop \/ Result \/ Tick \/ Elapse \/ UpdateLidar

Spec == Init /\ [][Next]_vars /\ WF_vars(Tick) /\ WF_vars(Elapse)
-----------------------------------------------------------------------------
(* Properties                                                                 *)

\* Every variable has its type.
TypeOK ==
  /\ Servo!TypeOK
  /\ {motionEnabled, searchActive} \subseteq BOOLEAN /\ searchState \in {"idle", "searching", "approaching"}
  /\ matchStreak \in 0..Enough /\ silence \in 0..AgeCap \union {None}
  /\ said \subseteq Events /\ Len(recent) <= Enough

\* The car moves for a search only while that search is active: the two
\* _active flags, set by different handlers of different objects, agree, and
\* when the search is over the last velocity command was a stop.
ServoFollowsSearch ==
  /\ motionEnabled => (motionActive <=> searchActive)
  /\ ~searchActive => ~motionActive /\ cmd = "stop"

\* The servo under the search does what the servo alone may do: the search calls
\* its handlers only as VisualServo's environment does, and never starts a servo
\* that is active.  What holds of every run of the servo holds in the search.
KeepsServo == Servo!Safety

\* The last k verdicts of this search all confirmed the target.
Confirmed(k) ==
  Len(recent) >= k /\ \A i \in (Len(recent) - k + 1)..Len(recent) : recent[i]

\* The car turns or drives towards something only after TrackConfirm confirming
\* verdicts in a row of this very search, and reports a target only after
\* FoundConfirm of them: no isolated false positive and no verdict of an earlier
\* search counts.
PursuitNeedsConfirmedRun == [][
  /\ motionState' \in {"aligning", "approach_forward"} /\ motionState' # motionState
       => Confirmed(TrackConfirm)'
  /\ "target_found" \in said' => Confirmed(FoundConfirm)' ]_vars

\* When the results of a search stop coming, a warning is published, again and
\* again (a search that never had a result is never warned about).
SilenceIsReported ==
  searchActive /\ silence # None
    ~> "search_warning" \in said \/ silence = 0 \/ ~searchActive

\* README.md:302 "target centered and safe: approach slowly": a tracked target
\* that is centred for the servo, small, and has room before it is approached.
CentredTargetIsApproached == [][
  \A m \in Messages :
    /\ HandleCloudResult(m) /\ motionActive /\ Verdict(m).matched
    /\ Servo!Visible(Verdict(m)) /\ Servo!Centred(Verdict(m)) /\ ~Servo!Reached(Verdict(m))
    => motionState' = "approach_forward" ]_vars

\* similarity_search_controller.py:226-228 with config/edge.yaml:52
\* "similarity_auto_stop_on_match: true": with motion disabled, a sighted target
\* ends the search.
AutoStopWithoutMotion == [][
  \A m \in Messages :
    HandleCloudResult(m) /\ ~motionEnabled /\ StopOnArrival /\ Sighted(m) => ~searchActive' ]_vars
=============================================================================
