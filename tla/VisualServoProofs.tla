--------------------------- MODULE VisualServoProofs ---------------------------
(***************************************************************************)
(* Theorems about VisualServo for every value of its constants.  They are  *)
(* stated of Safety, the specification without its fairness, so that a     *)
(* module that implements it (SimilaritySearchProofs) can use them.        *)
(*                                                                         *)
(* The invariants of the runs are not inductive: that a motion or a wait   *)
(* ends rests on how old it may be *between* two firings of the timer, on  *)
(* which states the configured mode can be in, and on the motion's         *)
(* duration. IInv adds these facts.                                        *)
(***************************************************************************)
EXTENDS VisualServo, TLAPS

\* Step mode has no endless scan; the other mode has no timed motion but the
\* approach, and never waits.  In a timed motion the car does move.
ModeStates ==
  /\ motionActive <=> motionState # "idle"
  /\ StepSearch => motionState # "searching"
  /\ ~StepSearch =>
       motionState \in {"idle", "searching", "aligning", "approach_forward", "arrived",
                       "safety_stop"}
  /\ motionState \in TimedMotion => cmd # "stop"

\* What tick() leaves when it does not end a motion, aged since.
TimedBudget == InTimedMotion => stateAge < MotionLength + sinceTick
PursuitBudget ==
  motionState \in {"aligning", "approach_forward"} =>
    targetAge # None /\ targetAge <= LostTimeout + sinceTick
AlignBudget ==
  ~StepSearch /\ motionState = "aligning" /\ cmd # "stop"
    => commandAge <= CommandTimeout + sinceTick

\* The command of a drive is at least as new as the drive.
DriveIsFresh ==
  motionState \in {"search_forward", "approach_forward"} =>
    /\ commandAge <= stateAge
    /\ motionSeconds \in {ApproachStepSeconds, SearchForwardSeconds}

\* A wait is dated when it begins: no result has come since, and no tick found
\* it over.
WaitBudget ==
  /\ motionState = "settling" => stateAge < SettleSeconds + sinceTick
  /\ motionState = "waiting_result" =>
       stateAge <= resultAge /\ stateAge < ResultTimeout + sinceTick

IInv ==
  /\ TypeOK
  /\ RestStatesAreStill
  /\ ModeStates
  /\ TimedBudget
  /\ PursuitBudget
  /\ AlignBudget
  /\ DriveIsFresh
  /\ WaitBudget

USE DEF TimedMotion, MotionStates, Commands, Readings, TickGap, progressVars, servoVars

\* The facts about the constants that the steps below use.
LEMMA Constants ==
  /\ StepSearch \in BOOLEAN
  /\ LostTimeout \in Nat /\ CommandTimeout \in Nat /\ ResultTimeout \in Nat
  /\ ApproachStepSeconds \in Nat /\ ApproachStepSeconds > 0
  /\ SearchForwardSeconds \in Nat /\ SearchForwardSeconds > 0
  /\ SettleSeconds \in Nat /\ SettleSeconds > 0 /\ ResultTimeout > 0
  /\ TickPeriod \in Nat /\ TickLag \in Nat /\ TickPeriod > 0
  /\ AgeCap \in Nat /\ AgeCap > 0
  /\ SearchForwardAfter \in Nat
  /\ None \notin Int
  /\ \A d \in StepDegrees : d \in Nat /\ StepSeconds(d) \in Nat /\ StepSeconds(d) > 0
<1>1. {LostTimeout, CommandTimeout, ResultTimeout,
       ApproachStepSeconds, SearchForwardSeconds, SettleSeconds} \subseteq Nat \ {0}
  BY ServoAssumption DEF ConstantsOK, DurationsOK
<1>2. TickPeriod \in Nat \ {0} /\ TickLag \in Nat /\ AgeCap \in Nat /\ SearchForwardAfter \in Nat
  BY ServoAssumption DEF ConstantsOK, DurationsOK
<1>3. \A d \in StepDegrees : d \in Nat \ {0} /\ StepSeconds(d) \in Nat \ {0}
  BY ServoAssumption DEF ConstantsOK, DurationsOK
<1>4. AgeCap > LostTimeout + TickGap
  BY ServoAssumption DEF ConstantsOK, AgeCapOK
<1>5. AgeCap > 0
  BY <1>1, <1>2, <1>4
<1>6. StepSearch \in BOOLEAN /\ None \notin Int
  BY ServoAssumption DEF ConstantsOK, SwitchesOK, InputsOK
<1>7. QED
  BY <1>1, <1>2, <1>3, <1>5, <1>6

\* Ages stay within their bound and grow by at most one.
LEMMA OlderBounds ==
  ASSUME NEW a \in 0..AgeCap
  PROVE  Older(a) \in 0..AgeCap /\ a <= Older(a) /\ Older(a) <= a + 1
BY Constants DEF Older

LEMMA OlderMonotone ==
  ASSUME NEW a \in 0..AgeCap, NEW b \in 0..AgeCap, a <= b
  PROVE  Older(a) <= Older(b)
BY Constants DEF Older

LEMMA PositiveSum ==
  ASSUME NEW a \in Nat, NEW b \in Nat, a > 0
  PROVE  0 < a + b
OBVIOUS

-----------------------------------------------------------------------------
LEMMA InitIInv == Init => IInv
<1> SUFFICES ASSUME Init PROVE IInv
  OBVIOUS
<1>1. TypeOK
  <2>1. motionActive \in BOOLEAN
    BY Zenon DEF Init
  <2>2. sinceTick \in 0..TickGap /\ AgeCap \in 0..AgeCap
    BY Constants DEF Init
  <2>3. QED
    BY <2>1, <2>2 DEF Init, TypeOK
<1>2. RestStatesAreStill /\ ModeStates
  BY DEF Init, RestStatesAreStill, ModeStates
<1>3. TimedBudget /\ PursuitBudget /\ AlignBudget /\ DriveIsFresh /\ WaitBudget
  BY DEF Init, TimedBudget, InTimedMotion, PursuitBudget, AlignBudget, DriveIsFresh, WaitBudget
<1>4. QED
  BY <1>1, <1>2, <1>3 DEF IInv

\* Every way the sweep goes on keeps the invariant's facts about the servo.
LEMMA SweepStep ==
  ASSUME IInv, motionActive, StepSearch, NextSearchAction,
         UNCHANGED <<motionActive, targetAge, front>>,
         resultAge' \in 0..AgeCap, sinceTick' \in 0..TickGap
  PROVE  IInv'
<1> USE Constants DEF IInv
<1>1. /\ cmd' \in Commands /\ cmd' # "stop" /\ commandAge' = 0 /\ stateAge' = 0
      /\ stepSeconds' \in Nat /\ motionSeconds' \in Nat /\ degrees' \in Nat
      /\ \/ motionState' = "step_rotating" /\ stepSeconds' > 0
         \/ motionState' = "search_forward" /\ motionSeconds' = SearchForwardSeconds
  BY DEF NextSearchAction, BeginSearchStep, BeginSearchForward, Publish, TypeOK
<1>2. TypeOK'
  BY <1>1 DEF TypeOK
<1>3. RestStatesAreStill' /\ ModeStates'
  BY <1>1 DEF RestStatesAreStill, ModeStates
<1>4. TimedBudget'
  <2>1. sinceTick' \in Nat
    BY <1>2 DEF TypeOK
  <2>2. MotionLength' \in Nat /\ MotionLength' > 0
    BY <1>1, Constants DEF MotionLength
  <2>3. stateAge' < MotionLength' + sinceTick'
    BY <1>1, <2>1, <2>2, PositiveSum
  <2>4. QED
    BY <2>3, Zenon DEF TimedBudget
<1>5. PursuitBudget' /\ AlignBudget' /\ DriveIsFresh'
  BY <1>1 DEF PursuitBudget, AlignBudget, DriveIsFresh
<1>6. WaitBudget'
  BY <1>1 DEF WaitBudget
<1>7. QED
  BY <1>2, <1>3, <1>4, <1>5, <1>6

LEMMA StartIInv == IInv /\ Start => IInv'
BY Constants DEF Start, ServoStart, Publish, LookingState, LookingCommand, IInv, TypeOK,
   RestStatesAreStill, ModeStates, TimedBudget, InTimedMotion, PursuitBudget,
   AlignBudget, DriveIsFresh, WaitBudget

LEMMA StopIInv == IInv /\ Stop => IInv'
<1> SUFFICES ASSUME IInv, Stop PROVE IInv'
  OBVIOUS
<1>1. TypeOK'
  <2>1. motionActive' \in BOOLEAN
    BY Zenon DEF Stop, ServoStop
  <2>2. QED
    BY <2>1, Constants DEF Stop, ServoStop, Publish, IInv, TypeOK
<1>2. RestStatesAreStill' /\ ModeStates'
  BY DEF Stop, ServoStop, Publish, RestStatesAreStill, ModeStates
<1>3. TimedBudget' /\ PursuitBudget' /\ AlignBudget' /\ DriveIsFresh' /\ WaitBudget'
  BY DEF Stop, ServoStop, TimedBudget, InTimedMotion, PursuitBudget, AlignBudget, DriveIsFresh,
     WaitBudget
<1>4. QED
  BY <1>1, <1>2, <1>3 DEF IInv

LEMMA LidarIInv == IInv /\ UpdateLidar => IInv'
BY DEF UpdateLidar, IInv, TypeOK, RestStatesAreStill, ModeStates, TimedBudget,
   InTimedMotion, MotionLength, PursuitBudget, AlignBudget, DriveIsFresh, WaitBudget

LEMMA ResultIInv ==
  ASSUME IInv, NEW r \in Verdicts, HandleSimilarityResult(r), UNCHANGED <<front, sinceTick>>
  PROVE  IInv'
<1> USE Constants DEF IInv, HandleSimilarityResult
<1>1. CASE SafetyStop
  BY <1>1 DEF SafetyStop, Publish, TypeOK, RestStatesAreStill, ModeStates, TimedBudget,
     InTimedMotion, PursuitBudget, AlignBudget, DriveIsFresh, WaitBudget
<1>2. CASE NoMatch
  <2>1. CASE ~StepSearch
    BY <1>2, <2>1 DEF NoMatch, Publish, TypeOK, RestStatesAreStill, ModeStates, TimedBudget,
       InTimedMotion, PursuitBudget, AlignBudget, DriveIsFresh, WaitBudget
  <2>2. CASE StepSearch /\ motionState \in {"step_rotating", "settling"}
    BY <1>2, <2>2 DEF NoMatch, TypeOK, RestStatesAreStill, ModeStates, TimedBudget,
       InTimedMotion, MotionLength, PursuitBudget, AlignBudget, DriveIsFresh, WaitBudget
  <2>3. CASE StepSearch /\ motionState \notin {"step_rotating", "settling"}
    <3>1. NextSearchAction /\ UNCHANGED <<motionActive, targetAge, front>>
      BY <1>2, <2>3 DEF NoMatch
    <3>2. QED BY <2>3, <3>1, SweepStep DEF TypeOK
  <2>4. QED BY <2>1, <2>2, <2>3
<1>3. CASE Pursue(r) /\ Align
  BY <1>3 DEF Pursue, Align, Publish, TypeOK, RestStatesAreStill, ModeStates, TimedBudget,
     InTimedMotion, PursuitBudget, AlignBudget, DriveIsFresh, WaitBudget
<1>4. CASE Pursue(r) /\ Arrive
  BY <1>4 DEF Pursue, Arrive, Publish, TypeOK, RestStatesAreStill, ModeStates, TimedBudget,
     InTimedMotion, PursuitBudget, AlignBudget, DriveIsFresh, WaitBudget
<1>5. CASE Pursue(r) /\ BeginApproachStep
  BY <1>5 DEF Pursue, BeginApproachStep, Publish, TypeOK, RestStatesAreStill, ModeStates,
     TimedBudget, InTimedMotion, MotionLength, PursuitBudget, AlignBudget, DriveIsFresh,
     WaitBudget
<1>6. QED
  BY <1>1, <1>2, <1>3, <1>4, <1>5 DEF Pursue

LEMMA EndAtTargetIInv ==
  ASSUME IInv, NEW r \in Verdicts, EndAtTarget(r), UNCHANGED <<front, sinceTick>>
  PROVE  IInv'
<1> USE Constants DEF IInv, EndAtTarget
<1>1. TypeOK'
  <2>1. motionActive' \in BOOLEAN
    BY Zenon
  <2>2. targetAge' \in 0..AgeCap \union {None}
    BY DEF TypeOK
  <2>3. QED
    BY <2>1, <2>2 DEF Publish, TypeOK
<1>2. RestStatesAreStill' /\ ModeStates'
  BY DEF Publish, RestStatesAreStill, ModeStates
<1>3. TimedBudget' /\ PursuitBudget' /\ AlignBudget' /\ DriveIsFresh' /\ WaitBudget'
  BY DEF TimedBudget, InTimedMotion, PursuitBudget, AlignBudget, DriveIsFresh, WaitBudget
<1>4. QED
  BY <1>1, <1>2, <1>3

LEMMA TickIInv == IInv /\ Tick => IInv'
<1> SUFFICES ASSUME IInv, Tick PROVE IInv'
  OBVIOUS
<1> USE Constants DEF IInv
<1>0. sinceTick' = 0 /\ UNCHANGED front
  BY DEF Tick
<1>1. CASE ~motionActive /\ UNCHANGED servoVars
  BY <1>0, <1>1 DEF TypeOK, RestStatesAreStill, ModeStates, TimedBudget,
     InTimedMotion, MotionLength, PursuitBudget, AlignBudget, DriveIsFresh, WaitBudget
<1>2. CASE ServoTick
  <2>0. motionActive /\ UNCHANGED <<motionActive, resultAge>>
    BY <1>2 DEF ServoTick
  <2>1. CASE TargetLost
    BY <1>0, <2>0, <2>1 DEF TargetLost, Publish, LookingState, LookingCommand, TypeOK,
       RestStatesAreStill, ModeStates, TimedBudget, InTimedMotion, PursuitBudget,
       AlignBudget, DriveIsFresh, WaitBudget
  <2>2. CASE ~LostDue /\ UNCHANGED targetAge
    <3>1. targetAge # None => targetAge <= LostTimeout
      BY <2>2 DEF LostDue, TypeOK
    <3>2. CASE MotionDue /\ BeginSettling
      BY <1>0, <2>0, <2>2, <3>2 DEF MotionDue, InTimedMotion, BeginSettling, Publish, TypeOK,
         RestStatesAreStill, ModeStates, TimedBudget, PursuitBudget, AlignBudget, DriveIsFresh,
         WaitBudget
    <3>3. CASE RenewDue /\ Renew(RenewedCommand)
      BY <1>0, <2>0, <2>2, <3>1, <3>3 DEF RenewDue, InTimedMotion, MotionLength, Renew,
         RenewedCommand, Publish, TypeOK, RestStatesAreStill, ModeStates, TimedBudget,
         PursuitBudget, AlignBudget, DriveIsFresh, WaitBudget
    <3>4. CASE SettleDue /\ Settled
      BY <1>0, <2>0, <2>2, <3>4 DEF SettleDue, Settled, Publish, TypeOK,
         RestStatesAreStill, ModeStates, TimedBudget, InTimedMotion, PursuitBudget,
         AlignBudget, DriveIsFresh, WaitBudget
    <3>5. CASE ResultDue /\ NextSearchAction
      BY <1>0, <2>0, <2>2, <3>5, SweepStep DEF ResultDue, TypeOK
    <3>6. CASE ScanDue /\ Renew("scan")
      BY <1>0, <2>0, <2>2, <3>6 DEF ScanDue, Renew, Publish, TypeOK, RestStatesAreStill,
         ModeStates, TimedBudget, InTimedMotion, PursuitBudget, AlignBudget, DriveIsFresh,
         WaitBudget
    <3>7. CASE AlignDue /\ Renew("stop")
      BY <1>0, <2>0, <2>2, <3>1, <3>7 DEF AlignDue, Renew, Publish, TypeOK, RestStatesAreStill,
         ModeStates, TimedBudget, InTimedMotion, PursuitBudget, AlignBudget, DriveIsFresh,
         WaitBudget
    <3>8. CASE ~TickDue /\ UNCHANGED <<motionState, stateAge, progressVars, cmd, commandAge>>
      <4>1. TypeOK' /\ RestStatesAreStill' /\ ModeStates' /\ DriveIsFresh'
        BY <1>0, <2>0, <2>2, <3>8 DEF TypeOK, RestStatesAreStill, ModeStates, DriveIsFresh
      <4>2. TimedBudget'
        BY <1>0, <3>8 DEF TickDue, MotionDue, TimedBudget, InTimedMotion, MotionLength, TypeOK
      <4>3. PursuitBudget'
        BY <1>0, <2>2, <3>1, <3>8 DEF PursuitBudget, TypeOK
      <4>4. AlignBudget'
        BY <1>0, <3>8 DEF TickDue, AlignDue, CommandDue, AlignBudget, TypeOK
      <4>5. WaitBudget'
        <5>1. /\ motionState = "settling" => stateAge < SettleSeconds
              /\ motionState = "waiting_result" => Smaller(resultAge, stateAge) < ResultTimeout
          BY <3>8 DEF TickDue, SettleDue, ResultDue, Smaller, ModeStates, TypeOK
        <5>2. motionState = "waiting_result" => stateAge <= resultAge /\ stateAge < ResultTimeout
          BY <5>1 DEF WaitBudget, Smaller, TypeOK
        <5>3. QED
          BY <1>0, <2>0, <3>8, <5>1, <5>2 DEF WaitBudget, TypeOK
      <4>6. QED BY <4>1, <4>2, <4>3, <4>4, <4>5
    <3>9. QED
      BY <1>2, <2>2, <3>2, <3>3, <3>4, <3>5, <3>6, <3>7, <3>8 DEF ServoTick, TargetLost
  <2>3. QED BY <1>2, <2>1, <2>2 DEF ServoTick
<1>3. QED BY <1>1, <1>2 DEF Tick

LEMMA ElapseIInv == IInv /\ Elapse => IInv'
<1> SUFFICES ASSUME IInv, Elapse PROVE IInv'
  OBVIOUS
<1> USE Constants DEF IInv, Elapse
<1>1. /\ resultAge' \in 0..AgeCap
      /\ stateAge' \in 0..AgeCap /\ stateAge' <= stateAge + 1
      /\ commandAge' \in 0..AgeCap /\ commandAge' <= commandAge + 1
  BY OlderBounds DEF TypeOK
<1>2. targetAge # None => targetAge' \in 0..AgeCap /\ targetAge' <= targetAge + 1
  BY OlderBounds DEF TypeOK
<1>3. targetAge = None => targetAge' = None
  OBVIOUS
<1>4. commandAge <= stateAge => commandAge' <= stateAge'
  BY OlderMonotone DEF TypeOK
<1>5. TypeOK'
  BY <1>1, <1>2, <1>3 DEF TypeOK
<1>6. RestStatesAreStill' /\ ModeStates'
  BY DEF RestStatesAreStill, ModeStates
<1>7. TimedBudget'
  BY <1>1 DEF TimedBudget, InTimedMotion, MotionLength, TypeOK
<1>8. PursuitBudget'
  BY <1>2 DEF PursuitBudget, TypeOK
<1>9. AlignBudget'
  BY <1>1 DEF AlignBudget, TypeOK
<1>10. DriveIsFresh'
  BY <1>4 DEF DriveIsFresh
<1>11. WaitBudget'
  <2>1. stateAge <= resultAge => stateAge' <= resultAge'
    BY OlderMonotone DEF TypeOK
  <2>2. QED
    BY <1>1, <2>1 DEF WaitBudget, TypeOK
<1>12. QED
  BY <1>5, <1>6, <1>7, <1>8, <1>9, <1>10, <1>11

LEMMA NextIInv == IInv /\ [Next]_vars => IInv'
<1>1. IInv /\ UNCHANGED vars => IInv'
  BY DEF vars, IInv, TypeOK, RestStatesAreStill, ModeStates, TimedBudget,
     InTimedMotion, MotionLength, PursuitBudget, AlignBudget, DriveIsFresh, WaitBudget
<1>2. IInv /\ Result => IInv'
  BY ResultIInv, EndAtTargetIInv DEF Result
<1>3. QED
  BY <1>1, <1>2, StartIInv, StopIInv, LidarIInv, TickIInv, ElapseIInv DEF Next

\* None of the theorems needs the fairness of Spec: they are stated of Safety,
\* which Spec implies and which the search keeps (SimilaritySearchProofs).
LEMMA Inductive == Safety => []IInv
BY InitIInv, NextIInv, PTL DEF Safety
-----------------------------------------------------------------------------
\* Every variable keeps its type, whatever the durations, tolerances and inputs.
THEOREM TypeCorrect == Safety => []TypeOK
<1>1. IInv => TypeOK
  BY DEF IInv
<1>2. QED BY <1>1, Inductive, PTL

\* No handler leaves a resting state with a velocity command standing.
THEOREM RestIsStill == Safety => []RestStatesAreStill
<1>1. IInv => RestStatesAreStill
  BY DEF IInv
<1>2. QED BY <1>1, Inductive, PTL

\* Every velocity command but the endless scan stands for a bounded time.
THEOREM MotionsExpire == Safety => []MotionExpires
<1>1. IInv => MotionExpires
  BY Constants DEF IInv, MotionExpires, TypeOK, RestStatesAreStill, ModeStates,
     TimedBudget, InTimedMotion, MotionLength, PursuitBudget, AlignBudget
<1>2. QED BY <1>1, Inductive, PTL

\* No wait of the sweep outlasts its timeout, however late or lost the results.
THEOREM WaitsEnd == Safety => []WaitsExpire
<1>1. IInv => WaitsExpire
  BY Constants DEF IInv, WaitsExpire, WaitBudget, TypeOK
<1>2. QED BY <1>1, Inductive, PTL
-----------------------------------------------------------------------------
(* Action properties: they need IInv before the step only.                    *)

\* A command to drive is published only with room in front, when no drive
\* outlasts the command timeout: a drive is then never renewed, because its
\* command is as new as itself (DriveIsFresh).
LEMMA DriveStep == IInv /\ [Next]_vars => (ShortDrives /\ PublishesDrive => FrontOpen)
<1> SUFFICES ASSUME IInv, [Next]_vars, ShortDrives, PublishesDrive PROVE FrontOpen
  OBVIOUS
<1> USE Constants DEF PublishesDrive
<1>1. CASE UNCHANGED vars
  BY <1>1 DEF vars, IInv, TypeOK
<1>2. CASE Start
  BY <1>2 DEF Start, ServoStart, Publish, LookingCommand
<1>3. CASE Stop
  BY <1>3 DEF Stop, ServoStop, Publish
<1>4. ASSUME NextSearchAction PROVE FrontOpen
  BY <1>4 DEF NextSearchAction, BeginSearchStep, Publish
<1>5. CASE Result
  <2>1. PICK r \in Verdicts : HandleSimilarityResult(r) \/ EndAtTarget(r)
    BY <1>5 DEF Result
  <2>2. CASE SafetyStop
    BY <2>2 DEF SafetyStop, Publish
  <2>3. CASE NoMatch
    BY <1>4, <2>3 DEF NoMatch, Publish, IInv, TypeOK
  <2>4. CASE Pursue(r)
    BY <2>4 DEF Pursue, Align, Arrive, BeginApproachStep, Reached, Publish
  <2>5. CASE EndAtTarget(r)
    BY <2>5 DEF EndAtTarget, Publish
  <2>6. QED
    BY <2>1, <2>2, <2>3, <2>4, <2>5 DEF HandleSimilarityResult
<1>6. CASE Tick
  <2>1. CASE UNCHANGED servoVars
    BY <2>1 DEF IInv, TypeOK
  <2>2. CASE TargetLost
    BY <2>2 DEF TargetLost, Publish, LookingCommand
  <2>3. CASE BeginSettling \/ Settled \/ Renew("scan") \/ Renew("stop")
    BY <2>3 DEF BeginSettling, Settled, Renew, Publish
  <2>4. CASE NextSearchAction
    BY <1>4, <2>4
  <2>5. ASSUME RenewDue, Renew(RenewedCommand) PROVE FALSE
    <3>1. motionState \in {"search_forward", "approach_forward"}
      BY <2>5 DEF RenewDue, InTimedMotion, Renew, RenewedCommand, Publish
    <3>2. stateAge < motionSeconds /\ CommandTimeout < commandAge
      BY <2>5, <3>1 DEF RenewDue, MotionLength, CommandDue, IInv, TypeOK
    <3>3. commandAge <= stateAge /\ motionSeconds <= CommandTimeout
      BY <3>1 DEF IInv, DriveIsFresh, ShortDrives
    <3>4. QED
      BY <3>2, <3>3 DEF IInv, TypeOK
  <2>6. CASE UNCHANGED <<cmd, commandAge>>
    BY <2>6 DEF IInv, TypeOK
  <2>7. QED
    BY <1>6, <2>1, <2>2, <2>3, <2>4, <2>5, <2>6 DEF Tick, ServoTick
<1>7. CASE Elapse
  <2>1. commandAge <= commandAge' /\ cmd' = cmd
    BY <1>7, OlderBounds DEF Elapse, IInv, TypeOK
  <2>2. commandAge \in Nat /\ commandAge' \in Nat
    BY <1>7, OlderBounds DEF Elapse, IInv, TypeOK
  <2>3. QED
    BY <2>1, <2>2
<1>8. CASE UpdateLidar
  BY <1>8 DEF UpdateLidar, IInv, TypeOK
<1>9. QED
  BY <1>1, <1>2, <1>3, <1>5, <1>6, <1>7, <1>8 DEF Next

\* A command to drive forward is published only with room in front: no order of
\* results, timeouts and lidar readings lets _publish be called for a drive
\* after a reading within the stop distance.
THEOREM DrivesNeedRoom == Safety => ForwardNeedsClearFront
<1>1. Safety => [][Next]_vars
  BY PTL DEF Safety
<1>2. IInv /\ [Next]_vars => [ShortDrives /\ PublishesDrive => FrontOpen]_vars
  BY DriveStep
<1>3. QED
  BY <1>1, <1>2, Inductive, PTL DEF ForwardNeedsClearFront
-----------------------------------------------------------------------------
(* The refinement: every step of the servo in step mode is a step of the      *)
(* stop-and-look contract or leaves its three variables as they are.          *)

USE DEF Contract!Begin, Contract!End, Contract!Turn, Contract!Drive, Contract!Sweep,
        Contract!Approach, Contract!Track, Contract!Block, Contract!Settle,
        Contract!Look, Contract!GiveUp

\* The phase of an active servo, and what it has seen.
LEMMA PhaseIs ==
  ASSUME IInv, StepSearch
  PROVE  /\ motionActive => phase # "off" /\ (seen <=> targetAge # None)
         /\ ~motionActive => phase = "off" /\ ~seen
         /\ motionState = "settling" <=> phase = "settle"
         /\ motionState = "step_rotating" <=> phase = "turn"
         /\ motionState = "search_forward" <=> phase = "drive"
         /\ motionState = "approach_forward" <=> phase = "approach"
BY DEF IInv, ModeStates, TypeOK, MotionStates, TimedMotion, phase, seen

LEMMA SweepStepImplements ==
  ASSUME IInv, motionActive, StepSearch, NextSearchAction,
         motionState \notin {"step_rotating", "settling"},
         motionActive' = motionActive, targetAge' = targetAge
  PROVE  Contract!Turn \/ Contract!Drive
<1>1. phase \in {"look", "drive", "approach", "track", "blocked"}
  BY DEF IInv, ModeStates, TypeOK, MotionStates, TimedMotion, phase
<1>2. UNCHANGED seen
  BY DEF seen
<1>3. CASE motionState' = "step_rotating" /\ cmd' = "scan"
  BY <1>1, <1>2, <1>3 DEF phase, rolling
<1>4. CASE motionState' = "search_forward" /\ cmd' = "forward"
  BY <1>1, <1>2, <1>4 DEF phase, rolling
<1>5. QED
  BY <1>3, <1>4 DEF NextSearchAction, BeginSearchStep, BeginSearchForward, Publish

LEMMA StepImplements ==
  ASSUME IInv, StepSearch, [Next]_vars
  PROVE  [Contract!Next]_<<phase, rolling, seen>>
<1> DEFINE Keeps == UNCHANGED <<motionActive, motionState, cmd>> /\ (targetAge' = None <=> targetAge = None)
<1>0. Keeps => UNCHANGED <<phase, rolling, seen>>
  BY DEF phase, rolling, seen
<1>a. targetAge \in 0..AgeCap \union {None} /\ AgeCap \in Nat /\ None \notin Int
  BY ServoAssumption DEF IInv, TypeOK, ConstantsOK, DurationsOK, InputsOK
<1>1. CASE UNCHANGED vars \/ Elapse \/ UpdateLidar
  <2>1. targetAge' = None <=> targetAge = None
    BY <1>1, <1>a DEF vars, servoVars, Elapse, UpdateLidar, Older
  <2>2. UNCHANGED <<motionActive, motionState, cmd>>
    BY <1>1 DEF vars, servoVars, Elapse, UpdateLidar
  <2>3. QED BY <1>0, <2>1, <2>2
<1>2. CASE Start
  <2>1. /\ phase = "off" /\ motionState' = "waiting_result" /\ cmd' = "stop"
        /\ targetAge' = None
    BY <1>2, PhaseIs DEF Start, ServoStart, LookingState, LookingCommand, Publish
  <2>2. Contract!Begin
    BY <2>1 DEF phase, rolling, seen
  <2>3. QED BY <2>2 DEF Contract!Next
<1>3. CASE Stop
  <2>1. motionState' = "idle" /\ cmd' = "stop" /\ ~motionActive' /\ motionActive
    BY <1>3 DEF Stop, ServoStop, Publish, IInv, ModeStates
  <2>2. Contract!End
    BY <2>1, PhaseIs DEF phase, rolling, seen
  <2>3. QED BY <2>2 DEF Contract!Next
<1>4. CASE Result
  <2>1. PICK r \in Verdicts : HandleSimilarityResult(r) \/ EndAtTarget(r)
    BY <1>4 DEF Result
  <2>2. motionActive /\ phase # "off"
    BY <2>1, PhaseIs DEF HandleSimilarityResult, EndAtTarget, AtTarget
  <2>3. CASE HandleSimilarityResult(r) /\ SafetyStop
    <3>1. motionState' = "safety_stop" /\ cmd' = "stop" /\ UNCHANGED <<motionActive, targetAge>>
      BY <2>3 DEF HandleSimilarityResult, SafetyStop, Publish
    <3>2. Contract!Block
      BY <2>2, <3>1 DEF phase, rolling, seen
    <3>3. QED BY <3>2 DEF Contract!Next
  <2>4. CASE HandleSimilarityResult(r) /\ Pursue(r)
    <3>1. motionActive' /\ targetAge' # None
      BY <1>a, <2>2, <2>4 DEF HandleSimilarityResult, Pursue
    <3>2. CASE Align \/ Arrive
      <4>1. motionState' \in {"aligning", "arrived"}
        BY <3>2 DEF Align, Arrive
      <4>2. Contract!Track
        BY <2>2, <3>1, <4>1 DEF phase, rolling, seen
      <4>3. QED BY <4>2 DEF Contract!Next
    <3>3. CASE BeginApproachStep
      <4>1. motionState' = "approach_forward" /\ cmd' # "stop"
        BY <3>3 DEF BeginApproachStep, Publish
      <4>2. Contract!Approach
        BY <2>2, <3>1, <4>1 DEF phase, rolling, seen
      <4>3. QED BY <4>2 DEF Contract!Next
    <3>4. QED BY <2>4, <3>2, <3>3 DEF Pursue
  <2>5. CASE HandleSimilarityResult(r) /\ NoMatch
    <3>1. UNCHANGED <<motionActive, targetAge>>
      BY <2>5 DEF HandleSimilarityResult, NoMatch
    <3>2. CASE motionState \in {"step_rotating", "settling"}
      BY <1>0, <2>5, <3>1, <3>2 DEF NoMatch
    <3>3. CASE motionState \notin {"step_rotating", "settling"}
      BY <2>2, <2>5, <3>1, <3>3, SweepStepImplements DEF NoMatch, Contract!Next
    <3>4. QED BY <3>2, <3>3
  <2>6. CASE EndAtTarget(r)
    <3>1. motionState' = "idle" /\ cmd' = "stop" /\ ~motionActive'
      BY <2>6 DEF EndAtTarget, Publish
    <3>2. Contract!End
      BY <2>2, <3>1 DEF phase, rolling, seen
    <3>3. QED BY <3>2 DEF Contract!Next
  <2>7. QED
    BY <2>1, <2>3, <2>4, <2>5, <2>6 DEF HandleSimilarityResult
<1>5. CASE Tick
  <2>1. CASE UNCHANGED servoVars
    BY <1>0, <2>1 DEF servoVars
  <2>2. CASE ServoTick /\ TargetLost
    <3>1. /\ motionState' = "waiting_result" /\ cmd' = "stop" /\ motionActive
          /\ targetAge # None /\ targetAge' = None
      BY <2>2 DEF ServoTick, TargetLost, LostDue, LookingState, LookingCommand, Publish
    <3>2. Contract!GiveUp
      BY <3>1, PhaseIs DEF phase, rolling, seen
    <3>3. QED BY <3>2 DEF Contract!Next
  <2>3. ASSUME ServoTick, ~LostDue PROVE motionActive /\ UNCHANGED <<motionActive, targetAge, seen>>
    BY <2>3 DEF ServoTick, TargetLost, seen
  <2>4. CASE ServoTick /\ ~LostDue /\ MotionDue /\ BeginSettling
    <3>1. motionState \in TimedMotion /\ motionState' = "settling" /\ cmd' = "stop"
      BY <2>4 DEF MotionDue, InTimedMotion, BeginSettling, Publish
    <3>2. Contract!Settle
      BY <2>3, <2>4, <3>1, PhaseIs DEF phase, rolling, TimedMotion
    <3>3. QED BY <3>2 DEF Contract!Next
  <2>5. CASE ServoTick /\ ~LostDue /\ RenewDue /\ Renew(RenewedCommand)
    <3>1. UNCHANGED motionState /\ cmd # "stop" /\ cmd' # "stop"
      BY <2>5 DEF RenewDue, InTimedMotion, Renew, RenewedCommand, Publish, IInv, ModeStates
    <3>2. UNCHANGED <<phase, rolling, seen>>
      BY <2>3, <2>5, <3>1 DEF phase, rolling
    <3>3. QED BY <3>2
  <2>6. CASE ServoTick /\ ~LostDue /\ SettleDue /\ Settled
    <3>1. motionState = "settling" /\ motionState' = "waiting_result" /\ cmd' = "stop"
      BY <2>6 DEF SettleDue, Settled, Publish
    <3>2. Contract!Look
      BY <2>3, <2>6, <3>1, PhaseIs DEF phase, rolling
    <3>3. QED BY <3>2 DEF Contract!Next
  <2>7. CASE ServoTick /\ ~LostDue /\ ResultDue /\ NextSearchAction
    BY <2>3, <2>7, SweepStepImplements DEF ResultDue, Contract!Next
  <2>8. CASE /\ ServoTick /\ ~LostDue
             /\ UNCHANGED <<motionState, stateAge, progressVars, cmd, commandAge>>
    BY <1>0, <2>3, <2>8
  <2>9. ~ScanDue /\ ~AlignDue
    BY DEF ScanDue, AlignDue
  <2>10. QED
    BY <1>5, <2>1, <2>2, <2>4, <2>5, <2>6, <2>7, <2>8, <2>9 DEF Tick, ServoTick
<1>6. QED
  BY <1>1, <1>2, <1>3, <1>4, <1>5 DEF Next

\* In step mode the visual servo implements the stop-and-look contract.
THEOREM StopsToLookAlways ==
  ASSUME StepSearch
  PROVE  Safety => StopsToLook
<1>1. Init => Contract!Init
  BY DEF Init, Contract!Init, phase, rolling, seen
<1>2. IInv /\ [Next]_vars => [Contract!Next]_<<phase, rolling, seen>>
  BY StepImplements
<1>3. QED
  BY <1>1, <1>2, Inductive, PTL DEF Safety, StopsToLook, Contract!Safety
=============================================================================
