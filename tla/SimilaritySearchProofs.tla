------------------------ MODULE SimilaritySearchProofs ------------------------
(***************************************************************************)
(* Theorems about SimilaritySearch for every value of its constants.       *)
(*                                                                         *)
(* That the servo follows the search rests on one more fact: an inactive   *)
(* servo is idle, so that the search's stop() reaches every servo that is  *)
(* not at rest.  That a pursuit was confirmed rests on what the counter    *)
(* matchStreak stands for: it is the length of a run of confirming         *)
(* verdicts at the end of the verdicts of this search.                     *)
(*                                                                         *)
(* Each handler of the search is a step of the servo or leaves it alone,   *)
(* so SimilaritySearch implements VisualServo's Safety, and the theorems   *)
(* of VisualServoProofs hold of the servo as the search drives it.         *)
(***************************************************************************)
EXTENDS SimilaritySearch, SequenceTheorems, TLAPS

\* The two flags, the state and the command go together.
Agreement ==
  /\ motionEnabled => (motionActive <=> searchActive)
  /\ ~motionEnabled => ~motionActive
  /\ ~motionActive => motionState = "idle" /\ cmd = "stop"

\* The counter counts verdicts of this search, the last ones.
StreakIsConfirmed ==
  /\ recent \in Seq(BOOLEAN) /\ Len(recent) <= Enough
  /\ matchStreak \in Nat /\ matchStreak <= Enough /\ Confirmed(matchStreak)

USE DEF servoVars, searchVars, Servo!servoVars, Servo!progressVars

LEMMA EnoughBounds ==
  Enough \in Nat /\ TrackConfirm \in Nat /\ FoundConfirm \in Nat
  /\ TrackConfirm <= Enough /\ FoundConfirm <= Enough /\ Enough > 0
BY ConfirmAssumption DEF Enough, Servo!Larger
-----------------------------------------------------------------------------
(* The servo follows the search                                               *)

LEMMA StartAgrees == Agreement /\ Start => Agreement'
BY DEF Agreement, Start, Servo!ServoStart, Servo!Publish, Servo!LookingState, Servo!LookingCommand

LEMMA StopServoRests ==
  ASSUME Agreement, StopServo
  PROVE  ~motionActive' /\ motionState' = "idle" /\ cmd' = "stop"
<1>1. CASE motionActive \/ motionState # "idle"
  BY <1>1 DEF StopServo, Servo!ServoStop, Servo!Publish
<1>2. CASE ~(motionActive \/ motionState # "idle")
  BY <1>2 DEF Agreement, StopServo
<1>3. QED
  BY <1>1, <1>2

LEMMA ResultAgrees ==
  ASSUME Agreement, NEW m \in Messages, HandleCloudResult(m)
  PROVE  Agreement'
<1>1. searchActive /\ motionEnabled' = motionEnabled
  BY DEF HandleCloudResult
<1>2. CASE FoundCentred(m)
  BY <1>1, <1>2, StopServoRests DEF FoundCentred, Ended, Agreement
<1>3. CASE FoundArrived(m)
  <2>1. motionActive /\ ~motionActive' /\ motionState' = "idle" /\ cmd' = "stop" /\ ~searchActive'
    BY <1>3 DEF FoundArrived, Servo!EndAtTarget, Servo!AtTarget, Ended, Servo!Publish
  <2>2. QED
    BY <1>1, <2>1 DEF Agreement
<1>4. CASE Follow(m)
  <2>1. searchActive' = searchActive /\ motionActive' = motionActive
    BY <1>4 DEF Follow, Servo!HandleSimilarityResult
  <2>2. CASE motionActive
    BY <1>1, <2>1, <2>2 DEF Agreement
  <2>3. CASE ~motionActive
    BY <1>1, <1>4, <2>1, <2>3 DEF Follow, Servo!HandleSimilarityResult, Agreement
  <2>4. QED
    BY <2>2, <2>3
<1>5. QED
  BY <1>2, <1>3, <1>4 DEF HandleCloudResult

LEMMA AgreementKept == Agreement /\ [Next]_vars => Agreement'
<1> SUFFICES ASSUME Agreement, [Next]_vars PROVE Agreement'
  OBVIOUS
<1>1. CASE Start
  BY <1>1, StartAgrees
<1>2. CASE Stop
  BY <1>2, StopServoRests DEF Stop, Ended, Agreement
<1>3. CASE Result
  BY <1>3, ResultAgrees DEF Result
<1>4. CASE Tick
  <2>1. searchActive' = searchActive /\ motionEnabled' = motionEnabled
    BY <1>4 DEF Tick
  <2>2. motionActive' = motionActive
    BY <1>4 DEF Tick, Servo!ServoTick
  <2>3. ~motionActive => UNCHANGED <<motionState, cmd>>
    BY <1>4 DEF Tick, Servo!ServoTick
  <2>4. QED
    BY <2>1, <2>2, <2>3 DEF Agreement
<1>5. CASE Elapse
  BY <1>5 DEF Elapse, Servo!Elapse, Agreement
<1>6. CASE UpdateLidar
  BY <1>6 DEF UpdateLidar, Servo!UpdateLidar, Agreement
<1>7. CASE UNCHANGED vars
  BY <1>7 DEF vars, Agreement
<1>8. QED
  BY <1>1, <1>2, <1>3, <1>4, <1>5, <1>6, <1>7 DEF Next

\* The car moves for a search only while that search is active
\* (similarity_search_controller.py and motion_controller.py each keep an
\* _active flag of their own).
THEOREM SearchOwnsMotion == Spec => []ServoFollowsSearch
<1>1. Init => Agreement
  BY DEF Init, Servo!Init, Agreement
<1>2. Agreement => ServoFollowsSearch
  BY DEF Agreement, ServoFollowsSearch
<1>3. QED
  BY <1>1, <1>2, AgreementKept, PTL DEF Spec
-----------------------------------------------------------------------------
(* The pursuit was confirmed                                                  *)

\* One more verdict, and the oldest forgotten when there are enough.
LEMMA VerdictCounted ==
  ASSUME StreakIsConfirmed, NEW m \in Messages,
         matchStreak' = StreakAfter(m),
         recent' = LET all == Append(recent, m.confirmed)
                   IN  IF Len(all) > Enough THEN Tail(all) ELSE all
  PROVE  StreakIsConfirmed'
<1> DEFINE n == Len(recent)
           all == Append(recent, m.confirmed)
<1>1. recent \in Seq(BOOLEAN) /\ n \in Nat /\ n <= Enough /\ m.confirmed \in BOOLEAN
  BY LenProperties DEF StreakIsConfirmed, Messages
<1>2. /\ all \in Seq(BOOLEAN) /\ Len(all) = n + 1 /\ all[n + 1] = m.confirmed
      /\ \A i \in 1..n : all[i] = recent[i]
  BY <1>1, AppendProperties
<1>3. matchStreak \in Nat /\ matchStreak <= Enough /\ matchStreak <= n
      /\ \A i \in n - matchStreak + 1..n : recent[i]
  BY DEF StreakIsConfirmed, Confirmed
<1>4. recent' = IF Len(all) > Enough THEN Tail(all) ELSE all
  OBVIOUS
<1> HIDE DEF n, all
<1>5. PICK drop \in {0, 1} :
        /\ Len(recent') = (n + 1) - drop /\ Len(recent') <= Enough /\ recent' \in Seq(BOOLEAN)
        /\ drop = 1 => n = Enough
        /\ \A i \in 1..Len(recent') : recent'[i] = all[i + drop]
  <2>1. CASE Len(all) > Enough
    <3>1. all # <<>> /\ n = Enough /\ recent' = Tail(all)
      BY <1>1, <1>2, <1>4, <2>1, EnoughBounds, EmptySeq
    <3>2. /\ Tail(all) \in Seq(BOOLEAN) /\ Len(Tail(all)) = Len(all) - 1
          /\ \A i \in 1..Len(Tail(all)) : Tail(all)[i] = all[i + 1]
      BY <1>2, <3>1, HeadTailProperties
    <3>3. recent' \in Seq(BOOLEAN) /\ \A i \in 1..Len(recent') : recent'[i] = all[i + 1]
      BY <3>1, <3>2, Zenon
    <3>4. Len(recent') = Len(all) - 1
      BY <3>1, <3>2, Zenon
    <3>5. Len(recent') = (n + 1) - 1 /\ Len(recent') <= Enough
      BY <1>1, <1>2, <3>1, <3>4
    <3>6. WITNESS 1 \in {0, 1}
    <3>7. QED
      BY <3>1, <3>3, <3>5, Zenon
  <2>2. CASE ~(Len(all) > Enough)
    <3>1. recent' = all /\ n + 1 <= Enough
      BY <1>1, <1>2, <1>4, <2>2, EnoughBounds
    <3>2. \A i \in 1..Len(recent') : i + 0 = i
      OBVIOUS
    <3>3. recent' \in Seq(BOOLEAN) /\ \A i \in 1..Len(recent') : recent'[i] = all[i + 0]
      BY <1>2, <3>1, <3>2, Zenon
    <3>4. Len(recent') = Len(all)
      BY <3>1, Zenon
    <3>5. Len(recent') = (n + 1) - 0 /\ Len(recent') <= Enough /\ 0 # 1
      BY <1>1, <1>2, <3>1, <3>4
    <3>6. WITNESS 0 \in {0, 1}
    <3>7. QED
      BY <3>3, <3>5, Zenon
  <2>3. QED
    BY <2>1, <2>2
<1>6. CASE m.confirmed
  <2>1. matchStreak' \in Nat /\ matchStreak' <= Enough /\ matchStreak' <= matchStreak + 1
    BY <1>3, <1>6, EnoughBounds DEF StreakAfter, Servo!Smaller
  <2>2. matchStreak' <= Len(recent')
    BY <1>1, <1>3, <1>5, <2>1, EnoughBounds
  <2>3. ASSUME NEW i \in Len(recent') - matchStreak' + 1..Len(recent') PROVE recent'[i]
    <3>1. i \in 1..Len(recent') /\ i + drop \in 1..n + 1 /\ i + drop >= (n - matchStreak) + 1
      <4>1. PICK len \in Nat : len = Len(recent')
        BY <1>5, LenProperties
      <4>2. PICK streak \in Nat : streak = matchStreak'
        BY <2>1
      <4>3. i \in len - streak + 1..len /\ streak <= len /\ streak <= matchStreak + 1
        BY <2>1, <2>2, <4>1, <4>2
      <4>4. i \in 1..len /\ i >= (len - streak) + 1
        BY <4>3
      <4>5. len = (n + 1) - drop /\ drop \in {0, 1}
        BY <1>5, <4>1
      <4>6. i + drop \in 1..n + 1 /\ i + drop >= (n - matchStreak) + 1
        BY <1>1, <1>3, <4>3, <4>4, <4>5
      <4>7. QED
        BY <4>1, <4>4, <4>6
    <3>2. CASE i + drop = n + 1
      BY <1>2, <1>5, <1>6, <3>1, <3>2
    <3>3. CASE i + drop # n + 1
      <4>1. i + drop \in 1..n /\ i + drop \in n - matchStreak + 1..n
        BY <1>1, <1>3, <1>5, <3>1, <3>3
      <4>2. recent'[i] = all[i + drop] /\ all[i + drop] = recent[i + drop]
        BY <1>2, <1>5, <3>1, <4>1, Zenon
      <4>3. QED
        BY <1>3, <4>1, <4>2
    <3>4. QED
      BY <3>2, <3>3
  <2>4. QED
    BY <1>5, <2>1, <2>2, <2>3 DEF StreakIsConfirmed, Confirmed
<1>7. CASE ~m.confirmed
  <2>1. matchStreak' = 0
    BY <1>7 DEF StreakAfter
  <2>2. Len(recent') \in Nat
    BY <1>5, LenProperties
  <2>3. QED
    BY <1>5, <2>1, <2>2, EnoughBounds DEF StreakIsConfirmed, Confirmed
<1>8. QED
  BY <1>6, <1>7

LEMMA StreakKept == StreakIsConfirmed /\ [Next]_vars => StreakIsConfirmed'
<1> SUFFICES ASSUME StreakIsConfirmed, [Next]_vars PROVE StreakIsConfirmed'
  OBVIOUS
<1>1. CASE Start
  <2>1. recent' = <<>> /\ matchStreak' = 0
    BY <1>1 DEF Start
  <2>2. QED
    BY <2>1, EnoughBounds DEF StreakIsConfirmed, Confirmed
<1>2. CASE Result
  BY <1>2, VerdictCounted DEF Result, HandleCloudResult
<1>3. ASSUME UNCHANGED <<recent, matchStreak>> PROVE StreakIsConfirmed'
  BY <1>3 DEF StreakIsConfirmed, Confirmed
<1>4. QED
  BY <1>1, <1>2, <1>3 DEF Next, Stop, Tick, Elapse, UpdateLidar, vars

\* The servo leaves for a target only on a verdict that was counted enough.
LEMMA OnlyVerdictsPursue ==
  ASSUME Next, motionState' \in {"aligning", "approach_forward"}, motionState' # motionState
  PROVE  \E m \in Messages : HandleCloudResult(m) /\ StreakAfter(m) >= TrackConfirm
<1> USE DEF Servo!Publish
<1>1. ~Start /\ ~Stop
  BY DEF Start, Stop, StopServo, Servo!ServoStart, Servo!ServoStop, Servo!LookingState
<1>2. ~Tick
  <2>1. ASSUME Servo!ServoTick PROVE FALSE
    BY <2>1 DEF Servo!ServoTick, Servo!TargetLost, Servo!LookingState, Servo!BeginSettling,
       Servo!Renew, Servo!Settled, Servo!NextSearchAction, Servo!BeginSearchStep,
       Servo!BeginSearchForward
  <2>2. QED
    BY <2>1 DEF Tick
<1>3. ~Elapse /\ ~UpdateLidar
  BY DEF Elapse, UpdateLidar, Servo!Elapse, Servo!UpdateLidar
<1>4. PICK m \in Messages : HandleCloudResult(m)
  BY <1>1, <1>2, <1>3 DEF Next, Result
<1>5. Follow(m)
  BY <1>4 DEF HandleCloudResult, FoundCentred, FoundArrived, StopServo, Servo!ServoStop,
     Servo!EndAtTarget
<1>6. Servo!HandleSimilarityResult(Verdict(m))
  BY <1>5 DEF Follow
<1>7. Servo!Visible(Verdict(m))
  BY <1>6 DEF Servo!HandleSimilarityResult, Servo!SafetyStop, Servo!NoMatch,
     Servo!NextSearchAction, Servo!BeginSearchStep, Servo!BeginSearchForward
<1>8. StreakAfter(m) >= TrackConfirm
  BY <1>7 DEF Servo!Visible, Verdict
<1>9. QED
  BY <1>4, <1>8

LEMMA OnlyVerdictsFind ==
  ASSUME Next, "target_found" \in said'
  PROVE  \E m \in Messages : HandleCloudResult(m) /\ StreakAfter(m) >= FoundConfirm
<1>1. ~Start /\ ~Stop /\ ~Tick /\ ~Elapse /\ ~UpdateLidar
  BY DEF Start, Stop, Tick, Elapse, UpdateLidar
<1>2. PICK m \in Messages : HandleCloudResult(m)
  BY <1>1 DEF Next, Result
<1>3. Sighted(m)
  <2>1. CASE FoundCentred(m) \/ FoundArrived(m)
    BY <2>1 DEF FoundCentred, FoundArrived
  <2>2. CASE Follow(m)
    <3>1. said' = {"search_result", "target_tracking"} \/ said' = {"search_result"}
      BY <2>2 DEF Follow
    <3>2. QED
      BY <3>1
  <2>3. QED
    BY <1>2, <2>1, <2>2 DEF HandleCloudResult
<1>4. QED
  BY <1>2, <1>3 DEF Sighted

\* The car turns or drives towards something, and a target is reported, only
\* after enough confirming verdicts in a row of this very search.
THEOREM PursuitsAreConfirmed == Spec => PursuitNeedsConfirmedRun
<1>1. Init => StreakIsConfirmed
  BY EnoughBounds DEF Init, StreakIsConfirmed, Confirmed
<1> DEFINE Step ==
      /\ motionState' \in {"aligning", "approach_forward"} /\ motionState' # motionState
           => Confirmed(TrackConfirm)'
      /\ "target_found" \in said' => Confirmed(FoundConfirm)'
<1>2. ASSUME StreakIsConfirmed, StreakIsConfirmed', Next PROVE Step
  <2>1. ASSUME NEW m \in Messages, HandleCloudResult(m), NEW k \in Nat, StreakAfter(m) >= k
        PROVE  Confirmed(k)'
    <3>1. matchStreak' = StreakAfter(m)
      BY <2>1 DEF HandleCloudResult
    <3>2. /\ matchStreak' \in Nat /\ recent' \in Seq(BOOLEAN) /\ Len(recent') >= matchStreak'
          /\ \A i \in (Len(recent') - matchStreak') + 1..Len(recent') : recent'[i]
      BY <1>2 DEF StreakIsConfirmed, Confirmed
    <3>3. Len(recent') \in Nat /\ matchStreak' >= k
      BY <2>1, <3>1, <3>2, LenProperties
    <3>4. QED
      BY <3>2, <3>3 DEF Confirmed
  <2>2. QED
    BY <1>2, <2>1, EnoughBounds, OnlyVerdictsPursue, OnlyVerdictsFind
<1> HIDE DEF Step
<1>3. StreakIsConfirmed /\ StreakIsConfirmed' /\ [Next]_vars => [Step]_vars
  BY <1>2
<1>4. Spec => [][Step]_vars
  BY <1>1, <1>3, StreakKept, PTL DEF Spec
<1>5. QED
  BY <1>4 DEF PursuitNeedsConfirmedRun, Step
-----------------------------------------------------------------------------
(* The servo under the search is the servo                                    *)

\* A verdict the search hands on is one the servo may be given.
LEMMA VerdictIsVerdict ==
  ASSUME NEW m \in Messages
  PROVE  Verdict(m) \in Servo!Verdicts
<1>1. m.x \in XErrors \union {None} /\ m.area \in Areas \union {None}
  BY DEF Messages
<1>2. (StreakAfter(m) >= TrackConfirm) \in BOOLEAN
  OBVIOUS
<1>3. QED
  BY <1>1, <1>2 DEF Verdict, Servo!Verdicts

\* What the search does to the servo is a stop of it or nothing.
LEMMA StopServoKeeps ==
  ASSUME StopServo, UNCHANGED <<front, sinceTick>>
  PROVE  [Servo!Next]_Servo!vars
BY DEF StopServo, Servo!Next, Servo!Stop, Servo!vars

LEMMA StepKeepsServo ==
  ASSUME Agreement, [Next]_vars
  PROVE  [Servo!Next]_Servo!vars
<1>1. CASE Start
  <2>1. motionEnabled => ~motionActive
    BY <1>1 DEF Start, Agreement
  <2>2. CASE motionEnabled
    BY <1>1, <2>1, <2>2 DEF Start, Servo!Start, Servo!Next
  <2>3. CASE ~motionEnabled
    BY <1>1, <2>3 DEF Start, Servo!vars
  <2>4. QED
    BY <2>2, <2>3
<1>2. CASE Stop
  BY <1>2, StopServoKeeps DEF Stop
<1>3. CASE Result
  <2>1. PICK m \in Messages : HandleCloudResult(m)
    BY <1>3 DEF Result
  <2>2. UNCHANGED <<front, sinceTick>> /\ Verdict(m) \in Servo!Verdicts
    BY <2>1, VerdictIsVerdict DEF HandleCloudResult
  <2>3. CASE FoundCentred(m)
    BY <2>2, <2>3, StopServoKeeps DEF FoundCentred
  <2>4. CASE FoundArrived(m)
    BY <2>2, <2>4 DEF FoundArrived, Servo!Next, Servo!Result
  <2>5. CASE Follow(m) /\ Servo!HandleSimilarityResult(Verdict(m))
    BY <2>2, <2>5 DEF Servo!Next, Servo!Result
  <2>6. CASE Follow(m) /\ UNCHANGED servoVars
    BY <2>2, <2>6 DEF Servo!vars
  <2>7. QED
    BY <2>1, <2>3, <2>4, <2>5, <2>6 DEF HandleCloudResult, Follow
<1>4. CASE Tick
  <2>1. ~searchActive => ~motionActive
    BY DEF Agreement
  <2>2. Servo!Tick
    BY <1>4, <2>1 DEF Tick, Servo!Tick
  <2>3. QED
    BY <2>2 DEF Servo!Next
<1>5. CASE Elapse
  BY <1>5 DEF Elapse, Servo!Next
<1>6. CASE UpdateLidar
  BY <1>6 DEF UpdateLidar, Servo!Next
<1>7. CASE UNCHANGED vars
  BY <1>7 DEF vars, Servo!vars
<1>8. QED
  BY <1>1, <1>2, <1>3, <1>4, <1>5, <1>6, <1>7 DEF Next

LEMMA AgreementHolds == Spec => []Agreement
<1>1. Init => Agreement
  BY DEF Init, Servo!Init, Agreement
<1>2. QED
  BY <1>1, AgreementKept, PTL DEF Spec

\* The search calls the servo's handlers only as the servo may be called: it
\* never starts an active servo, and stops one that is there in the callback
\* that said so.
THEOREM SearchKeepsServo == Spec => KeepsServo
<1>1. Init => Servo!Init
  BY DEF Init
<1>2. Agreement /\ [Next]_vars => [Servo!Next]_Servo!vars
  BY StepKeepsServo
<1>3. QED
  BY <1>1, <1>2, AgreementHolds, PTL DEF Spec, KeepsServo, Servo!Safety
-----------------------------------------------------------------------------
(* What the servo's theorems say of the search                                *)

ServoTheorems == INSTANCE VisualServoProofs WITH Enabled <- TRUE

\* Servo and ServoTheorems are two instances of the same definitions: expanded,
\* their formulas are the same.
LEMMA SameConstants == ServoTheorems!ConstantsOK
<1>1. Servo!ConstantsOK <=> ServoTheorems!ConstantsOK
  BY DEF Servo!ConstantsOK, Servo!SwitchesOK, Servo!InputsOK, Servo!DurationsOK,
     Servo!AgeCapOK, Servo!StepDegrees, Servo!StepSeconds, Servo!TickGap, Servo!Larger,
     ServoTheorems!ConstantsOK, ServoTheorems!SwitchesOK, ServoTheorems!InputsOK,
     ServoTheorems!DurationsOK, ServoTheorems!AgeCapOK, ServoTheorems!StepDegrees,
     ServoTheorems!StepSeconds, ServoTheorems!TickGap, ServoTheorems!Larger
<1>2. QED
  BY <1>1, ServoAssumption

LEMMA SameSteps == [Servo!Next]_Servo!vars <=> [ServoTheorems!Next]_ServoTheorems!vars
BY DEF Servo!Larger, Servo!Smaller, Servo!Magnitude, Servo!StepDegrees,
   Servo!StepSeconds, Servo!Readings, Servo!Verdicts, Servo!TickGap,
   Servo!progressVars, Servo!servoVars, Servo!vars, Servo!TimedMotion, Servo!Publish,
   Servo!LookingState, Servo!LookingCommand, Servo!ServoStart, Servo!ServoStop,
   Servo!FrontOpen, Servo!TooClose, Servo!BeginSearchStep, Servo!BeginSearchForward,
   Servo!NextSearchAction, Servo!BeginSettling, Servo!SafetyStop, Servo!NoMatch,
   Servo!Align, Servo!Arrive, Servo!BeginApproachStep, Servo!Visible, Servo!Centred,
   Servo!Reached, Servo!Pursue, Servo!HandleSimilarityResult, Servo!AtTarget,
   Servo!EndAtTarget, Servo!LostDue, Servo!TargetLost, Servo!MotionLength,
   Servo!InTimedMotion, Servo!MotionDue, Servo!CommandDue, Servo!RenewDue,
   Servo!RenewedCommand, Servo!SettleDue, Servo!ResultDue, Servo!ScanDue,
   Servo!AlignDue, Servo!TickDue, Servo!Settled, Servo!Renew, Servo!ServoTick,
   Servo!Older, Servo!Elapse, Servo!UpdateLidar, Servo!Tick, Servo!Start, Servo!Stop,
   Servo!Result, Servo!Next, ServoTheorems!Larger, ServoTheorems!Smaller,
   ServoTheorems!Magnitude, ServoTheorems!StepDegrees, ServoTheorems!StepSeconds,
   ServoTheorems!Readings, ServoTheorems!Verdicts, ServoTheorems!TickGap,
   ServoTheorems!progressVars, ServoTheorems!servoVars, ServoTheorems!vars,
   ServoTheorems!TimedMotion, ServoTheorems!Publish, ServoTheorems!LookingState,
   ServoTheorems!LookingCommand, ServoTheorems!ServoStart, ServoTheorems!ServoStop,
   ServoTheorems!FrontOpen, ServoTheorems!TooClose, ServoTheorems!BeginSearchStep,
   ServoTheorems!BeginSearchForward, ServoTheorems!NextSearchAction,
   ServoTheorems!BeginSettling, ServoTheorems!SafetyStop, ServoTheorems!NoMatch,
   ServoTheorems!Align, ServoTheorems!Arrive, ServoTheorems!BeginApproachStep,
   ServoTheorems!Visible, ServoTheorems!Centred, ServoTheorems!Reached,
   ServoTheorems!Pursue, ServoTheorems!HandleSimilarityResult, ServoTheorems!AtTarget,
   ServoTheorems!EndAtTarget, ServoTheorems!LostDue, ServoTheorems!TargetLost,
   ServoTheorems!MotionLength, ServoTheorems!InTimedMotion, ServoTheorems!MotionDue,
   ServoTheorems!CommandDue, ServoTheorems!RenewDue, ServoTheorems!RenewedCommand,
   ServoTheorems!SettleDue, ServoTheorems!ResultDue, ServoTheorems!ScanDue,
   ServoTheorems!AlignDue, ServoTheorems!TickDue, ServoTheorems!Settled,
   ServoTheorems!Renew, ServoTheorems!ServoTick, ServoTheorems!Older,
   ServoTheorems!Elapse, ServoTheorems!UpdateLidar, ServoTheorems!Tick,
   ServoTheorems!Start, ServoTheorems!Stop, ServoTheorems!Result, ServoTheorems!Next

LEMMA SearchRunsTheServo == Spec => ServoTheorems!Safety
<1>1. Servo!Init <=> ServoTheorems!Init
  BY DEF Servo!Init, ServoTheorems!Init, Servo!Readings, ServoTheorems!Readings
<1>2. Servo!Safety => ServoTheorems!Safety
  BY <1>1, SameSteps, PTL DEF Servo!Safety, ServoTheorems!Safety
<1>3. QED
  BY <1>2, SearchKeepsServo, PTL DEF KeepsServo

\* Under the search too a velocity command stands for a bounded time, a resting
\* car was last told to stop, and no wait of the sweep outlasts its timeout.
THEOREM SearchMotionsExpire ==
  Spec => [](Servo!MotionExpires /\ Servo!RestStatesAreStill /\ Servo!WaitsExpire)
<1>1. Servo!MotionExpires <=> ServoTheorems!MotionExpires
  BY DEF Servo!MotionExpires, Servo!TimedMotion, Servo!MotionLength, Servo!TickGap,
     ServoTheorems!MotionExpires, ServoTheorems!TimedMotion, ServoTheorems!MotionLength,
     ServoTheorems!TickGap
<1>2. Servo!RestStatesAreStill <=> ServoTheorems!RestStatesAreStill
  BY DEF Servo!RestStatesAreStill, ServoTheorems!RestStatesAreStill
<1>3. Servo!WaitsExpire <=> ServoTheorems!WaitsExpire
  BY DEF Servo!WaitsExpire, Servo!TickGap, ServoTheorems!WaitsExpire, ServoTheorems!TickGap
<1>4. ServoTheorems!Safety => []ServoTheorems!MotionExpires
  BY ServoTheorems!MotionsExpire, SameConstants
<1>5. ServoTheorems!Safety => []ServoTheorems!RestStatesAreStill
  BY ServoTheorems!RestIsStill, SameConstants
<1>6. ServoTheorems!Safety => []ServoTheorems!WaitsExpire
  BY ServoTheorems!WaitsEnd, SameConstants
<1>7. QED
  BY <1>1, <1>2, <1>3, <1>4, <1>5, <1>6, SearchRunsTheServo, PTL

\* Under the search too the car is told to drive only with room in front.
THEOREM SearchDrivesNeedRoom == Spec => Servo!ForwardNeedsClearFront
<1>1. Servo!ForwardNeedsClearFront <=> ServoTheorems!ForwardNeedsClearFront
  BY DEF Servo!ForwardNeedsClearFront, Servo!ShortDrives, Servo!PublishesDrive,
     Servo!FrontOpen, Servo!vars, Servo!servoVars, Servo!progressVars,
     ServoTheorems!ForwardNeedsClearFront, ServoTheorems!ShortDrives,
     ServoTheorems!PublishesDrive, ServoTheorems!FrontOpen, ServoTheorems!vars,
     ServoTheorems!servoVars, ServoTheorems!progressVars
<1>2. ServoTheorems!Safety => ServoTheorems!ForwardNeedsClearFront
  BY ServoTheorems!DrivesNeedRoom, SameConstants
<1>3. QED
  BY <1>1, <1>2, SearchRunsTheServo, PTL

\* In step mode the car under the search keeps the stop-and-look contract.
THEOREM SearchStopsToLook ==
  ASSUME StepSearch
  PROVE  Spec => Servo!StopsToLook
<1>1. Servo!StopsToLook <=> ServoTheorems!StopsToLook
  BY DEF Servo!StopsToLook, Servo!phase, Servo!rolling, Servo!seen,
     Servo!Contract!Safety, Servo!Contract!Init, Servo!Contract!Next,
     Servo!Contract!Begin, Servo!Contract!End, Servo!Contract!Sweep,
     Servo!Contract!Turn, Servo!Contract!Drive, Servo!Contract!Approach,
     Servo!Contract!Track, Servo!Contract!Block, Servo!Contract!Settle,
     Servo!Contract!Look, Servo!Contract!GiveUp, ServoTheorems!StopsToLook,
     ServoTheorems!phase, ServoTheorems!rolling, ServoTheorems!seen,
     ServoTheorems!Contract!Safety, ServoTheorems!Contract!Init,
     ServoTheorems!Contract!Next, ServoTheorems!Contract!Begin,
     ServoTheorems!Contract!End, ServoTheorems!Contract!Sweep,
     ServoTheorems!Contract!Turn, ServoTheorems!Contract!Drive,
     ServoTheorems!Contract!Approach, ServoTheorems!Contract!Track,
     ServoTheorems!Contract!Block, ServoTheorems!Contract!Settle,
     ServoTheorems!Contract!Look, ServoTheorems!Contract!GiveUp
<1>2. ServoTheorems!Safety => ServoTheorems!StopsToLook
  BY ServoTheorems!StopsToLookAlways, SameConstants
<1>3. QED
  BY <1>1, <1>2, SearchRunsTheServo, PTL
-----------------------------------------------------------------------------
(* Types                                                                      *)

\* The variables the search adds to the servo's.
OwnTypes ==
  /\ motionEnabled \in BOOLEAN /\ searchActive \in BOOLEAN
  /\ searchState \in {"idle", "searching", "approaching"}
  /\ silence \in 0..AgeCap \union {None}
  /\ said \subseteq Events

LEMMA OwnTypesKept == OwnTypes /\ [Next]_vars => OwnTypes'
<1> SUFFICES ASSUME OwnTypes, [Next]_vars PROVE OwnTypes'
  OBVIOUS
<1>0. AgeCap \in Nat
  BY ServoAssumption DEF Servo!ConstantsOK, Servo!DurationsOK
<1> USE DEF OwnTypes
<1>1. CASE Start
  BY <1>1, Zenon DEF Start, Events
<1>2. CASE Stop
  BY <1>2, Zenon DEF Stop, Ended, Events
<1>3. CASE Result
  <2>1. PICK m \in Messages : HandleCloudResult(m)
    BY <1>3 DEF Result
  <2>2. motionEnabled' = motionEnabled /\ silence' = 0
    BY <2>1 DEF HandleCloudResult
  <2>3. 0 \in 0..AgeCap
    BY <1>0
  <2>4. CASE FoundCentred(m)
    BY <2>2, <2>3, <2>4, Zenon DEF FoundCentred, Ended, Events
  <2>5. CASE FoundArrived(m)
    BY <2>2, <2>3, <2>5, Zenon DEF FoundArrived, Ended, Events
  <2>6. CASE Follow(m)
    BY <2>2, <2>3, <2>6, Zenon DEF Follow, Events
  <2>7. QED
    BY <2>1, <2>4, <2>5, <2>6 DEF HandleCloudResult
<1>4. CASE Tick
  <2>1. silence' \in {0, silence} /\ said' \in {{"search_warning"}, {}}
    BY <1>4 DEF Tick
  <2>2. UNCHANGED <<motionEnabled, searchActive, searchState>>
    BY <1>4 DEF Tick
  <2>3. 0 \in 0..AgeCap
    BY <1>0
  <2>4. QED
    BY <2>1, <2>2, <2>3, Zenon DEF Events
<1>5. CASE Elapse
  <2>1. silence # None => silence' \in 0..AgeCap
    BY <1>0, <1>5 DEF Elapse, Servo!Older
  <2>2. silence = None => silence' = None
    BY <1>5 DEF Elapse
  <2>3. said' = {} /\ UNCHANGED <<motionEnabled, searchActive, searchState>>
    BY <1>5 DEF Elapse
  <2>4. QED
    BY <2>1, <2>2, <2>3, Zenon
<1>6. CASE UpdateLidar
  BY <1>6, Zenon DEF UpdateLidar, searchVars
<1>7. CASE UNCHANGED vars
  BY <1>7, Zenon DEF vars, searchVars
<1>8. QED
  BY <1>1, <1>2, <1>3, <1>4, <1>5, <1>6, <1>7 DEF Next

\* Every variable of the search and of the servo under it keeps its type.
THEOREM TypeCorrect == Spec => []TypeOK
<1>1. Init => OwnTypes /\ StreakIsConfirmed
  <2>1. Init => OwnTypes
    BY Zenon DEF Init, OwnTypes
  <2>2. Init => StreakIsConfirmed
    BY EnoughBounds DEF Init, StreakIsConfirmed, Confirmed
  <2>3. QED
    BY <2>1, <2>2
<1>2. Servo!TypeOK <=> ServoTheorems!TypeOK
  BY DEF Servo!TypeOK, Servo!MotionStates, Servo!TimedMotion, Servo!Commands, Servo!Readings,
     Servo!TickGap, ServoTheorems!TypeOK, ServoTheorems!MotionStates,
     ServoTheorems!TimedMotion, ServoTheorems!Commands, ServoTheorems!Readings,
     ServoTheorems!TickGap
<1>3. ServoTheorems!Safety => []ServoTheorems!TypeOK
  BY ServoTheorems!TypeCorrect, SameConstants
<1>4. Servo!TypeOK /\ OwnTypes /\ StreakIsConfirmed => TypeOK
  BY EnoughBounds DEF OwnTypes, StreakIsConfirmed, TypeOK
<1>5. QED
  BY <1>1, <1>2, <1>3, <1>4, OwnTypesKept, StreakKept, SearchRunsTheServo, PTL DEF Spec
-----------------------------------------------------------------------------
(* Silence                                                                    *)

\* When the timer last fired the silence was not overdue, or was reported.
SilenceBudget == searchActive /\ silence # None => silence <= StaleSeconds + sinceTick

LEMMA SilenceKept ==
  ASSUME OwnTypes, sinceTick \in Nat, SilenceBudget, [Next]_vars
  PROVE  SilenceBudget'
<1> USE DEF SilenceBudget
<1>0. /\ silence # None => silence \in Nat
      /\ StaleSeconds \in Nat /\ AgeCap \in Nat
  BY ConfirmAssumption, ServoAssumption DEF OwnTypes, Servo!ConstantsOK, Servo!DurationsOK
<1>1. CASE Start
  BY <1>1 DEF Start
<1>2. CASE Stop
  BY <1>2 DEF Stop, Ended
<1>3. CASE Result
  <2>1. silence' = 0 /\ sinceTick' = sinceTick
    BY <1>3 DEF Result, HandleCloudResult
  <2>2. QED
    BY <1>0, <2>1
<1>4. CASE Tick
  <2>1. sinceTick' = 0 /\ searchActive' = searchActive
    BY <1>4 DEF Tick
  <2>2. CASE searchActive
    BY <1>0, <1>4, <2>1, <2>2 DEF Tick, SilenceDue
  <2>3. CASE ~searchActive
    BY <2>1, <2>3
  <2>4. QED
    BY <2>2, <2>3
<1>5. CASE Elapse
  <2>1. sinceTick' = sinceTick + 1 /\ searchActive' = searchActive
    BY <1>5 DEF Elapse, Servo!Elapse
  <2>2. silence = None => silence' = None
    BY <1>5 DEF Elapse
  <2>3. silence # None => silence' <= silence + 1 /\ silence' \in Nat
    BY <1>0, <1>5 DEF Elapse, Servo!Older
  <2>4. QED
    BY <1>0, <2>1, <2>2, <2>3
<1>6. CASE UpdateLidar \/ UNCHANGED vars
  BY <1>6 DEF UpdateLidar, Servo!UpdateLidar, vars
<1>7. QED
  BY <1>1, <1>2, <1>3, <1>4, <1>5, <1>6 DEF Next

\* The silence counted from the last result or the last warning never exceeds
\* stale_result_seconds by more than the timer may be late: the bounded form of
\* SilenceIsReported.
SilenceIsShort == searchActive /\ silence # None => silence <= StaleSeconds + Servo!TickGap

\* An active search that had a result goes no longer without another one or a
\* warning, whatever the servo under it does.
THEOREM SilenceReportedInTime == Spec => []SilenceIsShort
<1>1. Init => OwnTypes /\ SilenceBudget
  <2>1. Init => OwnTypes
    BY Zenon DEF Init, OwnTypes
  <2>2. Init => SilenceBudget
    BY DEF Init, SilenceBudget
  <2>3. QED
    BY <2>1, <2>2
<1>2. TypeOK => sinceTick \in Nat /\ sinceTick <= Servo!TickGap /\ Servo!TickGap \in Nat
  BY ServoAssumption DEF TypeOK, Servo!TypeOK, Servo!TickGap, Servo!ConstantsOK, Servo!DurationsOK
<1>3. OwnTypes /\ TypeOK /\ SilenceBudget /\ [Next]_vars => SilenceBudget'
  BY <1>2, SilenceKept
<1>4. TypeOK /\ OwnTypes /\ SilenceBudget => SilenceIsShort
  BY <1>2, ConfirmAssumption DEF SilenceBudget, SilenceIsShort, OwnTypes
<1>5. QED
  BY <1>1, <1>3, <1>4, OwnTypesKept, TypeCorrect, PTL DEF Spec
===============================================================================
