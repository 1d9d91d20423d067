---------------------------- MODULE InspectionProofs ----------------------------
(***************************************************************************)
(* What holds of Inspection for every target count, safety distance and set  *)
(* of lidar readings, however the steps of the two threads interleave.       *)
(*                                                                         *)
(* Each of the three safety properties is made inductive by a fact about     *)
(* where the threads can be: a tick that is under way, or a result that is   *)
(* being counted, proves that the inspection was active when it began.       *)
(* What the code says beyond them holds only as long as the two threads do   *)
(* not overlap; the last theorem proves it from that condition.              *)
(***************************************************************************)
EXTENDS Inspection, TLAPS

Ticking == ePc \in TickSteps
Stopping == ePc \in {"stop_state", "stop_publish"}
Counting == rPc \in {"cooldown", "note", "load", "store", "check", "complete"}

\* An inspection the executor ended is not ticking, and stands when the
\* executor has published the stop.
EndedByExecutor ==
  endedBy = "executor" /\ ~active => ~Ticking /\ (~Stopping => cmd = "stop")

\* A completion ends the inspection and the result it came from: there is
\* nothing left that could complete it again.
CompletedOnce ==
  completions \in {0, 1} /\ (completions = 1 => ~active /\ ~Counting)

\* A late move ends the tick it came from, and no other tick begins.
MovedLateOnce ==
  late \in {0, 1} /\ (late = 1 => ~active /\ ~Ticking)

IInv == TypeOK /\ EndedByExecutor /\ CompletedOnce /\ MovedLateOnce
-----------------------------------------------------------------------------
\* The number of results needed is positive, and counting stays below it.
LEMMA NeededPositive == Needed \in Nat \ {0}
BY InspectionAssumption DEF Needed

LEMMA UpToBounds == ASSUME NEW n \in Nat PROVE UpTo(n) \in 0..Needed
BY NeededPositive DEF UpTo

\* Initially nothing has moved and nobody is in a handler.
LEMMA InitIInv == Init => IInv
<1> SUFFICES ASSUME Init PROVE IInv
  OBVIOUS
<1>1. /\ active \in BOOLEAN /\ commandOld \in BOOLEAN /\ cooled \in BOOLEAN
      /\ listed \in BOOLEAN /\ uploading \in BOOLEAN
  BY Zenon DEF Init
<1>2. QED
  BY <1>1, NeededPositive DEF Init, IInv, TypeOK, EndedByExecutor, CompletedOnce,
     MovedLateOnce, Ticking, Stopping, Counting, TickSteps, StartSteps, StopSteps, ResultSteps
-----------------------------------------------------------------------------
\* No step of the executor or the lidar breaks the invariant.
LEMMA ExecutorIInv == IInv /\ Executor => IInv'
<1> SUFFICES ASSUME IInv, Executor PROVE IInv'
  OBVIOUS
<1> USE DEF IInv, TypeOK, EndedByExecutor, CompletedOnce, MovedLateOnce, Ticking, Stopping,
     Counting, TickSteps, StartSteps, StopSteps, ResultSteps, shared, ai, history, Publish,
     ExecutorUnchanged
<1>1. CASE Tick
  BY <1>1 DEF Tick
<1>2. CASE TickAge
  BY <1>2 DEF TickAge
<1>3. CASE TickFront
  BY <1>3 DEF TickFront
<1>4. CASE TickPublish
  <2>1. commandOld' \in BOOLEAN
    BY <1>4, Zenon DEF TickPublish
  <2>2. QED
    BY <1>4, <2>1 DEF TickPublish
<1>5. CASE UpdateLidar
  BY <1>5 DEF UpdateLidar
<1>6. ASSUME NEW on \in BOOLEAN, OnAlgorithmIds(on) PROVE IInv'
  <2>1. listed' \in BOOLEAN /\ uploading' \in BOOLEAN
    BY <1>6, Zenon DEF OnAlgorithmIds
  <2>2. QED
    BY <1>6, <2>1 DEF OnAlgorithmIds
<1>7. ASSUME NEW on \in BOOLEAN, OnAiEnable(on) PROVE IInv'
  <2>1. uploading' \in BOOLEAN
    BY <1>7, Zenon DEF OnAiEnable
  <2>2. QED
    BY <1>7, <2>1 DEF OnAiEnable
<1>8. CASE StartTest
  BY <1>8 DEF StartTest
<1>9. CASE StartActive
  <2>1. active' = TRUE /\ active' \in BOOLEAN
    BY <1>9, Zenon DEF StartActive
  <2>2. QED
    BY <1>9, <2>1, NeededPositive DEF StartActive
<1>10. CASE StartState
  BY <1>10 DEF StartState
<1>11. CASE StartTimes
  BY <1>11 DEF StartTimes
<1>12. CASE StartCooled
  BY <1>12 DEF StartCooled
<1>13. CASE StartCount
  BY <1>13, NeededPositive DEF StartCount
<1>14. CASE StopTest
  BY <1>14 DEF StopTest
<1>15. CASE StopIdle
  BY <1>15 DEF StopIdle
<1>16. CASE StopActive
  <2>1. active' \in BOOLEAN
    BY <1>16, Zenon DEF StopActive
  <2>2. QED
    BY <1>16, <2>1 DEF StopActive
<1>17. CASE StopState
  BY <1>17 DEF StopState
<1>18. CASE StopPublish
  <2>1. commandOld' \in BOOLEAN
    BY <1>18, Zenon DEF StopPublish
  <2>2. QED
    BY <1>18, <2>1 DEF StopPublish
<1>19. QED
  BY <1>1, <1>2, <1>3, <1>4, <1>5, <1>6, <1>7, <1>8, <1>9, <1>10, <1>11, <1>12, <1>13, <1>14,
     <1>15, <1>16, <1>17, <1>18
  DEF Executor
-----------------------------------------------------------------------------
\* No step of the result thread breaks the invariant.
LEMMA ResultIInv == IInv /\ ResultThread => IInv'
<1> SUFFICES ASSUME IInv, ResultThread PROVE IInv'
  OBVIOUS
<1> USE DEF IInv, TypeOK, EndedByExecutor, CompletedOnce, MovedLateOnce, Ticking, Stopping,
     Counting, TickSteps, StartSteps, StopSteps, ResultSteps, shared, ai, history, Publish,
     ResultUnchanged
<1>1. CASE HandleResult
  BY <1>1 DEF HandleResult
<1>2. CASE Cooldown
  BY <1>2 DEF Cooldown
<1>a. CASE NoteCounted
  <2>1. cooled' \in BOOLEAN
    BY <1>a, Zenon DEF NoteCounted
  <2>2. QED
    BY <1>a, <2>1 DEF NoteCounted
<1>3. CASE LoadCount
  BY <1>3 DEF LoadCount
<1>4. CASE StoreCount
  <2>1. loaded \in Nat /\ counted \in Nat
    BY NeededPositive
  <2>2. count' \in 0..Needed /\ counted' \in 0..Needed
    BY <1>4, <2>1, UpToBounds DEF StoreCount
  <2>3. QED
    BY <1>4, <2>2 DEF StoreCount
<1>5. CASE CheckCount
  BY <1>5 DEF CheckCount
<1>b. CASE CompleteActive
  <2>1. active' = FALSE /\ active' \in BOOLEAN
    BY <1>b, Zenon DEF CompleteActive
  <2>2. QED
    BY <1>b, <2>1 DEF CompleteActive
<1>6. CASE CompleteState
  BY <1>6 DEF CompleteState
<1>7. CASE CompletePublish
  <2>1. commandOld' \in BOOLEAN
    BY <1>7, Zenon DEF CompletePublish
  <2>2. QED
    BY <1>7, <2>1 DEF CompletePublish
<1>8. CASE StopAi
  <2>1. listed' \in BOOLEAN /\ uploading' \in BOOLEAN
    BY <1>8, Zenon DEF StopAi, AiOff
  <2>2. QED
    BY <1>8, <2>1 DEF StopAi
<1>9. QED
  BY <1>1, <1>2, <1>3, <1>4, <1>5, <1>6, <1>7, <1>8, <1>a, <1>b DEF ResultThread

\* Nor does the clock.
LEMMA NextIInv == IInv /\ [Next]_vars => IInv'
<1> SUFFICES ASSUME IInv, [Next]_vars PROVE IInv'
  OBVIOUS
<1> USE DEF IInv, TypeOK, EndedByExecutor, CompletedOnce, MovedLateOnce, Ticking, Stopping,
     Counting, TickSteps, StartSteps, StopSteps, ResultSteps
<1>1. CASE Executor
  BY <1>1, ExecutorIInv
<1>2. CASE ResultThread
  BY <1>2, ResultIInv
<1>3. CASE CommandAges
  BY <1>3 DEF CommandAges, ai, history
<1>4. CASE CountAges
  BY <1>4 DEF CountAges, ai, history
<1>5. CASE SearchStopsAi
  <2>1. listed' \in BOOLEAN /\ uploading' \in BOOLEAN
    BY <1>5, Zenon DEF SearchStopsAi, AiOff
  <2>2. QED
    BY <1>5, <2>1 DEF SearchStopsAi, ResultUnchanged, shared, history
<1>6. CASE UNCHANGED vars
  BY <1>6 DEF vars, shared, ai, history
<1>7. QED
  BY <1>1, <1>2, <1>3, <1>4, <1>5, <1>6 DEF Next

\* The invariant is inductive.
LEMMA Inductive == Spec => []IInv
BY InitIInv, NextIInv, PTL DEF Spec
-----------------------------------------------------------------------------
\* Every variable keeps its type, whatever count, distance and readings are.
THEOREM TypeCorrect == Spec => []TypeOK
<1>1. IInv => TypeOK
  BY DEF IInv
<1>2. QED
  BY <1>1, Inductive, PTL

\* Once stop() has run to its end in the executor, neither a late result nor
\* the timer makes the car move before the next start().
THEOREM ExecutorStopsForGood == Spec => []ExecutorStopIsFinal
<1>1. IInv => ExecutorStopIsFinal
  BY DEF IInv, EndedByExecutor, Stopping, ExecutorStopIsFinal
<1>2. QED
  BY <1>1, Inductive, PTL

\* _complete runs at most once for each start(), whatever results are in flight.
THEOREM CompletesOnce == Spec => []CompletesAtMostOnce
<1>1. IInv => CompletesAtMostOnce
  BY DEF IInv, CompletedOnce, CompletesAtMostOnce
<1>2. QED
  BY <1>1, Inductive, PTL

\* A tick that overlaps the end of an inspection commands one move at most, and
\* no other follows before the next start().
THEOREM OneLateMove == Spec => []AtMostOneLateMove
<1>1. IInv => AtMostOneLateMove
  BY DEF IInv, MovedLateOnce, AtMostOneLateMove
<1>2. QED
  BY <1>1, Inductive, PTL
-----------------------------------------------------------------------------
(* Handlers that do not overlap                                               *)

\* At most one of the threads is in a handler.
HandlersAlone == ePc = "idle" \/ rPc = "idle"

Starting == ePc \in {"start_state", "start_times", "start_cooled", "start_count"}
Completing == rPc \in {"complete_state", "complete_publish", "stop_ai"}

\* An inspection that is over stands, or is about to be stopped; a tick is one
\* of an active inspection, and what a completion does it does to one that is over.
EndsStanding ==
  /\ ~active => cmd = "stop" \/ Stopping \/ rPc \in {"complete_state", "complete_publish"}
  /\ Ticking => active
  /\ Completing => ~active

\* The count is that of this inspection.
CountsThisOne ==
  /\ Starting => counted = 0
  /\ ~Starting => count = counted
  /\ rPc = "store" => loaded = count
  /\ rPc = "complete" \/ completions > 0 => counted >= Needed

AloneInv == EndsStanding /\ CountsThisOne

LEMMA ExecutorAlone ==
  ASSUME IInv, AloneInv, HandlersAlone, HandlersAlone', Executor
  PROVE  AloneInv'
<1> USE DEF AloneInv, EndsStanding, CountsThisOne, HandlersAlone, Starting, Completing,
     Stopping, Ticking, TickSteps, StartSteps, shared, history, Publish, ExecutorUnchanged
<1>0. counted \in Nat /\ completions \in Nat /\ Needed \in Nat \ {0}
  BY NeededPositive DEF IInv, TypeOK
<1>1. CASE Tick \/ TickAge \/ TickFront \/ UpdateLidar
  BY <1>1 DEF Tick, TickAge, TickFront, UpdateLidar
<1>2. CASE TickPublish
  BY <1>2 DEF TickPublish
<1>3. ASSUME NEW on \in BOOLEAN, OnAlgorithmIds(on) \/ OnAiEnable(on) PROVE AloneInv'
  <2>1. ePc = "idle" /\ ePc' \in {"idle", "start", "stop"} /\ UNCHANGED <<shared, rPc, loaded, history>>
    BY <1>3 DEF OnAlgorithmIds, OnAiEnable
  <2>2. QED
    BY <2>1
<1>4. CASE StartTest \/ StartState \/ StartTimes \/ StartCooled
  BY <1>4 DEF StartTest, StartState, StartTimes, StartCooled
<1>5. CASE StartActive
  BY <1>0, <1>5 DEF StartActive
<1>6. CASE StartCount
  <2>1. counted = 0
    BY <1>6 DEF StartCount
  <2>2. QED
    BY <1>6, <2>1 DEF StartCount
<1>7. CASE StopTest \/ StopIdle \/ StopActive
  BY <1>7 DEF StopTest, StopIdle, StopActive
<1>8. CASE StopState \/ StopPublish
  BY <1>8 DEF StopState, StopPublish
<1>9. QED
  BY <1>1, <1>2, <1>3, <1>4, <1>5, <1>6, <1>7, <1>8 DEF Executor

LEMMA ResultAlone ==
  ASSUME IInv, AloneInv, HandlersAlone, HandlersAlone', ResultThread
  PROVE  AloneInv'
<1> USE DEF AloneInv, EndsStanding, CountsThisOne, HandlersAlone, Starting, Completing,
     Stopping, Ticking, TickSteps, StartSteps, shared, history, Publish, ResultUnchanged
<1>0. counted \in Nat /\ completions \in Nat /\ Needed \in Nat \ {0}
  BY NeededPositive DEF IInv, TypeOK
<1>1. CASE HandleResult \/ Cooldown \/ NoteCounted \/ LoadCount
  BY <1>1 DEF HandleResult, Cooldown, NoteCounted, LoadCount
<1>2. CASE StoreCount
  <2>1. completions = 0
    BY <1>2 DEF StoreCount, IInv, CompletedOnce, Counting
  <2>2. QED
    BY <1>2, <2>1 DEF StoreCount
<1>3. CASE CheckCount \/ CompleteActive
  BY <1>0, <1>3 DEF CheckCount, CompleteActive
<1>4. CASE CompleteState \/ CompletePublish \/ StopAi
  BY <1>4 DEF CompleteState, CompletePublish, StopAi
<1>5. QED
  BY <1>1, <1>2, <1>3, <1>4 DEF ResultThread

LEMMA StepAlone ==
  ASSUME IInv, AloneInv, HandlersAlone, HandlersAlone', [Next]_vars
  PROVE  AloneInv'
<1>1. CASE CommandAges \/ CountAges \/ SearchStopsAi \/ UNCHANGED vars
  BY <1>1 DEF CommandAges, CountAges, SearchStopsAi, ResultUnchanged, vars, shared, history, AloneInv, EndsStanding,
     CountsThisOne, Starting, Completing, Stopping, Ticking
<1>2. QED
  BY <1>1, ExecutorAlone, ResultAlone DEF Next

\* What the code says of the end of an inspection, and what fails when its two
\* threads overlap, holds as long as they do not: when it is over the car stands, and
\* it completes only after enough results of its own.  This is what a lock around the
\* handlers of inspection_controller.py would give.
THEOREM AloneItKeepsItsWord ==
  Spec /\ []HandlersAlone => [](StopsAfterEnoughResults /\ CompletesOnlyAfterEnough)
<1>1. Init => AloneInv
  BY DEF Init, AloneInv, EndsStanding, CountsThisOne, Starting, Completing, Stopping,
     Ticking, TickSteps, StartSteps
<1>2. IInv /\ AloneInv /\ HandlersAlone /\ HandlersAlone' /\ [Next]_vars => AloneInv'
  BY StepAlone
<1>3. AloneInv => StopsAfterEnoughResults /\ CompletesOnlyAfterEnough
  BY DEF AloneInv, EndsStanding, CountsThisOne, Starting, Stopping, Quiet,
     StopsAfterEnoughResults, CompletesOnlyAfterEnough
<1>4. QED
  BY <1>1, <1>2, <1>3, Inductive, PTL DEF Spec
=============================================================================
