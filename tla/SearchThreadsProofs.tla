--------------------------- MODULE SearchThreadsProofs ---------------------------
(***************************************************************************)
(* What holds of SearchThreads however the steps of its two threads interleave, *)
(* and of SensorBuffer for every scan and every setting of the lidar.          *)
(*                                                                         *)
(* A move after the end of a search needs a thread that was on its way to one   *)
(* when the search ended, and the thread that ended it was not (MovesLate).     *)
(* While handlers do not overlap, where the busy thread is tells what the two   *)
(* flags and the last command are (InPhase).                                 *)
(***************************************************************************)
EXTENDS SearchThreads, SequenceTheorems, WellFoundedInduction, TLAPS

Stopping == {"servo_test", "servo_stop", "servo_off", "servo_idle"}

ExecutorLabels ==
  {"idle", "start", "servo_on", "servo_state", "stop", "tick_servo", "tick", "move", "halt"}
  \union Stopping

ResultLabels ==
  {"offline", "idle", "verdict", "servo_check", "servo_handle", "arrived_stop", "stop_ai",
   "stop", "move", "halt"} \union Stopping

\* Where the threads can be, and what they share.
ControlOK ==
  /\ pc \in [Threads -> Labels]
  /\ pc["executor"] \in ExecutorLabels /\ pc["results"] \in ResultLabels
  /\ servoState \in ServoStates /\ cmd \in {"stop", "move"} /\ back \in {"idle", "stop_ai"}
  /\ late \in Nat /\ scan \in Scans

FlagsOK ==
  searchActive \in BOOLEAN /\ servoActive \in BOOLEAN /\ clean \in BOOLEAN

\* On the way to a move, or to the decision whether to make one.
Moving(t) ==
  pc[t] \in {"tick_servo", "tick", "move", "verdict", "servo_check", "servo_handle"}

MovesLate ==
  /\ searchActive => late = 0
  /\ ~searchActive => \/ late = 0 /\ ~(Moving("executor") /\ Moving("results"))
                      \/ late = 1 /\ ~Moving("executor") /\ ~Moving("results")

IInv == ControlOK /\ FlagsOK /\ MovesLate
-----------------------------------------------------------------------------
LEMMA TwoThreads == Threads = {"executor", "results"}
BY DEF Threads

LEMMA InitIInv == Init => IInv
<1> SUFFICES ASSUME Init PROVE IInv
  OBVIOUS
<1>1. FlagsOK
  BY Zenon DEF Init, FlagsOK
<1>2. ControlOK /\ MovesLate
  BY ThreadsAssumption DEF Init, ControlOK, MovesLate, Moving, Threads, Labels, ExecutorLabels, ResultLabels,
     ServoStates
<1>3. QED
  BY <1>1, <1>2 DEF IInv

\* The steps both threads have.
LEMMA CommonIInv ==
  ASSUME IInv, NEW t \in Threads, Halt(t) \/ Move(t) \/ Stop(t) \/ StopServo(t)
  PROVE  IInv'
<1> USE TwoThreads DEF IInv, ControlOK, MovesLate, Moving, Labels, ExecutorLabels, ResultLabels, Stopping,
     ServoStates, Step, Quietly, controllers, AfterServo
<1>1. CASE Halt(t)
  BY <1>1 DEF Halt, FlagsOK
<1>2. CASE Move(t)
  BY <1>2 DEF Move, FlagsOK
<1>3. CASE Stop(t)
  <2>1. FlagsOK'
    BY <1>3, Zenon DEF Stop, FlagsOK
  <2>2. QED
    BY <1>3, <2>1 DEF Stop
<1>4. CASE StopServo(t)
  <2>1. FlagsOK'
    BY <1>4, Zenon DEF StopServo, ServoTest, ServoStop, ServoOff, ServoIdle, FlagsOK
  <2>2. QED
    BY <1>4, <2>1 DEF StopServo, ServoTest, ServoStop, ServoOff, ServoIdle
<1>5. QED
  BY <1>1, <1>2, <1>3, <1>4

\* The steps of the executor.
LEMMA ExecutorIInv == IInv /\ Executor => IInv'
<1> SUFFICES ASSUME IInv, Executor PROVE IInv'
  OBVIOUS
<1> USE TwoThreads DEF IInv, ControlOK, MovesLate, Moving, Labels, ExecutorLabels, ResultLabels, Stopping,
     ServoStates, Step, Quietly, controllers, Overlapping
<1>1. ASSUME NEW similarity \in BOOLEAN, OnAlgorithmIds(similarity) PROVE IInv'
  <2>1. FlagsOK'
    BY <1>1, Zenon DEF OnAlgorithmIds, FlagsOK
  <2>2. QED
    BY <1>1, <2>1 DEF OnAlgorithmIds
<1>2. CASE Start
  <2>1. FlagsOK'
    BY <1>2, Zenon DEF Start, FlagsOK
  <2>2. QED
    BY <1>2, <2>1 DEF Start
<1>3. CASE ServoOn \/ ServoState
  <2>1. FlagsOK'
    BY <1>3, Zenon DEF ServoOn, ServoState, FlagsOK
  <2>2. QED
    BY <1>3, <2>1 DEF ServoOn, ServoState
<1>4. CASE UpdateLidar
  BY <1>4 DEF UpdateLidar, FlagsOK
<1>5. CASE Tick
  <2>1. FlagsOK'
    BY <1>5, Zenon DEF Tick, FlagsOK
  <2>2. QED
    BY <1>5, <2>1 DEF Tick
<1>6. CASE TickServo \/ TickState
  BY <1>6 DEF TickServo, TickState, FlagsOK
<1>7. QED
  BY <1>1, <1>2, <1>3, <1>4, <1>5, <1>6 DEF Executor

\* The steps of the result thread.
LEMMA ResultsIInv == IInv /\ Results => IInv'
<1> SUFFICES ASSUME IInv, Results PROVE IInv'
  OBVIOUS
<1> USE TwoThreads DEF IInv, ControlOK, MovesLate, Moving, Labels, ExecutorLabels, ResultLabels, Stopping,
     ServoStates, Step, Quietly, controllers, Overlapping
<1>1. CASE Connect \/ Disconnect
  BY <1>1 DEF Connect, Disconnect, FlagsOK
<1>2. CASE HandleCloudResult
  <2>1. FlagsOK'
    BY <1>2, Zenon DEF HandleCloudResult, FlagsOK
  <2>2. QED
    BY <1>2, <2>1 DEF HandleCloudResult
<1>3. CASE Verdict \/ ServoCheck \/ ServoHandle
  BY <1>3 DEF Verdict, ServoCheck, ServoHandle, FlagsOK
<1>4. CASE ArrivedStop \/ StopAi
  <2>1. FlagsOK'
    BY <1>4, Zenon DEF ArrivedStop, StopAi, FlagsOK
  <2>2. QED
    BY <1>4, <2>1 DEF ArrivedStop, StopAi
<1>5. QED
  BY <1>1, <1>2, <1>3, <1>4 DEF Results

LEMMA StepIInv == IInv /\ [Next]_vars => IInv'
<1> SUFFICES ASSUME IInv, [Next]_vars PROVE IInv'
  OBVIOUS
<1>1. CASE UNCHANGED vars
  BY <1>1 DEF vars, controllers, IInv, ControlOK, FlagsOK, MovesLate, Moving
<1>2. QED
  BY <1>1, CommonIInv, ExecutorIInv, ResultsIInv DEF Next

LEMMA Inductive == Spec => []IInv
BY InitIInv, StepIInv, PTL DEF Spec
-----------------------------------------------------------------------------
(* While handlers do not overlap                                              *)

Agrees == (searchActive <=> servoActive) /\ (~searchActive => cmd = "stop")

\* The result thread stops the servo first, and the search afterwards.
First(t) == t = "results" /\ back = "stop_ai"

\* What a thread knows where it is, when no other is in a handler.
InPhase(t) ==
  /\ pc[t] = "start" => Agrees
  /\ pc[t] = "stop" => Agrees \/ (searchActive /\ cmd = "stop")
  /\ pc[t] = "servo_on" => searchActive
  /\ pc[t] \in {"servo_state", "halt", "arrived_stop"} \/ Moving(t) => searchActive /\ servoActive
  /\ pc[t] = "servo_test" =>
       IF First(t) THEN searchActive /\ servoActive ELSE ~searchActive /\ (servoActive \/ cmd = "stop")
  /\ pc[t] \in {"servo_stop", "servo_off", "servo_idle"} => (searchActive <=> First(t))
  /\ pc[t] \in {"servo_off", "servo_idle"} => cmd = "stop"
  /\ pc[t] = "servo_idle" => ~servoActive
  /\ pc[t] = "stop_ai" => searchActive /\ cmd = "stop"

CleanOK ==
  clean =>
    /\ ~(Busy("executor") /\ Busy("results"))
    /\ \A t \in Threads : Busy(t) => InPhase(t)
    /\ Quiet => Agrees

LEMMA InitClean == Init => CleanOK
BY DEF Init, CleanOK

LEMMA CommonClean ==
  ASSUME IInv, CleanOK, NEW t \in Threads, Halt(t) \/ Move(t) \/ Stop(t) \/ StopServo(t)
  PROVE  CleanOK'
<1> USE TwoThreads DEF IInv, ControlOK, CleanOK, InPhase, First, Busy, Quiet, Agrees, Moving, Labels,
     ExecutorLabels, ResultLabels, Stopping, Step, Quietly, controllers, AfterServo
<1>1. CASE Halt(t)
  BY <1>1 DEF Halt
<1>2. CASE Move(t)
  BY <1>2 DEF Move
<1>3. CASE Stop(t)
  BY <1>3 DEF Stop
<1>4. CASE ServoTest(t)
  BY <1>4 DEF ServoTest
<1>5. CASE ServoStop(t)
  BY <1>5 DEF ServoStop
<1>6. CASE ServoOff(t)
  BY <1>6 DEF ServoOff
<1>7. CASE ServoIdle(t)
  BY <1>7 DEF ServoIdle
<1>8. QED
  BY <1>1, <1>2, <1>3, <1>4, <1>5, <1>6, <1>7 DEF StopServo

LEMMA ExecutorClean == IInv /\ CleanOK /\ Executor => CleanOK'
<1> SUFFICES ASSUME IInv, CleanOK, Executor PROVE CleanOK'
  OBVIOUS
<1> USE TwoThreads DEF IInv, ControlOK, CleanOK, InPhase, First, Busy, Quiet, Agrees, Moving, Labels,
     ExecutorLabels, ResultLabels, Stopping, Step, Quietly, controllers
\* A handler that begins alone finds what the last one left.
<1>a. ASSUME NEW t \in Threads, Overlapping(t), clean' PROVE clean /\ \A u \in Threads \ {t} : ~Busy(u)
  BY <1>a, Zenon DEF Overlapping
<1>1. ASSUME NEW similarity \in BOOLEAN, OnAlgorithmIds(similarity) PROVE CleanOK'
  <2>1. CASE clean'
    <3>1. clean /\ ~Busy("results")
      BY <1>1, <1>a, <2>1 DEF OnAlgorithmIds
    <3>2. QED
      BY <1>1, <3>1 DEF OnAlgorithmIds
  <2>2. QED
    BY <2>1
<1>2. CASE Start
  <2>1. CASE searchActive
    BY <1>2, <2>1 DEF Start
  <2>2. CASE ~searchActive /\ clean'
    <3>1. ~Busy("results")
      BY <1>2, <2>2, Zenon DEF Start
    <3>2. searchActive' = TRUE /\ pc' = [pc EXCEPT !["executor"] = "servo_on"]
      BY <1>2, <2>2 DEF Start
    <3>3. searchActive'
      BY <3>2, Zenon
    <3>4. QED
      BY <3>1, <3>2, <3>3
  <2>3. QED
    BY <2>1, <2>2
<1>3. CASE ServoOn
  <2>1. servoActive'
    BY <1>3, Zenon DEF ServoOn
  <2>2. QED
    BY <1>3, <2>1 DEF ServoOn
<1>4. CASE ServoState
  BY <1>4 DEF ServoState
<1>5. CASE UpdateLidar
  BY <1>5 DEF UpdateLidar
<1>6. CASE Tick
  <2>1. CASE clean'
    <3>1. clean /\ ~Busy("results")
      BY <1>6, <1>a, <2>1 DEF Tick
    <3>2. QED
      BY <1>6, <3>1 DEF Tick
  <2>2. QED
    BY <2>1
<1>7. CASE TickServo
  BY <1>7 DEF TickServo
<1>8. CASE TickState
  BY <1>8 DEF TickState
<1>9. QED
  BY <1>1, <1>2, <1>3, <1>4, <1>5, <1>6, <1>7, <1>8 DEF Executor

LEMMA ResultsClean == IInv /\ CleanOK /\ Results => CleanOK'
<1> SUFFICES ASSUME IInv, CleanOK, Results PROVE CleanOK'
  OBVIOUS
<1> USE TwoThreads DEF IInv, ControlOK, CleanOK, InPhase, First, Busy, Quiet, Agrees, Moving, Labels,
     ExecutorLabels, ResultLabels, Stopping, Step, Quietly, controllers
<1>1. CASE Connect \/ Disconnect
  <2>1. PICK label \in {"idle", "offline"} : pc' = [pc EXCEPT !["results"] = label]
    BY <1>1 DEF Connect, Disconnect
  <2>2. UNCHANGED <<searchActive, servoActive, cmd, back, clean>> /\ ~Busy("results")
    BY <1>1 DEF Connect, Disconnect
  <2>3. ~Busy("results")' /\ pc'["executor"] = pc["executor"]
    BY <2>1
  <2>4. QED
    BY <2>2, <2>3
<1>2. CASE HandleCloudResult
  <2>1. CASE clean'
    <3>1. clean /\ ~Busy("executor")
      BY <1>2, <2>1, Zenon DEF HandleCloudResult, Overlapping
    <3>2. QED
      BY <1>2, <3>1 DEF HandleCloudResult
  <2>2. QED
    BY <2>1
<1>3. CASE Verdict
  BY <1>3 DEF Verdict
<1>4. CASE ServoCheck
  BY <1>4 DEF ServoCheck
<1>5. CASE ServoHandle
  BY <1>5 DEF ServoHandle
<1>6. CASE ArrivedStop
  BY <1>6 DEF ArrivedStop
<1>7. CASE StopAi
  BY <1>7 DEF StopAi
<1>8. QED
  BY <1>1, <1>2, <1>3, <1>4, <1>5, <1>6, <1>7 DEF Results

LEMMA StepClean == IInv /\ CleanOK /\ [Next]_vars => CleanOK'
<1> SUFFICES ASSUME IInv, CleanOK, [Next]_vars PROVE CleanOK'
  OBVIOUS
<1>1. CASE UNCHANGED vars
  BY <1>1 DEF vars, controllers, CleanOK, InPhase, First, Busy, Quiet, Agrees, Moving
<1>2. QED
  BY <1>1, CommonClean, ExecutorClean, ResultsClean DEF Next

LEMMA InductiveClean == Spec => [](IInv /\ CleanOK)
BY InitIInv, InitClean, StepIInv, StepClean, PTL DEF Spec
-----------------------------------------------------------------------------
\* Every variable has its type.
THEOREM TypeCorrect == Spec => []TypeOK
<1>1. IInv => TypeOK
  BY DEF IInv, ControlOK, FlagsOK, TypeOK
<1>2. QED
  BY <1>1, Inductive, PTL

\* After the end of a search at most one move more is commanded.
THEOREM OneLateMove == Spec => []AtMostOneLateMove
<1>1. IInv => AtMostOneLateMove
  BY DEF IInv, MovesLate, AtMostOneLateMove
<1>2. QED
  BY <1>1, Inductive, PTL

\* Without overlaps the flags agree, and a search that is over leaves a car that stands.
THEOREM CleanSearchesAgree == Spec => []CleanSearchAgrees
<1>1. CleanOK => CleanSearchAgrees
  BY DEF CleanOK, Agrees, CleanSearchAgrees
<1>2. QED
  BY <1>1, InductiveClean, PTL
-----------------------------------------------------------------------------
(* The distance ahead                                                         *)

\* Dividing with a rest.
LEMMA Division ==
  ASSUME NEW n \in Nat, NEW d \in Nat \ {0}
  PROVE  /\ n \div d \in Nat /\ n % d \in 0..d - 1
         /\ n = d * (n \div d) + (n % d)
OBVIOUS

\* A set of integers that has a lower bound has a least element, which Min names.
LEMMA Least ==
  ASSUME NEW S, S \subseteq Int, S # {}, NEW low \in Int, \A x \in S : low <= x
  PROVE  Min(S) \in S /\ \A y \in S : Min(S) <= y
<1> DEFINE T == {x - low : x \in S}
           R == {p \in Nat \X Nat : p[1] < p[2]}
<1>1. T \subseteq Nat /\ T # {}
  <2>1. ASSUME NEW x \in S PROVE x - low \in Nat
    <3>1. x \in Int /\ low <= x
      OBVIOUS
    <3>2. QED
      BY <3>1
  <2>2. PICK x \in S : TRUE
    OBVIOUS
  <2>3. QED
    BY <2>1, <2>2
<1>2. IsWellFoundedOn(R, Nat)
  BY NatLessThanWellFounded, Zenon DEF OpToRel
<1>3. PICK m \in T : \A y \in T : ~(<<y, m>> \in R)
  <2> HIDE DEF T, R
  <2>1. QED
    BY <1>1, <1>2, WFMin
<1>4. PICK x \in S : m = x - low
  OBVIOUS
<1>5. ASSUME NEW y \in S PROVE x <= y
  <2>1. y - low \in T /\ y - low \in Nat /\ m \in Nat
    BY <1>1
  <2>2. ~(y - low < m)
    BY <1>3, <2>1
  <2>3. x \in Int /\ y \in Int /\ m = x - low
    BY <1>4
  <2> HIDE DEF T, R
  <2>4. QED
    BY <2>2, <2>3
<1>6. QED
  BY <1>5 DEF Min

LEMMA Greatest ==
  ASSUME NEW S, S \subseteq Int, S # {}, NEW high \in Int, \A x \in S : x <= high
  PROVE  Max(S) \in S /\ \A y \in S : y <= Max(S)
<1> DEFINE N == {-x : x \in S}
<1>1. N \subseteq Int /\ N # {}
  <2>1. PICK x \in S : TRUE
    OBVIOUS
  <2>2. QED
    BY <2>1
<1>2. \A y \in N : -high <= y
  <2>1. ASSUME NEW x \in S PROVE -high <= -x
    <3>1. x \in Int /\ x <= high
      OBVIOUS
    <3>2. QED
      BY <3>1
  <2>2. QED
    BY <2>1
<1>3. PICK m \in N : \A y \in N : m <= y
  <2> HIDE DEF N
  <2>1. -high \in Int
    OBVIOUS
  <2>2. QED
    BY <1>1, <1>2, <2>1, Least
<1>4. PICK x \in S : m = -x
  OBVIOUS
<1>5. ASSUME NEW y \in S PROVE y <= x
  <2>1. -y \in N /\ y \in Int /\ x \in Int
    OBVIOUS
  <2>2. m <= -y
    BY <1>3, <2>1
  <2>3. m = -x
    BY <1>4
  <2> HIDE DEF N
  <2>4. QED
    BY <2>1, <2>2, <2>3
<1>6. \A y \in S : x >= y
  <2>1. \A y \in S : y \in Int /\ x \in Int
    OBVIOUS
  <2>2. QED
    BY <1>5, <2>1
<1>7. PICK top \in S : top = Max(S) /\ \A y \in S : top >= y
  BY <1>6 DEF Max
<1>8. \A y \in S : y \in Int /\ top \in Int
  OBVIOUS
<1>9. QED
  BY <1>7, <1>8

Readings == Int \union {None}

LEMMA StepPositive ==
  ASSUME NEW s \in Seq(Readings)
  PROVE  StepOf(s) \in Nat \ {0} /\ Len(s) \in Nat
<1>1. Len(s) \in Nat
  BY LenProperties
<1>2. CASE MaxRanges > 0 /\ Len(s) > MaxRanges
  <2>1. MaxRanges \in Nat \ {0}
    BY <1>2, SensorAssumption
  <2>2. Len(s) \div MaxRanges \in Nat /\ Len(s) = MaxRanges * (Len(s) \div MaxRanges) + (Len(s) % MaxRanges)
        /\ Len(s) % MaxRanges \in 0..MaxRanges - 1
    BY <1>1, <2>1, Division
  <2>3. Len(s) \div MaxRanges # 0
    <3>1. SUFFICES ASSUME Len(s) \div MaxRanges = 0 PROVE FALSE
      OBVIOUS
    <3>2. MaxRanges * (Len(s) \div MaxRanges) = 0
      BY <2>1, <3>1
    <3>3. QED
      BY <1>1, <1>2, <2>1, <2>2, <3>2
  <2>4. QED
    BY <1>1, <1>2, <2>2, <2>3 DEF StepOf
<1>3. CASE ~(MaxRanges > 0 /\ Len(s) > MaxRanges)
  BY <1>1, <1>3 DEF StepOf
<1>4. QED
  BY <1>2, <1>3

\* A kept reading is one of the message's, at the angle the buffer gives it.
LEMMA KeptReadings ==
  ASSUME NEW s \in Seq(Readings), NEW i \in DOMAIN Kept(s)
  PROVE  /\ (i - 1) * StepOf(s) + 1 \in 1..Len(s)
         /\ Kept(s)[i] = s[(i - 1) * StepOf(s) + 1]
         /\ AngleMin + (i - 1) * KeptIncrement(s)
              = AngleMin + (((i - 1) * StepOf(s) + 1) - 1) * Increment
<1> DEFINE d == StepOf(s)
           n == Len(s)
           q == (n - 1) \div d
<1>1. d \in Nat \ {0} /\ n \in Nat
  BY StepPositive
<1>2. DOMAIN Kept(s) = 1..q + 1
  BY DEF Kept
<1>3. Kept(s)[i] = s[(i - 1) * d + 1]
  BY DEF Kept
<1>4. n # 0
  <2>1. SUFFICES ASSUME n = 0 PROVE FALSE
    OBVIOUS
  <2>2. d = 1
    BY <1>1, <2>1, SensorAssumption DEF StepOf
  <2>3. q + 1 = 0
    BY <1>1, <2>1, <2>2
  <2>4. QED
    BY <1>2, <2>3
<1> HIDE DEF d
<1>5. n - 1 \in Nat /\ q \in Nat /\ n - 1 = d * q + ((n - 1) % d) /\ (n - 1) % d \in 0..d - 1
  <2>1. n - 1 \in Nat
    BY <1>1, <1>4
  <2>2. QED
    BY <1>1, <2>1, Division
<1>6. i - 1 \in Nat /\ i - 1 <= q
  BY <1>2, <1>5
<1>7. (i - 1) * d \in Nat /\ (i - 1) * d <= d * q /\ d * q \in Nat
  BY <1>1, <1>5, <1>6, SMT
<1>8. (i - 1) * d <= n - 1
  BY <1>1, <1>5, <1>7
<1>9. (i - 1) * d + 1 \in 1..n
  BY <1>1, <1>7, <1>8
<1>10. (i - 1) * (Increment * d) = (((i - 1) * d + 1) - 1) * Increment
  BY <1>1, <1>6, SensorAssumption, SMT
<1>11. QED
  BY <1>3, <1>9, <1>10 DEF d, KeptIncrement
\* The distance ahead is the least of the readings that count.
LEMMA FrontLeast ==
  ASSUME NEW s \in Seq(Readings), FrontBeams(s) # {}
  PROVE  /\ FrontDistance(s) \in {Kept(s)[i] : i \in FrontBeams(s)} /\ FrontDistance(s) \in Int
         /\ \A i \in FrontBeams(s) : FrontDistance(s) <= Kept(s)[i]
<1> DEFINE B == FrontBeams(s)
           S == {Kept(s)[i] : i \in B}
<1>1. B # {} /\ S # {}
  OBVIOUS
<1>2. ASSUME NEW i \in B PROVE Kept(s)[i] \in Int /\ RangeMin <= Kept(s)[i]
  <2>1. i \in DOMAIN Kept(s) /\ Valid(Kept(s)[i])
    BY DEF FrontBeams
  <2>2. (i - 1) * StepOf(s) + 1 \in 1..Len(s) /\ Kept(s)[i] = s[(i - 1) * StepOf(s) + 1]
    BY <2>1, KeptReadings
  <2>3. Kept(s)[i] \in Readings
    BY <2>2, ElementOfSeq
  <2>4. QED
    BY <2>1, <2>3 DEF Valid, Readings
<1>3. S \subseteq Int /\ \A x \in S : RangeMin <= x
  BY <1>2
<1>4. FrontDistance(s) = Min(S)
  BY DEF FrontDistance
<1>5. RangeMin \in Int
  BY SensorAssumption
<1>6. Min(S) \in S /\ \A y \in S : Min(S) <= y
  <2> HIDE DEF S
  <2>1. QED
    BY <1>1, <1>3, <1>5, Least
<1>7. \A i \in B : Kept(s)[i] \in S
  OBVIOUS
<1>8. QED
  BY <1>3, <1>4, <1>6, <1>7

LEMMA FrontSeen ==
  ASSUME NEW s \in Seq(Readings), FrontDistance(s) # None
  PROVE  FrontDistance(s) \in Seen(s)
<1>1. FrontBeams(s) # {}
  BY DEF FrontDistance
<1>2. PICK i \in FrontBeams(s) : FrontDistance(s) = Kept(s)[i]
  BY <1>1, FrontLeast
<1>3. /\ i \in DOMAIN Kept(s) /\ Valid(Kept(s)[i])
      /\ Ahead(AngleMin + (i - 1) * KeptIncrement(s))
  BY DEF FrontBeams
<1>4. PICK j : /\ j \in 1..Len(s) /\ Kept(s)[i] = s[j]
               /\ Ahead(AngleMin + (j - 1) * Increment)
  <2> DEFINE j == (i - 1) * StepOf(s) + 1
  <2>1. /\ j \in 1..Len(s) /\ Kept(s)[i] = s[j]
        /\ AngleMin + (i - 1) * KeptIncrement(s) = AngleMin + (j - 1) * Increment
    BY <1>3, KeptReadings, Zenon
  <2>2. Ahead(AngleMin + (j - 1) * Increment)
    BY <1>3, <2>1, Zenon
  <2>3. QED
    BY <2>1, <2>2, Zenon
<1>5. j \in DOMAIN s
  BY <1>4, LenProperties
<1>6. QED
  BY <1>2, <1>3, <1>4, <1>5 DEF Seen

\* Of as many neighbouring beams as one is kept of, one is kept.
LEMMA OneOfEvery ==
  ASSUME NEW s \in Seq(Readings), NEW k \in 1..Len(s) - StepOf(s) + 1
  PROVE  \E i \in DOMAIN Kept(s) : (i - 1) * StepOf(s) + 1 \in k..k + StepOf(s) - 1
<1> DEFINE d == StepOf(s)
           n == Len(s)
           p == (k - 1 + (d - 1)) \div d
           q == (n - 1) \div d
<1>1. d \in Nat \ {0} /\ n \in Nat
  BY StepPositive
<1> HIDE DEF d, n
<1>2. k - 1 \in Nat /\ k - 1 + (d - 1) \in Nat /\ k - 1 + d <= n /\ n - 1 \in Nat
  <2>1. k \in 1..n - d + 1
    BY DEF d, n
  <2>2. QED
    BY <1>1, <2>1
<1>3. /\ p \in Nat /\ k - 1 + (d - 1) = d * p + ((k - 1 + (d - 1)) % d)
      /\ (k - 1 + (d - 1)) % d \in 0..d - 1
  BY <1>1, <1>2, Division
<1>4. /\ q \in Nat /\ n - 1 = d * q + ((n - 1) % d) /\ (n - 1) % d \in 0..d - 1
  BY <1>1, <1>2, Division
<1> HIDE DEF p, q
<1>5. d * p \in Nat /\ d * q \in Nat /\ k - 1 <= d * p /\ d * p <= k - 1 + (d - 1)
  <2>1. d * p \in Nat /\ d * q \in Nat
    BY <1>1, <1>3, <1>4, SMT
  <2>2. QED
    BY <1>1, <1>2, <1>3, <2>1
<1>6. p <= q
  <2>1. SUFFICES ASSUME q + 1 <= p PROVE FALSE
    BY <1>3, <1>4
  <2>2. d * (q + 1) <= d * p
    BY <1>1, <1>3, <1>4, <2>1, SMT
  <2>3. d * (q + 1) = d * q + d
    BY <1>1, <1>4, SMT
  <2>4. d * p <= n - 1 /\ n - 1 <= d * q + (d - 1)
    BY <1>1, <1>2, <1>4, <1>5
  <2>5. QED
    BY <1>1, <1>2, <1>5, <2>2, <2>3, <2>4
<1>7. p + 1 \in DOMAIN Kept(s)
  <2>1. DOMAIN Kept(s) = 1..q + 1
    BY DEF Kept, q, d, n
  <2>2. QED
    BY <1>3, <1>4, <1>6, <2>1
<1>8. ((p + 1) - 1) * d = d * p
  BY <1>1, <1>3, SMT
<1>9. ((p + 1) - 1) * d + 1 \in k..k + d - 1
  BY <1>1, <1>2, <1>5, <1>8
<1>10. ((p + 1) - 1) * StepOf(s) + 1 \in k..k + StepOf(s) - 1
  BY <1>9 DEF d
<1>11. WITNESS p + 1 \in DOMAIN Kept(s)
<1>12. QED
  BY <1>10

LEMMA WideSeen ==
  ASSUME NEW s \in Seq(Readings), NEW distance \in Obstacles(s)
  PROVE  FrontDistance(s) # None /\ FrontDistance(s) <= distance
<1> DEFINE d == StepOf(s)
<1>1. d \in Nat \ {0} /\ Len(s) \in Nat
  BY StepPositive
<1>2. PICK k \in 1..Len(s) - d + 1 :
        /\ \A j \in k..k + d - 1 : Valid(s[j]) /\ Ahead(AngleMin + (j - 1) * Increment)
        /\ distance = Max({s[j] : j \in k..k + d - 1})
  BY DEF Obstacles
<1> DEFINE W == {s[j] : j \in k..k + d - 1}
<1>3. PICK i \in DOMAIN Kept(s) : (i - 1) * d + 1 \in k..k + d - 1
  BY OneOfEvery
<1>4. PICK j : /\ j \in 1..Len(s) /\ Kept(s)[i] = s[j] /\ j \in k..k + d - 1
               /\ AngleMin + (i - 1) * KeptIncrement(s) = AngleMin + (j - 1) * Increment
  <2> DEFINE j == (i - 1) * StepOf(s) + 1
  <2>1. /\ j \in 1..Len(s) /\ Kept(s)[i] = s[j]
        /\ AngleMin + (i - 1) * KeptIncrement(s) = AngleMin + (j - 1) * Increment
    BY <1>3, KeptReadings, Zenon
  <2>2. j \in k..k + d - 1
    BY <1>3, Zenon
  <2>3. QED
    BY <2>1, <2>2, Zenon
<1>5. i \in FrontBeams(s)
  BY <1>2, <1>4 DEF FrontBeams
<1> HIDE DEF d
<1>6. W \subseteq Int /\ W # {} /\ \A x \in W : x <= RangeMax
  <2>1. ASSUME NEW m \in k..k + d - 1 PROVE s[m] \in Int /\ s[m] <= RangeMax
    <3>1. m \in 1..Len(s)
      BY <1>1, <1>2
    <3>2. s[m] \in Readings
      BY <3>1, ElementOfSeq
    <3>3. QED
      BY <1>2, <3>2 DEF Valid, Readings
  <2>2. QED
    BY <1>4, <2>1
<1>7. \A y \in W : y <= Max(W)
  <2> HIDE DEF W
  <2>1. RangeMax \in Int
    BY SensorAssumption
  <2>2. QED
    BY <1>6, <2>1, Greatest
<1>8. s[j] <= distance /\ s[j] \in Int
  BY <1>2, <1>4, <1>6, <1>7
<1>9. FrontDistance(s) \in Int /\ FrontDistance(s) <= s[j]
  BY <1>4, <1>5, FrontLeast
<1>10. distance \in Int
  <2>1. Max(W) \in W
    <3> HIDE DEF W
    <3>1. RangeMax \in Int
      BY SensorAssumption
    <3>2. QED
      BY <1>6, <3>1, Greatest
  <2>2. QED
    BY <1>2, <1>6, <2>1
<1>11. QED
  BY <1>8, <1>9, <1>10, SensorAssumption

LEMMA ScansAreReadings == Spec => [](scan \in Seq(Readings))
<1>1. IInv => scan \in Seq(Readings)
  BY ThreadsAssumption DEF IInv, ControlOK, Readings
<1>2. QED
  BY <1>1, Inductive, PTL

\* However beams are thinned, the distance ahead is a reading of the message ahead.
THEOREM FrontsAreReadings == Spec => []FrontIsAReading
<1>1. scan \in Seq(Readings) => FrontIsAReading
  BY FrontSeen DEF FrontIsAReading
<1>2. QED
  BY <1>1, ScansAreReadings, PTL

\* For every scan and every thinning, no obstacle as wide as the thinning is missed.
THEOREM ThinningMissesNothingWide == Spec => []WideObstaclesAreSeen
<1>1. scan \in Seq(Readings) => WideObstaclesAreSeen
  BY WideSeen DEF WideObstaclesAreSeen
<1>2. QED
  BY <1>1, ScansAreReadings, PTL
=============================================================================
