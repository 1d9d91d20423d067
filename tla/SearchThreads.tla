------------------------------ MODULE SearchThreads ------------------------------
(***************************************************************************)
(* The similarity search as the threads of the edge node run it: SimilaritySearch *)
(* and VisualServo have its handlers as single actions, here the handlers of   *)
(* similarity_search_controller.py and motion_controller.py are cut where      *)
(* another thread can come in between, since no lock guards the controllers:    *)
(*   - the executor serves the timer, the lidar and the list of algorithms;     *)
(*   - the thread of cloud_result_client.py connects, receives results and       *)
(*     runs handle_cloud_result; whatever is raised drops its connection.       *)
(*                                                                         *)
(* What a handler finds due, matched or confirmed is left open.  Only step mode  *)
(* with motion enabled is modelled.  servoState merges the states of the servo   *)
(* in which it does the same: "turning" stands for the sweep, "pursuing" for     *)
(* what follows a match.                                                     *)
(***************************************************************************)
EXTENDS SensorBuffer

CONSTANTS
  SafetyStopDistance,   \* safety_stop_distance_m of the servo
  Scans                 \* the scans considered, the empty one for none yet

ASSUME ThreadsAssumption ==
  SafetyStopDistance \in Int /\ <<>> \in Scans /\ Scans \subseteq Seq(Int \union {None})

VARIABLES
  scan,           \* the last scan of the lidar
  searchActive,   \* the search controller's _active
  servoActive,    \* the servo's _active
  servoState,     \* the servo's _state, merged
  cmd,            \* the last velocity published
  pc,             \* where the two threads are
  back,           \* where the result thread goes on when it has stopped the servo
  clean,          \* history: no two handlers have overlapped since a start
  late            \* history: moves commanded since the search ended

controllers == <<searchActive, servoActive, servoState, cmd>>
vars == <<scan, controllers, pc, back, clean, late>>

Threads == {"executor", "results"}
ServoStates == {"idle", "waiting", "turning", "settling", "pursuing", "arrived"}
Labels == {"idle", "offline", "start", "servo_on", "servo_state",
           "stop", "servo_test", "servo_stop", "servo_off", "servo_idle",
           "tick_servo", "tick", "move", "halt",
           "verdict", "servo_check", "servo_handle", "arrived_stop", "stop_ai"}

Init ==
  /\ scan = <<>>
  /\ searchActive = FALSE /\ servoActive = FALSE /\ servoState = "idle" /\ cmd = "stop"
  /\ pc = [t \in Threads |-> IF t = "results" THEN "offline" ELSE "idle"] /\ back = "idle"
  /\ clean = FALSE /\ late = 0

Step(t, from, to) == pc[t] = from /\ pc' = [pc EXCEPT ![t] = to]

Busy(t) == pc[t] \notin {"idle", "offline"}

\* A handler that begins while the other thread is in one overlaps it.
Overlapping(t) == clean' = (clean /\ \A u \in Threads \ {t} : ~Busy(u))

Quietly == UNCHANGED <<scan, back, clean>>

TooClose == FrontDistance(scan) # None /\ FrontDistance(scan) <= SafetyStopDistance
-----------------------------------------------------------------------------
(* What both threads do                                                       *)

Halt(t) ==
  /\ Step(t, "halt", "idle")
  /\ cmd' = "stop"
  /\ UNCHANGED <<searchActive, servoActive, servoState, late>> /\ Quietly

Move(t) ==
  /\ Step(t, "move", "idle")
  /\ cmd' = "move"
  /\ late' = IF searchActive THEN late ELSE late + 1
  /\ UNCHANGED <<searchActive, servoActive, servoState>> /\ Quietly

AfterServo(t) == IF t = "results" THEN back ELSE "idle"

\* The test of the servo's stop; the log and the events that follow are left out.
ServoTest(t) ==
  /\ Step(t, "servo_test", IF servoActive \/ servoState # "idle" THEN "servo_stop"
                           ELSE AfterServo(t))
  /\ UNCHANGED <<controllers, late>> /\ Quietly

\* Fault: the stop is left to the next tick of the servo.
ServoStopUnpublished(t) ==
  /\ Step(t, "servo_stop", "servo_off")
  /\ UNCHANGED <<controllers, late>> /\ Quietly

ServoStop(t) ==
  /\ Step(t, "servo_stop", "servo_off")
  /\ cmd' = "stop"
  /\ UNCHANGED <<searchActive, servoActive, servoState, late>> /\ Quietly

ServoOff(t) ==
  /\ Step(t, "servo_off", "servo_idle")
  /\ servoActive' = FALSE
  /\ UNCHANGED <<searchActive, servoState, cmd, late>> /\ Quietly

ServoIdle(t) ==
  /\ Step(t, "servo_idle", AfterServo(t))
  /\ servoState' = "idle"
  /\ UNCHANGED <<searchActive, servoActive, cmd, late>> /\ Quietly

\* stop of the search: its test and its first assignment.
Stop(t) ==
  /\ \/ ~searchActive /\ Step(t, "stop", "idle") /\ UNCHANGED <<searchActive, back>>
     \/ /\ searchActive /\ Step(t, "stop", "servo_test")
        /\ searchActive' = FALSE
        /\ back' = IF t = "results" THEN "idle" ELSE back
  /\ UNCHANGED <<scan, servoActive, servoState, cmd, clean, late>>

StopServo(t) == ServoTest(t) \/ ServoStop(t) \/ ServoOff(t) \/ ServoIdle(t)
-----------------------------------------------------------------------------
(* The executor: lists of algorithms and the lidar                            *)

OnAlgorithmIds(similarity) ==
  /\ Step("executor", "idle", IF similarity THEN "start" ELSE "stop")
  /\ Overlapping("executor")
  /\ UNCHANGED <<scan, controllers, back, late>>

\* start of the search, up to the call of the servo's.
Start ==
  /\ \/ /\ searchActive /\ Step("executor", "start", "idle")
        /\ UNCHANGED <<searchActive, clean, late>>
     \/ /\ ~searchActive /\ Step("executor", "start", "servo_on")
        /\ searchActive' = TRUE /\ late' = 0
        /\ clean' = ~Busy("results")
  /\ UNCHANGED <<scan, servoActive, servoState, cmd, back>>

ServoOn ==
  /\ Step("executor", "servo_on", "servo_state")
  /\ servoActive' = TRUE
  /\ UNCHANGED <<searchActive, servoState, cmd, late>> /\ Quietly

ServoState ==
  /\ Step("executor", "servo_state", "halt")
  /\ servoState' = "waiting"
  /\ UNCHANGED <<searchActive, servoActive, cmd, late>> /\ Quietly

UpdateLidar ==
  /\ pc["executor"] = "idle"
  /\ scan' \in Scans \ {<<>>}
  /\ UNCHANGED <<controllers, pc, back, clean, late>>
-----------------------------------------------------------------------------
(* The executor: the timer                                                    *)

\* Fault: the timer serves the servo whether there is a search or not.
TickAlways ==
  /\ Step("executor", "idle", "tick_servo")
  /\ Overlapping("executor")
  /\ UNCHANGED <<scan, controllers, back, late>>

Tick ==
  /\ searchActive /\ Step("executor", "idle", "tick_servo")
  /\ Overlapping("executor")
  /\ UNCHANGED <<scan, controllers, back, late>>

TickServo ==
  /\ Step("executor", "tick_servo", IF servoActive THEN "tick" ELSE "idle")
  /\ UNCHANGED <<controllers, late>> /\ Quietly

\* A phase that is over, the target that is lost, a command that is renewed, or
\* nothing due.
TickState ==
  /\ \/ servoState' = "waiting" /\ Step("executor", "tick", "halt")
     \/ /\ servoState \in {"turning", "pursuing"} /\ servoState' = "settling"
        /\ Step("executor", "tick", "halt")
     \/ /\ servoState = "waiting" /\ servoState' = "turning"
        /\ Step("executor", "tick", "move")
     \/ /\ servoState \in {"turning", "pursuing"} /\ UNCHANGED servoState
        /\ Step("executor", "tick", "move")
     \/ UNCHANGED servoState /\ Step("executor", "tick", "idle")
  /\ UNCHANGED <<searchActive, servoActive, cmd, late>> /\ Quietly
-----------------------------------------------------------------------------
(* The result thread                                                          *)

Connect ==
  /\ Step("results", "offline", "idle")
  /\ UNCHANGED <<controllers, late>> /\ Quietly

\* The connection fails, or a handler has raised; results sent meanwhile are lost.
Disconnect ==
  /\ Step("results", "idle", "offline")
  /\ UNCHANGED <<controllers, late>> /\ Quietly

HandleCloudResult ==
  /\ searchActive /\ Step("results", "idle", "verdict")
  /\ Overlapping("results")
  /\ UNCHANGED <<scan, controllers, back, late>>

\* A confirmed target in the middle stops the servo first.
Verdict ==
  /\ \/ Step("results", "verdict", "servo_test") /\ back' = "stop_ai"
     \/ Step("results", "verdict", "servo_check") /\ UNCHANGED back
  /\ UNCHANGED <<scan, controllers, clean, late>>

ServoCheck ==
  /\ Step("results", "servo_check", IF servoActive THEN "servo_handle" ELSE "idle")
  /\ UNCHANGED <<controllers, late>> /\ Quietly

\* An obstacle or the target is there: stand, and perhaps end the search.  Else a
\* match is pursued, and no match makes the car sweep on, unless it turns or settles;
\* in a short drive of the sweep, which "turning" stands for as well, it does so too.
ServoHandle ==
  /\ \/ /\ servoState' = "arrived"
        /\ Step("results", "servo_handle", "halt") \/ Step("results", "servo_handle", "arrived_stop")
     \/ /\ ~TooClose /\ servoState' = "pursuing"
        /\ Step("results", "servo_handle", "move")
     \/ /\ ~TooClose /\ servoState # "settling" /\ servoState' = "turning"
        /\ Step("results", "servo_handle", "move")
     \/ /\ ~TooClose /\ servoState \in {"turning", "settling"} /\ UNCHANGED servoState
        /\ Step("results", "servo_handle", "idle")
  /\ UNCHANGED <<searchActive, servoActive, cmd, late>> /\ Quietly

ArrivedStop ==
  /\ Step("results", "arrived_stop", "stop_ai")
  /\ cmd' = "stop"
  /\ UNCHANGED <<searchActive, servoActive, servoState, late>> /\ Quietly

\* What the node stops to upload is in EdgeUpload; here it is time that passes.
StopAi ==
  /\ Step("results", "stop_ai", "stop")
  /\ UNCHANGED <<controllers, late>> /\ Quietly

Executor ==
  \/ (\E similarity \in BOOLEAN : OnAlgorithmIds(similarity))
  \/ Start \/ ServoOn \/ ServoState \/ UpdateLidar
  \/ Tick \/ TickServo \/ TickState
Results ==
  \/ Connect \/ Disconnect \/ HandleCloudResult \/ Verdict \/ ServoCheck \/ ServoHandle
  \/ ArrivedStop \/ StopAi

Next ==
  \/ Executor \/ Results
  \/ \E t \in Threads : Halt(t) \/ Move(t) \/ Stop(t) \/ StopServo(t)

Spec == Init /\ [][Next]_vars
-----------------------------------------------------------------------------
(* Properties                                                                 *)

\* Every variable has its type.
TypeOK ==
  /\ scan \in Scans
  /\ searchActive \in BOOLEAN /\ servoActive \in BOOLEAN
  /\ servoState \in ServoStates /\ cmd \in {"stop", "move"}
  /\ pc \in [Threads -> Labels] /\ back \in {"idle", "stop_ai"}
  /\ clean \in BOOLEAN /\ late \in Nat

Quiet == \A t \in Threads : ~Busy(t)

\* A search may be overtaken by a handler that began before it ended, but by one
\* only: it commands at most one move more, and none follows before the next
\* start.
AtMostOneLateMove == late <= 1

\* As long as no two handlers overlapped since a search was started, what
\* SimilaritySearch says of single handlers holds of the threads: the two flags
\* agree, and a search that is over leaves a car that stands.  A start repairs
\* what earlier overlaps left behind.
CleanSearchAgrees ==
  clean /\ Quiet =>
    /\ searchActive <=> servoActive
    /\ ~searchActive => cmd = "stop"

\* What the servo takes for the distance ahead is a reading the scan has ahead of
\* the car, however the beams were thinned.
FrontIsAReading == FrontDistance(scan) # None => FrontDistance(scan) \in Seen(scan)

\* Thinning hides no obstacle that covers as many beams as one is kept of.
WideObstaclesAreSeen ==
  \A distance \in Obstacles(scan) :
    FrontDistance(scan) # None /\ FrontDistance(scan) <= distance

\* Not so in this code: the nearest reading ahead is the distance ahead.
FrontIsNearest == Seen(scan) # {} => FrontDistance(scan) = Min(Seen(scan))

\* Not so in this code: no more than MaxRanges readings are kept.
KeptAreFew == MaxRanges > 0 => Len(Kept(scan)) <= MaxRanges

\* Not so in this code: when a search is over and nothing is going on, the car
\* stands.
SearchesEndStanding == Quiet /\ ~searchActive => cmd = "stop"

\* Not so in this code: a search that goes on has a servo that serves it.
SearchesAreServed == Quiet /\ searchActive => servoActive
=============================================================================
