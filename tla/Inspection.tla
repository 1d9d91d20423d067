------------------------------- MODULE Inspection -------------------------------
(***************************************************************************)
(* The road inspection of src/jetcar_edge/inspection_controller.py as the    *)
(* two threads of the edge node run it, without a lock between them:         *)
(*   - the ROS executor serves the timer (tick), the lidar and the           *)
(*     algorithm-control topic (start and stop), one callback at a time;     *)
(*   - the thread of the result client runs handle_cloud_result, and         *)
(*     _complete and stop_ai from inside it.                                *)
(* (Requests to the node's TCP control server come from further threads;     *)
(* they are the algorithm topic's calls and are left out.)                   *)
(* A handler is a sequence of steps, one for each access to the state the    *)
(* two threads share; steps of the two threads interleave.  Publishing a     *)
(* velocity and noting the time of it is one step.                          *)
(*                                                                         *)
(* Time is two flags: whether the last command is older than                *)
(* command_timeout_seconds, and whether the last counted result is older     *)
(* than result_cooldown_seconds.  Either may become true at any moment.      *)
(***************************************************************************)
EXTENDS Integers

CONSTANTS
  TargetCount,            \* target_count
  SafetyStopDistance,     \* safety_stop_distance_m
  Distances,              \* the front distances considered
  None                    \* no front distance

ASSUME InspectionAssumption ==
  /\ TargetCount \in Int /\ SafetyStopDistance \in Int
  /\ Distances \subseteq Int /\ None \notin Int

Readings == Distances \union {None}
Needed == IF TargetCount >= 1 THEN TargetCount ELSE 1

\* Counts are kept up to Needed: a higher count is compared to Needed only.
UpTo(n) == IF n < Needed THEN n ELSE Needed

VARIABLES
  active,       \* _active
  state,        \* _state
  count,        \* _count, up to Needed
  commandOld,   \* now - _last_command_at exceeds the command timeout
  cooled,       \* now - _last_counted_at reaches the cooldown
  cmd,          \* the last velocity command on /cmd_vel
  listed,       \* the node's algorithms include one of the inspection
  uploading,    \* the node uploads frames
  front,        \* what front_distance_m() would return
  ePc,          \* where the executor is
  rPc, loaded,  \* where the result thread is, and the _count it has read
  counted,      \* history: results counted since the last start, up to Needed
  completions,  \* history: completions since the last start
  endedBy,      \* history: the thread that last ended an inspection
  late          \* history: moves commanded since then and before the next start

shared == <<active, state, count, commandOld, cooled, cmd>>
history == <<counted, completions, endedBy, late>>
ai == <<listed, uploading>>
vars == <<shared, ai, front, ePc, rPc, loaded, history>>

TickSteps  == {"tick_age", "tick_front", "tick_publish"}
StartSteps == {"start", "start_active", "start_state", "start_times", "start_cooled",
               "start_count"}
StopSteps  == {"stop", "stop_idle", "stop_active", "stop_state", "stop_publish"}
ResultSteps == {"cooldown", "note", "load", "store", "check", "complete",
                "complete_state", "complete_publish", "stop_ai"}

Init ==
  /\ active = FALSE /\ state = "idle" /\ count = 0
  /\ commandOld = TRUE /\ cooled = TRUE /\ cmd = "stop"
  /\ listed = FALSE /\ uploading = FALSE /\ front \in Readings
  /\ ePc = "idle" /\ rPc = "idle" /\ loaded = 0
  /\ counted = 0 /\ completions = 0 /\ endedBy = "nobody" /\ late = 0

Publish(c) == cmd' = c /\ commandOld' = FALSE

-----------------------------------------------------------------------------
(* The executor: the timer                                                    *)

TooClose == front # None /\ front <= SafetyStopDistance

ExecutorUnchanged == UNCHANGED <<ai, front, rPc, loaded, history>>

\* Fault: the timer moves the car until its state says that all is over.
TickUntilIdle ==
  /\ ePc = "idle" /\ (active \/ state # "idle")
  /\ ePc' = "tick_age"
  /\ UNCHANGED shared /\ ExecutorUnchanged

Tick ==
  /\ ePc = "idle" /\ active
  /\ ePc' = "tick_age"
  /\ UNCHANGED shared /\ ExecutorUnchanged

TickAge ==
  /\ ePc = "tick_age"
  /\ ePc' = IF commandOld THEN "tick_front" ELSE "idle"
  /\ UNCHANGED shared /\ ExecutorUnchanged

TickFront ==
  /\ ePc = "tick_front" /\ ePc' = "tick_publish"
  /\ state' = IF TooClose THEN "obstacle_turn" ELSE "running"
  /\ UNCHANGED <<active, count, commandOld, cooled, cmd>> /\ ExecutorUnchanged

\* The lidar is served by this thread too, so front is what TickFront saw.
TickPublish ==
  /\ ePc = "tick_publish" /\ ePc' = "idle"
  /\ Publish(IF TooClose THEN "turn" ELSE "forward")
  /\ late' = IF active THEN late ELSE late + 1
  /\ UNCHANGED <<active, state, count, cooled, ai, front, rPc, loaded,
                 counted, completions, endedBy>>

UpdateLidar ==
  /\ ePc = "idle"
  /\ front' \in Readings
  /\ UNCHANGED <<shared, ai, ePc, rPc, loaded, history>>
-----------------------------------------------------------------------------
(* The executor: _on_algorithm_ids and _on_ai_enable                          *)

\* A list with an inspection algorithm turns the upload on and calls start(), any
\* other list calls stop(), and turns the upload off when it is empty.
OnAlgorithmIds(inspect) ==
  /\ ePc = "idle"
  /\ listed' = inspect /\ uploading' \in (IF inspect THEN {TRUE} ELSE BOOLEAN)
  /\ ePc' = IF inspect THEN "start" ELSE "stop"
  /\ UNCHANGED <<shared, front, rPc, loaded, history>>

\* The topic /jetcar/ai_enable: the controllers are not told.
OnAiEnable(enabled) ==
  /\ ePc = "idle"
  /\ uploading' = enabled
  /\ UNCHANGED <<shared, listed, front, ePc, rPc, loaded, history>>

StartTest ==
  /\ ePc = "start"
  /\ ePc' = IF active THEN "idle" ELSE "start_active"
  /\ UNCHANGED shared /\ ExecutorUnchanged

StartActive ==
  /\ ePc = "start_active" /\ ePc' = "start_state"
  /\ active' = TRUE
  /\ counted' = 0 /\ completions' = 0 /\ late' = 0
  /\ UNCHANGED <<state, count, commandOld, cooled, cmd, ai, front, rPc, loaded, endedBy>>

StartState ==
  /\ ePc = "start_state" /\ ePc' = "start_times"
  /\ state' = "running"
  /\ UNCHANGED <<active, count, commandOld, cooled, cmd>> /\ ExecutorUnchanged

StartTimes ==
  /\ ePc = "start_times" /\ ePc' = "start_cooled"
  /\ commandOld' = TRUE
  /\ UNCHANGED <<active, state, count, cooled, cmd>> /\ ExecutorUnchanged

StartCooled ==
  /\ ePc = "start_cooled" /\ ePc' = "start_count"
  /\ cooled' = TRUE
  /\ UNCHANGED <<active, state, count, commandOld, cmd>> /\ ExecutorUnchanged

StartCount ==
  /\ ePc = "start_count" /\ ePc' = "idle"
  /\ count' = 0
  /\ UNCHANGED <<active, state, commandOld, cooled, cmd>> /\ ExecutorUnchanged

StopTest ==
  /\ ePc = "stop"
  /\ ePc' = IF active THEN "stop_active" ELSE "stop_idle"
  /\ UNCHANGED shared /\ ExecutorUnchanged

StopIdle ==
  /\ ePc = "stop_idle" /\ ePc' = "idle"
  /\ state' = "idle"
  /\ UNCHANGED <<active, count, commandOld, cooled, cmd>> /\ ExecutorUnchanged

StopActive ==
  /\ ePc = "stop_active" /\ ePc' = "stop_state"
  /\ active' = FALSE /\ endedBy' = "executor"
  /\ UNCHANGED <<state, count, commandOld, cooled, cmd, ai, front, rPc, loaded,
                 counted, completions, late>>

StopState ==
  /\ ePc = "stop_state" /\ ePc' = "stop_publish"
  /\ state' = "idle"
  /\ UNCHANGED <<active, count, commandOld, cooled, cmd>> /\ ExecutorUnchanged

\* Fault: the car is told to stop only when it was seen driving.
StopPublishIfRunning ==
  /\ ePc = "stop_publish" /\ ePc' = "idle"
  /\ IF state = "running" THEN Publish("stop") ELSE UNCHANGED <<cmd, commandOld>>
  /\ UNCHANGED <<active, state, count, cooled>> /\ ExecutorUnchanged

StopPublish ==
  /\ ePc = "stop_publish" /\ ePc' = "idle"
  /\ Publish("stop")
  /\ UNCHANGED <<active, state, count, cooled>> /\ ExecutorUnchanged
-----------------------------------------------------------------------------
(* The result thread: handle_cloud_result, for a result with a valid          *)
(* detection of an inspection algorithm; any other result changes nothing.    *)

ResultUnchanged == UNCHANGED <<front, ePc>>

HandleResult ==
  /\ rPc = "idle" /\ active
  /\ rPc' = "cooldown"
  /\ UNCHANGED <<shared, ai, loaded, history>> /\ ResultUnchanged

Cooldown ==
  /\ rPc = "cooldown"
  /\ rPc' = IF cooled THEN "note" ELSE "idle"
  /\ UNCHANGED <<shared, ai, loaded, history>> /\ ResultUnchanged

NoteCounted ==
  /\ rPc = "note" /\ rPc' = "load"
  /\ cooled' = FALSE
  /\ UNCHANGED <<active, state, count, commandOld, cmd, ai, loaded, history>>
  /\ ResultUnchanged

\* self._count += 1 reads and writes in two steps.
LoadCount ==
  /\ rPc = "load" /\ rPc' = "store"
  /\ loaded' = count
  /\ UNCHANGED <<shared, ai, history>> /\ ResultUnchanged

\* Fault: the result is noted but not counted.
StoreCountUnchanged ==
  /\ rPc = "store" /\ rPc' = "check"
  /\ count' = loaded
  /\ counted' = UpTo(counted + 1)
  /\ UNCHANGED <<active, state, commandOld, cooled, cmd, ai, loaded, completions,
                 endedBy, late>>
  /\ ResultUnchanged

StoreCount ==
  /\ rPc = "store" /\ rPc' = "check"
  /\ count' = UpTo(loaded + 1)
  /\ counted' = UpTo(counted + 1)
  /\ UNCHANGED <<active, state, commandOld, cooled, cmd, ai, loaded, completions,
                 endedBy, late>>
  /\ ResultUnchanged

\* The last test of handle_cloud_result; the detection is published, and reported
\* to the cloud, before it.
CheckCount ==
  /\ rPc = "check"
  /\ rPc' = IF count >= Needed THEN "complete" ELSE "idle"
  /\ UNCHANGED <<shared, ai, loaded, history>> /\ ResultUnchanged

\* Fault: _complete leaves the controller active.
CompleteStayingActive ==
  /\ rPc = "complete" /\ rPc' = "complete_state"
  /\ completions' = completions + 1 /\ endedBy' = "results"
  /\ UNCHANGED <<shared, ai, loaded, counted, late>> /\ ResultUnchanged

CompleteActive ==
  /\ rPc = "complete" /\ rPc' = "complete_state"
  /\ active' = FALSE
  /\ completions' = completions + 1 /\ endedBy' = "results"
  /\ UNCHANGED <<state, count, commandOld, cooled, cmd, ai, loaded, counted, late>>
  /\ ResultUnchanged

CompleteState ==
  /\ rPc = "complete_state" /\ rPc' = "complete_publish"
  /\ state' = "complete"
  /\ UNCHANGED <<active, count, commandOld, cooled, cmd, ai, loaded, history>>
  /\ ResultUnchanged

CompletePublish ==
  /\ rPc = "complete_publish" /\ rPc' = "stop_ai"
  /\ Publish("stop")
  /\ UNCHANGED <<active, state, count, cooled, ai, loaded, history>>
  /\ ResultUnchanged

AiOff == listed' = FALSE /\ uploading' = FALSE

StopAi ==
  /\ rPc = "stop_ai" /\ rPc' = "idle" /\ AiOff
  /\ UNCHANGED <<shared, loaded, history>> /\ ResultUnchanged

\* The end of a similarity search that runs beside the inspection: its stop_ai.
SearchStopsAi ==
  /\ rPc = "idle" /\ AiOff
  /\ UNCHANGED <<shared, rPc, loaded, history>> /\ ResultUnchanged
-----------------------------------------------------------------------------
(* The clock                                                                  *)

CommandAges ==
  /\ ~commandOld /\ commandOld' = TRUE
  /\ UNCHANGED <<active, state, count, cooled, cmd, ai, front, ePc, rPc, loaded, history>>

CountAges ==
  /\ ~cooled /\ cooled' = TRUE
  /\ UNCHANGED <<active, state, count, commandOld, cmd, ai, front, ePc, rPc, loaded, history>>

Executor ==
  \/ Tick \/ TickAge \/ TickFront \/ TickPublish \/ UpdateLidar
  \/ \E on \in BOOLEAN : OnAlgorithmIds(on) \/ OnAiEnable(on)
  \/ StartTest \/ StartActive \/ StartState \/ StartTimes \/ StartCooled \/ StartCount
  \/ StopTest \/ StopIdle \/ StopActive \/ StopState \/ StopPublish

ResultThread ==
  \/ HandleResult \/ Cooldown \/ NoteCounted \/ LoadCount \/ StoreCount
  \/ CheckCount \/ CompleteActive \/ CompleteState \/ CompletePublish \/ StopAi

Next == Executor \/ ResultThread \/ SearchStopsAi \/ CommandAges \/ CountAges

\* The executor finishes the callbacks it begins; the cloud goes on sending
\* results with detections, and the result thread handles them; time passes.
ExecutorStep == ePc # "idle" /\ Executor
Spec == /\ Init /\ [][Next]_vars
        /\ WF_vars(ExecutorStep) /\ WF_vars(ResultThread)
        /\ WF_vars(CommandAges) /\ WF_vars(CountAges)
-----------------------------------------------------------------------------
(* Properties                                                                 *)

\* Every variable has its type.
TypeOK ==
  /\ active \in BOOLEAN /\ commandOld \in BOOLEAN /\ cooled \in BOOLEAN
  /\ listed \in BOOLEAN /\ uploading \in BOOLEAN
  /\ state \in {"idle", "running", "obstacle_turn", "complete"}
  /\ cmd \in {"stop", "forward", "turn"}
  /\ count \in 0..Needed /\ loaded \in 0..Needed
  /\ front \in Readings
  /\ ePc \in {"idle"} \union TickSteps \union StartSteps \union StopSteps
  /\ rPc \in {"idle"} \union ResultSteps
  /\ counted \in 0..Needed /\ completions \in Nat /\ late \in Nat
  /\ endedBy \in {"nobody", "executor", "results"}

\* What a tick that overlaps the end of an inspection does is bounded: it
\* commands one more move, and no other follows before the next start.
AtMostOneLateMove == late <= 1

\* An inspection ended by its own thread stays ended: once stop() has run to its
\* end no late result and no timer makes the car move before the next start.
ExecutorStopIsFinal == endedBy = "executor" /\ ePc = "idle" /\ ~active => cmd = "stop"

\* One start completes at most once, whatever results are in flight.
CompletesAtMostOnce == completions <= 1

\* While results with detections keep coming an inspection comes to an end.
EnoughResultsEnd == active ~> ~active

\* Neither thread is in a handler.
Quiet == ePc = "idle" /\ rPc = "idle"

\* inspection_controller.py:40-42 "counts cloud detection result frames, and
\* stops after enough effective results": when the inspection is over and
\* nothing is going on, the car stands.
StopsAfterEnoughResults == Quiet /\ ~active => cmd = "stop"

\* The same comment: it stops after *enough* results of this inspection.
CompletesOnlyAfterEnough == completions > 0 => counted >= Needed

\* Not so in this code: inspection_controller.py:40-41 "While inspection algorithms
\* are active it drives forward": an inspection is active only while its algorithms
\* are, and their frames uploaded.
DrivesOnlyWithAi == Quiet /\ active => listed /\ uploading
=============================================================================
