------------------------------ MODULE CommandPath ------------------------------
(***************************************************************************)
(* Who moves the car: the remote bridge, the task switch and the edge node *)
(* all publish on /cmd_vel, which rosmaster_motion_node.py passes to the   *)
(* wheels, and the first two tell the edge node on /jetcar/algorithm_ids   *)
(* what to run.  The nodes are processes of their own                      *)
(* (edge_bringup.launch.py), and nobody arbitrates.                        *)
(*                                                                         *)
(* The bridge is replaced by its contract ManualControl, which             *)
(* RemoteBridge is shown to keep, and the autonomy of the edge node by     *)
(* whether it is active: while it is, it may publish any velocity, and it  *)
(* ends with a stop.  A handler that was under way then may still move the *)
(* car once, as Inspection and SearchThreads show.  A topic keeps the      *)
(* messages of a writer in order and the last Depth of them; those of      *)
(* different writers overtake one another.  The edge node, the bridge and  *)
(* the chassis node may crash and be started again; the task switch, which *)
(* moves nothing, does not.                                                *)
(***************************************************************************)
EXTENDS Naturals, Sequences

CONSTANTS
  Depth,          \* the depth of the publishers' queues (10)
  MaxRequests     \* bound: what phones ask of the bridge and of the task switch

ASSUME PathAssumption == Depth \in Nat \ {0} /\ MaxRequests \in Nat

Modes == {"search", "inspection"}
Requesters == {"bridge", "tasks"}           \* writers of /jetcar/algorithm_ids
Movers == Requesters \union {"edge"}        \* writers of /cmd_vel

VARIABLES
  cmd, watched, lost,   \* the bridge's contract: the velocity it published last,
                  \* and whether its watchdog watches, or lost, what it sent
  overriding,     \* the bridge has sent the empty list and no velocity yet
  task,           \* what the task switch is about to publish: stop, a mode, or done
  asked,          \* history: what it was asked for last, a mode or to stop
  lists,          \* /jetcar/algorithm_ids, by writer
  velocities,     \* /cmd_vel, by writer
  auto,           \* the mode the edge node runs, none, or down after a crash
  edgeCmd,        \* the velocity it published last
  late,           \* a handler is under way that began in a mode that has ended
  forsaken,       \* history: that was a drive that no mode ends: the node crashed
                  \* after it, or a late handler published it
  wheels, driver, \* the velocity of the wheels, and who gave it last
  chassisUp,
  requests        \* requests so far

bridgeVars == <<cmd, watched, lost, overriding>>
topics == <<lists, velocities>>
taskVars == <<task, asked>>
edgeVars == <<auto, edgeCmd, late, forsaken>>
chassisVars == <<wheels, driver, chassisUp>>
vars == <<bridgeVars, taskVars, topics, edgeVars, chassisVars, requests>>

Manual == INSTANCE ManualControl

Init ==
  /\ Manual!Init /\ overriding = FALSE
  /\ task = "done" /\ asked = "stop"
  /\ lists = [w \in Requesters |-> <<>>] /\ velocities = [w \in Movers |-> <<>>]
  /\ auto = "none" /\ edgeCmd = "stop" /\ late = FALSE /\ forsaken = FALSE
  /\ wheels = "stop" /\ driver = "nobody" /\ chassisUp = TRUE
  /\ requests = 0
-----------------------------------------------------------------------------
(* The topics                                                                 *)

\* Fault: a full queue refuses the new message.
QueuedRefusing(queue, message) ==
  IF Len(queue) = Depth THEN queue ELSE Append(queue, message)

\* KEEP_LAST: a full queue loses its oldest message.
Queued(queue, message) ==
  Append(IF Len(queue) = Depth THEN Tail(queue) ELSE queue, message)

SendList(w, list) == lists' = [lists EXCEPT ![w] = Queued(@, list)]
SendVelocity(w, velocity) == velocities' = [velocities EXCEPT ![w] = Queued(@, velocity)]

Request == requests < MaxRequests /\ requests' = requests + 1
-----------------------------------------------------------------------------
(* The remote bridge                                                          *)

BridgeUnchanged == UNCHANGED <<taskVars, edgeVars, chassisVars>>

\* A joystick or button packet: it renews the watch and sends the empty list.
Override ==
  /\ ~overriding /\ overriding' = TRUE
  /\ Request /\ Manual!Renew
  /\ SendList("bridge", "none")
  /\ UNCHANGED velocities /\ BridgeUnchanged

\* The joystick or the button moves the car, stops it, or says neither: a packet
\* without a payload or with an unknown direction.
BridgeMove ==
  /\ overriding /\ overriding' = FALSE
  /\ \/ Manual!Drive /\ SendVelocity("bridge", "drive")
     \/ Manual!Halt /\ SendVelocity("bridge", "stop")
     \/ UNCHANGED <<cmd, watched, lost, velocities>>
  /\ UNCHANGED <<lists, requests>> /\ BridgeUnchanged

\* A phone hangs up, or the watchdog finds it silent.
BridgeStop ==
  /\ Manual!Halt
  /\ SendVelocity("bridge", "stop")
  /\ UNCHANGED <<lists, overriding, requests>> /\ BridgeUnchanged

\* Not while a packet is under way: the watchdog then loses what it watched.
BridgeExpire ==
  /\ ~overriding /\ Manual!Expire
  /\ UNCHANGED <<topics, overriding, requests>> /\ BridgeUnchanged

\* The watchdog erases the stamp of a packet that came after its test.
BridgeLose ==
  /\ Manual!Lose
  /\ UNCHANGED <<topics, overriding, requests>> /\ BridgeUnchanged

\* The node is killed, threads and watchdog with it; its destroy_node is a
\* BridgeStop.  When it is started again, it watches nothing.
BridgeCrash ==
  /\ watched' = FALSE /\ lost' = (lost \/ cmd = "drive") /\ overriding' = FALSE
  /\ UNCHANGED <<cmd, topics, requests>> /\ BridgeUnchanged
-----------------------------------------------------------------------------
(* The task switch: _cancel_active_task, and _start_task                      *)

TaskUnchanged == UNCHANGED <<bridgeVars, edgeVars, chassisVars>>

\* Requests are served one by one here; TaskOrchestrator has their overlaps.
TaskRequest ==
  /\ task = "done" /\ Request
  /\ \E goal \in Modes \union {"stop"} : task' = goal /\ asked' = goal
  /\ SendList("tasks", "none") /\ SendVelocity("tasks", "stop")
  /\ TaskUnchanged

TaskAlgorithms ==
  /\ task # "done" /\ task' = "done"
  /\ IF task \in Modes THEN SendList("tasks", task) ELSE UNCHANGED lists
  /\ UNCHANGED <<asked, velocities, requests>> /\ TaskUnchanged
-----------------------------------------------------------------------------
(* The edge node                                                              *)

EdgeUnchanged == UNCHANGED <<bridgeVars, taskVars, chassisVars, requests>>

EdgePublish(velocity) ==
  SendVelocity("edge", velocity) /\ edgeCmd' = velocity /\ forsaken' = FALSE

\* When a mode ends, a handler of another thread may be past its test of it.
Ends == auto \in Modes /\ auto' # auto
MayLinger == IF Ends THEN late' \in {late, TRUE} ELSE UNCHANGED late

\* Fault: a running mode is left to be stopped by whoever sent the list.
SwitchSilently(mode) ==
  /\ auto' = mode /\ MayLinger
  /\ IF mode = "search" /\ auto # "search" THEN EdgePublish("stop")
     ELSE UNCHANGED <<velocities, edgeCmd, forsaken>>

\* What runs and is not asked for ends with a stop, and a search begins with one.
Switch(mode) ==
  /\ auto' = mode /\ MayLinger
  /\ IF auto # mode /\ (auto # "none" \/ mode = "search") THEN EdgePublish("stop")
     ELSE UNCHANGED <<velocities, edgeCmd, forsaken>>

\* _on_algorithm_ids; a list for a node that is down is lost.
OnAlgorithmIds(w) ==
  /\ lists[w] # <<>> /\ lists' = [lists EXCEPT ![w] = Tail(@)]
  /\ IF auto = "down" THEN UNCHANGED <<velocities, edgeVars>> ELSE Switch(Head(lists[w]))
  /\ EdgeUnchanged

\* The servo or the inspection moves the car or lets it stand.
Autonomy ==
  /\ auto \in Modes
  /\ \E velocity \in {"drive", "stop"} : EdgePublish(velocity)
  /\ UNCHANGED <<lists, auto, late>> /\ EdgeUnchanged

\* The target is found, or enough has been inspected.
Accomplish ==
  /\ auto \in Modes /\ auto' = "none" /\ MayLinger
  /\ EdgePublish("stop")
  /\ UNCHANGED lists /\ EdgeUnchanged

\* What the handler publishes is a move of nobody's, unless a mode runs again.
LateMove ==
  /\ late /\ late' = FALSE
  /\ SendVelocity("edge", "drive") /\ edgeCmd' = "drive"
  /\ forsaken' = (auto \notin Modes)
  /\ UNCHANGED <<lists, auto>> /\ EdgeUnchanged

EdgeCrash ==
  /\ auto # "down" /\ auto' = "down"
  /\ forsaken' = (edgeCmd = "drive") /\ late' = FALSE
  /\ UNCHANGED <<topics, edgeCmd>> /\ EdgeUnchanged

\* It is started by hand, with no algorithms.
EdgeStart ==
  /\ auto = "down" /\ auto' = "none"
  /\ UNCHANGED <<topics, edgeCmd, late, forsaken>> /\ EdgeUnchanged
-----------------------------------------------------------------------------
(* The chassis: rosmaster_motion_node                                         *)

ChassisUnchanged == UNCHANGED <<bridgeVars, taskVars, lists, edgeVars, requests>>

\* _on_cmd_vel; a velocity for a node that is down is lost.
OnCmdVel(w) ==
  /\ velocities[w] # <<>> /\ velocities' = [velocities EXCEPT ![w] = Tail(@)]
  /\ IF chassisUp THEN wheels' = Head(velocities[w]) /\ driver' = w
     ELSE UNCHANGED <<wheels, driver>>
  /\ UNCHANGED chassisUp /\ ChassisUnchanged

\* destroy_node and _stop, which may fail and only says so; or the node is killed.
\* The board then goes on with what it was told last.
ChassisEnd ==
  /\ chassisUp /\ chassisUp' = FALSE
  /\ wheels' \in {wheels, "stop"} /\ driver' = "nobody"
  /\ UNCHANGED velocities /\ ChassisUnchanged

ChassisStart ==
  /\ ~chassisUp /\ chassisUp' = TRUE
  /\ UNCHANGED <<velocities, wheels, driver>> /\ ChassisUnchanged

Next ==
  \/ Override \/ BridgeMove \/ BridgeStop \/ BridgeExpire \/ BridgeLose \/ BridgeCrash
  \/ TaskRequest \/ TaskAlgorithms
  \/ (\E w \in Requesters : OnAlgorithmIds(w)) \/ Autonomy \/ Accomplish
  \/ LateMove \/ EdgeCrash \/ EdgeStart
  \/ (\E w \in Movers : OnCmdVel(w)) \/ ChassisEnd \/ ChassisStart

\* Messages arrive, handlers end, and the watchdog stops what it watches and no
\* packet renews; what it has lost it need not stop.  Nobody need start a node
\* again, and autonomy need never end.
Spec == /\ Init /\ [][Next]_vars
        /\ WF_vars(BridgeMove) /\ WF_vars(TaskAlgorithms)
        /\ WF_vars(cmd = "drive" /\ watched /\ BridgeStop)
        /\ \A w \in Requesters : WF_vars(OnAlgorithmIds(w))
        /\ \A w \in Movers : WF_vars(OnCmdVel(w))
-----------------------------------------------------------------------------
(* Properties                                                                 *)

\* Every variable has its type.
TypeOK ==
  /\ cmd \in {"drive", "stop"} /\ watched \in BOOLEAN /\ lost \in BOOLEAN
  /\ overriding \in BOOLEAN
  /\ task \in Modes \union {"stop", "done"} /\ asked \in Modes \union {"stop"}
  /\ lists \in [Requesters -> Seq(Modes \union {"none"})]
  /\ velocities \in [Movers -> Seq({"drive", "stop"})]
  /\ \A w \in Requesters : Len(lists[w]) <= Depth
  /\ \A w \in Movers : Len(velocities[w]) <= Depth
  /\ auto \in Modes \union {"none", "down"} /\ edgeCmd \in {"drive", "stop"}
  /\ late \in BOOLEAN /\ forsaken \in BOOLEAN
  /\ wheels \in {"drive", "stop"} /\ driver \in Movers \union {"nobody"}
  /\ chassisUp \in BOOLEAN /\ requests \in 0..MaxRequests

\* The drives that nobody is going to end: one that the edge node published before it
\* crashed, or by a late handler, one whose watch the bridge has lost, and one that
\* the chassis node did not stop at its end.
Abandoned ==
  \/ driver = "edge" /\ forsaken
  \/ driver = "bridge" /\ lost
  \/ driver = "nobody"

\* When everything its driver sent has arrived, a car that rolls is accounted for
\* by who set it going, by autonomy that is still active or by a manual command that
\* is still watched, or its drive is one of those that are abandoned.  No
\* interleaving of the three writers, no full queue and no restart leaves it rolling
\* otherwise.
WheelsAreAccountedFor ==
  wheels = "drive" /\ (driver \in Movers => velocities[driver] = <<>>) =>
    \/ driver = "edge" /\ auto \in Modes
    \/ driver = "bridge" /\ cmd = "drive" /\ watched
    \/ Abandoned

\* When the task switch was last asked to stop and phones are silent, the car comes
\* to a stand for good, unless what moves it is abandoned.
CarComesToRest == <>[](asked = "stop") => <>[](wheels = "stop" \/ Abandoned)

\* Not so in this code: every car that rolls is accounted for by a mode that runs or
\* by a watch that is kept.
NothingIsAbandoned ==
  wheels = "drive" /\ (driver \in Movers => velocities[driver] = <<>>) => ~Abandoned

\* Not so in this code: a manual command is followed by one of the edge node only
\* while autonomy is active.
ManualCommandsStay == [][
  driver = "bridge" /\ driver' = "edge" => auto \in Modes ]_vars
=============================================================================
