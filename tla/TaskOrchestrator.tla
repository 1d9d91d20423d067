----------------------------- MODULE TaskOrchestrator -----------------------------
(***************************************************************************)
(* The phone's task switch, src/jetcar_edge/task_orchestrator_node.py: a      *)
(* thread for every TCP connection starts and cancels tasks, a timer of the   *)
(* main thread publishes the recorded task, and destroy_node cancels it and    *)
(* closes the server.  The record is guarded by a lock; what is published is   *)
(* published without it, so the steps of two commands interleave.             *)
(*                                                                         *)
(* A task is recorded with its mode, its status and a number that stands for  *)
(* its task_id, which is unique here; the program takes it from the clock.    *)
(* A request for the status only reads the record, and the stop published on  *)
(* /cmd_vel after the empty list is part of the same step.                    *)
(***************************************************************************)
EXTENDS Naturals

CONSTANTS
  Clients,        \* the threads of the TCP server
  MaxCommands     \* bound: the commands the phones send

ASSUME TasksAssumption == "main" \notin Clients /\ MaxCommands \in Nat

Threads == Clients \union {"main"}
Modes == {"inspection", "search"}
Records == [number : Nat, mode : Modes \union {"idle"},
            status : {"idle", "running", "cancelled"}]

VARIABLES
  pc,         \* where a thread is
  goal,       \* the command it serves: a mode to start, or cancel
  snap,       \* the copy of the record it is about to publish
  record,     \* _state
  list,       \* the mode whose algorithms were published last, or none
  posted,     \* the status published last
  node,       \* up, closing in destroy_node, or gone
  commands,   \* the commands sent so far
  overlap     \* history: the last command began while another one was served

vars == <<pc, goal, snap, record, list, posted, node, commands, overlap>>

NoTask == [number |-> 0, mode |-> "idle", status |-> "idle"]
Active == record.status = "running"

\* The threads with a command; the main thread has one in destroy_node only.
Serving == {t \in Threads : pc[t] # "idle"} \ (IF node = "up" THEN {"main"} ELSE {})

Init ==
  /\ pc = [t \in Threads |-> "idle"] /\ goal = [t \in Threads |-> "cancel"]
  /\ snap = [t \in Threads |-> NoTask]
  /\ record = NoTask /\ list = "none" /\ posted = NoTask
  /\ node = "up" /\ commands = 0 /\ overlap = FALSE

Step(t, from, to) == pc[t] = from /\ pc' = [pc EXCEPT ![t] = to]
-----------------------------------------------------------------------------
(* What threads are asked to do                                               *)

\* _handle_command; the server reads on until its sockets are closed.
Command(c, what) ==
  /\ node # "gone" /\ commands < MaxCommands
  /\ Step(c, "idle", "none")
  /\ goal' = [goal EXCEPT ![c] = what]
  /\ commands' = commands + 1
  /\ overlap' = (Serving \ {c} # {})
  /\ UNCHANGED <<snap, record, list, posted, node>>

\* Fault: the timer speaks of running tasks only.
TimerWhileActive ==
  /\ node = "up" /\ Active
  /\ Step("main", "idle", "snap_new")
  /\ UNCHANGED <<goal, snap, record, list, posted, node, commands, overlap>>

Timer ==
  /\ node = "up"
  /\ Step("main", "idle", "snap_new")
  /\ UNCHANGED <<goal, snap, record, list, posted, node, commands, overlap>>

\* destroy_node, after the executor has ended.
Destroy ==
  /\ node = "up" /\ node' = "closing"
  /\ Step("main", "idle", "none")
  /\ overlap' = (Serving # {})
  /\ UNCHANGED <<goal, snap, record, list, posted, commands>>

\* server_close joins the threads of the server.
Gone ==
  /\ node = "closing" /\ \A t \in Threads : pc[t] = "idle"
  /\ node' = "gone"
  /\ UNCHANGED <<pc, goal, snap, record, list, posted, commands, overlap>>
-----------------------------------------------------------------------------
(* _cancel_active_task                                                        *)

\* Fault: the record is marked before the empty list is published.
PublishNoneLate(t) ==
  \/ /\ Step(t, "none", "mark")
     /\ record' = IF Active THEN [record EXCEPT !.status = "cancelled"] ELSE record
     /\ UNCHANGED <<goal, snap, list, posted, node, commands, overlap>>
  \/ /\ Step(t, "mark", "snap")
     /\ list' = "none"
     /\ UNCHANGED <<goal, snap, record, posted, node, commands, overlap>>

PublishNone(t) ==
  /\ Step(t, "none", "mark")
  /\ list' = "none"
  /\ UNCHANGED <<goal, snap, record, posted, node, commands, overlap>>

Mark(t) ==
  /\ Step(t, "mark", "snap")
  /\ record' = IF Active THEN [record EXCEPT !.status = "cancelled"] ELSE record
  /\ UNCHANGED <<goal, snap, list, posted, node, commands, overlap>>
-----------------------------------------------------------------------------
(* _start_task, after the cancellation                                        *)

\* Fault: the mode of the earlier task is kept.
RecordKeepingMode(t) ==
  /\ Step(t, "record", "algorithms")
  /\ record' = [number |-> record.number + 1, status |-> "running",
                mode |-> IF record = NoTask THEN goal[t] ELSE record.mode]
  /\ UNCHANGED <<goal, snap, list, posted, node, commands, overlap>>

Record(t) ==
  /\ Step(t, "record", "algorithms")
  /\ record' = [number |-> record.number + 1, status |-> "running", mode |-> goal[t]]
  /\ UNCHANGED <<goal, snap, list, posted, node, commands, overlap>>

PublishAlgorithms(t) ==
  /\ Step(t, "algorithms", "snap_new")
  /\ list' = goal[t]
  /\ UNCHANGED <<goal, snap, record, posted, node, commands, overlap>>
-----------------------------------------------------------------------------
(* _publish_state: the snapshot under the lock, then the message              *)

Snapshot(t) ==
  /\ Step(t, "snap", "post") \/ Step(t, "snap_new", "post_new")
  /\ snap' = [snap EXCEPT ![t] = record]
  /\ UNCHANGED <<goal, record, list, posted, node, commands, overlap>>

\* The cancellation ends a stop, and begins a start.
PublishState(t) ==
  /\ \/ Step(t, "post", IF goal[t] \in Modes THEN "record" ELSE "idle")
     \/ Step(t, "post_new", "idle")
  /\ posted' = snap[t]
  /\ UNCHANGED <<goal, snap, record, list, node, commands, overlap>>

Run(t) ==
  \/ PublishNone(t) \/ Mark(t) \/ Record(t) \/ PublishAlgorithms(t)
  \/ Snapshot(t) \/ PublishState(t)

Next ==
  \/ \E c \in Clients, what \in Modes \union {"cancel"} : Command(c, what)
  \/ Timer \/ Destroy \/ Gone
  \/ \E t \in Threads : Run(t)

\* Threads finish what they were asked, and the timer is served.
Spec == /\ Init /\ [][Next]_vars
        /\ \A t \in Threads : WF_vars(Run(t))
        /\ WF_vars(Timer)
-----------------------------------------------------------------------------
(* Properties                                                                 *)

\* Every variable has its type.
TypeOK ==
  /\ pc \in [Threads -> {"idle", "none", "mark", "snap", "post", "record", "algorithms",
                         "snap_new", "post_new"}]
  /\ goal \in [Threads -> Modes \union {"cancel"}]
  /\ snap \in [Threads -> Records] /\ record \in Records /\ posted \in Records
  /\ list \in Modes \union {"none"}
  /\ node \in {"up", "closing", "gone"}
  /\ commands \in 0..MaxCommands /\ overlap \in BOOLEAN

Quiet == \A t \in Threads : pc[t] = "idle"

\* However commands of several phones overlap, a task that is recorded as running
\* when they are done has algorithms: no cancellation that was under way takes
\* them away afterwards.
RunningIsNeverSilent == Quiet /\ Active => list # "none"

\* Commands that follow one another leave the record and the published list in
\* agreement.
RecordAgreesWithList ==
  Quiet /\ ~overlap => list = IF Active THEN record.mode ELSE "none"

\* Phones learn of the task as it is: statuses may be published out of order, but
\* when no more commands come the last one is the record.
StatusCatchesUp == <>[](posted = record \/ node # "up")

\* Not so in this code: overlapping commands leave them in agreement as well.
RecordAlwaysAgrees == Quiet => list = IF Active THEN record.mode ELSE "none"

\* Not so in this code: the node leaves no algorithms behind.
GoneMeansNone == node = "gone" => list = "none"
=============================================================================
