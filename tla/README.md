# JetCarEdge in TLA+

Specifications of the edge software of the JetCar (`src/jetcar_edge`, Python and ROS 2):
what it does is modelled in TLA+, checked with TLC on small instances and, for most of its
safety, proved with TLAPS for every value of the parameters.

Contents: 1 the system, 2 the modules, 3 the runs, 4 fairness, 5 the proofs, 6
disagreements between code and documents, 7 what is left out, 8 plan.

## 1. The system

The car's camera frames go to a cloud that runs the algorithms the phone asks for. The
answers steer the car. One ROS node, `EdgeUploadNode`, holds the controllers and the
connections. The remote bridge and the task switch are nodes of their own; they publish on
`/cmd_vel` and `/jetcar/algorithm_ids` beside it, and the chassis node turns the wheels.

| component | state | operations | talks to |
|---|---|---|---|
| `VisualServoController` (`motion_controller.py`) | `_active`, `_state`, four time stamps, length of the present motion, degrees turned since the last drive | `start`, `stop`, `handle_similarity_result`, `tick` | reads the lidar buffer, publishes `/cmd_vel` |
| `SimilaritySearchController` | `_active`, `_state`, `_match_streak`, `_last_result_at` | `start`, `stop`, `handle_cloud_result`, `tick` | drives the servo, calls `stop_ai`, publishes events |
| `InspectionController` | `_active`, `_state`, `_count`, two time stamps | `start`, `stop`, `handle_cloud_result`, `tick`, `_complete` | publishes `/cmd_vel`, calls `stop_ai` |
| `EdgeUploadNode` | `_algorithm_ids`, `_upload_enabled`, `_similarity_frame_inflight`, `_snapshot_requested` | one handler per topic, the phone's TCP requests, the cloud's results, the timer | all of the above |
| `CloudWsClient` (`ws_client.py`) | `_stop`, `_thread`, `_url`, `_queue` | `start`, `stop`, `update_url`, `submit`, `clear`, the worker `_run` | the cloud |
| `CloudResultClient` | `_stop`, `_thread`, `_url` | `start`, `stop`, `_run` | calls `_on_cloud_result` in its own thread |
| `SensorBuffer` | the last scan and the last IMU message | `update_lidar`, `front_distance_m` | under its own lock |
| `TaskOrchestratorNode` | one `TaskState` | commands of TCP clients, a status timer | algorithm topic, `/cmd_vel` |
| `RemoteBridgeNode` | time of the last command, speeds | packets of TCP clients, a watchdog | algorithm topic, `/cmd_vel` |
| `RosmasterMotionNode` | the chassis driver | `_on_cmd_vel`, stop at exit | the motors |
| `SafetyMonitor`, `DockerOrchestrator`, `cloud_discovery`, `ImageCodec`, `models` | little or none | | |

Threads: in each node the ROS executor (single-threaded: topics and timers, one callback
at a time); in the edge node the result client's thread (every cloud result, and from
there `stop_ai`) and the upload worker; one thread per TCP client. `SensorBuffer` and the
task and bridge states have locks, which nobody holds while publishing; the controllers,
`EdgeUploadNode` and `CloudWsClient` have none.

What is hard, and what makes each part correct:

* **Visual servo.** It must work while results are late, lost or in the wrong order and
  while only a half-second timer ends its motions. Correct means: a state that stands for
  rest leaves the car at rest; each motion ends in time without the cloud's help; the car
  does not start to drive blindly; a turn is never followed by a turn, and settles before
  the car looks; the sweep never gets stuck.
* **Search.** It ends in several ways, each of which stops the servo, the search and the
  AI one after the other, and two threads run its handlers. Correct means: servo and
  search end together, what the car pursues or reports rests on enough confirmed verdicts
  in a row, and overlapping handlers do bounded harm that the next start repairs.
* **Inspection.** Two threads run its handlers with no lock. Correct means: stopped is
  stopped, one start gives at most one completion, enough results end it.
* **Lidar.** A scan is thinned and its angles are computed anew. Correct means: the
  distance ahead is a reading ahead, and no wide obstacle is missed.
* **Upload.** Its frames are gated by the servo's state and by one flag that a lost answer
  would leave set; its list of algorithms is shared by two tasks. Correct means: the cloud
  runs the list the node has, one frame is asked about at a time, no lost answer keeps
  frames back for good.
* **Upload worker.** Its `stop` gives up waiting before its network operations time out,
  and two threads switch it. Correct means: at most one connection, frames in order, off
  means disconnected.
* **Remote bridge.** TCP splits and merges packets, connections break, and the watchdog
  reads and clears a stamp in two steps. Correct means: every drive is watched, silence
  stops the car, a packet acts once and in order, the newest is never lost.
* **Task switch.** Commands of several phones overlap between lock and publication.
  Correct means: what is recorded as running has algorithms, and phones learn of it.
* **Command path.** Three writers share the wheels and two the list, over bounded queues;
  nodes crash and start again. Correct means: a rolling car is accounted for, and a stop
  brings it to rest.

`PROJECT.json` lists the hazards with the line where each bites.

## 2. The modules

| module | models | composes |
|---|---|---|
| `StopAndLook` | the abstract contract of the servo: phases off, look, turn, drive, approach, settle, track, blocked, whether the car rolls, and whether a target was seen | |
| `VisualServo` | `motion_controller.py` in discrete time, with the lidar, the clock and the node's timer | implements `StopAndLook` |
| `SimilaritySearch` | `similarity_search_controller.py` | calls the actions of `VisualServo` and implements its safety part |
| `SensorBuffer` | the scan side of `sensor_buffer.py`, as operators on scans | |
| `SearchThreads` | search, servo and `cloud_result_client.py`, cut into the steps of two threads | reads distances through `SensorBuffer` |
| `Inspection` | `inspection_controller.py`, statement by statement in two threads | |
| `EdgeUpload` | `edge_upload_node.py` | uses `StopAndLook` in place of the servo |
| `CloudWsClient` | `ws_client.py` and the node's two methods that call it | |
| `ManualControl` | the abstract contract of the remote bridge | |
| `RemoteBridge` | `remote_bridge_node.py` | implements `ManualControl` |
| `TaskOrchestrator` | `task_orchestrator_node.py` | |
| `CommandPath` | bridge, task switch, edge node and `rosmaster_motion_node.py` over the two topics | uses `ManualControl` in place of the bridge |
| `...Proofs` | theorems about the module of that name; `UploadProofs` about `EdgeUpload` and `CloudWsClient` | extend it |
| `MC...` | values for the constants of the module of that name | |

**VisualServo.** A time stamp `t` of the code is an age, `now - t`, capped at `AgeCap`,
which an assumption puts above every timeout; `0.0` for "never" is `None` for
`_last_target_at`, which the code tests, and `AgeCap` for the others. `Elapse` adds one
unit to every age, `Tick` is the timer (`_on_timer`), at most `TickLag` late. `start`,
`stop`, `handle_similarity_result` and `tick` are `ServoStart`, `ServoStop`,
`HandleSimilarityResult` and `ServoTick`; their branches are operators named for the
helper they translate (`NextSearchAction`, `BeginSettling`, ...). `EndAtTarget` is a
result that the servo answers with "arrived" or "safety_stop" and after which its caller
stops it in the same callback, as the search does when it reports the target. `Safety` is
the specification without fairness. A velocity is one of stop, scan (turning to search),
turn (aligning), forward and cautious; a verdict is `matched`, an offset and an area, each
possibly missing; the lidar is a distance or `None`. A random step angle is any angle
`StepDegrees` allows.

**SimilaritySearch.** One action per method; each calls the servo's operators at the place
where the code calls the servo. `motionEnabled` is `similarity_motion_enabled`, read once
at the start, so both values are initial states; when it is false the servo is never
started. That this is a use of the servo and nothing else, `KeepsServo`, is checked and
proved: every step is one of `VisualServo` or leaves it alone. The streak is counted up to
the larger of the two thresholds. `said` is the set of events of the last handler,
`recent` a history variable with the last verdicts. `motion_on_match_only`, which no
caller sets, and the branch for a motion state `disabled`, which the servo never answers,
are left out.

**SearchThreads.** The same controllers where they run: `pc` says where the executor and
the result thread are, and a handler is cut wherever a shared flag, the servo's state or
`/cmd_vel` is read or written. What is due, matched or confirmed is left open, and servo
states in which the servo does the same are merged, so the module says nothing about times
or verdicts; those are `VisualServo`'s and `SimilaritySearch`'s. The result thread also
connects and loses its connection, and an exception in a handler is such a loss. `clean`
and `late` are history: no two handlers have overlapped since a start, and moves commanded
since the search ended.

**SensorBuffer.** A scan is the sequence of its readings; `Kept` is the slice
`ranges[::step]`, `KeptIncrement` the angle the code stores for it, `FrontDistance` is
`front_distance_m`. `Seen` and `Obstacles` say the same of the scan as the lidar sent it
and are the reference the two properties compare with.

**Inspection.** `ePc` and `rPc` say where the executor and the result thread are; there is
a step for each access to a shared variable, `+=` being two, and a test and the assignment
it guards being two as well. Time is two flags, "the last command is old" and "the
cooldown is over". `listed` and `uploading` are what the inspection needs of the node, its
algorithms in the list and the upload on; three parties besides the inspection change
them: the algorithm topic, `/jetcar/ai_enable` and the `stop_ai` of a similarity search.

**EdgeUpload.** One action per handler, atomic. `SetAlgorithms` is `_set_ai_algorithms`
with `_set_ai_enabled`; `url` is the list in the worker's URL. `OnAppControl` takes a
list, a mode and a mask in the order of precedence of `_algorithms_from_control`; a list
may be present and blank. `ServoTick` lets the timer end what the contract's phases and a
target seen before allow it to end; a car that is blocked before it saw a target is left
to the next result, as in the code. The history variable `asked` counts the similarity
frames of one look.

**CloudWsClient.** Its definitions carry the prefix `Ws`, so that one module can be about
both halves of the upload. `ChangeAlgorithms` is the part of `_set_ai_algorithms` that
calls the client. A caller's `pc` walks through `update_url`, `_set_ai_enabled`, `stop`,
`start`; a worker is dead, at the head of its loop, connecting, asking whether to stop,
getting a frame, sending the one it `held`, or closing. `Callers` switch the upload, and
of them `Enablers` also enable and redirect it: in the node the executor does both, and
the result thread only disables. `clean` is history: the last call has run without another
beside it. `SlowNetwork` says whether an operation may outlast `join(timeout=3)`. A frame
may be submitted at any moment, since a snapshot is queued while the upload is off, too.

**RemoteBridge.** A packet is two parts on the wire, all bytes up to the checksum and the
final `#`; `Receive` takes any number of the parts on the way, `Scan` is the inner loop
with its `rfind` and `find`, `Stamp` the lock in `_handle_packet`, `Move` what a joystick
or button packet publishes, `Reply` a `sendall` that may fail, `Bye` the stop in `handle`
after the loop. The six kinds of packet are those the code treats differently: with a
motion, a stop or no velocity, answered, silently accepted, rejected. `_watchdog_tick` is
`Watch`, `WatchStop` and `WatchClear`, since the lock is released after the test;
`Destroy` and `Gone` are `destroy_node`. `erased` records the one race that the code
leaves open (it is `lost` in the contract), `brokenOff` the one early return. `Timeout` is
positive: with 0 the code has no watchdog, and the shipped value is 0.8 s.

**TaskOrchestrator.** A command is the sequence of `_cancel_active_task` and
`_start_task`: publish the empty list, mark the record, copy it, publish the copy, record
the new task, publish its algorithms, copy, publish. Every phone has a thread; the timer
and `destroy_node` run in the main thread.

**CommandPath.** Each topic keeps the messages of one writer in order and the last `Depth`
of them; messages of different writers overtake one another. The edge node is its mode:
while it has one it may publish any velocity, and leaving the mode publishes a stop, as
`EdgeUpload` and the controllers do it. When a mode ends a handler of the other thread may
be under way (`late`) and move the car once more, as `Inspection` and `SearchThreads`
show. Edge node, bridge and chassis may crash and be started by hand; the bridge's
watchdog may lose what it watched, as its contract allows; the chassis stops its wheels
when it ends, unless `_stop` fails or the node is killed. `Abandoned` names the drives
that nobody is going to end after such an event: the edge node's (`forsaken`), the
bridge's (`lost`), and what a chassis that has ended left the wheels doing.

Operators whose comment begins with "Fault:" are not part of a specification. Each is a
changed form of the operator after it, as a plausible mistake in the code would have it;
put in its place it makes the run fail that `PROJECT.json` names under `mutants`.

## 3. The runs

| run | instance | shows |
|---|---|---|
| `servo_step` | step mode; distances below, between and above the two thresholds and none; offsets on both sides; steps of 2 to 4 units, two or three of them before a drive; timer one unit late | `RestStatesAreStill`, `MotionExpires`, `WaitsExpire`, `ForwardNeedsClearFront`, `StopsToLook`, `SweepProgresses`, `SweepRelocates` |
| `servo_scan` | the other mode, same values | `RestStatesAreStill`, `MotionExpires`, `ForwardNeedsClearFront` |
| `search` | 2 verdicts to track, 3 to find, the tolerance for "found" inside that for "centred", motion enabled or not | `ServoFollowsSearch`, `KeepsServo`, `PursuitNeedsConfirmedRun`, `SilenceIsReported` |
| `search_threads` | two threads; scans of three beams, kept, and of five, of which every second is kept | `AtMostOneLateMove`, `CleanSearchAgrees`, `FrontIsAReading`, `WideObstaclesAreSeen` |
| `inspection` | two results needed, three distances and none | `ExecutorStopIsFinal`, `CompletesAtMostOnce`, `AtMostOneLateMove`, `EnoughResultsEnd` |
| `inspection_stops` | the same | section 6 |
| `upload` | the three algorithms the repository names | `UrlFollowsAlgorithms`, `OneFramePerLook`, `UploadsResume` |
| `ws` | two calling threads, one of which enables, slow network, queue of two, four frames, two URLs | `WsTypeOK`, `AtMostOneWorker`, `FramesInOrder`, `DisabledUploadDisconnects` |
| `ws_slow` | one calling thread, no frames | section 6 |
| `bridge` | two phones, two packets of all six kinds, a timeout, a timer period and a lateness of one unit each | `MotionIsWatched`, `NewestPacketDecides`, `GoneMeansStopped`, `PacketsActInOrder`, `KeepsContract`, `SilenceStops` |
| `tasks` | two phones, three commands, the timer, the end of the node | `RunningIsNeverSilent`, `RecordAgreesWithList`, `StatusCatchesUp` |
| `command_path` | queues of two, three requests; late moves, lost watches, crashes and restarts without bound | `WheelsAreAccountedFor`, `CarComesToRest` |

Each property is stated in words above its definition. The type invariant of every module
is proved (section 5); `ws` also checks its own.

*Bounds.* The durations of `servo_step` keep the order of the shipped ones (settling <
command timeout < result timeout < lost timeout; a drive of the sweep as long as the
command timeout, an approach shorter), and the timer is a unit late, so that a timeout and
an answer meet in either order. Turns of 2 to 4 units are shorter and longer than the
command timeout, so that some are renewed. Values of the lidar, of offsets and of areas
matter to the code only by comparison with its thresholds, and every side of each
comparison (with equality for the distances) is there. `AgeCap` is above all timeouts, so
capping hides nothing. In `search` all timeouts are one unit: its properties are about
verdicts and not about durations, and `VisualServo` has its own runs. `search_threads` has
no bound on starts, stops and results; `late` stays small because the property holds, and
with `HalfAngle` 1 three beams are ahead, so that a wide obstacle fits between thinned
beams in each position. `inspection` counts to two, so that a count can be between none
and enough; higher counts behave as one in between. `ws` has the two threads of the node,
more frames than the queue holds and one worker more than may live. In `bridge` two
packets suffice for one to overtake, replace or follow another on one connection and for
two phones to disagree; the two parts of each give all the ways TCP can split them that
the parser tells apart. In `tasks` three commands are two that overlap and one that
follows them. In `command_path` two messages in a queue are one to lose and one to keep;
three requests let the bridge and the task switch each have the last word over the other.
`MaxFrames`, `MaxSent`, `MaxCommands` and `MaxRequests` are the only bounds that cut
behaviours off.

*Deadlock* is checked in every run but `bridge` and `tasks`, where the node ends for good
and phones may have sent all they will.

## 4. Fairness

* `VisualServo`, `SimilaritySearch`: weak fairness of `Elapse` and `Tick`. The clock
  advances; the executor serves a periodic timer. Nothing is assumed of the cloud. That
  the timer is at most `TickLag` late is part of `Elapse`'s guard and thus of the safety
  properties: it is what bounds a motion's length at all.
* `Inspection`: weak fairness of the executor inside a callback and of the result thread
  as a whole (`EnoughResultsEnd` is about a cloud that goes on sending results with
  detections), and of the two flags of time. Nothing forces the executor to begin a
  callback.
* `EdgeUpload`: weak fairness of the timer in the phases of the contract's `Progress` and
  in an approach (`Timed`), which is what `SweepProgresses` shows of the servo; none in
  the others, in particular none for a car that stands before an obstacle. Strong fairness
  of a due camera frame in each phase, since the camera delivers many frames in the
  shortest phase of the servo and `UploadsResume` rests on one of them being seen while
  the car moves. `AnswersRunOut`: the cloud answers frames, so when none may be uploaded
  any more its answers come to an end. It is why an approach ends, which only answers
  renew.
* `CloudWsClient`: weak fairness of each thread: threads run and each network operation
  ends, by its timeout of five seconds if not otherwise.
* `RemoteBridge`: weak fairness of every handler thread, of the executor's callbacks and
  of the clock. A phone need neither send nor close: `SilenceStops` must hold for one that
  vanishes.
* `TaskOrchestrator`: weak fairness of every thread that serves a command and of the
  timer.
* `CommandPath`: weak fairness of the delivery of each writer's messages, of the handlers
  that are under way, and of a stop while the bridge stands for a drive that its watchdog
  watches, which is what `SilenceStops` shows of the bridge; a drive whose stamp was
  erased need not be stopped. Nobody need restart a node and autonomy need never end by
  itself.
* `SearchThreads`: none; its properties are about safety.

## 5. The proofs

Each `...Proofs` module proves its theorems from the assumptions on the constants in the
module it extends and from nothing else; they hold for all values of the constants, all
inputs and all interleavings. In each an inductive invariant (`IInv` where it has no other
name) is shown to hold initially and to be kept by every step, with one lemma per group of
actions, and the theorems follow from it.

`VisualServoProofs` (durations are positive, `AgeCap` above every timeout), all of
`Safety`, so that they hold wherever the servo is driven by its actions:

* `TypeCorrect`, `RestIsStill`, `MotionsExpire`: the invariants of `servo_step` and
  `servo_scan`;
* `WaitsEnd` (`WaitsExpire`): with `MotionsExpire` a bound in time for every stage of the
  sweep, which is what safety can say of `SweepProgresses`;
* `DrivesNeedRoom`: the action property `ForwardNeedsClearFront`, which is about drives no
  longer than the command timeout (`ShortDrives`, as shipped): longer ones are renewed
  without another look at the lidar;
* `StopsToLookAlways`: if `StepSearch` holds, `VisualServo` implements the safety part of
  `StopAndLook` under the mapping `phase`, `rolling`, `seen`. A turn leads to the next
  look through settling and never to another turn. What the code lets skip the settling
  the contract says too: a verdict that interrupts a drive, an approach, a pursuit or a
  stop at an obstacle turns at once, and a target given up is followed by a look from any
  phase.

`MotionExpires` is not inductive. A step of the clock preserves it only while the timer
has not been due for too long, so the invariant `IInv` relates ages to `sinceTick`, the
time since the last tick: `TimedBudget` (a timed motion was younger than its length at the
last tick), `PursuitBudget` (a sighting had not expired then), `AlignBudget` (the command
of an alignment had not, in scan mode), `WaitBudget` (settling or waiting had not lasted
its time, and no result has come since the wait began). `ModeStates` excludes the states
the other mode uses, and `DriveIsFresh` says that a drive's command is as old as the drive
until it is renewed, which is what makes renewals impossible for short drives.

`SimilaritySearchProofs` (thresholds are positive, the servo's assumptions):

* `SearchOwnsMotion` (`ServoFollowsSearch`) adds to the property that an inactive servo is
  idle and stands (`Agreement`), so that the search's test before it stops the servo never
  skips one that moves;
* `PursuitsAreConfirmed` (`PursuitNeedsConfirmedRun`) rests on what the counter means:
  `matchStreak` is the length of a run of confirming verdicts at the end of `recent`
  (`StreakIsConfirmed`); a lemma carries a run over the verdict that is appended;
* `SearchKeepsServo` (`KeepsServo`): the search implements `VisualServo`, action by
  action. A handler that starts or stops the servo, gives it a result or lets it tick is
  that action of the servo; the one that finds the target is `ServoStop` or `EndAtTarget`;
  the others leave the servo's variables alone;
* by that refinement and the theorems of `VisualServoProofs`, instantiated as
  `ServoTheorems`: `TypeCorrect`, `SearchMotionsExpire` (motions expire, rest is still,
  waits end), `SearchDrivesNeedRoom` and `SearchStopsToLook`;
* `SilenceReportedInTime`: the bounded form of `SilenceIsReported`.

`SearchThreadsProofs`: `OneLateMove` follows from `MovesLate`: after the search has ended
at most one of the two threads can still be on its way to a move, since each must have
passed the test of a flag that is now false and one of them has ended the search.
`CleanSearchesAgree` rests on `CleanOK`: while no handlers overlap, the place of the one
busy thread tells the flags and the command (`InPhase`). `FrontsAreReadings` and
`ThinningMissesNothingWide` are about all scans, of any length and thinning: the angle of
a kept beam is the angle it had in the message, the least of the kept readings ahead
exists because readings are integers (by well-founded induction), and among as many
neighbouring beams as one is kept of there is a kept one.

`InspectionProofs` (the target count and the distances are integers, `None` is none)
proves `TypeCorrect`, `ExecutorStopsForGood` (`ExecutorStopIsFinal`), `CompletesOnce`
(`CompletesAtMostOnce`) and `OneLateMove` (`AtMostOneLateMove`). The properties speak of
`active`, a count and a command; they are inductive only together with where the threads
are. So `IInv` says that an inspection ended by the executor is not in the middle of a
tick (a tick belongs to the same thread) and that its car stands unless the stop is about
to be published (`EndedByExecutor`); that after a completion no result is being counted
(`CompletedOnce`); and that after a late move no tick is under way (`MovedLateOnce`).
`AloneItKeepsItsWord` is about two properties that the code does not have (section 6),
`StopsAfterEnoughResults` and `CompletesOnlyAfterEnough`: while no handlers of the two
threads overlap (`HandlersAlone`) they hold, so that a lock around the handlers would give
them. It would not give `DrivesOnlyWithAi`, which fails without an overlap.

`UploadProofs` is about both halves of the upload. Of the node (similarity is not an
inspection algorithm) it proves `TypeCorrect`, `UrlIsCurrent` (`UrlFollowsAlgorithms`) and
`AsksOnce` (`OneFramePerLook`). The latter needs two facts: a search is active exactly
while the servo is not off (`SearchHasServo`), so that each start and stop of a search is
one of the servo, and a frame without an answer is the one in flight, sent in this look
for a list with similarity in it (`AskedIsInflight`), so that the next frame of the look
is held back. The lemma `RequestIInv` is shared by the three handlers that change the
list.

Of the worker, for any number of callers, workers and frames (the queue is finite and not
empty, `None` is no worker):

* `WsTypeCorrect` (`WsTypeOK`);
* `OneWorkerUnlessStartsOverlap` (`AtMostOneWorker` while no two threads are between the
  test and the start of a thread in `start`, `SpawnsAlone`): whoever has seen no living
  thread is alone (`OnlyThread`), however slow the network;
* `FramesKeepOrder` (`FramesInOrder`) under the same condition: the frames sent, held and
  queued are in order (`Ordered`). It is needed, since a worker takes a frame and sends it
  in two steps, between which a second worker could overtake it;
* `OneEnablerOneWorker` and `OneEnablerKeepsOrder`: the condition holds when one thread
  enables the upload, whoever disables it, and so do the two properties;
* `CleanCallStops`: a call that overlapped no other leaves no worker running for a
  disabled upload. It is the safety half of `DisabledUploadDisconnects`; without `clean`
  it is `DisabledMeansStopped`, which two threads violate (section 6);
* `PromptNetworkKeepsWorker`: with one thread that switches the upload and a network that
  answers within the join an enabled upload has a worker. This is `UploadHasWorker`, which
  a slow network violates (section 6).

`RemoteBridgeProofs` makes four arguments. `MotionsAreWatched`: between visits of the
watchdog the stamp is no older than `Timeout + tickAge` (`StampOK`), and while the
watchdog is about to erase it, every motion under way or published since is known to be
fresh (`Watched`). `EndsStopped`: while the node closes, whoever drove has a thread that
has yet to stop the car (`Ending`). `TypeCorrect` and `PacketsKeepOrder`: the packets in a
buffer and on the wire are newer than those handled and in order (`Numbered`), a fact
about sequences with a lemma for appending, receiving and cutting. `NewestPacketIsNotLost`
(`NewestPacketDecides`): until it is cut out, the newest packet, or the part of it that
was sent, ends what a listening thread has and will receive (`Coming`), and a thread that
waits for more has no packet in its buffer that begins at the last mark (`Searched`); so
one that waits with nothing on the way has handled the newest packet or has its unfinished
part at the end of its buffer. Earlier packets may be dropped, and a completed one may
wait behind an unfinished one (`CompletedPacketsAct`, section 6). `BridgeKeepsContract`
maps every step to one of `ManualControl` or a stutter, on the first invariant.

`TaskOrchestratorProofs`: `RunningTasksHaveAlgorithms` (`RunningIsNeverSilent`) because
whoever has taken the list from a running task is about to mark it or to publish a new one
(`Silenced`). `SequentialCommandsAgree` (`RecordAgreesWithList`) because while commands
follow one another one thread serves at most one, and its place tells the rest (`Alone`).

`CommandPathProofs`: `TypeCorrect` and `RollingIsAccountedFor` (`WheelsAreAccountedFor`).
The last velocity in a writer's queue is the one it stands for (`Latest`), even when a
full queue drops its oldest; so when the queue is empty and it drove last, the wheels do
what it stands for (`Delivered`); and who stands for a drive answers for it or has
abandoned it (`Answered`).

Every invariant and every action property that a run checks is proved. Model-checked only
is liveness (`SweepProgresses`, `SweepRelocates`, `SilenceIsReported`, `EnoughResultsEnd`,
`UploadsResume`, `DisabledUploadDisconnects`, `SilenceStops`, `StatusCatchesUp`,
`CarComesToRest`), since the prover does not handle fairness. For some of it the bounded
form is proved: `WaitsEnd` and `MotionsExpire` for the sweep, `SilenceReportedInTime` for
the warning, `MotionsAreWatched` for the bridge's stop, `CleanCallStops` for the upload.

## 6. Disagreements between code and documents

With a run that ends in a counterexample:

* `inspection_stops`. The timer's `tick` has passed its test of `_active` when the result
  thread runs `_complete`; it then publishes a drive. The inspection is over, the last
  command on `/cmd_vel` is a drive, and no timer will stop it. It takes that overlap:
  `AloneItKeepsItsWord`.
* `ws_slow`. `stop` gives up on a worker that is connecting; the `start` that follows
  finds it alive and starts no other; then the worker ends. The upload is enabled and
  nobody connects until it is switched again. It takes a network slower than the join:
  `PromptNetworkKeepsWorker`.

Found in the same way and kept as definitions without a run (naming one in the cfg of its
module shows the counterexample):

* `CentredTargetIsApproached` (`SimilaritySearch`). `README.md:302` of the repository:
  "target centered and safe: approach slowly". With the shipped values (`TrackConfirm` and
  `FoundConfirm` 2, "found" wider than "centred") a centred target is "found" by the same
  verdict that would first make the car approach.
* `AutoStopWithoutMotion` (`SimilaritySearch`): the branch for `auto_stop_on_match` waits
  for a motion state the servo never answers.
* `SearchesEndStanding`, `SearchesAreServed` (`SearchThreads`): a tick that has passed its
  test of `_active` renews a motion after the result thread has stopped the servo, and a
  start that meets a stop leaves an active search with a servo that is off.
* `FrontIsNearest`, `KeptAreFew` (`SensorBuffer` through `SearchThreads`): an obstacle
  narrower than the thinning is missed, and the whole-number step keeps up to almost twice
  `max_lidar_ranges` beams.
* `CompletesOnlyAfterEnough` (`Inspection`): a result in flight over a stop and a start,
  or the unguarded increment, brings the old count back, and the new inspection completes
  at once.
* `DrivesOnlyWithAi` (`Inspection`): an inspection stays active without its algorithms or
  the upload when `/jetcar/ai_enable` is false, when a similarity search beside it ends
  with `stop_ai`, and when the `stop_ai` at the end of `_complete` comes after the start
  of the next inspection. Only the last takes an overlap.
* `MaskSelectsAlgorithms` (`EdgeUpload`): the documented request has the mode
  `road_inspection` and a mask; the mode decides first and the mask is never read.
* `UploadNeedsAlgorithms` (`EdgeUpload`): `/jetcar/ai_enable` starts the upload with an
  empty list.
* `SearchRunsItsAlgorithm` (`EdgeUpload`): a request with mode `similarity` and other
  algorithms, or the end of an inspection that ran beside the search.
* `DisabledMeansStopped` (`CloudWsClient`, with the two callers of `ws`): a start of the
  executor, past the flag, clears `_stop` after the result thread's `stop` has set it, and
  a worker lives on for a disabled upload until the next switch; calls that do not overlap
  leave none (`CleanCallStops`).
* `DrivesAreWatched` (`RemoteBridge`): the watchdog clears the stamp of a command that
  came after it had tested it; until the next packet nothing stops that drive.
* `CompletedPacketsAct` (`RemoteBridge`): a completed packet that arrives with the
  beginning of the next one is not handled, because the search starts at the last `$`; it
  is dropped when the next one is complete.
* `HaltsAreObeyed` (`RemoteBridge`): a stop that arrives together with a later query is
  cut away with it, since only the last packet of the buffer is handled.
* `DestroyIsFinal` (`RemoteBridge`): handlers that still run drive after the node's stop;
  each stops the car in turn when its phone hangs up.
* `RecordAlwaysAgrees` (`TaskOrchestrator`): two phones that start tasks at once may leave
  one recorded and the other's algorithms published; `GoneMeansNone`: a command served
  while the node closes may publish after its last cancellation.
* `ManualCommandsStay` (`CommandPath`): the stop with which autonomy ends may follow a
  manual drive; `NothingIsAbandoned`: the drives that `Abandoned` names do occur.

## 7. What is left out

* `handle_cloud_result` and `tick` are atomic in `VisualServo` and `SimilaritySearch`:
  their properties are about handlers that do not overlap. What survives overlaps is in
  `SearchThreads`, which has no times and no verdicts; overlaps in scan mode are left out.
* The requests of the control server, which reads lines of JSON from TCP connections, come
  from threads of its own; in `EdgeUpload` they are atomic handlers, elsewhere they are
  left out.
* A car that meets an obstacle before it has seen a target stays in `safety_stop` until
  the next result, whatever the timer does: `SweepRelocates` excludes it, and neither the
  contract's `Progress` nor `EdgeUpload` assumes that it ends.
* Drives longer than the command timeout, which the code renews without reading the lidar
  again: `ForwardNeedsClearFront` says nothing about them.
* An exception in the middle of a handler; `SearchThreads` has one only as a loss of the
  connection between two handlers.
* The end of the edge node (`destroy_node`), which stops the controllers and the clients.
* An answer is not tied to the frame it answers, in the code or here.
* Of the bridge: speeds, the stabilise setting, the contents of replies, the snapshot
  message and the cut of a buffer above 2048 characters. In `CommandPath` it serves one
  packet at a time; `RemoteBridge` has several phones.
* `CommandPath` knows neither the overlaps of `TaskOrchestrator` nor the time a velocity
  takes: the queues hold a message arbitrarily long. The task switch does not crash there;
  it moves nothing. Of several late handlers it has one at a time.
* A command timeout of 0, with which the bridge has no watchdog.
* `CloudResultClient`: `update_url`, which nobody calls, and its start and stop with the
  node.
* ROS shutting its context down before the nodes publish their last message: `Destroy` and
  `ChassisEnd` are the orderly ends.
* Speeds (the angular gain, the sway, the direction of an obstacle turn), payloads of
  events, images, logs, parameters, discovery (one UDP wait), Docker (shell commands,
  disabled in the shipped configuration), the safety monitor (its result is published and
  used by nobody in the repository), launch files and scripts.

## 8. Plan

1. Frame identities in `EdgeUpload`, with the results lost and delayed, and the question
   which late answers the servo may take for a fresh view.
2. The threads of the control server of the edge node beside executor and result thread,
   in the manner of `SearchThreads`.
3. `CommandPath` over `TaskOrchestrator` instead of its sequential commands.
4. Proofs: the conditions under which the other disagreements of section 6 do not occur
   (one phone for `RecordAlwaysAgrees`, no reading of the stamp in two steps for
   `DrivesAreWatched`), in the manner of `AloneItKeepsItsWord`.
