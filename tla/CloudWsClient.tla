----------------------------- MODULE CloudWsClient -----------------------------
(***************************************************************************)
(* The upload worker of src/jetcar_edge/ws_client.py and the calls by which *)
(* the node starts, stops and redirects it (_set_ai_enabled and             *)
(* _set_ai_algorithms of edge_upload_node.py).                              *)
(*                                                                         *)
(* The calls come from several threads: the ROS executor, which enables,      *)
(* redirects and disables the upload, and the thread of the result client,   *)
(* which disables it when a search or an inspection ends.  There is no lock,  *)
(* so a call is a sequence of steps, one for each access to what the threads *)
(* share.  stop() joins the worker for three seconds; a worker that is       *)
(* connecting or sending may need five (SlowNetwork), and then stop()        *)
(* returns while the worker lives.                                          *)
(*                                                                         *)
(* What EdgeUpload, the node's module, has a name for too has the prefix Ws  *)
(* here, so that one module can speak of both.                              *)
(***************************************************************************)
EXTENDS Integers, Sequences, FiniteSets

CONSTANTS
  Callers,       \* the threads that switch the upload
  Enablers,      \* those of them that also enable and redirect it
  Workers,       \* worker threads; a dead one stands for a new one
  None,          \* no worker was ever started
  Urls,          \* the URLs of the upload, one for each list of algorithms
  QueueSize,     \* queue_size
  SlowNetwork,   \* a network operation may outlast the join
  MaxFrames      \* bound on the number of frames

ASSUME ClientAssumption ==
  /\ Enablers \subseteq Callers /\ None \notin Workers
  /\ QueueSize \in Nat \ {0} /\ MaxFrames \in Nat
  /\ SlowNetwork \in BOOLEAN

VARIABLES
  wsEnabled,       \* the node's _upload_enabled
  stop,            \* _stop is set
  thread,          \* _thread
  joined,          \* the worker each caller waits for in stop()
  worker,          \* what each worker thread is doing
  wsUrl, wantedUrl, \* _url, and the URL the call of a thread sets
  queue,           \* _queue, of frame numbers
  frames, sent,    \* frames submitted so far; the last one sent
  held,            \* the frame each worker took from the queue to send, 0 for none
  pc, then,        \* where each caller is, and where it goes after stop()
  clean            \* history: the last call began when no other was under way,
                   \* and no other has begun since

frameVars == <<queue, frames, sent, held>>
wsVars == <<wsEnabled, stop, thread, joined, worker, wsUrl, wantedUrl, frameVars, pc, then, clean>>

\* "asking" is the head of _send_loop, "getting" waits for a frame.
WorkerStates == {"dead", "loop", "connecting", "asking", "getting", "sending", "closing"}
CallSteps == {"idle", "enable", "url", "url_set", "start", "spawn", "disable",
              "stop", "join", "clear"}

Alive(w) == w # None /\ worker[w] # "dead"
Living == {w \in Workers : Alive(w)}

WsInit ==
  /\ wsEnabled = FALSE /\ stop = FALSE /\ thread = None
  /\ worker = [w \in Workers |-> "dead"] /\ joined = [c \in Callers |-> None]
  /\ wsUrl \in Urls /\ wantedUrl = [c \in Callers |-> wsUrl]
  /\ queue = <<>> /\ frames = 0 /\ sent = 0 /\ held = [w \in Workers |-> 0]
  /\ pc = [c \in Callers |-> "idle"] /\ then = [c \in Callers |-> "idle"]
  /\ clean = TRUE

Goto(c, step) == pc' = [pc EXCEPT ![c] = step]
-----------------------------------------------------------------------------
(* The calls.  Enabling goes enable, url, (stop, join, clear,) url_set,       *)
(* start, spawn; disabling goes disable, stop, join, clear.                   *)

\* A call begins.
Begins(c) == clean' = \A d \in Callers \ {c} : pc[d] = "idle"

\* A new list of algorithms: update_url, then _set_ai_enabled(True).
ChangeAlgorithms(c) == \E u \in Urls :
  /\ c \in Enablers
  /\ pc[c] = "idle" /\ Goto(c, "url") /\ Begins(c)
  /\ wantedUrl' = [wantedUrl EXCEPT ![c] = u] /\ then' = [then EXCEPT ![c] = "enable"]
  /\ UNCHANGED <<wsEnabled, stop, thread, joined, worker, wsUrl, frameVars>>

\* update_url, up to its test whether the worker runs.
UpdateUrl(c) ==
  /\ pc[c] = "url"
  /\ \/ wantedUrl[c] = wsUrl /\ Goto(c, then[c])
     \/ wantedUrl[c] # wsUrl /\ Alive(thread) /\ Goto(c, "stop")
     \/ wantedUrl[c] # wsUrl /\ ~Alive(thread) /\ Goto(c, "url_set")
  /\ then' = [then EXCEPT ![c] =
       IF wantedUrl[c] # wsUrl /\ Alive(thread) THEN "url_set" ELSE then[c]]
  /\ UNCHANGED <<wsEnabled, stop, thread, joined, worker, wsUrl, wantedUrl, frameVars, clean>>

\* A worker that was stopped for the new URL is started again; otherwise the
\* call goes on to _set_ai_enabled, whose start() comes to the same.
SetUrl(c) ==
  /\ pc[c] = "url_set"
  /\ wsUrl' = wantedUrl[c]
  /\ Goto(c, IF then[c] = "url_set" THEN "start" ELSE then[c])
  /\ then' = [then EXCEPT ![c] = IF then[c] = "url_set" THEN "enable" ELSE then[c]]
  /\ UNCHANGED <<wsEnabled, stop, thread, joined, worker, wantedUrl, frameVars, clean>>

\* _set_ai_enabled(True), whose update_url finds the URL it has just set.
Enable(c) ==
  /\ pc[c] = "enable"
  /\ \/ wsEnabled /\ Goto(c, "idle") /\ UNCHANGED wsEnabled
     \/ ~wsEnabled /\ Goto(c, "start") /\ wsEnabled' = TRUE
  /\ then' = [then EXCEPT ![c] = "idle"]
  /\ UNCHANGED <<stop, thread, joined, worker, wsUrl, wantedUrl, frameVars, clean>>

\* Fault: a worker is started without looking for a living one.
StartBlind(c) ==
  /\ pc[c] = "start"
  /\ Goto(c, "spawn") /\ stop' = FALSE
  /\ UNCHANGED <<wsEnabled, thread, joined, worker, wsUrl, wantedUrl, frameVars, then, clean>>

\* start(): nothing if the worker lives, else _stop is cleared ...
Start(c) ==
  /\ pc[c] = "start"
  /\ \/ Alive(thread) /\ Goto(c, then[c]) /\ UNCHANGED stop
     \/ ~Alive(thread) /\ Goto(c, "spawn") /\ stop' = FALSE
  /\ UNCHANGED <<wsEnabled, thread, joined, worker, wsUrl, wantedUrl, frameVars, then, clean>>

\* ... and a new thread is started.
Spawn(c) ==
  /\ pc[c] = "spawn" /\ Goto(c, then[c])
  /\ \E w \in Workers :
       /\ worker[w] = "dead" /\ \A d \in Callers : joined[d] # w
       /\ thread' = w /\ worker' = [worker EXCEPT ![w] = "loop"]
  /\ UNCHANGED <<wsEnabled, stop, joined, wsUrl, wantedUrl, frameVars, then, clean>>

\* _set_ai_enabled(False)
Disable(c) ==
  /\ pc[c] = "idle" /\ wsEnabled /\ Begins(c)
  /\ wsEnabled' = FALSE
  /\ Goto(c, "stop") /\ then' = [then EXCEPT ![c] = "idle"]
  /\ UNCHANGED <<stop, thread, joined, worker, wsUrl, wantedUrl, frameVars>>

\* Fault: the worker is not told to stop, only waited for.
SetStopForgotten(c) ==
  /\ pc[c] = "stop"
  /\ joined' = [joined EXCEPT ![c] = thread]
  /\ Goto(c, IF thread = None THEN "clear" ELSE "join")
  /\ UNCHANGED <<wsEnabled, stop, thread, worker, wsUrl, wantedUrl, frameVars, then, clean>>

SetStop(c) ==
  /\ pc[c] = "stop"
  /\ stop' = TRUE
  /\ joined' = [joined EXCEPT ![c] = thread]
  /\ Goto(c, IF thread = None THEN "clear" ELSE "join")
  /\ UNCHANGED <<wsEnabled, thread, worker, wsUrl, wantedUrl, frameVars, then, clean>>

\* join(timeout=3) returns when the worker is dead, or while a slow network
\* operation holds it.
Join(c) ==
  /\ pc[c] = "join"
  /\ \/ ~Alive(joined[c])
     \/ SlowNetwork /\ worker[joined[c]] \in {"connecting", "sending"}
  /\ joined' = [joined EXCEPT ![c] = None]
  /\ Goto(c, "clear")
  /\ UNCHANGED <<wsEnabled, stop, thread, worker, wsUrl, wantedUrl, frameVars, then, clean>>

Clear(c) ==
  /\ pc[c] = "clear" /\ Goto(c, then[c])
  /\ queue' = <<>>
  /\ UNCHANGED <<wsEnabled, stop, thread, joined, worker, wsUrl, wantedUrl, frames, sent, held,
                 then, clean>>
-----------------------------------------------------------------------------
\* Fault: a full queue drops what is new and keeps its size only by accident.
SubmitUnbounded ==
  /\ frames < MaxFrames /\ frames' = frames + 1
  /\ queue' = Append(queue, frames + 1)
  /\ UNCHANGED <<wsEnabled, stop, thread, joined, worker, wsUrl, wantedUrl, sent, held, pc, then,
                 clean>>

\* submit(): a full queue drops its oldest frame.
Submit ==
  /\ frames < MaxFrames /\ frames' = frames + 1
  /\ queue' = Append(IF Len(queue) >= QueueSize THEN Tail(queue) ELSE queue, frames + 1)
  /\ UNCHANGED <<wsEnabled, stop, thread, joined, worker, wsUrl, wantedUrl, sent, held, pc, then,
                 clean>>
-----------------------------------------------------------------------------
(* The worker: _run and _send_loop                                            *)

Worker(w, from, to) == worker[w] = from /\ worker' = [worker EXCEPT ![w] = to]

CallsUnchanged ==
  UNCHANGED <<wsEnabled, stop, thread, joined, wsUrl, wantedUrl, frames, pc, then, clean>>

\* The loop ends when _stop is set, else a connection is tried.
Loop(w) ==
  /\ \/ stop /\ Worker(w, "loop", "dead")
     \/ ~stop /\ Worker(w, "loop", "connecting")
  /\ UNCHANGED <<queue, sent, held>> /\ CallsUnchanged

Connect(w) ==
  /\ Worker(w, "connecting", "asking") \/ Worker(w, "connecting", "closing")
  /\ UNCHANGED <<queue, sent, held>> /\ CallsUnchanged

\* The connection is closed when _stop is set, else the next frame is awaited.
Ask(w) ==
  /\ \/ stop /\ Worker(w, "asking", "closing")
     \/ ~stop /\ Worker(w, "asking", "getting")
  /\ UNCHANGED <<queue, sent, held>> /\ CallsUnchanged

\* The worker takes the oldest frame, though _stop may be set by now, or waits
\* in vain.
Take(w) ==
  /\ \/ queue # <<>> /\ Worker(w, "getting", "sending")
        /\ queue' = Tail(queue) /\ held' = [held EXCEPT ![w] = Head(queue)]
     \/ queue = <<>> /\ Worker(w, "getting", "asking") /\ UNCHANGED <<queue, held>>
  /\ UNCHANGED sent /\ CallsUnchanged

\* Fault: a frame that could not be sent is queued again.
SendRequeueing(w) ==
  /\ \/ Worker(w, "sending", "asking") /\ sent' = held[w] /\ UNCHANGED queue
     \/ Worker(w, "sending", "closing") /\ UNCHANGED sent
        /\ queue' = IF Len(queue) < QueueSize THEN Append(queue, held[w]) ELSE queue
  /\ held' = [held EXCEPT ![w] = 0]
  /\ CallsUnchanged

\* The frame is sent, or lost with the connection.
Send(w) ==
  /\ \/ Worker(w, "sending", "asking") /\ sent' = held[w]
     \/ Worker(w, "sending", "closing") /\ UNCHANGED sent
  /\ held' = [held EXCEPT ![w] = 0]
  /\ UNCHANGED queue /\ CallsUnchanged

\* The pause before the next attempt, which ends at once when _stop is set.
Pause(w) ==
  /\ Worker(w, "closing", "loop")
  /\ UNCHANGED <<queue, sent, held>> /\ CallsUnchanged

Call(c) ==
  \/ UpdateUrl(c) \/ SetUrl(c) \/ Enable(c) \/ Start(c) \/ Spawn(c)
  \/ SetStop(c) \/ Join(c) \/ Clear(c)
Work(w) == Loop(w) \/ Connect(w) \/ Ask(w) \/ Take(w) \/ Send(w) \/ Pause(w)

WsNext ==
  \/ \E c \in Callers : ChangeAlgorithms(c) \/ Disable(c) \/ Call(c)
  \/ Submit
  \/ \E w \in Workers : Work(w)

\* Every thread runs, and every network operation ends (it has a timeout).
WsSpec == /\ WsInit /\ [][WsNext]_wsVars
          /\ \A c \in Callers : WF_wsVars(Call(c))
          /\ \A w \in Workers : WF_wsVars(Work(w))
-----------------------------------------------------------------------------
(* Properties                                                                 *)

\* Every variable has its type, and the queue its bound.
WsTypeOK ==
  /\ wsEnabled \in BOOLEAN /\ stop \in BOOLEAN
  /\ thread \in Workers \union {None} /\ joined \in [Callers -> Workers \union {None}]
  /\ worker \in [Workers -> WorkerStates]
  /\ wsUrl \in Urls /\ wantedUrl \in [Callers -> Urls]
  /\ queue \in Seq(1..MaxFrames) /\ Len(queue) <= QueueSize
  /\ frames \in 0..MaxFrames /\ sent \in 0..MaxFrames /\ held \in [Workers -> 0..MaxFrames]
  /\ pc \in [Callers -> CallSteps] /\ then \in [Callers -> CallSteps]
  /\ clean \in BOOLEAN

Quiet == \A c \in Callers : pc[c] = "idle"

\* There is never a second connection when one thread enables the upload, though
\* others disable it meanwhile: a worker that outlives the join is still the one
\* that start() finds alive.
AtMostOneWorker == Cardinality(Living) <= 1

\* Frames reach the cloud in the order of the camera and at most once, across
\* full queues, lost connections and restarts of the worker.  (With two threads
\* that enable the upload, two workers could take frames in order and send them
\* out of order.)
FramesInOrder == [][sent' # sent => sent' > sent]_wsVars

\* A disabled upload disconnects, however slow the network is, when the call that
\* disabled it did not overlap another one; so a call that runs alone repairs what
\* an overlap left behind.  (After an overlap a worker may live on while the upload
\* is disabled: a start() under way clears _stop after the other thread's stop().)
DisabledUploadDisconnects ==
  Quiet /\ ~wsEnabled /\ clean ~> Living = {} \/ ~Quiet \/ wsEnabled

\* README.md:32 "Reconnecting WebSocket worker": while the upload is enabled and
\* nobody is switching it, a worker lives that has not been told to stop.
UploadHasWorker == Quiet /\ wsEnabled => Alive(thread) /\ ~stop

\* README.md:272-273 "FF or an empty algorithm_ids list disables upload and
\* disconnects the cloud WebSocket": when the upload is disabled and nobody is
\* switching it, every worker that lives has been told to stop.  (Not so in
\* this code after two calls have overlapped.)
DisabledMeansStopped == Quiet /\ ~wsEnabled => Living = {} \/ stop
=============================================================================
