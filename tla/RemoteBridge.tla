------------------------------ MODULE RemoteBridge ------------------------------
(***************************************************************************)
(* The phone's remote control, src/jetcar_edge/remote_bridge_node.py: a       *)
(* thread for every TCP connection cuts "$...#" packets out of the bytes it   *)
(* receives and turns them into velocity commands; a timer of the executor,   *)
(* the watchdog, stops the car when no packet came for a while; the end of    *)
(* the node closes the server.  The threads share _state under a lock, which  *)
(* no thread holds while it publishes.                                       *)
(*                                                                         *)
(* A packet arrives in two parts, the bytes up to the checksum and the final  *)
(* "#".  TCP delivers the parts in order, any number of them at a time, or     *)
(* loses those the phone sent before it broke the connection off.  Commands   *)
(* are kept as "drive" or "stop"; the speeds, the replies' contents and the   *)
(* cut of a buffer above 2048 characters are left out.  The empty list of     *)
(* algorithms that precedes a motion is sent with it here; CommandPath takes  *)
(* the two apart.                                                           *)
(***************************************************************************)
EXTENDS Integers, Sequences, Functions

CONSTANTS
  Connections,    \* what phones connect to: slots for handler threads
  Kinds,          \* the packets considered, of AllKinds
  None,           \* last_command_at = 0.0
  Timeout,        \* command_timeout_seconds
  TickPeriod,     \* the period of the watchdog's timer
  TickLag,        \* bound: how much later than that the executor serves it
  MaxSent         \* bound: the packets all phones send

\* drive, halt: a joystick or button packet with that outcome; void: one that
\* publishes no velocity (no payload, an unknown direction); ask: a packet that
\* is answered; mute: a valid packet that is not; bad: one that _parse_packet
\* rejects.
AllKinds == {"drive", "halt", "void", "ask", "mute", "bad"}

\* A timeout of 0 would switch the watchdog off; it is 0.8 s as shipped.
ASSUME BridgeAssumption ==
  /\ Kinds \subseteq AllKinds
  /\ Timeout \in Nat \ {0} /\ TickPeriod \in Nat \ {0} /\ TickLag \in Nat
  /\ MaxSent \in Nat /\ None \notin Int

\* No stamp under the watchdog's eyes becomes older than this.
Oldest == Timeout + TickPeriod + TickLag

VARIABLES
  pc,         \* where the handler thread of a connection is
  open,       \* the phone has not closed the connection
  partial,    \* the phone has sent the first part of a packet only
  sent,       \* packets sent through this slot
  wire,       \* parts sent and not received
  buffer,     \* buffer, as parts
  packet,     \* the kind of the packet being handled
  seen,       \* the number of the last packet cut out
  last,       \* the age of _state.last_command_at, at most Oldest + 1
  dog,        \* where the watchdog's callback is
  tickAge,    \* the time since it was served
  node,       \* up, closing in destroy_node, or gone
  cmd,        \* the last velocity published on /cmd_vel
  fresh,      \* history: a packet was under way when the watchdog read the
              \* stamp, or renewed it since
  erased,     \* history: the watchdog erased the stamp of such a packet
  brokenOff   \* history: a handler ended because its reply could not be sent

phoneVars == <<open, partial, sent>>
threadVars == <<pc, wire, buffer, packet, seen>>
dogVars == <<dog, tickAge>>
vars == <<phoneVars, threadVars, last, dogVars, node, cmd, fresh, erased, brokenOff>>

Init ==
  /\ pc = [c \in Connections |-> "off"]
  /\ open = [c \in Connections |-> FALSE]
  /\ partial = [c \in Connections |-> FALSE]
  /\ sent = [c \in Connections |-> 0] /\ seen = [c \in Connections |-> 0]
  /\ wire = [c \in Connections |-> <<>>] /\ buffer = [c \in Connections |-> <<>>]
  /\ packet = [c \in Connections |-> "mute"]
  /\ last = None /\ dog = "idle" /\ tickAge = 0
  /\ node = "up" /\ cmd = "stop"
  /\ fresh = FALSE /\ erased = FALSE /\ brokenOff = FALSE

Goto(c, label) == pc' = [pc EXCEPT ![c] = label]
-----------------------------------------------------------------------------
(* The phone                                                                  *)

PhoneUnchanged == UNCHANGED <<last, dogVars, node, cmd, fresh, erased, brokenOff>>

Connect(c) ==
  /\ pc[c] = "off" /\ node = "up"
  /\ Goto(c, "recv")
  /\ open' = [open EXCEPT ![c] = TRUE] /\ partial' = [partial EXCEPT ![c] = FALSE]
  /\ wire' = [wire EXCEPT ![c] = <<>>] /\ buffer' = [buffer EXCEPT ![c] = <<>>]
  /\ seen' = [seen EXCEPT ![c] = sent[c]]
  /\ UNCHANGED <<sent, packet>> /\ PhoneUnchanged

Put(c, part) == wire' = [wire EXCEPT ![c] = Append(@, part)]

SendFirst(c, kind) ==
  /\ open[c] /\ ~partial[c] /\ FoldFunction(+, 0, sent) < MaxSent
  /\ Put(c, [mark |-> "$", id |-> sent[c] + 1, kind |-> kind])
  /\ sent' = [sent EXCEPT ![c] = @ + 1] /\ partial' = [partial EXCEPT ![c] = TRUE]
  /\ UNCHANGED <<open, pc, buffer, packet, seen>> /\ PhoneUnchanged

SendRest(c) ==
  /\ open[c] /\ partial[c]
  /\ Put(c, [mark |-> "#"])
  /\ partial' = [partial EXCEPT ![c] = FALSE]
  /\ UNCHANGED <<open, sent, pc, buffer, packet, seen>> /\ PhoneUnchanged

Close(c) ==
  /\ open[c] /\ open' = [open EXCEPT ![c] = FALSE]
  /\ UNCHANGED <<partial, sent, threadVars>> /\ PhoneUnchanged
-----------------------------------------------------------------------------
(* A handler thread: Handler.handle                                           *)

HandlerUnchanged == UNCHANGED <<phoneVars, dogVars, node>>
StateUnchanged == UNCHANGED <<last, cmd, fresh, erased>>

\* recv returns some of the bytes on the way.
Receive(c) ==
  /\ pc[c] = "recv"
  /\ \E n \in 1..Len(wire[c]) :
       /\ buffer' = [buffer EXCEPT ![c] = @ \o SubSeq(wire[c], 1, n)]
       /\ wire' = [wire EXCEPT ![c] = SubSeq(@, n + 1, Len(@))]
  /\ Goto(c, "scan")
  /\ UNCHANGED <<packet, seen, brokenOff>> /\ StateUnchanged /\ HandlerUnchanged

\* recv returns no bytes, or raises: what was still on the way is lost.
HangUp(c) ==
  /\ pc[c] = "recv" /\ ~open[c]
  /\ Goto(c, "bye")
  /\ wire' = [wire EXCEPT ![c] = <<>>] /\ buffer' = [buffer EXCEPT ![c] = <<>>]
  /\ UNCHANGED <<packet, seen, brokenOff>>
  /\ StateUnchanged /\ HandlerUnchanged

Marks(c, mark) == {i \in 1..Len(buffer[c]) : buffer[c][i].mark = mark}

\* Fault: the "#" is looked for from the start of the buffer.
CutAtFirstMark(c, start, end) ==
  /\ start \in Marks(c, "$") /\ end \in Marks(c, "#") /\ start < end
  /\ \A i \in Marks(c, "$") : i <= start
  /\ \A j \in Marks(c, "#") : end <= j

\* The last "$" of the buffer and the first "#" after it.
Cut(c, start, end) ==
  /\ start \in Marks(c, "$") /\ end \in Marks(c, "#") /\ start < end
  /\ \A i \in Marks(c, "$") : i <= start
  /\ \A j \in Marks(c, "#") : start < j => end <= j

\* Fault: the packet stays in the buffer.
ScanKeeping(c) ==
  /\ pc[c] = "scan"
  /\ \/ \E start, end \in 1..Len(buffer[c]) :
          /\ Cut(c, start, end)
          /\ packet' = [packet EXCEPT ![c] = buffer[c][start].kind]
          /\ seen' = [seen EXCEPT ![c] = buffer[c][start].id]
          /\ Goto(c, IF buffer[c][start].kind = "bad" THEN "scan" ELSE "stamp")
          /\ UNCHANGED buffer
     \/ /\ ~\E start, end \in 1..Len(buffer[c]) : Cut(c, start, end)
        /\ Goto(c, "recv")
        /\ UNCHANGED <<buffer, packet, seen>>
  /\ UNCHANGED <<wire, brokenOff>> /\ StateUnchanged /\ HandlerUnchanged

\* The inner loop: the newest packet is cut out with all that precedes it.
Scan(c) ==
  /\ pc[c] = "scan"
  /\ \/ \E start, end \in 1..Len(buffer[c]) :
          /\ Cut(c, start, end)
          /\ packet' = [packet EXCEPT ![c] = buffer[c][start].kind]
          /\ seen' = [seen EXCEPT ![c] = buffer[c][start].id]
          /\ buffer' = [buffer EXCEPT ![c] = SubSeq(@, end + 1, Len(@))]
          /\ Goto(c, IF buffer[c][start].kind = "bad" THEN "scan" ELSE "stamp")
     \/ /\ ~\E start, end \in 1..Len(buffer[c]) : Cut(c, start, end)
        /\ Goto(c, "recv")
        /\ UNCHANGED <<buffer, packet, seen>>
  /\ UNCHANGED <<wire, brokenOff>> /\ StateUnchanged /\ HandlerUnchanged

\* _handle_packet, under the lock: every valid packet renews the stamp.
Stamp(c) ==
  /\ pc[c] = "stamp"
  /\ \/ packet[c] \in {"drive", "halt", "void"} /\ Goto(c, "move")
     \/ packet[c] = "ask" /\ Goto(c, "reply")
     \/ packet[c] \in {"mute", "bad"} /\ Goto(c, "scan")
  /\ last' = 0 /\ fresh' = (dog # "idle") /\ erased' = FALSE
  /\ UNCHANGED <<wire, buffer, packet, seen, cmd, brokenOff>> /\ HandlerUnchanged

\* _manual_override with _handle_joystick or _handle_button.
Move(c) ==
  /\ pc[c] = "move" /\ Goto(c, "scan")
  /\ \/ packet[c] = "drive" /\ cmd' = "drive"
     \/ packet[c] = "halt" /\ cmd' = "stop"
     \/ packet[c] \notin {"drive", "halt"} /\ UNCHANGED cmd
  /\ UNCHANGED <<wire, buffer, packet, seen, last, fresh, erased, brokenOff>>
  /\ HandlerUnchanged

\* Fault: a packet whose reply cannot be sent is handled again.
ReplyRetrying(c) ==
  /\ pc[c] = "reply"
  /\ \/ Goto(c, "scan")
     \/ ~open[c] /\ Goto(c, "stamp")
  /\ UNCHANGED <<wire, buffer, packet, seen, brokenOff>>
  /\ StateUnchanged /\ HandlerUnchanged

\* sendall; when it raises, the handler returns at once.
Reply(c) ==
  /\ pc[c] = "reply"
  /\ \/ Goto(c, "scan") /\ UNCHANGED brokenOff
        /\ UNCHANGED <<wire, buffer>>
     \/ /\ ~open[c] /\ Goto(c, "off") /\ brokenOff' = TRUE
        /\ wire' = [wire EXCEPT ![c] = <<>>] /\ buffer' = [buffer EXCEPT ![c] = <<>>]
  /\ UNCHANGED <<packet, seen>> /\ StateUnchanged /\ HandlerUnchanged

Bye(c) ==
  /\ pc[c] = "bye" /\ Goto(c, "off")
  /\ cmd' = "stop"
  /\ UNCHANGED <<wire, buffer, packet, seen, last, fresh, erased, brokenOff>>
  /\ HandlerUnchanged

Handle(c) == HangUp(c) \/ Receive(c) \/ Scan(c) \/ Stamp(c) \/ Move(c) \/ Reply(c) \/ Bye(c)
-----------------------------------------------------------------------------
(* The executor: _watchdog_tick and destroy_node                              *)

DogUnchanged == UNCHANGED <<phoneVars, threadVars, brokenOff>>

\* Time passes; the executor is not later than TickLag, and takes no time.
Elapse ==
  /\ node = "up" /\ dog = "idle" /\ tickAge < TickPeriod + TickLag
  /\ tickAge' = tickAge + 1
  /\ last' = IF last = None THEN None ELSE IF last > Oldest THEN last ELSE last + 1
  /\ UNCHANGED <<dog, node, cmd, fresh, erased>> /\ DogUnchanged

Overdue == last # None /\ last > Timeout

\* The stamp is read under the lock, which is then released.
Watch ==
  /\ node = "up" /\ dog = "idle" /\ tickAge >= TickPeriod
  /\ tickAge' = 0
  /\ \/ /\ Overdue /\ dog' = "stop"
        /\ fresh' = \E c \in Connections : pc[c] = "move"
     \/ ~Overdue /\ UNCHANGED <<dog, fresh>>
  /\ UNCHANGED <<last, node, cmd, erased>> /\ DogUnchanged

\* Fault: the stamp is cleared, but no stop is published.
WatchStopSilently ==
  /\ dog = "stop" /\ dog' = "clear"
  /\ UNCHANGED <<last, tickAge, node, cmd, fresh, erased>> /\ DogUnchanged

WatchStop ==
  /\ dog = "stop" /\ dog' = "clear"
  /\ cmd' = "stop"
  /\ UNCHANGED <<last, tickAge, node, fresh, erased>> /\ DogUnchanged

\* Whatever the stamp is by now, it is cleared.
WatchClear ==
  /\ dog = "clear" /\ dog' = "idle"
  /\ last' = None
  /\ erased' = fresh /\ fresh' = FALSE
  /\ UNCHANGED <<tickAge, node, cmd>> /\ DogUnchanged

\* The executor spins no longer: destroy_node publishes a stop and closes the
\* server, which takes no further connection.
Destroy ==
  /\ node = "up" /\ dog = "idle"
  /\ node' = "closing" /\ cmd' = "stop"
  /\ UNCHANGED <<last, dogVars, fresh, erased>> /\ DogUnchanged

\* Fault: the threads are not waited for.
GoneAtOnce ==
  /\ node = "closing" /\ node' = "gone"
  /\ UNCHANGED <<last, dogVars, cmd, fresh, erased>> /\ DogUnchanged

\* server_close joins the handler threads.
Gone ==
  /\ node = "closing" /\ \A c \in Connections : pc[c] = "off"
  /\ node' = "gone"
  /\ UNCHANGED <<last, dogVars, cmd, fresh, erased>> /\ DogUnchanged

Executor == Watch \/ WatchStop \/ WatchClear

Next ==
  \/ \E c \in Connections :
       Connect(c) \/ (\E kind \in Kinds : SendFirst(c, kind)) \/ SendRest(c) \/ Close(c)
       \/ Handle(c)
  \/ Elapse \/ Executor \/ Destroy \/ Gone

\* The threads run on, the executor serves its timer, and time passes.  No phone
\* need send, and none need close what it opened.
Spec == /\ Init /\ [][Next]_vars
        /\ \A c \in Connections : WF_vars(Handle(c))
        /\ WF_vars(Executor) /\ WF_vars(Elapse)
-----------------------------------------------------------------------------
(* Properties                                                                 *)

Parts == [mark : {"$"}, id : Nat, kind : Kinds] \union [mark : {"#"}]

\* Every variable has its type.
TypeOK ==
  /\ pc \in [Connections -> {"off", "recv", "scan", "stamp", "move", "reply", "bye"}]
  /\ open \in [Connections -> BOOLEAN] /\ partial \in [Connections -> BOOLEAN]
  /\ sent \in [Connections -> Nat] /\ seen \in [Connections -> Nat]
  /\ wire \in [Connections -> Seq(Parts)] /\ buffer \in [Connections -> Seq(Parts)]
  /\ packet \in [Connections -> AllKinds]
  /\ last \in (0..Oldest) \union {None}
  /\ dog \in {"idle", "stop", "clear"} /\ tickAge \in 0..TickPeriod + TickLag
  /\ node \in {"up", "closing", "gone"} /\ cmd \in {"drive", "stop"}
  /\ fresh \in BOOLEAN /\ erased \in BOOLEAN /\ brokenOff \in BOOLEAN

\* While the node is up a car that was told to drive is watched: the stamp is
\* there and not older than the timeout and one late tick, however packets,
\* disconnections and the watchdog's unlocked steps overlap.  The exception is
\* explicit: the watchdog may erase the stamp of a packet that is under way.
MotionIsWatched ==
  node = "up" /\ cmd = "drive" => erased \/ (last # None /\ last <= Oldest)

\* The bridge keeps what ManualControl promises to the other writers of /cmd_vel.
Contract == INSTANCE ManualControl WITH watched <- last # None, lost <- erased
KeepsContract == Contract!Safety

\* What decides is the newest packet, however the bytes were split and gathered.
\* A thread that has received everything and waits for more has cut out the newest
\* packet when the phone has completed it; when the phone has not, its first part
\* is what the buffer ends with, to be completed by what comes.  (A packet that was
\* completed before that first part came may be in front of it, unhandled: the
\* search starts at the last "$".  CompletedPacketsAct says so.)
NewestPacketDecides == \A c \in Connections :
  LET b == buffer[c] IN
  pc[c] = "recv" /\ wire[c] = <<>> =>
    IF partial[c]
    THEN b # <<>> /\ b[Len(b)].mark = "$" /\ b[Len(b)].id = sent[c]
    ELSE seen[c] = sent[c]

\* A packet acts once, and never after a later packet of its connection.
PacketsActInOrder == [][
  \A c \in Connections :
    pc[c] = "scan" /\ pc'[c] = "stamp" => seen'[c] > seen[c] ]_vars

\* When destroy_node has returned, the last command was a stop, whatever phones
\* sent while it waited, unless a handler had returned at a failed reply.
GoneMeansStopped == node = "gone" => cmd = "stop" \/ brokenOff

\* Phones that fall silent, with or without closing their connections, leave a
\* car that stands, as long as the node is up and no fresh stamp is erased.
SilenceStops == <>[](cmd = "stop" \/ erased \/ node # "up")

\* Not so in this code: a thread that has received everything and waits for more
\* has acted on the newest packet that is complete.  One that was received together
\* with the first part of the next waits in front of it, and is thrown away with
\* the cut of that next one.
CompletedPacketsAct == \A c \in Connections :
  pc[c] = "recv" /\ wire[c] = <<>> =>
    seen[c] = (IF partial[c] THEN sent[c] - 1 ELSE sent[c])

\* Not so in this code: a drive is always watched.
DrivesAreWatched == node = "up" /\ cmd = "drive" => last # None

\* Not so in this code: a halt is dropped in favour of another motion only.
HaltsAreObeyed == [][
  \A c \in Connections :
    pc[c] = "scan" /\ pc'[c] = "stamp"
      /\ (\E i \in Marks(c, "$") : buffer[c][i].kind = "halt")
        => packet'[c] \in {"drive", "halt"} ]_vars

\* Not so in this code: after destroy_node's stop nothing moves.
DestroyIsFinal == node # "up" => cmd = "stop"
=============================================================================
