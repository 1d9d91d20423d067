--------------------------- MODULE RemoteBridgeProofs ---------------------------
(***************************************************************************)
(* What holds of RemoteBridge for any number of connections and packets, any  *)
(* timeout and any lateness of the executor.                                *)
(*                                                                         *)
(* Four arguments: the stamp is as old as the timer allows (Watched); whoever  *)
(* drives has a thread that will stop the car (Ending); the packets on the way *)
(* are newer than those handled (Numbered); and the newest one ends what the   *)
(* thread has and will receive until it cuts it out (Coming, Searched).        *)
(***************************************************************************)
EXTENDS RemoteBridge, SequenceTheorems, TLAPS

Labels == {"off", "recv", "scan", "stamp", "move", "reply", "bye"}

\* The types of the variables the control flow depends on.
ControlOK ==
  /\ pc \in [Connections -> Labels]
  /\ dog \in {"idle", "stop", "clear"} /\ tickAge \in 0..TickPeriod + TickLag
  /\ node \in {"up", "closing", "gone"} /\ cmd \in {"drive", "stop"}

\* The types of the histories.
HistoryOK == fresh \in BOOLEAN /\ erased \in BOOLEAN /\ brokenOff \in BOOLEAN

\* The types of what the phones send.
DataOK ==
  /\ open \in [Connections -> BOOLEAN] /\ partial \in [Connections -> BOOLEAN]
  /\ sent \in [Connections -> Nat] /\ seen \in [Connections -> Nat]
  /\ wire \in [Connections -> Seq(Parts)] /\ buffer \in [Connections -> Seq(Parts)]
  /\ packet \in [Connections -> AllKinds]

\* Between two visits of the watchdog the stamp grows old with the timer.
StampOK ==
  /\ last \in (0..Oldest) \union {None}
  /\ dog = "idle" /\ last # None => last <= Timeout + tickAge

\* The watchdog erases a stamp that is there.  While it is about to, every motion
\* that is under way, and every one published after its stop, is known to be fresh.
Watched ==
  /\ (dog # "idle" => last # None) /\ (erased => last = None)
  /\ cmd = "drive" /\ last = None => erased
  /\ dog = "clear" /\ cmd = "drive" => fresh
  /\ \A c \in Connections :
       pc[c] = "move" => (dog # "idle" => fresh) /\ (last = None => erased)

\* While the node closes, a drive has a thread that has yet to say good-bye.
Ending ==
  /\ node = "closing" /\ cmd = "drive" => brokenOff \/ \E c \in Connections : pc[c] # "off"
  /\ node = "gone" => (\A c \in Connections : pc[c] = "off") /\ (cmd = "drive" => brokenOff)

IInv == ControlOK /\ HistoryOK /\ StampOK /\ Watched /\ Ending
-----------------------------------------------------------------------------
LEMMA OldestNat == Oldest \in Nat /\ Timeout + TickPeriod + TickLag = Oldest
BY BridgeAssumption DEF Oldest

\* Initially nothing moves and nothing is watched.
LEMMA InitIInv == Init => IInv
<1> SUFFICES ASSUME Init PROVE IInv
  OBVIOUS
<1>1. ControlOK /\ StampOK
  BY BridgeAssumption, OldestNat DEF Init, ControlOK, StampOK, Labels
<1>2. HistoryOK
  BY Zenon DEF Init, HistoryOK
<1>3. Watched /\ Ending
  BY DEF Init, Watched, Ending
<1>4. QED
  BY <1>1, <1>2, <1>3 DEF IInv

\* A step of a handler thread keeps the invariant.
LEMMA HandleIInv ==
  ASSUME IInv, NEW c \in Connections, Handle(c)
  PROVE  IInv'
<1> USE DEF IInv, ControlOK, HistoryOK, StampOK, Watched, Ending, Labels, HandlerUnchanged,
     StateUnchanged, Goto, phoneVars, dogVars
<1>1. CASE HangUp(c)
  BY <1>1 DEF HangUp
<1>2. CASE Receive(c)
  BY <1>2 DEF Receive
<1>3. CASE Scan(c)
  <2>1. PICK label \in {"scan", "stamp", "recv"} : pc' = [pc EXCEPT ![c] = label]
    BY <1>3 DEF Scan
  <2>2. pc[c] = "scan" /\ UNCHANGED <<last, cmd, fresh, erased, dog, tickAge, node, brokenOff>>
    BY <1>3 DEF Scan
  <2>3. QED
    BY <2>1, <2>2
<1>4. CASE Stamp(c)
  <2>1. PICK label \in {"move", "reply", "scan"} : pc' = [pc EXCEPT ![c] = label]
    BY <1>4 DEF Stamp
  <2>2. /\ pc[c] = "stamp" /\ UNCHANGED <<cmd, dog, tickAge, node, brokenOff>>
        /\ last' = 0 /\ fresh' = (dog # "idle") /\ erased' = FALSE
    BY <1>4 DEF Stamp
  <2>3. (dog # "idle" => fresh') /\ HistoryOK'
    <3>1. fresh' \in BOOLEAN /\ erased' \in BOOLEAN /\ (dog # "idle" => fresh')
      BY <2>2, Zenon
    <3>2. QED
      BY <2>2, <3>1, Zenon DEF HistoryOK
  <2>4. 0 # None /\ tickAge >= 0 /\ Timeout >= 0
    BY BridgeAssumption
  <2>5. ControlOK' /\ StampOK'
    BY <2>1, <2>2, <2>3, <2>4, OldestNat, BridgeAssumption
  <2>6. Watched'
    BY <2>1, <2>2, <2>3, <2>4
  <2>7. Ending'
    BY <2>1, <2>2
  <2>8. QED
    BY <2>3, <2>5, <2>6, <2>7
<1>5. CASE Move(c)
  <2>1. /\ pc[c] = "move" /\ pc' = [pc EXCEPT ![c] = "scan"]
        /\ cmd' \in {"drive", "stop"}
        /\ UNCHANGED <<last, fresh, erased, dog, tickAge, node, brokenOff>>
    BY <1>5 DEF Move
  <2>2. QED
    BY <2>1
<1>6. CASE Reply(c)
  BY <1>6 DEF Reply
<1>7. CASE Bye(c)
  BY <1>7 DEF Bye
<1>8. QED
  BY <1>1, <1>2, <1>3, <1>4, <1>5, <1>6, <1>7 DEF Handle
-----------------------------------------------------------------------------
\* A step of the watchdog, of the clock or of the end of the node keeps it.
LEMMA NodeIInv ==
  ASSUME IInv, Elapse \/ Executor \/ Destroy \/ Gone
  PROVE  IInv'
<1> USE DEF IInv, ControlOK, HistoryOK, StampOK, Watched, Ending, Labels, DogUnchanged, threadVars, dogVars
<1>1. CASE Elapse
  <2>1. last # None => last' = last + 1 /\ last + 1 <= Oldest
    BY <1>1, OldestNat, BridgeAssumption DEF Elapse
  <2>2. QED
    BY <1>1, <2>1, OldestNat, BridgeAssumption DEF Elapse
<1>2. CASE Watch
  <2>1. CASE Overdue /\ dog' = "stop" /\ fresh' = \E c \in Connections : pc[c] = "move"
    <3>1. fresh' \in BOOLEAN /\ \A c \in Connections : pc[c] = "move" => fresh'
      BY <2>1, Zenon
    <3>2. QED
      BY <1>2, <2>1, <3>1, BridgeAssumption DEF Watch
  <2>2. CASE ~Overdue /\ UNCHANGED <<dog, fresh>>
    <3>1. last # None => last <= Timeout
      BY <2>2, BridgeAssumption, OldestNat DEF Overdue
    <3>2. QED
      BY <1>2, <2>2, <3>1, BridgeAssumption DEF Watch
  <2>3. QED
    BY <1>2, <2>1, <2>2 DEF Watch
<1>3. CASE WatchStop
  BY <1>3 DEF WatchStop
<1>4. CASE WatchClear
  <2>1. HistoryOK' /\ (fresh => erased')
    BY <1>4, Zenon DEF WatchClear, HistoryOK
  <2>2. QED
    BY <1>4, <2>1 DEF WatchClear
<1>5. CASE Destroy
  BY <1>5 DEF Destroy
<1>6. CASE Gone
  BY <1>6 DEF Gone
<1>7. QED
  BY <1>1, <1>2, <1>3, <1>4, <1>5, <1>6 DEF Executor

\* What a phone does disturbs none of it.
LEMMA PhoneIInv ==
  ASSUME IInv, NEW c \in Connections,
         Connect(c) \/ (\E kind \in Kinds : SendFirst(c, kind)) \/ SendRest(c) \/ Close(c)
  PROVE  IInv'
<1> USE DEF IInv, ControlOK, HistoryOK, StampOK, Watched, Ending, Labels, PhoneUnchanged, dogVars,
     threadVars, Goto
<1>1. CASE Connect(c)
  BY <1>1 DEF Connect
<1>2. ASSUME NEW kind \in Kinds, SendFirst(c, kind) PROVE IInv'
  BY <1>2 DEF SendFirst
<1>3. CASE SendRest(c)
  BY <1>3 DEF SendRest
<1>4. CASE Close(c)
  BY <1>4 DEF Close
<1>5. QED
  BY <1>1, <1>2, <1>3, <1>4

LEMMA StepIInv == IInv /\ [Next]_vars => IInv'
<1>1. CASE UNCHANGED vars
  BY <1>1 DEF vars, phoneVars, threadVars, dogVars, IInv, ControlOK, HistoryOK, StampOK, Watched, Ending
<1>2. QED
  BY <1>1, HandleIInv, NodeIInv, PhoneIInv DEF Next

LEMMA Inductive == Spec => []IInv
BY InitIInv, StepIInv, PTL DEF Spec
-----------------------------------------------------------------------------
\* A car the bridge has told to drive is watched, whatever overlaps.
THEOREM MotionsAreWatched == Spec => []MotionIsWatched
<1>1. IInv => MotionIsWatched
  BY OldestNat DEF IInv, ControlOK, StampOK, Watched, MotionIsWatched
<1>2. QED
  BY <1>1, Inductive, PTL

\* When destroy_node has returned the car was told to stop, or a reply had failed.
THEOREM EndsStopped == Spec => []GoneMeansStopped
<1>1. IInv => GoneMeansStopped
  BY DEF IInv, ControlOK, Ending, GoneMeansStopped
<1>2. QED
  BY <1>1, Inductive, PTL
-----------------------------------------------------------------------------
(* The refinement                                                             *)

Watching == last # None

\* Every step of the bridge is a step of its contract, or none of its business.
LEMMA StepImplements ==
  ASSUME IInv, [Next]_vars
  PROVE  [Contract!Next]_<<cmd, Watching, erased>>
<1> USE DEF Contract!Next
<1>a. ASSUME UNCHANGED <<cmd, erased>>, last # None <=> last' # None
      PROVE  UNCHANGED <<cmd, Watching, erased>>
  BY <1>a, Zenon DEF Watching
<1>b. ASSUME cmd' = "stop", UNCHANGED <<last, erased>> PROVE Contract!Halt
  <2>1. UNCHANGED Watching
    BY <1>b, Zenon DEF Watching
  <2>2. QED
    BY <1>b, <2>1, Zenon DEF Contract!Halt, Watching
<1>1. CASE UNCHANGED <<cmd, last, erased>>
  BY <1>1, <1>a
<1>2. ASSUME NEW c \in Connections, Stamp(c) PROVE Contract!Renew
  <2>1. last' # None /\ erased' = FALSE /\ UNCHANGED cmd
    BY <1>2, BridgeAssumption DEF Stamp
  <2>2. Watching' = TRUE
    BY <2>1, Zenon DEF Watching
  <2>3. QED
    BY <2>1, <2>2, Zenon DEF Contract!Renew, Watching
<1>3. ASSUME NEW c \in Connections, Move(c) PROVE [Contract!Next]_<<cmd, Watching, erased>>
  <2>1. UNCHANGED <<last, erased>>
    BY <1>3 DEF Move
  <2>2. CASE packet[c] = "drive" /\ cmd' = "drive"
    <3>1. Watching \/ erased
      BY <1>3 DEF Move, IInv, Watched, Watching
    <3>2. UNCHANGED Watching
      BY <2>1, Zenon DEF Watching
    <3>3. Contract!Drive
      BY <2>1, <2>2, <3>1, <3>2, Zenon DEF Contract!Drive, Watching
    <3>4. QED
      BY <3>3
  <2>3. CASE cmd' = "stop"
    BY <2>1, <2>3, <1>b
  <2>4. CASE UNCHANGED cmd
    BY <2>1, <2>4, <1>a
  <2>5. QED
    BY <1>3, <2>2, <2>3, <2>4 DEF Move
<1>4. ASSUME NEW c \in Connections, Bye(c) PROVE Contract!Halt
  BY <1>4, <1>b DEF Bye
<1>5. CASE Elapse
  BY <1>5, <1>a, BridgeAssumption DEF Elapse, IInv, StampOK
<1>6. CASE WatchStop
  BY <1>6, <1>b DEF WatchStop
<1>7. CASE WatchClear
  <2>1. UNCHANGED cmd /\ dog = "clear" /\ last' = None /\ erased' = fresh
    BY <1>7 DEF WatchClear
  <2>2. Watching /\ erased = FALSE
    <3>1. last # None /\ ~erased
      BY <2>1 DEF IInv, Watched
    <3>2. QED
      BY <3>1, Zenon DEF Watching, IInv, HistoryOK
  <2>3. Watching' = FALSE
    BY <2>1, Zenon DEF Watching
  <2>4. CASE fresh
    <3>1. erased' = TRUE
      BY <2>1, <2>4, Zenon DEF IInv, HistoryOK
    <3>2. Contract!Lose
      BY <2>1, <2>2, <2>3, <3>1, Zenon DEF Contract!Lose, Watching
    <3>3. QED
      BY <3>2
  <2>5. CASE ~fresh
    <3>1. erased' = FALSE
      BY <2>1, <2>5, Zenon DEF IInv, HistoryOK
    <3>2. cmd = "stop"
      BY <2>1, <2>5 DEF IInv, ControlOK, Watched
    <3>3. UNCHANGED erased
      BY <2>2, <3>1, Zenon
    <3>4. Contract!Expire
      BY <2>1, <2>2, <2>3, <3>2, <3>3, Zenon DEF Contract!Expire, Watching
    <3>5. QED
      BY <3>4
  <2>6. QED
    BY <2>4, <2>5
<1>8. CASE Destroy
  BY <1>8, <1>b DEF Destroy
<1>9. ASSUME NEW c \in Connections, Handle(c) PROVE [Contract!Next]_<<cmd, Watching, erased>>
  <2>1. CASE HangUp(c) \/ Receive(c) \/ Scan(c) \/ Reply(c)
    BY <2>1, <1>1 DEF HangUp, Receive, Scan, Reply, StateUnchanged
  <2>2. QED
    BY <1>9, <2>1, <1>2, <1>3, <1>4 DEF Handle
<1>10. ASSUME NEW c \in Connections,
         Connect(c) \/ (\E kind \in Kinds : SendFirst(c, kind)) \/ SendRest(c) \/ Close(c)
       PROVE  UNCHANGED <<cmd, last, erased>>
  BY <1>10 DEF Connect, SendFirst, SendRest, Close, PhoneUnchanged
<1>11. CASE Watch \/ Gone
  BY <1>11, <1>1 DEF Watch, Gone
<1>12. CASE UNCHANGED vars
  BY <1>12, <1>1 DEF vars
<1>13. QED
  BY <1>1, <1>5, <1>6, <1>7, <1>8, <1>9, <1>10, <1>11, <1>12 DEF Next, Executor

\* The bridge implements ManualControl, which the command path relies on.
THEOREM BridgeKeepsContract == Spec => KeepsContract
<1>1. Init => Contract!Init
  BY Zenon DEF Init, Contract!Init
<1>2. IInv /\ [Next]_vars => [Contract!Next]_<<cmd, last # None, erased>>
  BY StepImplements DEF Watching
<1>3. QED
  BY <1>1, <1>2, Inductive, PTL DEF Spec, KeepsContract, Contract!Safety
-----------------------------------------------------------------------------
(* The packets on their way                                                   *)

\* Of the parts b received and w on the way: every packet is newer than number lo
\* and not newer than hi, and those on the way are newer than those received and
\* come in order.
Ordered(b, w, lo, hi) ==
  /\ lo <= hi
  /\ \A i \in 1..Len(b) : b[i].mark = "$" => lo < b[i].id /\ b[i].id <= hi
  /\ \A j \in 1..Len(w) : w[j].mark = "$" => lo < w[j].id /\ w[j].id <= hi
  /\ \A i \in 1..Len(b), j \in 1..Len(w) :
       b[i].mark = "$" /\ w[j].mark = "$" => b[i].id < w[j].id
  /\ \A j, k \in 1..Len(w) :
       j < k /\ w[j].mark = "$" /\ w[k].mark = "$" => w[j].id < w[k].id

Numbered == \A c \in Connections : Ordered(buffer[c], wire[c], seen[c], sent[c])

DInv == DataOK /\ Numbered

LEMMA FirstParts ==
  ASSUME NEW part \in Parts, part.mark = "$"
  PROVE  part.id \in Nat /\ part.kind \in Kinds
BY DEF Parts

LEMMA OrderedEmpty ==
  ASSUME NEW lo \in Nat, NEW hi \in Nat, lo <= hi
  PROVE  Ordered(<<>>, <<>>, lo, hi)
BY DEF Ordered

\* What is sent is the newest.
LEMMA OrderedAppend ==
  ASSUME NEW b \in Seq(Parts), NEW w \in Seq(Parts), NEW lo \in Nat, NEW hi \in Nat,
         Ordered(b, w, lo, hi), NEW part \in Parts, NEW top \in Nat, hi <= top,
         part.mark = "$" => part.id = hi + 1 /\ hi + 1 = top
  PROVE  Append(w, part) \in Seq(Parts) /\ Ordered(b, Append(w, part), lo, top)
<1> DEFINE v == Append(w, part)
<1>1. /\ v \in Seq(Parts) /\ Len(v) = Len(w) + 1 /\ v[Len(w) + 1] = part
      /\ \A i \in 1..Len(w) : v[i] = w[i]
  BY AppendProperties
<1>2. Len(w) \in Nat /\ Len(b) \in Nat
  BY LenProperties
<1>3. \A i \in 1..Len(b) : b[i] \in Parts
  BY ElementOfSeq
<1>4. \A i \in 1..Len(w) : w[i] \in Parts
  BY ElementOfSeq
<1>5. \A i \in 1..Len(b) : b[i].mark = "$" => b[i].id \in Nat
  BY <1>3, FirstParts
<1>6. \A i \in 1..Len(w) : w[i].mark = "$" => w[i].id \in Nat
  BY <1>4, FirstParts
<1> HIDE DEF v
<1>7. ASSUME NEW j \in 1..Len(v)
      PROVE  (j \in 1..Len(w) /\ v[j] = w[j]) \/ (j = Len(w) + 1 /\ v[j] = part)
  <2>1. j \in 1..Len(w) \/ j = Len(w) + 1
    BY <1>1, <1>2
  <2>2. QED
    BY <2>1, <1>1
<1>8. lo <= top /\ \A i \in 1..Len(b) : b[i].mark = "$" => lo < b[i].id /\ b[i].id <= top
  BY <1>5 DEF Ordered
<1>9. \A j \in 1..Len(v) : v[j].mark = "$" => lo < v[j].id /\ v[j].id <= top
  BY <1>6, <1>7 DEF Ordered
<1>10. \A i \in 1..Len(b), j \in 1..Len(v) :
         b[i].mark = "$" /\ v[j].mark = "$" => b[i].id < v[j].id
  <2>1. \A i \in 1..Len(b) : b[i].mark = "$" => b[i].id < hi + 1
    BY <1>5 DEF Ordered
  <2>2. QED
    BY <2>1, <1>7 DEF Ordered
<1>11. ASSUME NEW j \in 1..Len(v), NEW k \in 1..Len(v), j < k, v[j].mark = "$", v[k].mark = "$"
       PROVE  v[j].id < v[k].id
  <2>1. j \in 1..Len(w) /\ v[j] = w[j]
    BY <1>1, <1>2, <1>7, <1>11
  <2>2. CASE k = Len(w) + 1
    BY <1>1, <1>6, <1>11, <2>1, <2>2 DEF Ordered
  <2>3. CASE k \in 1..Len(w) /\ v[k] = w[k]
    BY <1>11, <2>1, <2>3 DEF Ordered
  <2>4. QED
    BY <1>7, <2>2, <2>3
<1>12. Ordered(b, v, lo, top)
  BY <1>8, <1>9, <1>10, <1>11 DEF Ordered
<1>13. QED
  BY <1>1, <1>12 DEF v

\* Receiving some parts takes none past another.
LEMMA OrderedReceive ==
  ASSUME NEW b \in Seq(Parts), NEW w \in Seq(Parts), NEW lo \in Nat, NEW hi \in Nat,
         Ordered(b, w, lo, hi), NEW n \in 1..Len(w)
  PROVE  /\ b \o SubSeq(w, 1, n) \in Seq(Parts) /\ SubSeq(w, n + 1, Len(w)) \in Seq(Parts)
         /\ Ordered(b \o SubSeq(w, 1, n), SubSeq(w, n + 1, Len(w)), lo, hi)
<1> DEFINE head == SubSeq(w, 1, n)
           rest == SubSeq(w, n + 1, Len(w))
           all  == b \o head
<1>1. Len(w) \in Nat /\ Len(b) \in Nat /\ n \in Nat /\ n <= Len(w)
  BY LenProperties
<1>2. \A i \in 1..Len(w) : w[i] \in Parts
  BY ElementOfSeq
<1>3. \A i \in 1..Len(b) : b[i] \in Parts
  BY ElementOfSeq
<1>4. head \in Seq(Parts) /\ Len(head) = n /\ \A i \in 1..n : head[i] = w[i]
  <2>1. \A i \in 1..n : w[i] \in Parts
    BY <1>1, <1>2
  <2>2. QED
    BY <1>1, <2>1, SubSeqProperties
<1>5. rest \in Seq(Parts) /\ Len(rest) = Len(w) - n /\ \A i \in 1..Len(w) - n : rest[i] = w[n + i]
  <2>1. \A i \in n + 1..Len(w) : w[i] \in Parts
    BY <1>1, <1>2
  <2>2. n + 1 \in Int /\ Len(w) \in Int /\ Len(w) - (n + 1) + 1 = Len(w) - n
    BY <1>1
  <2>3. /\ rest \in Seq(Parts)
        /\ Len(rest) = IF n + 1 <= Len(w) THEN Len(w) - (n + 1) + 1 ELSE 0
        /\ \A i \in 1..Len(w) - (n + 1) + 1 : rest[i] = w[n + 1 + i - 1]
    BY <2>1, <2>2, SubSeqProperties
  <2>4. ASSUME NEW i \in 1..Len(w) - n PROVE rest[i] = w[n + i]
    <3>1. i \in 1..Len(w) - (n + 1) + 1 /\ n + 1 + i - 1 = n + i
      BY <1>1
    <3>2. QED
      BY <3>1, <2>3
  <2>5. Len(rest) = Len(w) - n
    <3>1. CASE n = Len(w)
      BY <3>1, <2>3, <1>1
    <3>2. CASE n < Len(w)
      BY <3>2, <2>3, <1>1
    <3>3. QED
      BY <3>1, <3>2, <1>1
  <2>6. QED
    BY <2>3, <2>4, <2>5
<1>6. /\ all \in Seq(Parts) /\ Len(all) = Len(b) + n
      /\ \A i \in 1..Len(b) + n : all[i] = IF i <= Len(b) THEN b[i] ELSE head[i - Len(b)]
  BY <1>4, ConcatProperties
<1>7. \A i \in 1..Len(b) : b[i].mark = "$" => b[i].id \in Nat
  BY <1>3, FirstParts
<1>8. \A i \in 1..Len(w) : w[i].mark = "$" => w[i].id \in Nat
  BY <1>2, FirstParts
<1> HIDE DEF head, rest, all
<1>9. \A i \in 1..Len(all) :
        \/ i \in 1..Len(b) /\ all[i] = b[i]
        \/ i - Len(b) \in 1..n /\ all[i] = w[i - Len(b)]
  BY <1>1, <1>4, <1>6
<1>10. ASSUME NEW j \in 1..Len(rest)
       PROVE  n + j \in n + 1..Len(w) /\ n + j \in 1..Len(w) /\ rest[j] = w[n + j]
  <2>1. j \in 1..Len(w) - n
    BY <1>5
  <2>2. QED
    BY <2>1, <1>1, <1>5
<1>11. \A i \in 1..n : i \in 1..Len(w)
  BY <1>1
<1>12. Ordered(all, rest, lo, hi)
  <2>1. lo <= hi
    BY DEF Ordered
  <2>2. \A i \in 1..Len(all) : all[i].mark = "$" => lo < all[i].id /\ all[i].id <= hi
    BY <1>9, <1>11 DEF Ordered
  <2>3. \A j \in 1..Len(rest) : rest[j].mark = "$" => lo < rest[j].id /\ rest[j].id <= hi
    BY <1>10 DEF Ordered
  <2>4. ASSUME NEW i \in 1..Len(all), NEW j \in 1..Len(rest), all[i].mark = "$", rest[j].mark = "$"
        PROVE  all[i].id < rest[j].id
    <3>1. CASE i \in 1..Len(b) /\ all[i] = b[i]
      BY <2>4, <3>1, <1>10 DEF Ordered
    <3>2. CASE i - Len(b) \in 1..n /\ all[i] = w[i - Len(b)]
      <4>1. i - Len(b) < n + j
        BY <3>2, <1>1, <1>10
      <4>2. QED
        BY <2>4, <3>2, <4>1, <1>10, <1>11 DEF Ordered
    <3>3. QED
      BY <1>9, <3>1, <3>2
  <2>5. ASSUME NEW j \in 1..Len(rest), NEW k \in 1..Len(rest), j < k,
               rest[j].mark = "$", rest[k].mark = "$"
        PROVE  rest[j].id < rest[k].id
    <3>1. n + j < n + k
      BY <2>5, <1>1
    <3>2. QED
      BY <2>5, <3>1, <1>10 DEF Ordered
  <2>6. QED
    BY <2>1, <2>2, <2>3, <2>4, <2>5 DEF Ordered
<1>13. QED
  BY <1>5, <1>6, <1>12 DEF head, rest, all

\* Cutting the newest packet out leaves nothing that is not newer.
LEMMA OrderedCut ==
  ASSUME NEW b \in Seq(Parts), NEW w \in Seq(Parts), NEW lo \in Nat, NEW hi \in Nat,
         Ordered(b, w, lo, hi), NEW start \in 1..Len(b), NEW end \in 1..Len(b),
         start < end, b[start].mark = "$",
         \A i \in 1..Len(b) : b[i].mark = "$" => i <= start
  PROVE  /\ SubSeq(b, end + 1, Len(b)) \in Seq(Parts)
         /\ b[start].id \in Nat /\ b[start].kind \in Kinds /\ lo < b[start].id
         /\ Ordered(SubSeq(b, end + 1, Len(b)), w, b[start].id, hi)
<1> DEFINE rest == SubSeq(b, end + 1, Len(b))
<1>1. Len(w) \in Nat /\ Len(b) \in Nat /\ start \in Nat /\ end \in Nat /\ end <= Len(b)
  BY LenProperties
<1>2. \A i \in 1..Len(b) : b[i] \in Parts
  BY ElementOfSeq
<1>3. b[start].id \in Nat /\ b[start].kind \in Kinds
  BY <1>2, FirstParts
<1>4. /\ rest \in Seq(Parts)
      /\ Len(rest) = IF end + 1 <= Len(b) THEN Len(b) - (end + 1) + 1 ELSE 0
      /\ \A i \in 1..Len(b) - (end + 1) + 1 : rest[i] = b[end + 1 + i - 1]
  <2>1. \A i \in end + 1..Len(b) : b[i] \in Parts
    BY <1>1, <1>2
  <2>2. end + 1 \in Int /\ Len(b) \in Int
    BY <1>1
  <2>3. QED
    BY <2>1, <2>2, SubSeqProperties
<1> HIDE DEF rest
<1>5. ASSUME NEW i \in 1..Len(rest) PROVE rest[i].mark # "$"
  <2>1. i \in 1..Len(b) - (end + 1) + 1
    BY <1>1, <1>4
  <2>2. end + 1 + i - 1 \in 1..Len(b) /\ ~(end + 1 + i - 1 <= start)
    BY <1>1, <2>1
  <2>3. QED
    BY <2>1, <2>2, <1>4
<1>6. Ordered(rest, w, b[start].id, hi)
  BY <1>3, <1>5 DEF Ordered
<1>7. QED
  BY <1>3, <1>4, <1>6 DEF rest, Ordered

LEMMA InitDInv == Init => DInv
<1> SUFFICES ASSUME Init PROVE DInv
  OBVIOUS
<1>1. DataOK
  BY EmptySeq DEF Init, DataOK, AllKinds
<1>2. Numbered
  BY OrderedEmpty DEF Init, Numbered
<1>3. QED
  BY <1>1, <1>2 DEF DInv

\* Where nothing that is sent, received or cut changes, the order stays.
LEMMA SameData ==
  ASSUME DInv, UNCHANGED <<open, partial, sent, seen, wire, buffer, packet>>
  PROVE  DInv'
BY DEF DInv, DataOK, Numbered

\* A step that concerns one connection is judged by that connection.
LEMMA OneConnection ==
  ASSUME DInv, DataOK', NEW c \in Connections,
         \A d \in Connections \ {c} :
           /\ buffer'[d] = buffer[d] /\ wire'[d] = wire[d]
           /\ seen'[d] = seen[d] /\ sent'[d] = sent[d],
         Ordered(buffer'[c], wire'[c], seen'[c], sent'[c])
  PROVE  DInv'
<1>1. ASSUME NEW d \in Connections PROVE Ordered(buffer'[d], wire'[d], seen'[d], sent'[d])
  <2>1. CASE d = c
    BY <2>1
  <2>2. CASE d # c
    BY <2>2 DEF DInv, Numbered
  <2>3. QED
    BY <2>1, <2>2
<1>2. QED
  BY <1>1 DEF DInv, Numbered

LEMMA PhoneDInv ==
  ASSUME DInv, NEW c \in Connections,
         Connect(c) \/ (\E kind \in Kinds : SendFirst(c, kind)) \/ SendRest(c) \/ Close(c)
  PROVE  DInv'
<1>0. /\ buffer[c] \in Seq(Parts) /\ wire[c] \in Seq(Parts) /\ seen[c] \in Nat /\ sent[c] \in Nat
      /\ Ordered(buffer[c], wire[c], seen[c], sent[c])
  BY DEF DInv, DataOK, Numbered
<1>1. CASE Connect(c)
  <2>1. DataOK'
    BY <1>1, EmptySeq DEF Connect, DInv, DataOK
  <2>2. Ordered(<<>>, <<>>, sent[c], sent[c])
    BY <1>0, OrderedEmpty
  <2>3. QED
    BY <1>1, <2>1, <2>2, OneConnection DEF Connect, DInv, DataOK
<1>2. ASSUME NEW kind \in Kinds, SendFirst(c, kind) PROVE DInv'
  <2> DEFINE part == [mark |-> "$", id |-> sent[c] + 1, kind |-> kind]
  <2>1. part \in Parts
    BY <1>0 DEF Parts
  <2>2. part.mark = "$" /\ part.id = sent[c] + 1
    OBVIOUS
  <2>3. wire' = [wire EXCEPT ![c] = Append(wire[c], part)] /\ sent' = [sent EXCEPT ![c] = sent[c] + 1]
    BY <1>2 DEF SendFirst, Put
  <2> HIDE DEF part
  <2>4. Append(wire[c], part) \in Seq(Parts) /\ Ordered(buffer[c], Append(wire[c], part), seen[c], sent[c] + 1)
    BY <1>0, <2>1, <2>2, OrderedAppend
  <2>5. partial' = [partial EXCEPT ![c] = TRUE] /\ UNCHANGED <<open, buffer, packet, seen>>
    BY <1>2 DEF SendFirst
  <2>6. DataOK'
    BY <1>0, <2>3, <2>4, <2>5 DEF DInv, DataOK
  <2>7. QED
    BY <2>3, <2>4, <2>5, <2>6, OneConnection DEF DInv, DataOK
<1>3. CASE SendRest(c)
  <2> DEFINE part == [mark |-> "#"]
  <2>1. part \in Parts /\ part.mark # "$"
    BY DEF Parts
  <2>2. wire' = [wire EXCEPT ![c] = Append(wire[c], part)]
    BY <1>3 DEF SendRest, Put
  <2> HIDE DEF part
  <2>3. Append(wire[c], part) \in Seq(Parts) /\ Ordered(buffer[c], Append(wire[c], part), seen[c], sent[c])
    BY <1>0, <2>1, OrderedAppend
  <2>4. DataOK'
    BY <1>3, <2>2, <2>3 DEF SendRest, DInv, DataOK
  <2>5. QED
    BY <1>3, <2>2, <2>3, <2>4, OneConnection DEF SendRest, DInv, DataOK
<1>4. CASE Close(c)
  <2>1. DataOK'
    BY <1>4 DEF Close, DInv, DataOK, threadVars
  <2>2. QED
    BY <1>4, <2>1 DEF Close, DInv, Numbered, threadVars
<1>5. QED
  BY <1>1, <1>2, <1>3, <1>4

LEMMA HandleDInv ==
  ASSUME DInv, pc \in [Connections -> Labels], NEW c \in Connections, Handle(c)
  PROVE  DInv' /\ (Scan(c) /\ pc'[c] = "stamp" => seen'[c] > seen[c])
<1>0. /\ buffer[c] \in Seq(Parts) /\ wire[c] \in Seq(Parts) /\ seen[c] \in Nat /\ sent[c] \in Nat
      /\ Ordered(buffer[c], wire[c], seen[c], sent[c]) /\ seen[c] <= sent[c]
  BY DEF DInv, DataOK, Numbered, Ordered
<1> USE DEF HandlerUnchanged, phoneVars
<1>1. CASE HangUp(c)
  <2>1. DataOK'
    BY <1>1, EmptySeq DEF HangUp, DInv, DataOK
  <2>2. Ordered(<<>>, <<>>, seen[c], sent[c])
    BY <1>0, OrderedEmpty
  <2>3. DInv'
    BY <1>1, <2>1, <2>2, OneConnection DEF HangUp, DInv, DataOK
  <2>4. QED
    BY <1>1, <2>3 DEF HangUp, Scan
<1>2. CASE Receive(c)
  <2>1. PICK n \in 1..Len(wire[c]) :
          /\ buffer' = [buffer EXCEPT ![c] = buffer[c] \o SubSeq(wire[c], 1, n)]
          /\ wire' = [wire EXCEPT ![c] = SubSeq(wire[c], n + 1, Len(wire[c]))]
    BY <1>2 DEF Receive
  <2>2. /\ buffer[c] \o SubSeq(wire[c], 1, n) \in Seq(Parts)
        /\ SubSeq(wire[c], n + 1, Len(wire[c])) \in Seq(Parts)
        /\ Ordered(buffer[c] \o SubSeq(wire[c], 1, n), SubSeq(wire[c], n + 1, Len(wire[c])),
                   seen[c], sent[c])
    BY <1>0, OrderedReceive
  <2>3. DataOK'
    BY <1>2, <2>1, <2>2 DEF Receive, DInv, DataOK
  <2>4. DInv'
    BY <1>2, <2>1, <2>2, <2>3, OneConnection DEF Receive, DInv, DataOK
  <2>5. QED
    BY <1>2, <2>4 DEF Receive, Scan
<1>3. CASE Scan(c)
  <2>1. CASE pc' = [pc EXCEPT ![c] = "recv"] /\ UNCHANGED <<buffer, packet, seen>>
    <3>1. DInv'
      BY <1>3, <2>1, SameData DEF Scan
    <3>2. pc'[c] # "stamp"
      BY <2>1
    <3>3. QED
      BY <3>1, <3>2
  <2>2. ASSUME NEW start \in 1..Len(buffer[c]), NEW end \in 1..Len(buffer[c]), Cut(c, start, end),
          packet' = [packet EXCEPT ![c] = buffer[c][start].kind],
          seen' = [seen EXCEPT ![c] = buffer[c][start].id],
          buffer' = [buffer EXCEPT ![c] = SubSeq(buffer[c], end + 1, Len(buffer[c]))]
        PROVE  DInv' /\ seen'[c] > seen[c]
    <3>1. /\ start < end /\ buffer[c][start].mark = "$"
          /\ \A i \in 1..Len(buffer[c]) : buffer[c][i].mark = "$" => i <= start
      BY <2>2 DEF Cut, Marks
    <3>2. /\ SubSeq(buffer[c], end + 1, Len(buffer[c])) \in Seq(Parts)
          /\ buffer[c][start].id \in Nat /\ buffer[c][start].kind \in Kinds
          /\ seen[c] < buffer[c][start].id
          /\ Ordered(SubSeq(buffer[c], end + 1, Len(buffer[c])), wire[c], buffer[c][start].id, sent[c])
      BY <1>0, <3>1, OrderedCut
    <3>3. UNCHANGED <<wire, open, partial, sent>>
      BY <1>3 DEF Scan
    <3>4. DataOK'
      BY <2>2, <3>2, <3>3, BridgeAssumption DEF DInv, DataOK
    <3>5. DInv'
      BY <2>2, <3>2, <3>3, <3>4, OneConnection DEF DInv, DataOK
    <3>6. QED
      BY <1>0, <2>2, <3>2, <3>5 DEF DInv, DataOK
  <2>3. QED
    BY <1>3, <2>1, <2>2 DEF Scan, Goto
<1>4. CASE Stamp(c)
  BY <1>4, SameData DEF Stamp, Scan
<1>5. CASE Move(c)
  BY <1>5, SameData DEF Move, Scan
<1>6. CASE Reply(c)
  <2>1. CASE UNCHANGED <<wire, buffer>>
    BY <1>6, <2>1, SameData DEF Reply, Scan
  <2>2. CASE wire' = [wire EXCEPT ![c] = <<>>] /\ buffer' = [buffer EXCEPT ![c] = <<>>]
    <3>1. DataOK'
      BY <1>6, <2>2, EmptySeq DEF Reply, DInv, DataOK
    <3>2. Ordered(<<>>, <<>>, seen[c], sent[c])
      BY <1>0, OrderedEmpty
    <3>3. DInv'
      BY <1>6, <2>2, <3>1, <3>2, OneConnection DEF Reply, DInv, DataOK
    <3>4. QED
      BY <1>6, <3>3 DEF Reply, Scan
  <2>3. QED
    BY <1>6, <2>1, <2>2 DEF Reply
<1>7. CASE Bye(c)
  BY <1>7, SameData DEF Bye, Scan
<1>8. QED
  BY <1>1, <1>2, <1>3, <1>4, <1>5, <1>6, <1>7 DEF Handle

LEMMA StepDInv == IInv /\ DInv /\ [Next]_vars => DInv'
<1> SUFFICES ASSUME IInv, DInv, [Next]_vars PROVE DInv'
  OBVIOUS
<1>1. CASE Elapse \/ Executor \/ Destroy \/ Gone
  BY <1>1, SameData
  DEF Elapse, Executor, Watch, WatchStop, WatchClear, Destroy, Gone, DogUnchanged, phoneVars, threadVars
<1>2. CASE UNCHANGED vars
  BY <1>2, SameData DEF vars, phoneVars, threadVars
<1>3. QED
  BY <1>1, <1>2, PhoneDInv, HandleDInv DEF Next, IInv, ControlOK

LEMMA InductiveData == Spec => [](IInv /\ DInv)
BY InitIInv, InitDInv, StepIInv, StepDInv, PTL DEF Spec

\* Every variable has its type.
THEOREM TypeCorrect == Spec => []TypeOK
<1>1. IInv /\ DInv => TypeOK
  BY DEF IInv, DInv, ControlOK, HistoryOK, StampOK, DataOK, TypeOK, Labels
<1>2. QED
  BY <1>1, InductiveData, PTL

\* No packet acts twice or after a later one of its connection, however TCP splits
\* and gathers them.
THEOREM PacketsKeepOrder == Spec => PacketsActInOrder
<1> DEFINE A == \A c \in Connections :
                  pc[c] = "scan" /\ pc'[c] = "stamp" => seen'[c] > seen[c]
<1>1. IInv /\ DInv /\ [Next]_vars => [A]_vars
  <2> SUFFICES ASSUME IInv, DInv, Next, NEW c \in Connections, pc[c] = "scan", pc'[c] = "stamp"
               PROVE  seen'[c] > seen[c]
    OBVIOUS
  <2>0. pc \in [Connections -> Labels]
    BY DEF IInv, ControlOK
  <2>1. CASE \E d \in Connections : Handle(d)
    <3>1. PICK d \in Connections : Handle(d)
      BY <2>1
    <3>2. \E label \in Labels : pc' = [pc EXCEPT ![d] = label]
      BY <3>1 DEF Handle, HangUp, Receive, Scan, Stamp, Move, Reply, Bye, Goto, Labels
    <3>3. d = c
      BY <2>0, <3>2
    <3>4. Scan(c)
      BY <3>1, <3>3 DEF Handle, HangUp, Receive, Stamp, Move, Reply, Bye
    <3>5. QED
      BY <2>0, <3>1, <3>3, <3>4, HandleDInv
  <2>2. CASE \E d \in Connections : Connect(d)
    BY <2>0, <2>2 DEF Connect, Goto
  <2>3. CASE UNCHANGED pc
    BY <2>0, <2>3
  <2>4. ASSUME NEW d \in Connections, (\E kind \in Kinds : SendFirst(d, kind)) \/ SendRest(d) \/ Close(d)
        PROVE  UNCHANGED pc
    BY <2>4 DEF SendFirst, SendRest, Close, threadVars
  <2>5. CASE Elapse \/ Executor \/ Destroy \/ Gone
    BY <2>3, <2>5
    DEF Elapse, Executor, Watch, WatchStop, WatchClear, Destroy, Gone, DogUnchanged, threadVars
  <2>6. QED
    BY <2>1, <2>2, <2>3, <2>4, <2>5 DEF Next
<1>2. QED
  BY <1>1, InductiveData, PTL DEF Spec, PacketsActInOrder
-----------------------------------------------------------------------------
(* The newest packet                                                          *)

\* The parts s end with packet n: its first part alone while the phone has not sent
\* the rest.
EndsWith(s, n, part) ==
  IF part
  THEN Len(s) >= 1 /\ s[Len(s)].mark = "$" /\ s[Len(s)].id = n
  ELSE /\ Len(s) >= 2 /\ s[Len(s)].mark = "#"
       /\ s[Len(s) - 1].mark = "$" /\ s[Len(s) - 1].id = n

\* The newest packet of a thread that is still listening has been cut out, or it
\* ends what was received and what is on the way, as far as it was sent.
Coming(c) ==
  pc[c] \notin {"off", "bye"} /\ (partial[c] \/ seen[c] < sent[c]) =>
    EndsWith(buffer[c] \o wire[c], sent[c], partial[c])

\* The thread waits for more bytes only when it finds no packet in its buffer.
Searched(c) ==
  pc[c] = "recv" => ~\E start, end \in 1..Len(buffer[c]) : Cut(c, start, end)

NInv == \A c \in Connections : Coming(c) /\ Searched(c)

LEMMA AppendBehind ==
  ASSUME NEW b \in Seq(Parts), NEW w \in Seq(Parts), NEW x \in Parts
  PROVE  /\ b \o w \in Seq(Parts) /\ b \o Append(w, x) = Append(b \o w, x)
         /\ Len(b \o Append(w, x)) = Len(b \o w) + 1 /\ Len(b \o w) \in Nat
         /\ (b \o Append(w, x))[Len(b \o w) + 1] = x
         /\ \A i \in 1..Len(b \o w) : (b \o Append(w, x))[i] = (b \o w)[i]
<1>1. b \o w \in Seq(Parts)
  BY ConcatProperties
<1>2. <<x>> \in Seq(Parts)
  OBVIOUS
<1>3. Append(w, x) = w \o <<x>> /\ Append(b \o w, x) = (b \o w) \o <<x>>
  BY <1>1, AppendIsConcat
<1>4. b \o Append(w, x) = Append(b \o w, x)
  BY <1>2, <1>3, ConcatAssociative
<1> DEFINE s == b \o w
<1>5. s \in Seq(Parts)
  BY <1>1
<1> HIDE DEF s
<1>6. /\ Len(Append(s, x)) = Len(s) + 1 /\ Len(s) \in Nat
      /\ Append(s, x)[Len(s) + 1] = x
      /\ \A i \in 1..Len(s) : Append(s, x)[i] = s[i]
  BY <1>5, AppendProperties, LenProperties
<1>7. QED
  BY <1>1, <1>4, <1>6 DEF s

LEMMA PartsAssociative ==
  ASSUME NEW s \in Seq(Parts), NEW t \in Seq(Parts), NEW u \in Seq(Parts)
  PROVE  (s \o t) \o u = s \o (t \o u)
BY ConcatAssociative

\* What is received was sent in that order.
LEMMA ReceiveInOrder ==
  ASSUME NEW b \in Seq(Parts), NEW w \in Seq(Parts), NEW n \in 1..Len(w)
  PROVE  (b \o SubSeq(w, 1, n)) \o SubSeq(w, n + 1, Len(w)) = b \o w
<1>1. Len(w) \in Nat /\ n \in Nat /\ n <= Len(w)
  BY LenProperties
<1>2. SubSeq(w, 1, n) \o SubSeq(w, n + 1, Len(w)) = w
  <2>1. 1 \in 1..Len(w) + 1 /\ n \in 1 - 1..Len(w) /\ Len(w) \in n..Len(w)
    BY <1>1
  <2>2. SubSeq(w, 1, n) \o SubSeq(w, n + 1, Len(w)) = SubSeq(w, 1, Len(w))
    BY <2>1, ConcatAdjacentSubSeq
  <2>3. SubSeq(w, 1, Len(w)) = w
    BY SubSeqFull
  <2>4. QED
    BY <2>2, <2>3
<1>3. SubSeq(w, 1, n) \in Seq(Parts) /\ SubSeq(w, n + 1, Len(w)) \in Seq(Parts)
  <2>1. \A i \in 1..Len(w) : w[i] \in Parts
    BY ElementOfSeq
  <2>2. \A i \in 1..n : w[i] \in Parts
    BY <1>1, <2>1
  <2>3. \A i \in n + 1..Len(w) : w[i] \in Parts
    BY <1>1, <2>1
  <2>4. QED
    BY <1>1, <2>2, <2>3, SubSeqProperties
<1> DEFINE head == SubSeq(w, 1, n)
           rest == SubSeq(w, n + 1, Len(w))
<1>4. head \in Seq(Parts) /\ rest \in Seq(Parts) /\ head \o rest = w
  BY <1>2, <1>3
<1> HIDE DEF head, rest
<1>5. (b \o head) \o rest = b \o (head \o rest)
  BY <1>4, PartsAssociative, Zenon
<1>6. QED
  BY <1>4, <1>5 DEF head, rest

\* Cutting an older packet out does not touch the newest.
LEMMA EndsCut ==
  ASSUME NEW b \in Seq(Parts), NEW w \in Seq(Parts), NEW n \in Nat, NEW part \in BOOLEAN,
         EndsWith(b \o w, n, part), NEW start \in 1..Len(b), NEW end \in 1..Len(b),
         start < end, \A i \in 1..Len(b) : b[i].mark = "$" => i <= start,
         part \/ b[start].id # n
  PROVE  EndsWith(SubSeq(b, end + 1, Len(b)) \o w, n, part)
<1> DEFINE rest == SubSeq(b, end + 1, Len(b))
           all  == b \o w
           left == rest \o w
<1>1. Len(w) \in Nat /\ Len(b) \in Nat /\ start \in Nat /\ end \in Nat /\ end <= Len(b)
  BY LenProperties
<1>2. /\ rest \in Seq(Parts) /\ Len(rest) = Len(b) - end
      /\ \A i \in 1..Len(b) - end : rest[i] = b[end + i]
  <2>1. \A i \in end + 1..Len(b) : b[i] \in Parts
    BY <1>1, ElementOfSeq
  <2>2. /\ rest \in Seq(Parts)
        /\ Len(rest) = IF end + 1 <= Len(b) THEN Len(b) - (end + 1) + 1 ELSE 0
        /\ \A i \in 1..Len(b) - (end + 1) + 1 : rest[i] = b[end + 1 + i - 1]
    BY <1>1, <2>1, SubSeqProperties
  <2>3. ASSUME NEW i \in 1..Len(b) - end PROVE rest[i] = b[end + i]
    <3>1. i \in 1..Len(b) - (end + 1) + 1 /\ end + 1 + i - 1 = end + i
      BY <1>1
    <3>2. QED
      BY <2>2, <3>1
  <2>4. Len(rest) = Len(b) - end
    BY <1>1, <2>2
  <2>5. QED
    BY <2>2, <2>3, <2>4
<1> HIDE DEF rest
<1>3. /\ Len(all) = Len(b) + Len(w)
      /\ \A i \in 1..Len(b) + Len(w) : all[i] = IF i <= Len(b) THEN b[i] ELSE w[i - Len(b)]
  BY ConcatProperties
<1>4. /\ Len(left) = Len(rest) + Len(w)
      /\ \A i \in 1..Len(rest) + Len(w) : left[i] = IF i <= Len(rest) THEN rest[i] ELSE w[i - Len(rest)]
  BY <1>2, ConcatProperties
<1> HIDE DEF all, left
<1>5. Len(left) = Len(all) - end /\ Len(left) \in Nat /\ Len(all) \in Nat
  BY <1>1, <1>2, <1>3, <1>4
<1>6. ASSUME NEW i \in 1..Len(left) PROVE left[i] = all[end + i]
  <2>1. CASE i <= Len(rest)
    <3>1. i \in 1..Len(b) - end /\ end + i \in 1..Len(b) + Len(w) /\ end + i <= Len(b)
      BY <2>1, <1>1, <1>2, <1>5
    <3>2. i \in 1..Len(rest) + Len(w)
      BY <1>4
    <3>3. QED
      BY <2>1, <3>1, <3>2, <1>2, <1>3, <1>4
  <2>2. CASE ~(i <= Len(rest))
    <3>1. end + i \in 1..Len(b) + Len(w) /\ ~(end + i <= Len(b)) /\ end + i - Len(b) = i - Len(rest)
      BY <2>2, <1>1, <1>2, <1>4
    <3>2. i \in 1..Len(rest) + Len(w)
      BY <1>4
    <3>3. all[end + i] = w[i - Len(rest)]
      BY <3>1, <1>3
    <3>4. left[i] = w[i - Len(rest)]
      BY <2>2, <3>2, <1>4
    <3>5. QED
      BY <3>3, <3>4
  <2>3. QED
    BY <2>1, <2>2
\* The first part of the newest packet comes after end.
<1>7. ASSUME NEW k \in 1..Len(all), all[k].mark = "$", all[k].id = n
      PROVE  k <= Len(b) => k <= start /\ (part \/ k < start)
  <2>1. k <= Len(b) => k \in 1..Len(b) /\ all[k] = b[k]
    BY <1>1, <1>3
  <2>2. k <= Len(b) => k <= start /\ (part \/ k # start)
    BY <1>7, <2>1
  <2>3. QED
    BY <1>1, <2>2
<1>8. CASE part
  <2>1. Len(all) >= 1 /\ all[Len(all)].mark = "$" /\ all[Len(all)].id = n
    BY <1>8 DEF EndsWith, all
  <2>2. Len(all) > Len(b)
    <3>1. Len(all) \in 1..Len(all)
      BY <1>5, <2>1
    <3>2. Len(all) <= Len(b) => Len(all) <= start
      BY <1>7, <2>1, <3>1
    <3>3. QED
      BY <1>1, <1>3, <3>2
  <2>3. Len(left) >= 1 /\ end + Len(left) = Len(all)
    BY <1>1, <1>5, <2>2
  <2>4. left[Len(left)] = all[Len(all)]
    BY <1>5, <1>6, <2>3
  <2>5. EndsWith(left, n, part)
    BY <1>8, <2>1, <2>3, <2>4 DEF EndsWith
  <2>6. QED
    BY <2>5 DEF left, rest
<1>9. CASE ~part
  <2>1. /\ Len(all) >= 2 /\ all[Len(all)].mark = "#"
        /\ all[Len(all) - 1].mark = "$" /\ all[Len(all) - 1].id = n
    BY <1>9 DEF EndsWith, all
  <2>2. Len(all) - 1 > Len(b)
    <3>1. Len(all) - 1 \in 1..Len(all)
      BY <1>5, <2>1
    <3>2. Len(all) - 1 <= Len(b) => Len(all) - 1 < start
      BY <1>7, <1>9, <2>1, <3>1
    <3>3. QED
      BY <1>1, <1>3, <3>2
  <2>3. /\ Len(left) >= 2 /\ end + Len(left) = Len(all)
        /\ end + (Len(left) - 1) = Len(all) - 1 /\ Len(left) - 1 \in 1..Len(left)
    BY <1>1, <1>5, <2>2
  <2>4. left[Len(left)] = all[Len(all)] /\ left[Len(left) - 1] = all[Len(all) - 1]
    <3>1. Len(left) \in 1..Len(left)
      BY <1>5, <2>3
    <3>2. left[Len(left)] = all[end + Len(left)]
      BY <1>6, <3>1
    <3>3. left[Len(left) - 1] = all[end + (Len(left) - 1)]
      BY <1>6, <2>3
    <3>4. QED
      BY <2>3, <3>2, <3>3
  <2>5. EndsWith(left, n, part)
    BY <1>9, <2>1, <2>3, <2>4 DEF EndsWith
  <2>6. QED
    BY <2>5 DEF left, rest
<1>10. QED
  BY <1>8, <1>9

LEMMA InitNInv == Init => NInv
BY DEF Init, NInv, Coming, Searched

\* What a connection's part of the invariant depends on.
Undisturbed(d) ==
  /\ pc'[d] = pc[d] /\ seen'[d] = seen[d] /\ sent'[d] = sent[d] /\ partial'[d] = partial[d]
  /\ buffer'[d] = buffer[d] /\ wire'[d] = wire[d]

LEMMA OneListener ==
  ASSUME NInv, NEW c \in Connections, \A d \in Connections \ {c} : Undisturbed(d),
         Coming(c)', Searched(c)'
  PROVE  NInv'
<1>1. ASSUME NEW d \in Connections, d # c PROVE Coming(d)' /\ Searched(d)'
  <2>1. Undisturbed(d) /\ Coming(d) /\ Searched(d)
    BY <1>1 DEF NInv
  <2>2. Coming(d)'
    BY <2>1 DEF Coming, Undisturbed
  <2>3. Searched(d)'
    BY <2>1 DEF Searched, Undisturbed, Cut, Marks
  <2>4. QED
    BY <2>2, <2>3
<1>2. QED
  BY <1>1 DEF NInv

\* Sending only adds to the end, and a new connection starts with nothing due.
LEMMA PhoneNInv ==
  ASSUME DInv, pc \in [Connections -> Labels], NInv, NEW c \in Connections,
         Connect(c) \/ (\E kind \in Kinds : SendFirst(c, kind)) \/ SendRest(c) \/ Close(c)
  PROVE  NInv'
<1>0. /\ buffer[c] \in Seq(Parts) /\ wire[c] \in Seq(Parts) /\ seen[c] \in Nat /\ sent[c] \in Nat
      /\ seen[c] <= sent[c] /\ Coming(c) /\ Searched(c)
  BY DEF DInv, DataOK, Numbered, Ordered, NInv
<1> USE DEF DInv, DataOK
<1>1. CASE Connect(c)
  <2>1. Coming(c)'
    BY <1>0, <1>1 DEF Connect, Coming
  <2>2. Searched(c)'
    <3>1. Len(buffer'[c]) = 0
      BY <1>1 DEF Connect
    <3>2. QED
      BY <3>1 DEF Searched
  <2>3. \A d \in Connections \ {c} : Undisturbed(d)
    BY <1>1 DEF Connect, Goto, Undisturbed
  <2>4. QED
    BY <2>1, <2>2, <2>3, OneListener
<1>2. ASSUME NEW kind \in Kinds, SendFirst(c, kind) PROVE NInv'
  <2> DEFINE part == [mark |-> "$", id |-> sent[c] + 1, kind |-> kind]
  <2>1. part \in Parts /\ part.mark = "$" /\ part.id = sent[c] + 1
    BY <1>0 DEF Parts
  <2>2. /\ wire'[c] = Append(wire[c], part) /\ buffer'[c] = buffer[c]
        /\ sent'[c] = sent[c] + 1 /\ partial'[c] = TRUE /\ UNCHANGED <<pc, seen, buffer>>
    BY <1>2 DEF SendFirst, Put
  <2>3. \A d \in Connections \ {c} : Undisturbed(d)
    BY <1>2 DEF SendFirst, Put, Undisturbed
  <2> HIDE DEF part
  <2>4. EndsWith(buffer[c] \o Append(wire[c], part), sent[c] + 1, TRUE)
    BY <1>0, <2>1, AppendBehind DEF EndsWith
  <2>5. Coming(c)'
    BY <2>2, <2>4 DEF Coming
  <2>6. Searched(c)'
    BY <1>0, <2>2 DEF Searched, Cut, Marks
  <2>7. QED
    BY <2>3, <2>5, <2>6, OneListener
<1>3. CASE SendRest(c)
  <2> DEFINE part == [mark |-> "#"]
  <2>1. part \in Parts /\ part.mark = "#"
    BY DEF Parts
  <2>2. /\ wire'[c] = Append(wire[c], part) /\ buffer'[c] = buffer[c] /\ partial[c] = TRUE
        /\ partial'[c] = FALSE /\ UNCHANGED <<pc, seen, sent, buffer>>
    BY <1>3 DEF SendRest, Put
  <2>3. \A d \in Connections \ {c} : Undisturbed(d)
    BY <1>3 DEF SendRest, Put, Undisturbed
  <2> HIDE DEF part
  <2>4. ASSUME EndsWith(buffer[c] \o wire[c], sent[c], TRUE)
        PROVE  EndsWith(buffer[c] \o Append(wire[c], part), sent[c], FALSE)
    <3> DEFINE s == buffer[c] \o wire[c]
               t == buffer[c] \o Append(wire[c], part)
    <3>1. /\ Len(t) = Len(s) + 1 /\ Len(s) \in Nat /\ t[Len(s) + 1] = part
          /\ \A i \in 1..Len(s) : t[i] = s[i]
      BY <1>0, <2>1, AppendBehind
    <3>2. Len(s) >= 1 /\ s[Len(s)].mark = "$" /\ s[Len(s)].id = sent[c]
      BY <2>4 DEF EndsWith
    <3> HIDE DEF s, t
    <3>3. Len(t) >= 2 /\ Len(t) - 1 = Len(s) /\ Len(s) \in 1..Len(s)
      BY <3>1, <3>2
    <3>4. t[Len(t)] = part /\ t[Len(t) - 1] = s[Len(s)]
      BY <3>1, <3>3
    <3>5. EndsWith(t, sent[c], FALSE)
      BY <2>1, <3>2, <3>3, <3>4 DEF EndsWith
    <3>6. QED
      BY <3>5 DEF t
  <2>5. Coming(c)'
    BY <1>0, <2>2, <2>4 DEF Coming
  <2>6. Searched(c)'
    BY <1>0, <2>2 DEF Searched, Cut, Marks
  <2>7. QED
    BY <2>3, <2>5, <2>6, OneListener
<1>4. CASE Close(c)
  <2>1. \A d \in Connections : Undisturbed(d)
    BY <1>4 DEF Close, threadVars, Undisturbed
  <2>2. Coming(c)' /\ Searched(c)'
    BY <1>0, <2>1 DEF Undisturbed, Coming, Searched, Cut, Marks
  <2>3. QED
    BY <2>1, <2>2, OneListener
<1>5. QED
  BY <1>1, <1>2, <1>3, <1>4

\* Receiving moves parts from one side to the other, cutting out an older packet
\* leaves the newest where it is.
LEMMA HandleNInv ==
  ASSUME DInv, pc \in [Connections -> Labels], NInv, NEW c \in Connections, Handle(c)
  PROVE  NInv'
<1>0. /\ buffer[c] \in Seq(Parts) /\ wire[c] \in Seq(Parts) /\ seen[c] \in Nat /\ sent[c] \in Nat
      /\ Ordered(buffer[c], wire[c], seen[c], sent[c]) /\ partial[c] \in BOOLEAN
      /\ Coming(c) /\ Searched(c)
  BY DEF DInv, DataOK, Numbered, NInv
<1>a. PICK label \in Labels : pc' = [pc EXCEPT ![c] = label]
  BY DEF Handle, HangUp, Receive, Scan, Stamp, Move, Reply, Bye, Goto, Labels
<1>b. UNCHANGED <<open, partial, sent>>
  BY DEF Handle, HangUp, Receive, Scan, Stamp, Move, Reply, Bye, HandlerUnchanged, phoneVars
<1>c. \A d \in Connections \ {c} : Undisturbed(d)
  <2>1. \A d \in Connections \ {c} :
          seen'[d] = seen[d] /\ buffer'[d] = buffer[d] /\ wire'[d] = wire[d]
    BY DEF Handle, HangUp, Receive, Scan, Stamp, Move, Reply, Bye, DInv, DataOK
  <2>2. QED
    BY <1>a, <1>b, <2>1 DEF Undisturbed
<1>1. CASE pc'[c] \in {"off", "bye"}
  BY <1>1, <1>c, OneListener DEF Coming, Searched
<1>2. CASE Receive(c)
  <2>1. PICK n \in 1..Len(wire[c]) :
          /\ buffer'[c] = buffer[c] \o SubSeq(wire[c], 1, n)
          /\ wire'[c] = SubSeq(wire[c], n + 1, Len(wire[c]))
    BY <1>2 DEF Receive, DInv, DataOK
  <2>2. pc[c] = "recv" /\ pc'[c] = "scan" /\ seen' = seen
    BY <1>2 DEF Receive, Goto
  <2>3. buffer'[c] \o wire'[c] = buffer[c] \o wire[c]
    BY <1>0, <2>1, ReceiveInOrder
  <2>4. Coming(c)'
    BY <1>0, <1>b, <2>2, <2>3 DEF Coming
  <2>5. QED
    BY <1>c, <2>2, <2>4, OneListener DEF Searched
<1>3. CASE Scan(c)
  <2>1. CASE /\ ~\E start, end \in 1..Len(buffer[c]) : Cut(c, start, end)
             /\ UNCHANGED <<buffer, packet, seen>>
    <3>1. pc[c] = "scan" /\ UNCHANGED wire
      BY <1>3 DEF Scan
    <3>2. Coming(c)'
      BY <1>0, <1>b, <2>1, <3>1 DEF Coming
    <3>3. Searched(c)'
      BY <2>1 DEF Searched, Cut, Marks
    <3>4. QED
      BY <1>c, <3>2, <3>3, OneListener
  <2>2. ASSUME NEW start \in 1..Len(buffer[c]), NEW end \in 1..Len(buffer[c]), Cut(c, start, end),
               seen' = [seen EXCEPT ![c] = buffer[c][start].id],
               buffer' = [buffer EXCEPT ![c] = SubSeq(buffer[c], end + 1, Len(buffer[c]))],
               pc'[c] \in {"scan", "stamp"}
        PROVE  NInv'
    <3>1. /\ start < end /\ buffer[c][start].mark = "$"
          /\ \A i \in 1..Len(buffer[c]) : buffer[c][i].mark = "$" => i <= start
      BY <2>2 DEF Cut, Marks
    <3>2. buffer[c][start].id \in Nat
      BY <1>0, <3>1, ElementOfSeq, FirstParts
    <3>3. /\ seen[c] < buffer[c][start].id /\ seen'[c] = buffer[c][start].id
          /\ buffer'[c] = SubSeq(buffer[c], end + 1, Len(buffer[c]))
      BY <1>0, <2>2, <3>1 DEF Ordered, DInv, DataOK
    <3>4. pc[c] = "scan" /\ UNCHANGED wire
      BY <1>3 DEF Scan
    <3>5. ASSUME partial[c] \/ seen'[c] < sent[c]
          PROVE  EndsWith(buffer'[c] \o wire[c], sent[c], partial[c])
      <4>1. /\ partial[c] \/ seen[c] < sent[c]
            /\ partial[c] \/ buffer[c][start].id # sent[c]
        BY <1>0, <3>2, <3>3, <3>5
      <4>2. EndsWith(buffer[c] \o wire[c], sent[c], partial[c])
        BY <1>0, <3>4, <4>1 DEF Coming
      <4>3. QED
        BY <1>0, <3>1, <3>3, <4>1, <4>2, EndsCut
    <3>6. Coming(c)'
      BY <1>b, <3>4, <3>5 DEF Coming
    <3>7. QED
      BY <1>c, <2>2, <3>6, OneListener DEF Searched
  <2>3. QED
    <3>1. CASE \E start, end \in 1..Len(buffer[c]) :
                 /\ Cut(c, start, end)
                 /\ seen' = [seen EXCEPT ![c] = buffer[c][start].id]
                 /\ buffer' = [buffer EXCEPT ![c] = SubSeq(@, end + 1, Len(@))]
                 /\ pc'[c] \in {"scan", "stamp"}
      BY <2>2, <3>1
    <3>2. QED
      BY <1>3, <2>1, <3>1 DEF Scan, Goto
<1>4. CASE /\ pc[c] \in {"stamp", "move", "reply"} /\ pc'[c] \in {"move", "reply", "scan"}
           /\ UNCHANGED <<wire, buffer, seen>>
  <2>1. Coming(c)'
    BY <1>0, <1>4, <1>b DEF Coming
  <2>2. QED
    BY <1>4, <1>c, <2>1, OneListener DEF Searched
<1>5. CASE HangUp(c) \/ Bye(c)
  BY <1>1, <1>5 DEF HangUp, Bye, Goto
<1>6. CASE Stamp(c) \/ Move(c)
  BY <1>4, <1>6 DEF Stamp, Move, Goto
<1>7. CASE Reply(c)
  BY <1>1, <1>4, <1>7 DEF Reply, Goto
<1>8. QED
  BY <1>2, <1>3, <1>5, <1>6, <1>7 DEF Handle

LEMMA StepNInv == IInv /\ DInv /\ NInv /\ [Next]_vars => NInv'
<1> SUFFICES ASSUME IInv, DInv, NInv, [Next]_vars PROVE NInv'
  OBVIOUS
<1>1. CASE UNCHANGED <<pc, partial, sent, wire, buffer, seen>>
  BY <1>1 DEF NInv, Coming, Searched, Cut, Marks
<1>2. CASE Elapse \/ Executor \/ Destroy \/ Gone
  BY <1>1, <1>2
  DEF Elapse, Executor, Watch, WatchStop, WatchClear, Destroy, Gone, DogUnchanged, phoneVars, threadVars
<1>3. CASE UNCHANGED vars
  BY <1>1, <1>3 DEF vars, phoneVars, threadVars
<1>4. QED
  BY <1>2, <1>3, PhoneNInv, HandleNInv DEF Next, IInv, ControlOK

\* A thread that has received everything and waits for more has cut out the newest
\* packet, or has its first part at the end of the buffer when that is all the phone
\* sent: if it had done neither, the packet would end the buffer, and the thread would
\* have found it.
THEOREM NewestPacketIsNotLost == Spec => []NewestPacketDecides
<1>1. DInv /\ NInv => NewestPacketDecides
  <2> SUFFICES ASSUME DInv, NInv, NEW c \in Connections, pc[c] = "recv", wire[c] = <<>>
               PROVE  IF partial[c]
                      THEN /\ buffer[c] # <<>> /\ buffer[c][Len(buffer[c])].mark = "$"
                           /\ buffer[c][Len(buffer[c])].id = sent[c]
                      ELSE seen[c] = sent[c]
    BY DEF NewestPacketDecides
  <2> DEFINE b == buffer[c]
  <2>1. /\ b \in Seq(Parts) /\ seen[c] <= sent[c] /\ seen[c] \in Nat /\ sent[c] \in Nat
        /\ partial[c] \in BOOLEAN /\ Coming(c) /\ Searched(c)
    BY DEF DInv, DataOK, Numbered, Ordered, NInv
  <2>2. b \o wire[c] = b /\ Len(b) \in Nat
    BY <2>1, ConcatEmptySeq, LenProperties
  <2>3. CASE partial[c]
    <3>1. Len(b) >= 1 /\ b[Len(b)].mark = "$" /\ b[Len(b)].id = sent[c]
      BY <2>1, <2>2, <2>3 DEF Coming, EndsWith
    <3>2. b # <<>>
      BY <3>1, EmptySeq
    <3>3. QED
      BY <2>3, <3>1, <3>2
  <2>4. CASE ~partial[c]
    <3> SUFFICES ASSUME seen[c] # sent[c] PROVE FALSE
      BY <2>4
    <3>1. seen[c] < sent[c]
      BY <2>1
    <3>2. Len(b) >= 2 /\ b[Len(b)].mark = "#" /\ b[Len(b) - 1].mark = "$"
      BY <2>1, <2>2, <2>4, <3>1 DEF Coming, EndsWith
    <3>3. /\ Len(b) - 1 \in 1..Len(b) /\ Len(b) \in 1..Len(b)
          /\ \A i \in 1..Len(b) : b[i].mark = "$" => i <= Len(b) - 1
      BY <2>2, <3>2
    <3>4. Cut(c, Len(b) - 1, Len(b))
      BY <2>2, <3>2, <3>3 DEF Cut, Marks
    <3>5. QED
      BY <2>1, <3>3, <3>4 DEF Searched
  <2>5. QED
    BY <2>1, <2>3, <2>4
<1>2. Spec => []NInv
  BY InductiveData, InitNInv, StepNInv, PTL DEF Spec
<1>3. QED
  BY <1>1, <1>2, InductiveData, PTL
=============================================================================
