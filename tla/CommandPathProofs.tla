---------------------------- MODULE CommandPathProofs ----------------------------
(***************************************************************************)
(* What holds of CommandPath for queues of any depth and any number of        *)
(* requests.  The argument follows one writer: the last velocity in its queue   *)
(* is the one it stands for, so when its queue is empty and it drove last, the  *)
(* wheels do what it stands for; and a writer that stands for a drive answers   *)
(* for it, or has abandoned it.                                             *)
(***************************************************************************)
EXTENDS CommandPath, SequenceTheorems, TLAPS

Velocities == {"drive", "stop"}

\* The velocity a writer published last, a stop before the first.
Current(w) == IF w = "edge" THEN edgeCmd ELSE IF w = "bridge" THEN cmd ELSE "stop"

Latest == \A w \in Movers :
  velocities[w] # <<>> => velocities[w][Len(velocities[w])] = Current(w)

Delivered ==
  /\ \A w \in Movers : driver = w /\ velocities[w] = <<>> => wheels = Current(w)
  /\ ~chassisUp => driver = "nobody"

\* Who stands for a drive answers for it, or has abandoned it.
Answered ==
  /\ cmd = "drive" => watched \/ lost
  /\ edgeCmd = "drive" => auto \in Modes \/ forsaken

IInv == TypeOK /\ Latest /\ Delivered /\ Answered
-----------------------------------------------------------------------------
\* A queue keeps its type and its depth, and ends with what was put last.
LEMMA QueuedLast ==
  ASSUME NEW S, NEW q \in Seq(S), NEW m \in S, Len(q) <= Depth
  PROVE  /\ Queued(q, m) \in Seq(S) /\ Len(Queued(q, m)) <= Depth /\ Queued(q, m) # <<>>
         /\ Queued(q, m)[Len(Queued(q, m))] = m
<1>1. Len(q) \in Nat /\ Depth \in Nat \ {0}
  BY PathAssumption, LenProperties
<1>2. CASE Len(q) = Depth
  <2>1. q # <<>>
    BY <1>1, <1>2
  <2>2. Tail(q) \in Seq(S) /\ Len(Tail(q)) = Len(q) - 1
    BY <2>1, HeadTailProperties
  <2>3. Queued(q, m) = Append(Tail(q), m)
    BY <1>2 DEF Queued
  <2>4. QED
    BY <1>1, <1>2, <2>2, <2>3, AppendProperties
<1>3. CASE Len(q) # Depth
  <2>1. Queued(q, m) = Append(q, m)
    BY <1>3 DEF Queued
  <2>2. QED
    BY <1>1, <1>3, <2>1, AppendProperties
<1>4. QED
  BY <1>2, <1>3

\* Taking the oldest leaves the newest, or was the newest.
LEMMA TailLast ==
  ASSUME NEW S, NEW q \in Seq(S), q # <<>>
  PROVE  /\ Head(q) \in S /\ Tail(q) \in Seq(S) /\ Len(Tail(q)) <= Len(q)
         /\ Tail(q) # <<>> => Tail(q)[Len(Tail(q))] = q[Len(q)]
         /\ Tail(q) = <<>> => Head(q) = q[Len(q)]
<1>1. /\ Head(q) \in S /\ Tail(q) \in Seq(S) /\ Len(Tail(q)) = Len(q) - 1
      /\ \A i \in 1..Len(Tail(q)) : Tail(q)[i] = q[i + 1]
  BY HeadTailProperties
<1>2. Len(q) \in Nat /\ Len(q) # 0 /\ Len(Tail(q)) \in Nat
  BY <1>1, EmptySeq, LenProperties
<1>3. ASSUME Tail(q) # <<>> PROVE Tail(q)[Len(Tail(q))] = q[Len(q)]
  <2>1. Len(Tail(q)) \in 1..Len(Tail(q))
    BY <1>1, <1>2, <1>3, EmptySeq
  <2>2. QED
    BY <1>1, <1>2, <1>3, <2>1
<1>4. ASSUME Tail(q) = <<>> PROVE Head(q) = q[Len(q)]
  BY <1>1, <1>2, <1>4
<1>5. Len(Tail(q)) <= Len(q)
  BY <1>1, <1>2
<1>6. QED
  BY <1>1, <1>3, <1>4, <1>5

LEMMA Writers == Movers = {"bridge", "tasks", "edge"} /\ Requesters = {"bridge", "tasks"}
BY DEF Movers, Requesters

LEMMA InitIInv == Init => IInv
<1> SUFFICES ASSUME Init PROVE IInv
  OBVIOUS
<1>1. /\ watched \in BOOLEAN /\ lost \in BOOLEAN /\ overriding \in BOOLEAN
      /\ late \in BOOLEAN /\ forsaken \in BOOLEAN /\ chassisUp \in BOOLEAN
  BY Zenon DEF Init, Manual!Init
<1>2. TypeOK
  BY <1>1, PathAssumption, EmptySeq DEF Init, Manual!Init, TypeOK, Modes
<1>3. Latest /\ Delivered /\ Answered
  BY Writers DEF Init, Manual!Init, Latest, Delivered, Answered, Current
<1>4. QED
  BY <1>2, <1>3 DEF IInv
-----------------------------------------------------------------------------
\* Sending a list keeps the lists' type.
LEMMA SendsList ==
  ASSUME TypeOK, NEW w \in Requesters, NEW list \in Modes \union {"none"}, SendList(w, list)
  PROVE  lists' \in [Requesters -> Seq(Modes \union {"none"})] /\ \A v \in Requesters : Len(lists'[v]) <= Depth
BY QueuedLast DEF TypeOK, SendList

\* Sending a velocity keeps what the other writers stand for, and the sender stands
\* for what it sent.
LEMMA SendsVelocity ==
  ASSUME IInv, NEW w \in Movers, NEW velocity \in Velocities, SendVelocity(w, velocity),
         UNCHANGED <<wheels, driver, chassisUp>>,
         Current(w)' = velocity, \A v \in Movers \ {w} : Current(v)' = Current(v)
  PROVE  /\ velocities' \in [Movers -> Seq(Velocities)]
         /\ \A v \in Movers : Len(velocities'[v]) <= Depth
         /\ Latest' /\ Delivered'
<1>1. /\ velocities \in [Movers -> Seq(Velocities)] /\ Len(velocities[w]) <= Depth
      /\ velocities[w] \in Seq(Velocities)
  BY DEF IInv, TypeOK, Velocities
<1> DEFINE q == Queued(velocities[w], velocity)
<1>2. q \in Seq(Velocities) /\ Len(q) <= Depth /\ q # <<>> /\ q[Len(q)] = velocity
  BY <1>1, QueuedLast
<1>3. velocities' = [velocities EXCEPT ![w] = q]
  BY DEF SendVelocity
<1> HIDE DEF q
<1>4. \A v \in Movers \ {w} : velocities'[v] = velocities[v]
  BY <1>1, <1>3
<1>5. velocities'[w] = q
  BY <1>1, <1>3
<1>6. velocities' \in [Movers -> Seq(Velocities)] /\ \A v \in Movers : Len(velocities'[v]) <= Depth
  BY <1>1, <1>2, <1>3, <1>4, <1>5 DEF IInv, TypeOK
<1>7. Latest'
  BY <1>2, <1>4, <1>5 DEF IInv, Latest
<1>8. Delivered'
  BY <1>2, <1>4, <1>5 DEF IInv, Delivered
<1>9. QED
  BY <1>6, <1>7, <1>8
-----------------------------------------------------------------------------
\* What the bridge does.
LEMMA BridgeIInv ==
  ASSUME IInv, Override \/ BridgeMove \/ BridgeStop \/ BridgeExpire \/ BridgeLose \/ BridgeCrash
  PROVE  IInv'
<1> USE DEF BridgeUnchanged, taskVars, edgeVars, chassisVars, topics
<1>1. CASE Override
  <2>1. UNCHANGED <<velocities, cmd, edgeCmd, wheels, driver, chassisUp, auto, late, forsaken, task, asked>>
    BY <1>1 DEF Override, Manual!Renew
  <2>2. watched' = TRUE /\ lost' = FALSE /\ overriding' = TRUE /\ SendList("bridge", "none")
    BY <1>1 DEF Override, Manual!Renew
  <2>3. /\ lists' \in [Requesters -> Seq(Modes \union {"none"})]
        /\ \A v \in Requesters : Len(lists'[v]) <= Depth
    BY <2>2, Writers, SendsList DEF IInv
  <2>4. watched' \in BOOLEAN /\ lost' \in BOOLEAN /\ overriding' \in BOOLEAN /\ watched'
    BY <2>2, Zenon
  <2>5. requests' \in 0..MaxRequests
    BY <1>1, PathAssumption DEF Override, Request, IInv, TypeOK
  <2>6. TypeOK'
    BY <2>1, <2>3, <2>4, <2>5 DEF IInv, TypeOK
  <2>7. Latest' /\ Delivered' /\ Answered'
    BY <2>1, <2>4 DEF IInv, Latest, Delivered, Answered, Current
  <2>8. QED
    BY <2>6, <2>7 DEF IInv
<1>2. ASSUME NEW velocity \in Velocities, cmd' = velocity, velocity = "drive" => watched \/ lost,
             SendVelocity("bridge", velocity), overriding' \in BOOLEAN,
             UNCHANGED <<watched, lost, lists, requests, task, asked, auto, edgeCmd, late, forsaken,
                         wheels, driver, chassisUp>>
      PROVE  IInv'
  <2>1. Current("bridge")' = velocity /\ \A v \in Movers \ {"bridge"} : Current(v)' = Current(v)
    BY <1>2, Writers DEF Current
  <2>2. /\ velocities' \in [Movers -> Seq(Velocities)]
        /\ \A v \in Movers : Len(velocities'[v]) <= Depth
        /\ Latest' /\ Delivered'
    BY <1>2, <2>1, Writers, SendsVelocity
  <2>3. TypeOK'
    BY <1>2, <2>2 DEF IInv, TypeOK, Velocities
  <2>4. Answered'
    BY <1>2 DEF IInv, Answered
  <2>5. QED
    BY <2>2, <2>3, <2>4 DEF IInv
\* What changes in the watch only.
<1>3. ASSUME UNCHANGED <<cmd, lists, velocities, requests, task, asked, auto, edgeCmd, late, forsaken,
                         wheels, driver, chassisUp>>,
             watched' \in BOOLEAN, lost' \in BOOLEAN, overriding' \in BOOLEAN,
             cmd = "drive" => watched' \/ lost'
      PROVE  IInv'
  BY <1>3 DEF IInv, TypeOK, Latest, Delivered, Answered, Current
<1>4. CASE BridgeMove
  <2>1. overriding' \in BOOLEAN
    BY <1>4, Zenon DEF BridgeMove
  <2>2. CASE Manual!Drive /\ SendVelocity("bridge", "drive")
    BY <1>2, <1>4, <2>1, <2>2 DEF BridgeMove, Manual!Drive, Velocities
  <2>3. CASE Manual!Halt /\ SendVelocity("bridge", "stop")
    BY <1>2, <1>4, <2>1, <2>3 DEF BridgeMove, Manual!Halt, Velocities
  <2>4. CASE UNCHANGED <<cmd, watched, lost, velocities>>
    <3>1. watched' \in BOOLEAN /\ lost' \in BOOLEAN /\ (cmd = "drive" => watched' \/ lost')
      BY <2>4, Zenon DEF IInv, TypeOK, Answered
    <3>2. QED
      BY <1>3, <1>4, <2>1, <2>4, <3>1 DEF BridgeMove
  <2>5. QED
    BY <1>4, <2>2, <2>3, <2>4 DEF BridgeMove
<1>5. CASE BridgeStop
  BY <1>2, <1>5 DEF BridgeStop, Manual!Halt, Velocities, IInv, TypeOK
<1>6. CASE BridgeExpire
  <2>1. /\ watched' \in BOOLEAN /\ lost' \in BOOLEAN /\ overriding' \in BOOLEAN
        /\ cmd # "drive" /\ UNCHANGED cmd
    BY <1>6, Zenon DEF BridgeExpire, Manual!Expire, IInv, TypeOK
  <2>2. QED
    BY <1>3, <1>6, <2>1 DEF BridgeExpire
<1>7. CASE BridgeLose
  <2>1. /\ watched' \in BOOLEAN /\ lost' \in BOOLEAN /\ overriding' \in BOOLEAN
        /\ lost' /\ UNCHANGED cmd
    BY <1>7, Zenon DEF BridgeLose, Manual!Lose, IInv, TypeOK
  <2>2. QED
    BY <1>3, <1>7, <2>1 DEF BridgeLose
<1>8. CASE BridgeCrash
  <2>1. /\ watched' \in BOOLEAN /\ lost' \in BOOLEAN /\ overriding' \in BOOLEAN
        /\ (cmd = "drive" => lost')
    BY <1>8, Zenon DEF BridgeCrash
  <2>2. QED
    BY <1>3, <1>8, <2>1 DEF BridgeCrash
<1>9. QED
  BY <1>1, <1>4, <1>5, <1>6, <1>7, <1>8

\* What the task switch does.
LEMMA TasksIInv ==
  ASSUME IInv, TaskRequest \/ TaskAlgorithms
  PROVE  IInv'
<1> USE DEF TaskUnchanged, bridgeVars, edgeVars, chassisVars
<1>1. CASE TaskRequest
  <2>1. /\ UNCHANGED <<cmd, watched, lost, overriding, auto, edgeCmd, late, forsaken, wheels, driver, chassisUp>>
        /\ SendList("tasks", "none") /\ SendVelocity("tasks", "stop")
        /\ task' \in Modes \union {"stop"} /\ asked' \in Modes \union {"stop"}
    BY <1>1 DEF TaskRequest
  <2>2. requests' \in 0..MaxRequests
    BY <1>1, PathAssumption DEF TaskRequest, Request, IInv, TypeOK
  <2>3. Current("tasks")' = "stop" /\ \A v \in Movers \ {"tasks"} : Current(v)' = Current(v)
    BY <2>1, Writers DEF Current
  <2>4. /\ velocities' \in [Movers -> Seq(Velocities)]
        /\ \A v \in Movers : Len(velocities'[v]) <= Depth
        /\ Latest' /\ Delivered'
    BY <2>1, <2>3, Writers, SendsVelocity DEF Velocities
  <2>5. /\ lists' \in [Requesters -> Seq(Modes \union {"none"})]
        /\ \A v \in Requesters : Len(lists'[v]) <= Depth
    BY <2>1, Writers, SendsList DEF IInv
  <2>6. TypeOK' /\ Answered'
    BY <2>1, <2>2, <2>4, <2>5 DEF IInv, TypeOK, Answered, Velocities
  <2>7. QED
    BY <2>4, <2>6 DEF IInv
<1>2. CASE TaskAlgorithms
  <2>1. /\ lists' \in [Requesters -> Seq(Modes \union {"none"})]
        /\ \A v \in Requesters : Len(lists'[v]) <= Depth
    <3>1. CASE task \in Modes
      BY <1>2, <3>1, Writers, SendsList DEF TaskAlgorithms, IInv
    <3>2. CASE task \notin Modes
      BY <1>2, <3>2 DEF TaskAlgorithms, IInv, TypeOK
    <3>3. QED
      BY <3>1, <3>2
  <2>2. task' = "done" /\ UNCHANGED <<asked, velocities, requests, cmd, watched, lost, overriding, auto,
                                     edgeCmd, late, forsaken, wheels, driver, chassisUp>>
    BY <1>2 DEF TaskAlgorithms
  <2>3. QED
    BY <2>1, <2>2 DEF IInv, TypeOK, Latest, Delivered, Answered, Current
<1>3. QED
  BY <1>1, <1>2
-----------------------------------------------------------------------------
\* What the edge node does.
LEMMA EdgeIInv ==
  ASSUME IInv, (\E w \in Requesters : OnAlgorithmIds(w)) \/ Autonomy \/ Accomplish
         \/ LateMove \/ EdgeCrash \/ EdgeStart
  PROVE  IInv'
<1> USE DEF EdgeUnchanged, bridgeVars, taskVars, chassisVars
<1>1. ASSUME NEW velocity \in Velocities, SendVelocity("edge", velocity), edgeCmd' = velocity,
             velocity = "drive" => auto' \in Modes \/ forsaken',
             late' \in BOOLEAN, forsaken' \in BOOLEAN, auto' \in Modes \union {"none", "down"},
             lists' \in [Requesters -> Seq(Modes \union {"none"})],
             \A v \in Requesters : Len(lists'[v]) <= Depth,
             UNCHANGED <<cmd, watched, lost, overriding, task, asked, wheels, driver, chassisUp, requests>>
      PROVE  IInv'
  <2>1. Current("edge")' = velocity /\ \A v \in Movers \ {"edge"} : Current(v)' = Current(v)
    BY <1>1, Writers DEF Current
  <2>2. /\ velocities' \in [Movers -> Seq(Velocities)]
        /\ \A v \in Movers : Len(velocities'[v]) <= Depth
        /\ Latest' /\ Delivered'
    BY <1>1, <2>1, Writers, SendsVelocity
  <2>3. TypeOK'
    BY <1>1, <2>2 DEF IInv, TypeOK, Velocities
  <2>4. Answered'
    BY <1>1 DEF IInv, Answered
  <2>5. QED
    BY <2>2, <2>3, <2>4 DEF IInv
<1>a. ASSUME NEW velocity, EdgePublish(velocity)
      PROVE  SendVelocity("edge", velocity) /\ edgeCmd' = velocity /\ forsaken' \in BOOLEAN
  BY <1>a, Zenon DEF EdgePublish
<1>b. ASSUME MayLinger PROVE late' \in BOOLEAN
  <2>1. late \in BOOLEAN
    BY DEF IInv, TypeOK
  <2>2. QED
    BY <1>b, <2>1, Zenon DEF MayLinger
<1>2. ASSUME UNCHANGED <<velocities, edgeCmd, cmd, watched, lost, overriding, task, asked, wheels,
                         driver, chassisUp, requests>>,
             auto' \in Modes \union {"none", "down"}, late' \in BOOLEAN, forsaken' \in BOOLEAN,
             lists' \in [Requesters -> Seq(Modes \union {"none"})],
             \A v \in Requesters : Len(lists'[v]) <= Depth,
             edgeCmd = "drive" => auto' \in Modes \/ forsaken'
      PROVE  IInv'
  <2>1. TypeOK'
    BY <1>2 DEF IInv, TypeOK
  <2>2. Latest' /\ Delivered'
    BY <1>2 DEF IInv, Latest, Delivered, Current
  <2>3. Answered'
    BY <1>2 DEF IInv, Answered
  <2>4. QED
    BY <2>1, <2>2, <2>3 DEF IInv
<1>3. ASSUME NEW w \in Requesters, OnAlgorithmIds(w) PROVE IInv'
  <2>1. /\ lists[w] \in Seq(Modes \union {"none"}) /\ lists[w] # <<>>
        /\ lists' = [lists EXCEPT ![w] = Tail(lists[w])] /\ Len(lists[w]) <= Depth
    BY <1>3 DEF OnAlgorithmIds, IInv, TypeOK
  <2>2. /\ Tail(lists[w]) \in Seq(Modes \union {"none"}) /\ Head(lists[w]) \in Modes \union {"none"}
        /\ Len(Tail(lists[w])) <= Len(lists[w])
    BY <2>1, TailLast
  <2>3. Len(Tail(lists[w])) <= Depth
    <3>1. Len(lists[w]) \in Nat /\ Len(Tail(lists[w])) \in Nat /\ Depth \in Nat
      BY <2>1, <2>2, LenProperties, PathAssumption
    <3>2. QED
      BY <2>1, <2>2, <3>1
  <2>4. /\ lists' \in [Requesters -> Seq(Modes \union {"none"})]
        /\ \A v \in Requesters : Len(lists'[v]) <= Depth
    BY <2>1, <2>2, <2>3 DEF IInv, TypeOK
  <2>5. UNCHANGED <<cmd, watched, lost, overriding, task, asked, wheels, driver, chassisUp, requests>>
    BY <1>3 DEF OnAlgorithmIds
  <2>6. CASE auto = "down"
    BY <1>2, <1>3, <2>4, <2>5, <2>6 DEF OnAlgorithmIds, edgeVars, IInv, TypeOK, Answered
  <2>7. CASE auto # "down"
    <3> DEFINE mode == Head(lists[w])
    <3>1. Switch(mode) /\ auto' = mode /\ late' \in BOOLEAN
      BY <1>3, <1>b, <2>7 DEF OnAlgorithmIds, Switch
    <3> HIDE DEF mode
    <3>2. mode \in Modes \union {"none"}
      BY <2>2 DEF mode
    <3>3. CASE EdgePublish("stop")
      BY <1>1, <1>a, <2>4, <2>5, <3>1, <3>2, <3>3 DEF Velocities
    <3>4. CASE ~(auto # mode /\ (auto # "none" \/ mode = "search"))
      <4>1. UNCHANGED <<velocities, edgeCmd, forsaken>>
        BY <3>1, <3>4 DEF Switch
      <4>2. edgeCmd = "drive" => auto' \in Modes \/ forsaken'
        BY <2>7, <3>1, <3>2, <3>4, <4>1 DEF IInv, Answered
      <4>3. forsaken' \in BOOLEAN
        BY <4>1 DEF IInv, TypeOK
      <4>4. QED
        BY <1>2, <2>4, <2>5, <3>1, <3>2, <4>1, <4>2, <4>3
    <3>5. QED
      BY <3>1, <3>3, <3>4 DEF Switch
  <2>8. QED
    BY <2>6, <2>7
<1>4. CASE Autonomy
  <2>1. PICK velocity \in Velocities : EdgePublish(velocity)
    BY <1>4 DEF Autonomy, Velocities
  <2>2. QED
    BY <1>1, <1>a, <1>4, <2>1 DEF Autonomy, IInv, TypeOK
<1>5. CASE Accomplish
  BY <1>1, <1>a, <1>b, <1>5 DEF Accomplish, IInv, TypeOK, Velocities
<1>6. CASE LateMove
  <2>1. /\ late' \in BOOLEAN /\ forsaken' \in BOOLEAN
        /\ auto' \in Modes \/ forsaken'
    BY <1>6, Zenon DEF LateMove
  <2>2. QED
    BY <1>1, <1>6, <2>1 DEF LateMove, IInv, TypeOK, Velocities
<1>7. CASE EdgeCrash
  <2>1. late' \in BOOLEAN /\ forsaken' \in BOOLEAN /\ (edgeCmd = "drive" => forsaken')
    BY <1>7, Zenon DEF EdgeCrash
  <2>2. QED
    BY <1>2, <1>7, <2>1 DEF EdgeCrash, topics, IInv, TypeOK
<1>8. CASE EdgeStart
  <2>1. edgeCmd = "drive" => forsaken
    BY <1>8 DEF EdgeStart, IInv, Answered, Modes
  <2>2. QED
    BY <1>2, <1>8, <2>1 DEF EdgeStart, topics, IInv, TypeOK
<1>9. QED
  BY <1>3, <1>4, <1>5, <1>6, <1>7, <1>8

\* What the chassis node does.
LEMMA ChassisIInv ==
  ASSUME IInv, (\E w \in Movers : OnCmdVel(w)) \/ ChassisEnd \/ ChassisStart
  PROVE  IInv'
<1> USE DEF ChassisUnchanged, bridgeVars, taskVars, edgeVars
<1>1. ASSUME NEW w \in Movers, OnCmdVel(w) PROVE IInv'
  <2>1. /\ velocities \in [Movers -> Seq(Velocities)] /\ velocities[w] # <<>>
        /\ velocities' = [velocities EXCEPT ![w] = Tail(velocities[w])]
        /\ velocities[w] \in Seq(Velocities) /\ Len(velocities[w]) <= Depth
    BY <1>1 DEF OnCmdVel, IInv, TypeOK, Velocities
  <2>2. /\ Head(velocities[w]) \in Velocities /\ Tail(velocities[w]) \in Seq(Velocities)
        /\ Len(Tail(velocities[w])) <= Len(velocities[w])
        /\ Tail(velocities[w]) # <<>> =>
             Tail(velocities[w])[Len(Tail(velocities[w]))] = velocities[w][Len(velocities[w])]
        /\ Tail(velocities[w]) = <<>> => Head(velocities[w]) = velocities[w][Len(velocities[w])]
    BY <2>1, TailLast
  <2>3. Len(Tail(velocities[w])) <= Depth
    <3>1. Len(velocities[w]) \in Nat /\ Len(Tail(velocities[w])) \in Nat /\ Depth \in Nat
      BY <2>1, <2>2, LenProperties, PathAssumption
    <3>2. QED
      BY <2>1, <2>2, <3>1
  <2> DEFINE rest == Tail(velocities[w])
             head == Head(velocities[w])
  <2>4. /\ velocities'[w] = rest /\ \A v \in Movers \ {w} : velocities'[v] = velocities[v]
        /\ velocities' = [velocities EXCEPT ![w] = rest]
    BY <2>1
  <2>5. /\ rest \in Seq(Velocities) /\ Len(rest) <= Depth /\ head \in Velocities
        /\ rest # <<>> => rest[Len(rest)] = Current(w)
        /\ rest = <<>> => head = Current(w)
    BY <2>1, <2>2, <2>3 DEF IInv, Latest
  <2>6. /\ UNCHANGED <<cmd, watched, lost, overriding, task, asked, lists, auto, edgeCmd, late, forsaken,
                       chassisUp, requests>>
        /\ IF chassisUp THEN wheels' = head /\ driver' = w ELSE UNCHANGED <<wheels, driver>>
    BY <1>1 DEF OnCmdVel
  <2> HIDE DEF rest, head
  <2>7. TypeOK'
    <3>1. velocities' \in [Movers -> Seq(Velocities)]
      BY <2>4, <2>5 DEF IInv, TypeOK, Velocities
    <3>2. \A v \in Movers : Len(velocities'[v]) <= Depth
      BY <2>4, <2>5 DEF IInv, TypeOK, Velocities
    <3>3. wheels' \in Velocities /\ driver' \in Movers \union {"nobody"}
      BY <2>5, <2>6 DEF IInv, TypeOK, Velocities
    <3>4. QED
      BY <2>6, <3>1, <3>2, <3>3 DEF IInv, TypeOK, Velocities
  <2>8. \A v \in Movers : Current(v)' = Current(v)
    BY <2>6 DEF Current
  <2>9. Latest'
    BY <2>4, <2>5, <2>8 DEF IInv, Latest
  <2>10. Delivered'
    <3>0. w # "nobody"
      BY Writers
    <3>1. CASE chassisUp
      BY <2>4, <2>5, <2>6, <2>8, <3>0, <3>1 DEF IInv, Delivered
    <3>2. CASE ~chassisUp
      <4>1. driver = "nobody" /\ \A v \in Movers : v # "nobody"
        BY <3>2, Writers DEF IInv, Delivered
      <4>2. QED
        BY <2>6, <3>2, <4>1 DEF IInv, Delivered
    <3>3. QED
      BY <3>1, <3>2
  <2>11. Answered'
    BY <2>6 DEF IInv, Answered
  <2>12. QED
    BY <2>7, <2>9, <2>10, <2>11 DEF IInv
<1>2. CASE ChassisEnd
  <2>1. chassisUp' \in BOOLEAN /\ ~chassisUp'
    BY <1>2, Zenon DEF ChassisEnd
  <2>2. QED
    BY <1>2, <2>1, Writers DEF ChassisEnd, IInv, TypeOK, Latest, Delivered, Answered, Current
<1>3. CASE ChassisStart
  <2>1. chassisUp' \in BOOLEAN /\ chassisUp'
    BY <1>3, Zenon DEF ChassisStart
  <2>2. QED
    BY <1>3, <2>1 DEF ChassisStart, IInv, TypeOK, Latest, Delivered, Answered, Current
<1>4. QED
  BY <1>1, <1>2, <1>3

LEMMA StepIInv == IInv /\ [Next]_vars => IInv'
<1> SUFFICES ASSUME IInv, [Next]_vars PROVE IInv'
  OBVIOUS
<1>1. CASE UNCHANGED vars
  BY <1>1 DEF vars, bridgeVars, taskVars, topics, edgeVars, chassisVars,
     IInv, TypeOK, Latest, Delivered, Answered, Current
<1>2. QED
  BY <1>1, BridgeIInv, TasksIInv, EdgeIInv, ChassisIInv DEF Next

LEMMA Inductive == Spec => []IInv
BY InitIInv, StepIInv, PTL DEF Spec
-----------------------------------------------------------------------------
\* Every variable has its type, and no queue outgrows its depth.
THEOREM TypeCorrect == Spec => []TypeOK
<1>1. IInv => TypeOK
  BY DEF IInv
<1>2. QED
  BY <1>1, Inductive, PTL

\* A car that rolls is accounted for by who set it going, or its drive was abandoned,
\* whatever was lost.
THEOREM RollingIsAccountedFor == Spec => []WheelsAreAccountedFor
<1>1. IInv => WheelsAreAccountedFor
  <2> SUFFICES ASSUME IInv, wheels = "drive", driver \in Movers => velocities[driver] = <<>>,
                      driver # "nobody"
               PROVE  \/ driver = "edge" /\ (auto \in Modes \/ forsaken)
                      \/ driver = "bridge" /\ (lost \/ (cmd = "drive" /\ watched))
    BY DEF WheelsAreAccountedFor, Abandoned
  <2>1. driver \in Movers
    BY DEF IInv, TypeOK
  <2>2. Current(driver) = "drive"
    BY <2>1 DEF IInv, Delivered
  <2>3. (driver = "edge" /\ edgeCmd = "drive") \/ (driver = "bridge" /\ cmd = "drive")
    BY <2>2 DEF Current
  <2>4. QED
    BY <2>3, Zenon DEF IInv, Answered
<1>2. QED
  BY <1>1, Inductive, PTL
=============================================================================
