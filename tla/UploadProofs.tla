------------------------------ MODULE UploadProofs ------------------------------
(***************************************************************************)
(* What holds of the two halves of the upload: of the node EdgeUpload for     *)
(* every set of algorithms, whatever the order of requests, frames, results   *)
(* and timeouts; and of its worker CloudWsClient for any number of callers,   *)
(* workers and frames, however their steps interleave and however slow the    *)
(* network is.  The two share no variable here.                             *)
(***************************************************************************)
EXTENDS EdgeUpload, CloudWsClient, FiniteSetTheorems, SequenceTheorems, TLAPS

\* A search is active exactly while the servo is not off, so that the servo can
\* always be started and stopped when the search is.
SearchHasServo == searchActive <=> phase # "off"

\* A frame of this look that has no answer is the one in flight, and the list
\* of algorithms is the one it was sent for.
AskedIsInflight ==
  /\ asked \in {0, 1}
  /\ asked = 1 => inflight /\ phase = "look" /\ Similarity \in algorithms

IInv == TypeOK /\ SearchHasServo /\ UrlFollowsAlgorithms /\ AskedIsInflight
-----------------------------------------------------------------------------
(* The node                                                                   *)

\* What SetAlgorithms does to the three variables of the upload.
LEMMA SetAlgorithmsKeeps ==
  ASSUME TypeOK, UrlFollowsAlgorithms, NEW new \in SUBSET Algorithms, SetAlgorithms(new)
  PROVE  /\ algorithms' = new /\ url' \subseteq Algorithms
         /\ uploadEnabled' \in BOOLEAN /\ UrlFollowsAlgorithms'
<1>1. uploadEnabled' \in BOOLEAN
  BY Zenon DEF SetAlgorithms
<1>2. QED
  BY <1>1 DEF SetAlgorithms, TypeOK, UrlFollowsAlgorithms

\* What the servo does while it is not off: it stays on and knows whether it
\* rolls and whether it has seen a target.
ServoSteps == Servo!Turn \/ Servo!Drive \/ Servo!Approach \/ Servo!Track \/ Servo!Block
              \/ Servo!Settle \/ Servo!Look \/ Servo!GiveUp

LEMMA ServoMoves ==
  ASSUME phase # "off", seen \in BOOLEAN, ServoSteps
  PROVE  phase' \in Servo!Phases \ {"off"} /\ rolling' \in BOOLEAN /\ seen' \in BOOLEAN
<1> USE DEF ServoSteps
<1>1. rolling' \in BOOLEAN
  <2>1. CASE Servo!Track
    BY <2>1, Zenon DEF Servo!Track
  <2>2. CASE ~Servo!Track
    <3>1. rolling' = TRUE \/ rolling' = FALSE
      BY <2>2, Zenon DEF Servo!Turn, Servo!Drive, Servo!Sweep, Servo!Approach, Servo!Block,
         Servo!Settle, Servo!Look, Servo!GiveUp
    <3>2. QED
      BY <3>1, Zenon
  <2>3. QED
    BY <2>1, <2>2
<1>2. seen' \in BOOLEAN
  <2>1. seen' = TRUE \/ seen' = FALSE \/ seen' = seen
    BY Zenon DEF Servo!Turn, Servo!Drive, Servo!Sweep, Servo!Approach, Servo!Track,
       Servo!Block, Servo!Settle, Servo!Look, Servo!GiveUp
  <2>2. QED
    BY <2>1, Zenon
<1>3. phase' \in Servo!Phases \ {"off"}
  BY DEF Servo!Phases, Servo!Turn, Servo!Drive, Servo!Sweep, Servo!Approach, Servo!Track,
     Servo!Block, Servo!Settle, Servo!Look, Servo!GiveUp
<1>4. QED
  BY <1>1, <1>2, <1>3

\* Ending a search ends the servo's work with it, and a search that was not
\* active leaves it off.
LEMMA StopSearchOff ==
  ASSUME TypeOK, SearchHasServo, StopSearch
  PROVE  searchActive' = FALSE /\ phase' = "off" /\ rolling' \in BOOLEAN /\ seen' \in BOOLEAN
<1>1. CASE searchActive
  <2>1. searchActive' = FALSE /\ phase' = "off" /\ rolling' = FALSE /\ seen' = FALSE
    BY <1>1, Zenon DEF StopSearch, Servo!End
  <2>2. QED
    BY <2>1, Zenon
<1>2. CASE ~searchActive
  BY <1>2 DEF StopSearch, servoVars, TypeOK, SearchHasServo
<1>3. QED
  BY <1>1, <1>2

\* Starting or ending the search, as a request does after it changed the list,
\* keeps search and servo together.  A search that ends when its algorithm is
\* taken away has no frame to wait for.
LEMMA RequestIInv ==
  ASSUME IInv, NEW new \in SUBSET Algorithms, NEW b \in BOOLEAN,
         SetAlgorithms(new), ForgetIf(b), new # algorithms => b,
         \/ StartSearch
         \/ Similarity \notin new /\ StopSearch
         \/ UNCHANGED <<searchActive, servoVars>>,
         inspecting' \in BOOLEAN, UNCHANGED snapshot
  PROVE  IInv'
<1> USE DEF IInv, TypeOK, SearchHasServo, AskedIsInflight, Servo!Phases
<1>1. /\ algorithms' = new /\ url' \subseteq Algorithms
      /\ uploadEnabled' \in BOOLEAN /\ UrlFollowsAlgorithms'
  BY SetAlgorithmsKeeps
<1>2. inflight' \in BOOLEAN /\ asked' \in {0, 1} /\ (asked' = 1 => asked = 1 /\ ~b /\ inflight')
  BY DEF ForgetIf
<1>3. /\ searchActive' \in BOOLEAN /\ phase' \in Servo!Phases
      /\ rolling' \in BOOLEAN /\ seen' \in BOOLEAN /\ SearchHasServo'
  <2>1. CASE StartSearch
    BY <2>1 DEF StartSearch, Servo!Begin, servoVars
  <2>2. CASE StopSearch
    <3>1. searchActive' = FALSE /\ phase' = "off" /\ rolling' \in BOOLEAN /\ seen' \in BOOLEAN
      BY <2>2, StopSearchOff
    <3>2. searchActive' \in BOOLEAN
      BY <3>1, Zenon
    <3>3. QED
      BY <3>1, <3>2
  <2>3. CASE UNCHANGED <<searchActive, servoVars>>
    BY <2>3 DEF servoVars
  <2>4. QED
    BY <2>1, <2>2, <2>3
<1>4. asked' = 1 => phase' = "look" /\ Similarity \in algorithms'
  BY <1>1, <1>2 DEF StartSearch, StopSearch, Servo!Begin, servoVars
<1>5. QED
  BY <1>1, <1>2, <1>3, <1>4

\* A request of the phone asks for known algorithms only.
LEMMA RequestedKnown ==
  ASSUME TypeOK, NEW mode, NEW ids \in Lists, NEW mask \in Masks,
         NEW new \in Requested(mode, ids, mask)
  PROVE  new \in SUBSET Algorithms
BY DEF TypeOK, Requested, Masks, Lists, Maybe, Algorithms
-----------------------------------------------------------------------------
\* Initially nothing is uploaded and nobody moves.
LEMMA InitIInv == Init => IInv
<1> SUFFICES ASSUME Init PROVE IInv
  OBVIOUS
<1>1. /\ uploadEnabled \in BOOLEAN /\ inflight \in BOOLEAN /\ snapshot \in BOOLEAN
      /\ searchActive \in BOOLEAN /\ inspecting \in BOOLEAN /\ rolling \in BOOLEAN
      /\ seen \in BOOLEAN
  BY Zenon DEF Init, Servo!Init
<1>2. QED
  BY <1>1 DEF Init, Servo!Init, Servo!Phases, IInv, TypeOK, SearchHasServo,
     UrlFollowsAlgorithms, AskedIsInflight

\* Each action keeps the invariant.
LEMMA NextIInv == IInv /\ [Next]_vars => IInv'
<1> SUFFICES ASSUME IInv, [Next]_vars PROVE IInv'
  OBVIOUS
<1> USE DEF IInv, TypeOK, SearchHasServo, UrlFollowsAlgorithms, AskedIsInflight,
     Servo!Phases, aiVars, servoVars
<1>1. ASSUME NEW enabled \in BOOLEAN, AiEnable(enabled) PROVE IInv'
  BY <1>1 DEF AiEnable
<1>2. ASSUME NEW new \in SUBSET Algorithms, OnAlgorithmIds(new) PROVE IInv'
  <2>1. inspecting' \in BOOLEAN
    BY <1>2, Zenon DEF OnAlgorithmIds, HasInspection
  <2>2. (new # algorithms \/ new = {}) \in BOOLEAN
    OBVIOUS
  <2>3. StartSearch \/ (Similarity \notin new /\ StopSearch)
    BY <1>2 DEF OnAlgorithmIds
  <2>4. QED
    BY <1>2, <2>1, <2>2, <2>3, RequestIInv DEF OnAlgorithmIds
<1>3. ASSUME NEW mode \in Modes, NEW ids \in Lists, NEW mask \in Masks,
             OnAppControl(mode, ids, mask)
      PROVE  IInv'
  <2>1. PICK new \in Requested(mode, ids, mask) :
          /\ SetAlgorithms(new) /\ ForgetIf(new # algorithms)
          /\ \/ StartSearch
             \/ Similarity \notin new /\ StopSearch
             \/ UNCHANGED <<searchActive, servoVars>>
          /\ inspecting' = HasInspection(new) /\ UNCHANGED snapshot
    <3>1. PICK new \in Requested(mode, ids, mask) :
            /\ SetAlgorithms(new) /\ ForgetIf(new # algorithms)
            /\ \/ new = {} /\ StopSearch
               \/ StartSearch
               \/ Similarity \notin new /\ StopSearch
               \/ UNCHANGED <<searchActive, servoVars>>
            /\ inspecting' = HasInspection(new) /\ UNCHANGED snapshot
      BY <1>3 DEF OnAppControl
    <3>2. new = {} => Similarity \notin new
      OBVIOUS
    <3>3. QED
      BY <3>1, <3>2
  <2>2. new \in SUBSET Algorithms
    BY RequestedKnown
  <2>3. inspecting' \in BOOLEAN
    BY <2>1, Zenon DEF HasInspection
  <2>4. (new # algorithms) \in BOOLEAN
    OBVIOUS
  <2>5. QED
    BY <2>1, <2>2, <2>3, <2>4, RequestIInv
<1>4. CASE OnSnapshot
  <2>1. snapshot' \in BOOLEAN
    BY <1>4, Zenon DEF OnSnapshot
  <2>2. QED
    BY <1>4, <2>1 DEF OnSnapshot
<1>5. ASSUME NEW due \in BOOLEAN, NEW encodes \in BOOLEAN, OnImage(due, encodes) PROVE IInv'
  <2>1. snapshot' \in BOOLEAN
    BY <1>5, Zenon DEF OnImage
  <2> DEFINE wanted == uploadEnabled /\ due
             queued == wanted /\ MayUpload /\ encodes
  <2>2. inflight' = InflightAfter(wanted, queued)
    BY <1>5 DEF OnImage
  <2>3. inflight' \in BOOLEAN
    BY <2>2, Zenon DEF InflightAfter
  <2>4. asked' = IF phase = "look" /\ queued /\ Similarity \in algorithms
                 THEN asked + 1 ELSE asked
    BY <1>5 DEF OnImage
  <2>5. UNCHANGED <<algorithms, uploadEnabled, url, searchActive, inspecting, phase, rolling, seen>>
    BY <1>5 DEF OnImage
  <2>6. asked' \in {0, 1} /\ (asked' = 1 => inflight' /\ phase = "look" /\ Similarity \in algorithms)
    <3>1. CASE phase = "look" /\ queued /\ Similarity \in algorithms
      <4>1. ~inflight
        BY <3>1 DEF MayUpload
      <4>2. asked = 0
        BY <4>1
      <4>3. inflight'
        BY <2>2, <3>1 DEF InflightAfter
      <4>4. QED
        BY <2>4, <3>1, <4>2, <4>3
    <3>2. CASE ~(phase = "look" /\ queued /\ Similarity \in algorithms)
      <4>1. asked' = asked
        BY <2>4, <3>2
      <4>2. asked = 1 => inflight'
        BY <2>2 DEF InflightAfter, Moving
      <4>3. QED
        BY <4>1, <4>2
    <3>3. QED
      BY <3>1, <3>2
  <2>7. QED
    BY <2>1, <2>3, <2>5, <2>6
<1>6. CASE OnSimilarityResult
  <2>1. inflight' \in BOOLEAN
    BY <1>6, Zenon DEF OnSimilarityResult
  <2>2. asked' = 0 /\ UNCHANGED <<snapshot, inspecting>>
    BY <1>6 DEF OnSimilarityResult
  <2>3. CASE Found
    <3>1. {} \in SUBSET Algorithms
      OBVIOUS
    <3>2. /\ algorithms' = {} /\ url' \subseteq Algorithms
          /\ uploadEnabled' \in BOOLEAN /\ UrlFollowsAlgorithms'
      BY <2>3, <3>1, SetAlgorithmsKeeps DEF Found
    <3>3. searchActive' = FALSE /\ phase' = "off" /\ rolling' \in BOOLEAN /\ seen' \in BOOLEAN
      BY <2>3, StopSearchOff DEF Found
    <3>4. searchActive' \in BOOLEAN
      BY <3>3, Zenon
    <3>5. QED
      BY <2>1, <2>2, <3>2, <3>3, <3>4
  <2>4. CASE searchActive /\ Follow /\ UNCHANGED <<aiVars, searchActive>>
    <3>1. phase' \in Servo!Phases \ {"off"} /\ rolling' \in BOOLEAN /\ seen' \in BOOLEAN
      BY <2>4, ServoMoves DEF Follow, ServoSteps
    <3>2. QED
      BY <2>1, <2>2, <2>4, <3>1
  <2>5. CASE UNCHANGED <<aiVars, searchActive, servoVars>>
    BY <2>1, <2>2, <2>5
  <2>6. QED
    BY <1>6, <2>3, <2>4, <2>5 DEF OnSimilarityResult, Follow
<1>7. CASE OnLastInspectionResult
  <2>1. inspecting' \in BOOLEAN
    BY <1>7, Zenon DEF OnLastInspectionResult
  <2>2. (algorithms # {}) \in BOOLEAN /\ {} \in SUBSET Algorithms
    OBVIOUS
  <2>3. QED
    BY <1>7, <2>1, <2>2, RequestIInv DEF OnLastInspectionResult
<1>8. CASE ServoTick
  <2>1. phase' \in Servo!Phases \ {"off"} /\ rolling' \in BOOLEAN /\ seen' \in BOOLEAN
    BY <1>8, ServoMoves DEF ServoTick, ServoSteps
  <2>2. searchActive /\ asked' = 0 /\ UNCHANGED <<aiVars, inflight, snapshot, searchActive, inspecting>>
    BY <1>8 DEF ServoTick
  <2>3. QED
    BY <2>1, <2>2
<1>9. CASE UNCHANGED vars
  BY <1>9 DEF vars
<1>10. QED
  BY <1>1, <1>2, <1>3, <1>4, <1>5, <1>6, <1>7, <1>8, <1>9 DEF Next

\* The invariant is inductive.
LEMMA Inductive == Spec => []IInv
BY InitIInv, NextIInv, PTL DEF Spec
-----------------------------------------------------------------------------
\* Every variable keeps its type, whatever lists the phone and the topics send.
THEOREM TypeCorrect == Spec => []TypeOK
<1>1. IInv => TypeOK
  BY DEF IInv
<1>2. QED
  BY <1>1, Inductive, PTL

\* While frames are uploaded, the worker's URL asks for the node's present list
\* of algorithms, through both early returns of _set_ai_algorithms and
\* _set_ai_enabled.
THEOREM UrlIsCurrent == Spec => []UrlFollowsAlgorithms
<1>1. IInv => UrlFollowsAlgorithms
  BY DEF IInv
<1>2. QED
  BY <1>1, Inductive, PTL

\* One look of the servo asks the cloud about one frame at a time.
THEOREM AsksOnce == Spec => []OneFramePerLook
<1>1. IInv => OneFramePerLook
  BY DEF IInv, AskedIsInflight, OneFramePerLook
<1>2. QED
  BY <1>1, Inductive, PTL
-----------------------------------------------------------------------------
(* The worker's types and its queue                                           *)

\* The types of what the calls and the workers share.
CallsOK ==
  /\ stop \in BOOLEAN /\ wsEnabled \in BOOLEAN
  /\ thread \in Workers \union {None} /\ joined \in [Callers -> Workers \union {None}]
  /\ worker \in [Workers -> WorkerStates]
  /\ wsUrl \in Urls /\ wantedUrl \in [Callers -> Urls]
  /\ pc \in [Callers -> CallSteps] /\ then \in [Callers -> {"idle", "enable", "url_set"}]
  /\ clean \in BOOLEAN
  /\ \A c \in Callers \ Enablers :
       pc[c] \in {"idle", "stop", "join", "clear"} /\ then[c] = "idle"

\* The frames q wait in the order of the camera, are newer than low and none is
\* newer than top.
InOrder(q, low, top) ==
  /\ \A i \in 1..Len(q) : low < q[i] /\ q[i] <= top
  /\ \A i, j \in 1..Len(q) : i < j => q[i] < q[j]

QueueOK ==
  /\ frames \in 0..MaxFrames /\ sent \in 0..frames /\ held \in [Workers -> 0..frames]
  /\ queue \in Seq(Nat) /\ Len(queue) <= QueueSize
  /\ InOrder(queue, 0, frames)

WsIInv == CallsOK /\ QueueOK

\* Taking the oldest frame leaves newer ones.
LEMMA TailInOrder ==
  ASSUME NEW q \in Seq(Nat), q # <<>>, NEW low \in Nat, NEW top \in Nat, InOrder(q, low, top)
  PROVE  /\ Head(q) \in Nat /\ low < Head(q) /\ Head(q) <= top
         /\ Tail(q) \in Seq(Nat) /\ Len(Tail(q)) = Len(q) - 1
         /\ InOrder(Tail(q), Head(q), top) /\ InOrder(Tail(q), low, top)
<1>1. Len(q) \in Nat \ {0} /\ \A i \in 1..Len(q) : q[i] \in Nat
  BY LenProperties, ElementOfSeq, EmptySeq
<1> DEFINE t == Tail(q)
<1>2. /\ Head(q) = q[1] /\ t \in Seq(Nat) /\ Len(t) = Len(q) - 1
      /\ \A i \in 1..Len(t) : t[i] = q[i + 1]
  BY HeadTailProperties
<1> HIDE DEF t
<1>3. \A i \in 1..Len(t) : i \in Nat /\ i + 1 \in 1..Len(q) /\ 1 < i + 1 /\ t[i] = q[i + 1]
  BY <1>1, <1>2
<1>4. 1 \in 1..Len(q)
  BY <1>1
<1>5. \A i \in 1..Len(t) : low < t[i] /\ q[1] < t[i] /\ t[i] <= top
  <2>1. \A k \in 1..Len(q) : low < q[k] /\ q[k] <= top
    BY DEF InOrder
  <2>2. \A k \in 1..Len(q) : 1 < k => q[1] < q[k]
    BY <1>4 DEF InOrder
  <2>3. QED
    BY <1>3, <2>1, <2>2
<1>6. ASSUME NEW i \in 1..Len(t), NEW j \in 1..Len(t), i < j PROVE t[i] < t[j]
  <2>1. /\ i + 1 \in 1..Len(q) /\ j + 1 \in 1..Len(q) /\ i + 1 < j + 1
        /\ t[i] = q[i + 1] /\ t[j] = q[j + 1]
    BY <1>3, <1>6
  <2>2. QED
    BY <2>1 DEF InOrder
<1>7. low < q[1] /\ q[1] <= top /\ q[1] \in Nat
  BY <1>1, <1>4 DEF InOrder
<1>8. InOrder(t, q[1], top) /\ InOrder(t, low, top)
  BY <1>5, <1>6 DEF InOrder
<1>9. QED
  BY <1>2, <1>7, <1>8 DEF t

\* The camera's next frame is the newest.
LEMMA AppendInOrder ==
  ASSUME NEW q \in Seq(Nat), NEW low \in Nat, NEW top \in Nat, low <= top, InOrder(q, low, top)
  PROVE  /\ Append(q, top + 1) \in Seq(Nat) /\ Len(Append(q, top + 1)) = Len(q) + 1
         /\ InOrder(Append(q, top + 1), low, top + 1)
<1> DEFINE a == Append(q, top + 1)
<1>1. Len(q) \in Nat /\ \A i \in 1..Len(q) : q[i] \in Nat
  BY LenProperties, ElementOfSeq
<1>2. /\ a \in Seq(Nat) /\ Len(a) = Len(q) + 1 /\ a[Len(q) + 1] = top + 1
      /\ \A i \in 1..Len(q) : a[i] = q[i]
  BY AppendProperties
<1> HIDE DEF a
<1>3. \A i \in 1..Len(a) : i \in 1..Len(q) \/ i = Len(q) + 1
  BY <1>1, <1>2
<1>4. \A i \in 1..Len(q) : low < q[i] /\ q[i] < top + 1 /\ a[i] = q[i]
  <2>1. \A i \in 1..Len(q) : low < q[i] /\ q[i] <= top
    BY DEF InOrder
  <2>2. QED
    BY <1>1, <1>2, <2>1
<1>5. ASSUME NEW i \in 1..Len(a), NEW j \in 1..Len(a), i < j PROVE a[i] < a[j]
  <2>1. i \in 1..Len(q)
    BY <1>1, <1>2, <1>3, <1>5
  <2>2. CASE j \in 1..Len(q)
    BY <1>4, <1>5, <2>1, <2>2 DEF InOrder
  <2>3. CASE j = Len(q) + 1
    BY <1>2, <1>4, <2>1, <2>3
  <2>4. QED
    BY <1>3, <2>2, <2>3
<1>6. \A i \in 1..Len(a) : low < a[i] /\ a[i] <= top + 1
  <2>1. low < top + 1 /\ top + 1 <= top + 1
    OBVIOUS
  <2>2. \A i \in 1..Len(q) : a[i] <= top + 1
    BY <1>1, <1>4
  <2>3. QED
    BY <1>2, <1>3, <1>4, <2>1, <2>2
<1>7. InOrder(a, low, top + 1)
  BY <1>5, <1>6 DEF InOrder
<1>8. QED
  BY <1>2, <1>7 DEF a

\* Initially no worker was started and nothing is queued.
LEMMA InitWsIInv == WsInit => WsIInv
<1> SUFFICES ASSUME WsInit PROVE WsIInv
  OBVIOUS
<1>1. stop \in BOOLEAN /\ wsEnabled \in BOOLEAN
  BY Zenon DEF WsInit
<1>2. CallsOK
  BY <1>1 DEF WsInit, CallsOK, WorkerStates, CallSteps
<1>3. QueueOK
  BY ClientAssumption, EmptySeq DEF WsInit, QueueOK, InOrder
<1>4. QED
  BY <1>2, <1>3 DEF WsIInv
-----------------------------------------------------------------------------
\* A step of a call keeps the types, and leaves the queue alone or empties it.
LEMMA CallWsIInv ==
  ASSUME WsIInv, NEW c \in Callers, ChangeAlgorithms(c) \/ Disable(c) \/ Call(c)
  PROVE  WsIInv' /\ UNCHANGED <<frames, sent, held>> /\ (UNCHANGED queue \/ queue' = <<>>)
<1> USE DEF WsIInv, CallsOK, CallSteps, Goto, frameVars
<1>1. (stop' = stop \/ stop' = TRUE \/ stop' = FALSE)
      /\ (wsEnabled' = wsEnabled \/ wsEnabled' = TRUE \/ wsEnabled' = FALSE)
  BY DEF ChangeAlgorithms, Disable, Call, UpdateUrl, SetUrl, Enable, Start, Spawn, SetStop, Join,
     Clear
<1>2. stop' \in BOOLEAN /\ wsEnabled' \in BOOLEAN
  BY <1>1, Zenon DEF WsIInv, CallsOK
<1>3. clean' \in BOOLEAN
  <2>1. clean' = clean \/ Begins(c)
    BY DEF ChangeAlgorithms, Disable, Call, UpdateUrl, SetUrl, Enable, Start, Spawn, SetStop, Join,
       Clear
  <2>2. QED
    BY <2>1, Zenon DEF Begins, WsIInv, CallsOK
<1>4. CallsOK'
  <2>1. CASE ChangeAlgorithms(c)
    BY <1>2, <1>3, <2>1 DEF ChangeAlgorithms
  <2>2. CASE UpdateUrl(c)
    BY <1>2, <1>3, <2>2 DEF UpdateUrl
  <2>3. CASE SetUrl(c)
    BY <1>2, <1>3, <2>3 DEF SetUrl
  <2>4. CASE Enable(c)
    BY <1>2, <1>3, <2>4 DEF Enable
  <2>5. CASE Start(c)
    BY <1>2, <1>3, <2>5 DEF Start
  <2>6. CASE Spawn(c)
    BY <1>2, <1>3, <2>6 DEF Spawn, WorkerStates
  <2>7. CASE Disable(c)
    BY <1>2, <1>3, <2>7 DEF Disable
  <2>8. CASE SetStop(c)
    BY <1>2, <1>3, <2>8 DEF SetStop
  <2>9. CASE Join(c)
    BY <1>2, <1>3, <2>9 DEF Join
  <2>10. CASE Clear(c)
    BY <1>2, <1>3, <2>10 DEF Clear
  <2>11. QED
    BY <2>1, <2>2, <2>3, <2>4, <2>5, <2>6, <2>7, <2>8, <2>9, <2>10 DEF Call
<1>5. UNCHANGED <<frames, sent, held>> /\ (UNCHANGED queue \/ queue' = <<>>)
  BY DEF ChangeAlgorithms, Disable, Call, UpdateUrl, SetUrl, Enable, Start, Spawn, SetStop, Join,
     Clear
<1>6. QueueOK'
  <2>1. CASE UNCHANGED queue
    BY <1>5, <2>1 DEF QueueOK
  <2>2. CASE queue' = <<>>
    BY <1>5, <2>2, ClientAssumption, EmptySeq DEF QueueOK, InOrder
  <2>3. QED
    BY <1>5, <2>1, <2>2
<1>7. QED
  BY <1>4, <1>5, <1>6

\* A full queue makes room for a new frame by losing its oldest.
Roomy == IF Len(queue) >= QueueSize THEN Tail(queue) ELSE queue

LEMMA RoomyInOrder ==
  ASSUME WsIInv, NEW low \in Nat, InOrder(queue, low, frames)
  PROVE  Roomy \in Seq(Nat) /\ Len(Roomy) < QueueSize /\ InOrder(Roomy, low, frames)
<1>1. frames \in Nat /\ queue \in Seq(Nat) /\ Len(queue) \in Nat /\ Len(queue) <= QueueSize
  BY ClientAssumption, LenProperties DEF WsIInv, QueueOK
<1>2. CASE Len(queue) >= QueueSize
  <2>1. queue # <<>>
    BY <1>1, <1>2, ClientAssumption, EmptySeq
  <2>2. Tail(queue) \in Seq(Nat) /\ Len(Tail(queue)) = Len(queue) - 1
        /\ InOrder(Tail(queue), low, frames)
    BY <1>1, <2>1, TailInOrder
  <2>3. QED
    BY <1>1, <1>2, <2>2, ClientAssumption DEF Roomy
<1>3. CASE ~(Len(queue) >= QueueSize)
  BY <1>1, <1>3, ClientAssumption DEF Roomy
<1>4. QED
  BY <1>2, <1>3

\* A new frame goes to the end of a queue that has room or loses its oldest.
LEMMA SubmitInOrder ==
  ASSUME WsIInv, Submit, NEW low \in Nat, low <= frames, InOrder(queue, low, frames)
  PROVE  /\ queue' \in Seq(Nat) /\ Len(queue') <= QueueSize
         /\ InOrder(queue', low, frames')
<1>1. frames \in Nat /\ frames' = frames + 1 /\ queue' = Append(Roomy, frames + 1)
  BY ClientAssumption DEF Submit, Roomy, WsIInv, QueueOK
<1>2. Roomy \in Seq(Nat) /\ Len(Roomy) < QueueSize /\ InOrder(Roomy, low, frames)
  BY RoomyInOrder
<1>3. queue' \in Seq(Nat) /\ Len(queue') = Len(Roomy) + 1 /\ InOrder(queue', low, frames')
  BY <1>1, <1>2, AppendInOrder
<1>4. Len(Roomy) \in Nat
  BY <1>2, LenProperties
<1>5. QED
  BY <1>2, <1>3, <1>4, ClientAssumption

LEMMA SubmitWsIInv ==
  ASSUME WsIInv, Submit
  PROVE  WsIInv'
<1>1. /\ frames < MaxFrames /\ frames' = frames + 1
      /\ UNCHANGED <<wsEnabled, stop, thread, joined, worker, wsUrl, wantedUrl, sent, held, pc, then,
                     clean>>
  BY DEF Submit
<1>2. frames \in 0..MaxFrames /\ sent \in 0..frames /\ held \in [Workers -> 0..frames]
      /\ InOrder(queue, 0, frames) /\ MaxFrames \in Nat
  BY ClientAssumption DEF WsIInv, QueueOK
<1>3. queue' \in Seq(Nat) /\ Len(queue') <= QueueSize /\ InOrder(queue', 0, frames')
  BY <1>2, SubmitInOrder
<1>4. \A w \in Workers : held[w] \in 0..(frames + 1)
  BY <1>2
<1>5. held' \in [Workers -> 0..frames']
  BY <1>1, <1>2, <1>4
<1>6. QueueOK'
  BY <1>1, <1>2, <1>3, <1>5 DEF QueueOK
<1>7. CallsOK'
  BY <1>1 DEF WsIInv, CallsOK
<1>8. QED
  BY <1>6, <1>7 DEF WsIInv

\* What the queue loses when a worker takes a frame.
LEMMA TakeInOrder ==
  ASSUME WsIInv, queue # <<>>, NEW low \in Nat, InOrder(queue, low, frames)
  PROVE  /\ Head(queue) \in 0..frames /\ low < Head(queue)
         /\ Tail(queue) \in Seq(Nat) /\ Len(Tail(queue)) <= QueueSize
         /\ InOrder(Tail(queue), Head(queue), frames) /\ InOrder(Tail(queue), low, frames)
<1>1. frames \in Nat /\ queue \in Seq(Nat) /\ Len(queue) \in Nat /\ Len(queue) <= QueueSize
  BY ClientAssumption, LenProperties DEF WsIInv, QueueOK
<1>2. /\ Head(queue) \in Nat /\ low < Head(queue) /\ Head(queue) <= frames
      /\ Tail(queue) \in Seq(Nat) /\ Len(Tail(queue)) = Len(queue) - 1
      /\ InOrder(Tail(queue), Head(queue), frames) /\ InOrder(Tail(queue), low, frames)
  BY <1>1, TailInOrder
<1>3. QED
  BY <1>1, <1>2, ClientAssumption

\* A worker takes the oldest frame only, and sends it or loses it.
LEMMA WorkWsIInv ==
  ASSUME WsIInv, NEW w \in Workers, Work(w)
  PROVE  WsIInv'
<1>1. CallsUnchanged
  BY DEF Work, Loop, Connect, Ask, Take, Send, Pause
<1>2. worker' \in [Workers -> WorkerStates]
  BY DEF Work, Loop, Connect, Ask, Take, Send, Pause, Worker, WsIInv, CallsOK, WorkerStates
<1>3. CallsOK'
  BY <1>1, <1>2 DEF WsIInv, CallsOK, CallsUnchanged
<1>4. /\ frames \in 0..MaxFrames /\ sent \in 0..frames /\ held \in [Workers -> 0..frames]
      /\ queue \in Seq(Nat) /\ Len(queue) <= QueueSize /\ InOrder(queue, 0, frames)
      /\ frames' = frames /\ MaxFrames \in Nat
  BY <1>1, ClientAssumption DEF WsIInv, QueueOK, CallsUnchanged
<1>5. CASE UNCHANGED <<queue, sent, held>>
  BY <1>3, <1>4, <1>5 DEF WsIInv, QueueOK
<1>6. CASE queue # <<>> /\ queue' = Tail(queue) /\ held' = [held EXCEPT ![w] = Head(queue)]
           /\ UNCHANGED sent
  <2>1. /\ Head(queue) \in 0..frames
        /\ Tail(queue) \in Seq(Nat) /\ Len(Tail(queue)) <= QueueSize
        /\ InOrder(Tail(queue), 0, frames)
    BY <1>4, <1>6, TakeInOrder
  <2>2. held' \in [Workers -> 0..frames]
    BY <1>4, <1>6, <2>1
  <2>3. QED
    BY <1>3, <1>4, <1>6, <2>1, <2>2 DEF WsIInv, QueueOK
<1>7. CASE Send(w)
  <2>1. sent' \in 0..frames /\ held' \in [Workers -> 0..frames] /\ UNCHANGED queue
    BY <1>4, <1>7 DEF Send
  <2>2. QED
    BY <1>3, <1>4, <2>1 DEF WsIInv, QueueOK
<1>8. QED
  BY <1>5, <1>6, <1>7 DEF Work, Loop, Connect, Ask, Take, Pause

LEMMA StepWsIInv == WsIInv /\ [WsNext]_wsVars => WsIInv'
<1>1. CASE UNCHANGED wsVars
  BY <1>1 DEF wsVars, frameVars, WsIInv, CallsOK, QueueOK
<1>2. QED
  BY <1>1, CallWsIInv, SubmitWsIInv, WorkWsIInv DEF WsNext

LEMMA InductiveWs == WsSpec => []WsIInv
BY InitWsIInv, StepWsIInv, PTL DEF WsSpec

\* Every variable of the worker has its type, and the queue never outgrows its
\* size.
THEOREM WsTypeCorrect == WsSpec => []WsTypeOK
<1>1. WsIInv => WsTypeOK
  <2> SUFFICES ASSUME WsIInv PROVE WsTypeOK
    OBVIOUS
  <2>1. sent \in 0..MaxFrames /\ held \in [Workers -> 0..MaxFrames] /\ Len(queue) \in Nat
    BY ClientAssumption, LenProperties DEF WsIInv, QueueOK
  <2>2. \A i \in 1..Len(queue) : queue[i] \in 1..MaxFrames
    <3>1. \A i \in 1..Len(queue) : queue[i] \in Nat
      BY ElementOfSeq DEF WsIInv, QueueOK
    <3>2. QED
      BY <2>1, <3>1, ClientAssumption DEF WsIInv, QueueOK, InOrder
  <2>3. queue \in Seq(1..MaxFrames)
    <3>1. SubSeq(queue, 1, Len(queue)) \in Seq(1..MaxFrames)
      BY <2>1, <2>2, SubSeqProperties
    <3>2. QED
      BY <3>1, SubSeqFull DEF WsIInv, QueueOK
  <2>4. then \in [Callers -> CallSteps]
    BY DEF WsIInv, CallsOK, CallSteps
  <2>5. QED
    BY <2>1, <2>3, <2>4, Zenon DEF WsIInv, CallsOK, QueueOK, WsTypeOK
<1>2. QED
  BY <1>1, InductiveWs, PTL

-----------------------------------------------------------------------------
(* One worker                                                                 *)

\* No two threads are between start()'s test and the thread it starts.
SpawnsAlone == \A c, d \in Callers : pc[c] = "spawn" /\ pc[d] = "spawn" => c = d

\* The worker that lives is the one _thread names, and whoever is about to start
\* one has found it dead.
OnlyThread ==
  /\ \A w \in Workers : worker[w] # "dead" => w = thread
  /\ \A c \in Callers : pc[c] = "spawn" => \A w \in Workers : worker[w] = "dead"

\* A step keeps it when at most one thread is starting a worker.
LEMMA StepOnlyThread ==
  ASSUME WsIInv, OnlyThread, SpawnsAlone, SpawnsAlone', [WsNext]_wsVars
  PROVE  OnlyThread'
<1> USE DEF OnlyThread
<1>0. pc \in [Callers -> CallSteps] /\ worker \in [Workers -> WorkerStates] /\ None \notin Workers
  BY ClientAssumption DEF WsIInv, CallsOK
<1>1. ASSUME NEW c \in Callers, Start(c) PROVE OnlyThread'
  <2>1. UNCHANGED <<worker, thread>>
    BY <1>1 DEF Start
  <2>2. CASE pc' = [pc EXCEPT ![c] = then[c]]
    <3>1. then[c] # "spawn"
      BY DEF WsIInv, CallsOK
    <3>2. QED
      BY <1>0, <2>1, <2>2, <3>1
  <2>3. CASE ~Alive(thread) /\ pc' = [pc EXCEPT ![c] = "spawn"]
    <3>1. \A w \in Workers : worker[w] = "dead"
      BY <1>0, <2>3 DEF Alive
    <3>2. QED
      BY <1>0, <2>1, <3>1
  <2>4. QED
    BY <1>1, <2>2, <2>3 DEF Start, Goto
<1>2. ASSUME NEW c \in Callers, Spawn(c) PROVE OnlyThread'
  <2>1. PICK w \in Workers : thread' = w /\ worker' = [worker EXCEPT ![w] = "loop"]
    BY <1>2 DEF Spawn
  <2>2. pc[c] = "spawn" /\ pc' = [pc EXCEPT ![c] = then[c]] /\ then[c] # "spawn"
    BY <1>2 DEF Spawn, Goto, WsIInv, CallsOK
  <2>3. \A v \in Workers : worker'[v] # "dead" => v = thread'
    BY <1>0, <2>1, <2>2
  <2>4. \A d \in Callers : pc'[d] # "spawn"
    BY <1>0, <2>2 DEF SpawnsAlone
  <2>5. QED
    BY <2>3, <2>4
<1>3. ASSUME NEW c \in Callers,
             \/ ChangeAlgorithms(c) \/ Disable(c) \/ UpdateUrl(c) \/ SetUrl(c) \/ Enable(c)
             \/ SetStop(c) \/ Join(c) \/ Clear(c)
      PROVE  OnlyThread'
  <2>1. UNCHANGED <<worker, thread>>
    BY <1>3 DEF ChangeAlgorithms, Disable, UpdateUrl, SetUrl, Enable, SetStop, Join, Clear
  <2>2. PICK step \in CallSteps \ {"spawn"} : pc' = [pc EXCEPT ![c] = step]
    <3>1. then[c] \in CallSteps \ {"spawn"}
      BY DEF WsIInv, CallsOK, CallSteps
    <3>2. QED
      BY <1>3, <3>1 DEF ChangeAlgorithms, Disable, UpdateUrl, SetUrl, Enable, SetStop, Join,
         Clear, Goto, CallSteps
  <2>3. QED
    BY <1>0, <2>1, <2>2
<1>4. ASSUME NEW w \in Workers, Work(w) PROVE OnlyThread'
  <2>1. UNCHANGED <<thread, pc>>
    BY <1>4 DEF Work, Loop, Connect, Ask, Take, Send, Pause, CallsUnchanged
  <2>2. \A v \in Workers : worker'[v] # "dead" => worker[v] # "dead"
    BY <1>0, <1>4 DEF Work, Loop, Connect, Ask, Take, Send, Pause, Worker
  <2>3. QED
    BY <2>1, <2>2
<1>5. CASE Submit \/ UNCHANGED wsVars
  BY <1>5 DEF Submit, wsVars, frameVars
<1>6. QED
  BY <1>1, <1>2, <1>3, <1>4, <1>5 DEF WsNext, Call

\* The steps of a call that are not start() itself do not start a worker, and
\* OnlyThread holds as long as starts do not overlap.
LEMMA OnlyThreadAlways == WsSpec /\ []SpawnsAlone => []OnlyThread
<1>1. WsInit => OnlyThread
  BY DEF WsInit, OnlyThread
<1>2. WsIInv /\ OnlyThread /\ SpawnsAlone /\ SpawnsAlone' /\ [WsNext]_wsVars => OnlyThread'
  BY StepOnlyThread
<1>3. QED
  BY <1>1, <1>2, InductiveWs, PTL DEF WsSpec

\* A second connection needs two threads in start() at once: as long as they start
\* workers one at a time there is never more than one, though stop() returns while
\* a slow worker lives, and though url, flag and worker are changed without a lock.
THEOREM OneWorkerUnlessStartsOverlap == WsSpec /\ []SpawnsAlone => []AtMostOneWorker
<1>1. OnlyThread => AtMostOneWorker
  <2> SUFFICES ASSUME OnlyThread PROVE Cardinality(Living) <= 1
    BY DEF AtMostOneWorker
  <2>1. Living \subseteq {thread}
    BY DEF OnlyThread, Living, Alive
  <2>2. CASE Living = {}
    <3>1. Cardinality(Living) = 0
      BY <2>2, FS_EmptySet, Zenon
    <3>2. QED
      BY <3>1
  <2>3. CASE Living = {thread}
    <3>1. Cardinality({thread}) = 1
      BY FS_Singleton, Zenon
    <3>2. QED
      BY <2>3, <3>1
  <2>4. QED
    BY <2>1, <2>2, <2>3
<1>2. QED
  BY <1>1, OnlyThreadAlways, PTL

\* What waits is newer than what was sent, and than what a worker is about to send.
Ordered ==
  /\ InOrder(queue, sent, frames)
  /\ \A w \in Workers : worker[w] = "sending" => sent < held[w] /\ InOrder(queue, held[w], frames)

LEMMA StepOrdered ==
  ASSUME WsIInv, OnlyThread, Ordered, [WsNext]_wsVars
  PROVE  Ordered' /\ [sent' # sent => sent' > sent]_wsVars
<1>0. /\ frames \in Nat /\ sent \in Nat /\ sent <= frames
      /\ worker \in [Workers -> WorkerStates]
      /\ \A w \in Workers : held[w] \in Nat /\ held[w] <= frames
      /\ held \in [Workers -> 0..frames]
  BY ClientAssumption DEF WsIInv, CallsOK, QueueOK
<1>1. ASSUME NEW c \in Callers, ChangeAlgorithms(c) \/ Disable(c) \/ Call(c)
      PROVE  Ordered' /\ sent' = sent
  <2>1. UNCHANGED <<frames, sent, held>> /\ (UNCHANGED queue \/ queue' = <<>>)
    BY <1>1, CallWsIInv
  <2>2. \A w \in Workers : worker'[w] = "sending" => worker[w] = "sending"
    BY <1>0, <1>1 DEF ChangeAlgorithms, Disable, Call, UpdateUrl, SetUrl, Enable, Start, Spawn,
       SetStop, Join, Clear
  <2>3. CASE UNCHANGED queue
    BY <2>1, <2>2, <2>3 DEF Ordered
  <2>4. CASE queue' = <<>>
    BY <2>1, <2>2, <2>4, EmptySeq DEF Ordered, InOrder
  <2>5. QED
    BY <2>1, <2>3, <2>4
<1>2. ASSUME Submit PROVE Ordered' /\ sent' = sent
  <2>1. UNCHANGED <<worker, sent, held>>
    BY <1>2 DEF Submit
  <2>2. InOrder(queue', sent, frames')
    BY <1>0, <1>2, SubmitInOrder DEF Ordered
  <2>3. ASSUME NEW w \in Workers, worker[w] = "sending" PROVE InOrder(queue', held[w], frames')
    BY <1>0, <1>2, <2>3, SubmitInOrder DEF Ordered
  <2>4. QED
    BY <2>1, <2>2, <2>3 DEF Ordered
<1>3. ASSUME NEW w \in Workers, Work(w) PROVE Ordered' /\ (sent' # sent => sent' > sent)
  <2>1. frames' = frames
    BY <1>3 DEF Work, Loop, Connect, Ask, Take, Send, Pause, CallsUnchanged
  <2>2. CASE Loop(w) \/ Connect(w) \/ Ask(w) \/ Pause(w)
    <3>1. UNCHANGED <<queue, sent, held>>
      BY <2>2 DEF Loop, Connect, Ask, Pause
    <3>2. \A v \in Workers : worker'[v] = "sending" => worker[v] = "sending"
      BY <1>0, <2>2 DEF Loop, Connect, Ask, Pause, Worker
    <3>3. QED
      BY <2>1, <3>1, <3>2 DEF Ordered
  <2>3. CASE Take(w)
    <3>1. CASE queue = <<>>
      <4>1. UNCHANGED <<queue, sent, held>>
        BY <2>3, <3>1 DEF Take
      <4>2. \A v \in Workers : worker'[v] = "sending" => worker[v] = "sending"
        BY <1>0, <2>3, <3>1 DEF Take, Worker
      <4>3. QED
        BY <2>1, <4>1, <4>2 DEF Ordered
    <3>2. CASE queue # <<>>
      <4>1. /\ worker[w] = "getting" /\ worker' = [worker EXCEPT ![w] = "sending"]
            /\ queue' = Tail(queue) /\ held' = [held EXCEPT ![w] = Head(queue)] /\ sent' = sent
        BY <2>3, <3>2 DEF Take, Worker
      <4>2. \A v \in Workers : worker'[v] = "sending" => v = w
        BY <1>0, <4>1 DEF OnlyThread
      <4>3. /\ sent < Head(queue) /\ InOrder(Tail(queue), Head(queue), frames)
            /\ InOrder(Tail(queue), sent, frames)
        BY <1>0, <3>2, TakeInOrder DEF Ordered
      <4>4. held'[w] = Head(queue)
        BY <1>0, <4>1
      <4>5. QED
        BY <2>1, <4>1, <4>2, <4>3, <4>4 DEF Ordered
    <3>3. QED
      BY <3>1, <3>2
  <2>4. CASE Send(w)
    <3>1. /\ worker[w] = "sending" /\ queue' = queue /\ (sent' = held[w] \/ sent' = sent)
          /\ worker' = [worker EXCEPT ![w] = "asking"] \/ worker' = [worker EXCEPT ![w] = "closing"]
      BY <2>4 DEF Send, Worker
    <3>2. \A v \in Workers : worker'[v] # "sending"
      BY <1>0, <3>1 DEF OnlyThread
    <3>3. sent < held[w] /\ InOrder(queue, held[w], frames) /\ InOrder(queue, sent, frames)
      BY <3>1 DEF Ordered
    <3>4. InOrder(queue', sent', frames')
      BY <2>1, <3>1, <3>3
    <3>5. sent' # sent => sent' > sent
      BY <1>0, <3>1, <3>3
    <3>6. QED
      BY <3>2, <3>4, <3>5 DEF Ordered
  <2>5. QED
    BY <1>3, <2>2, <2>3, <2>4 DEF Work, Loop, Connect, Ask, Pause
<1>4. CASE UNCHANGED wsVars
  BY <1>4 DEF wsVars, frameVars, Ordered
<1>5. QED
  BY <1>1, <1>2, <1>3, <1>4 DEF WsNext

\* As long as starts do not overlap no frame is sent twice or after a later one,
\* across full queues, lost connections and restarts, for any number of threads
\* that switch the upload.  The premise is needed: a second worker could take a
\* frame while the first is still sending the one before it.
THEOREM FramesKeepOrder == WsSpec /\ []SpawnsAlone => FramesInOrder
<1>1. WsInit => Ordered
  BY EmptySeq DEF WsInit, Ordered, InOrder
<1>2. WsIInv /\ OnlyThread /\ Ordered /\ [WsNext]_wsVars
        => Ordered' /\ [sent' # sent => sent' > sent]_wsVars
  BY StepOrdered
<1>3. QED
  BY <1>1, <1>2, InductiveWs, OnlyThreadAlways, PTL DEF WsSpec, FramesInOrder

\* One thread enables and redirects the upload; others may disable it.
OneEnabler == \A c, d \in Enablers : c = d

LEMMA OneEnablerStartsAlone ==
  ASSUME OneEnabler
  PROVE  WsSpec => []SpawnsAlone
<1>1. WsIInv => SpawnsAlone
  BY DEF WsIInv, CallsOK, SpawnsAlone, OneEnabler
<1>2. QED
  BY <1>1, InductiveWs, PTL

\* With a single thread that enables the upload, as the node has it, starts do not
\* overlap, whatever the threads do that disable it, and one worker lives at most.
THEOREM OneEnablerOneWorker ==
  ASSUME OneEnabler
  PROVE  WsSpec => []AtMostOneWorker
BY OneEnablerStartsAlone, OneWorkerUnlessStartsOverlap, PTL

\* Under the same assumption the frames reach the cloud in order, and at most once.
THEOREM OneEnablerKeepsOrder ==
  ASSUME OneEnabler
  PROVE  WsSpec => FramesInOrder
BY OneEnablerStartsAlone, FramesKeepOrder, PTL
-----------------------------------------------------------------------------
(* Calls that do not overlap                                                  *)

\* Where a call goes after stop(), and what the upload's flag says meanwhile.
CallPlace(c) ==
  /\ pc[c] = "url" => then[c] = "enable"
  /\ pc[c] = "url_set" => then[c] \in {"enable", "url_set"}
  /\ pc[c] \in {"start", "spawn"} => then[c] = "enable" \/ (then[c] = "idle" /\ wsEnabled)
  /\ pc[c] \in {"stop", "join", "clear"} => then[c] = "url_set" \/ (then[c] = "idle" /\ ~wsEnabled)
  /\ pc[c] \in {"join", "clear"} => stop

\* A call that runs alone leaves an upload that is enabled, or stopped.
CleanInv ==
  clean =>
    /\ \A c, d \in Callers : pc[c] # "idle" /\ pc[d] # "idle" => c = d
    /\ \A c \in Callers : CallPlace(c)
    /\ Quiet => wsEnabled \/ stop \/ Living = {}

\* What the workers do, and what they do not touch.
LEMMA WorkersStep ==
  ASSUME WsIInv, NEW w \in Workers, Work(w)
  PROVE  /\ UNCHANGED <<wsEnabled, stop, thread, joined, pc, then, clean>>
         /\ \A v \in Workers : worker'[v] # "dead" => worker[v] # "dead"
         /\ ~stop => \A v \in Workers : worker[v] # "dead" => worker'[v] # "dead"
BY DEF Work, Loop, Connect, Ask, Take, Send, Pause, Worker, CallsUnchanged, WsIInv, CallsOK

\* Submitting a frame touches no call and no worker.
LEMMA SubmitStep ==
  ASSUME Submit \/ UNCHANGED wsVars
  PROVE  UNCHANGED <<wsEnabled, stop, thread, joined, worker, pc, then, clean>>
BY DEF Submit, wsVars

LEMMA CallKeepsClean ==
  ASSUME WsIInv, CleanInv, NEW c \in Callers, ChangeAlgorithms(c) \/ Disable(c) \/ Call(c)
  PROVE  CleanInv'
<1> SUFFICES ASSUME clean' PROVE CleanInv'
  BY DEF CleanInv
<1> USE DEF WsIInv, CallsOK, CallSteps, Goto, CallPlace
<1>1. \A d \in Callers \ {c} : pc[d] = "idle" /\ pc'[d] = "idle"
  <2>1. \A d \in Callers \ {c} : pc'[d] = pc[d]
    BY DEF ChangeAlgorithms, Disable, Call, UpdateUrl, SetUrl, Enable, Start, Spawn, SetStop,
       Join, Clear
  <2>2. CASE Begins(c)
    BY <2>1, <2>2 DEF Begins
  <2>3. CASE clean' = clean /\ pc[c] # "idle"
    BY <2>1, <2>3 DEF CleanInv
  <2>4. QED
    BY <2>2, <2>3 DEF ChangeAlgorithms, Disable, Call, UpdateUrl, SetUrl, Enable, Start, Spawn,
       SetStop, Join, Clear
<1>2. \A d, e \in Callers : pc'[d] # "idle" /\ pc'[e] # "idle" => d = e
  BY <1>1
<1>3. Quiet' <=> pc'[c] = "idle"
  BY <1>1 DEF Quiet
<1>4. pc[c] # "idle" => clean /\ CallPlace(c)
  BY DEF ChangeAlgorithms, Disable, Call, UpdateUrl, SetUrl, Enable, Start, Spawn, SetStop,
     Join, Clear, CleanInv
<1>5. CallPlace(c)' /\ (pc'[c] = "idle" => wsEnabled' \/ stop')
  <2>1. CASE ChangeAlgorithms(c)
    BY <2>1 DEF ChangeAlgorithms
  <2>2. CASE UpdateUrl(c)
    BY <1>4, <2>2 DEF UpdateUrl
  <2>3. CASE SetUrl(c)
    BY <1>4, <2>3 DEF SetUrl
  <2>4. CASE Enable(c)
    BY <1>4, <2>4 DEF Enable
  <2>5. CASE Start(c)
    BY <1>4, <2>5 DEF Start
  <2>6. CASE Spawn(c)
    BY <1>4, <2>6 DEF Spawn
  <2>7. CASE Disable(c)
    BY <2>7 DEF Disable
  <2>8. CASE SetStop(c)
    BY <1>4, <2>8 DEF SetStop
  <2>9. CASE Join(c)
    BY <1>4, <2>9 DEF Join
  <2>10. CASE Clear(c)
    BY <1>4, <2>10 DEF Clear
  <2>11. QED
    BY <2>1, <2>2, <2>3, <2>4, <2>5, <2>6, <2>7, <2>8, <2>9, <2>10 DEF Call
<1>6. \A d \in Callers : CallPlace(d)'
  BY <1>1, <1>5
<1>7. QED
  BY <1>2, <1>3, <1>5, <1>6, Zenon DEF CleanInv

LEMMA StepKeepsClean ==
  ASSUME WsIInv, CleanInv, [WsNext]_wsVars
  PROVE  CleanInv'
<1> DEFINE Kept == UNCHANGED <<wsEnabled, stop, pc, then, clean>>
<1>0. ASSUME Kept, Living' \subseteq Living PROVE CleanInv'
  <2>1. (\A c \in Callers : CallPlace(c)) => (\A c \in Callers : CallPlace(c)')
    BY <1>0 DEF CallPlace
  <2>2. Quiet' <=> Quiet
    BY <1>0 DEF Quiet
  <2>3. QED
    BY <1>0, <2>1, <2>2 DEF CleanInv
<1>1. ASSUME NEW w \in Workers, Work(w) PROVE CleanInv'
  <2>1. Kept /\ Living' \subseteq Living
    BY <1>1, WorkersStep DEF Living, Alive
  <2>2. QED
    BY <1>0, <2>1
<1>2. CASE Submit \/ UNCHANGED wsVars
  <2>1. Kept /\ Living' = Living
    BY <1>2, SubmitStep DEF Living, Alive
  <2>2. QED
    BY <1>0, <2>1
<1>3. QED
  BY <1>1, <1>2, CallKeepsClean DEF WsNext

\* A disabled upload has told every living worker to stop, unless calls overlapped.
CleanlyStopped == Quiet /\ ~wsEnabled /\ clean => Living = {} \/ stop

\* For any number of threads that switch the upload, and however slow the network
\* is, a call that ran alone leaves a disabled upload stopped, whatever earlier
\* overlaps left behind: the safety half of DisabledUploadDisconnects.
THEOREM CleanCallStops == WsSpec => []CleanlyStopped
<1>1. WsInit => CleanInv
  BY DEF WsInit, CleanInv, CallPlace, Living, Alive
<1>2. WsIInv /\ CleanInv /\ [WsNext]_wsVars => CleanInv'
  BY StepKeepsClean
<1>3. CleanInv => CleanlyStopped
  BY DEF CleanInv, CleanlyStopped
<1>4. QED
  BY <1>1, <1>2, <1>3, InductiveWs, PTL DEF WsSpec
-----------------------------------------------------------------------------
(* One caller and a prompt network                                            *)

\* A single thread switches the upload.
OneCaller == \E caller : Callers = {caller}

\* A network that answers in time lets no stopped worker outlive the join, and
\* the call leaves an enabled upload with a worker that was not told to stop.
LeavesWorker(c) ==
  /\ stop /\ Alive(thread) => pc[c] = "join"
  /\ pc[c] = "join" => joined[c] = thread
  /\ pc[c] \in {"idle", "url", "enable"} /\ wsEnabled => Alive(thread) /\ ~stop
  /\ pc[c] = "url_set" /\ then[c] = "enable" => ~wsEnabled
  /\ pc[c] = "spawn" => ~stop

PromptInv == clean /\ CleanInv /\ \A c \in Callers : LeavesWorker(c)

LEMMA CallKeepsWorker ==
  ASSUME OneCaller, ~SlowNetwork, WsIInv, clean, CleanInv, NEW c \in Callers, LeavesWorker(c),
         ChangeAlgorithms(c) \/ Disable(c) \/ Call(c)
  PROVE  LeavesWorker(c)'
<1> USE DEF WsIInv, CallsOK, CallSteps, Goto, LeavesWorker
<1>0. CallPlace(c) /\ None \notin Workers
  BY ClientAssumption DEF CleanInv
<1> USE DEF CallPlace
<1>1. CASE ChangeAlgorithms(c)
  BY <1>0, <1>1 DEF ChangeAlgorithms, Alive
<1>2. CASE UpdateUrl(c)
  BY <1>0, <1>2 DEF UpdateUrl, Alive
<1>3. CASE SetUrl(c)
  BY <1>0, <1>3 DEF SetUrl, Alive
<1>4. CASE Enable(c)
  BY <1>0, <1>4 DEF Enable, Alive
<1>5. CASE Start(c)
  BY <1>0, <1>5 DEF Start, Alive
<1>6. CASE Spawn(c)
  <2>1. thread' \in Workers /\ worker'[thread'] = "loop" /\ UNCHANGED <<stop, wsEnabled, then>>
    BY <1>6 DEF Spawn
  <2>2. ~stop /\ pc'[c] = then[c] /\ then[c] \in {"enable", "idle"}
    BY <1>0, <1>6 DEF Spawn
  <2>3. Alive(thread)'
    BY <1>0, <2>1 DEF Alive
  <2>4. QED
    BY <2>1, <2>2, <2>3
<1>7. CASE Disable(c)
  BY <1>0, <1>7 DEF Disable, Alive
<1>8. CASE SetStop(c)
  BY <1>0, <1>8 DEF SetStop, Alive
<1>9. CASE Join(c)
  BY <1>0, <1>9 DEF Join, Alive
<1>10. CASE Clear(c)
  BY <1>0, <1>10 DEF Clear, Alive
<1>11. QED
  BY <1>1, <1>2, <1>3, <1>4, <1>5, <1>6, <1>7, <1>8, <1>9, <1>10 DEF Call

LEMMA StepKeepsWorker ==
  ASSUME OneCaller, ~SlowNetwork, WsIInv, PromptInv, [WsNext]_wsVars
  PROVE  PromptInv'
<1>0. CleanInv' /\ clean'
  <2>1. CleanInv'
    BY StepKeepsClean DEF PromptInv
  <2>2. ASSUME NEW d \in Callers, ChangeAlgorithms(d) \/ Disable(d) \/ Call(d) PROVE clean'
    <3>1. clean' = clean \/ Begins(d)
      BY <2>2 DEF ChangeAlgorithms, Disable, Call, UpdateUrl, SetUrl, Enable, Start, Spawn,
         SetStop, Join, Clear
    <3>2. QED
      BY <3>1 DEF Begins, OneCaller, PromptInv
  <2>3. ASSUME NEW w \in Workers, Work(w) PROVE clean'
    BY <2>3, WorkersStep DEF PromptInv
  <2>4. CASE Submit \/ UNCHANGED wsVars
    BY <2>1, <2>4, SubmitStep DEF PromptInv
  <2>5. QED
    BY <2>1, <2>2, <2>3, <2>4 DEF WsNext
<1>2. ASSUME NEW c \in Callers, NEW d \in Callers, ChangeAlgorithms(d) \/ Disable(d) \/ Call(d)
      PROVE  LeavesWorker(c)'
  BY <1>2, CallKeepsWorker DEF OneCaller, PromptInv
<1>3. ASSUME NEW c \in Callers, NEW w \in Workers, Work(w) PROVE LeavesWorker(c)'
  BY <1>3, WorkersStep DEF PromptInv, LeavesWorker, Alive, WsIInv, CallsOK
<1>4. ASSUME NEW c \in Callers, Submit \/ UNCHANGED wsVars PROVE LeavesWorker(c)'
  <2>1. Alive(thread)' <=> Alive(thread)
    BY <1>4, SubmitStep DEF Alive
  <2>2. LeavesWorker(c)
    BY DEF PromptInv
  <2>3. QED
    BY <1>4, <2>1, <2>2, SubmitStep DEF LeavesWorker
<1>5. QED
  BY <1>0, <1>2, <1>3, <1>4 DEF PromptInv, WsNext

\* An enabled upload has a worker when one thread switches it and the network
\* answers within the join's three seconds: what the run ws_slow shows needs a
\* worker that outlives the join.
THEOREM PromptNetworkKeepsWorker ==
  ASSUME OneCaller, ~SlowNetwork
  PROVE  WsSpec => []UploadHasWorker
<1>1. WsInit => PromptInv
  BY ClientAssumption DEF WsInit, PromptInv, CleanInv, CallPlace, LeavesWorker, Living, Alive
<1>2. WsIInv /\ PromptInv /\ [WsNext]_wsVars => PromptInv'
  BY StepKeepsWorker
<1>3. PromptInv => UploadHasWorker
  BY DEF OneCaller, PromptInv, LeavesWorker, UploadHasWorker, Quiet
<1>4. QED
  BY <1>1, <1>2, <1>3, InductiveWs, PTL DEF WsSpec
=================================================================================
