------------------------- MODULE TaskOrchestratorProofs -------------------------
(***************************************************************************)
(* What holds of TaskOrchestrator for any number of phones and commands.      *)
(*                                                                         *)
(* Silenced: whoever has taken the algorithms from a running task is about to *)
(* mark it cancelled, or to publish new ones.  Alone: while commands follow     *)
(* one another at most one thread serves one, and its place tells what the      *)
(* record and the published list are.                                        *)
(***************************************************************************)
EXTENDS TaskOrchestrator, TLAPS

\* Only a thread that starts a task comes to record it; the main thread starts none.
Goals ==
  /\ \A t \in Threads : pc[t] \in {"record", "algorithms"} => goal[t] \in Modes
  /\ goal["main"] = "cancel"

Silenced == Active /\ list = "none" => \E t \in Threads : pc[t] \in {"mark", "algorithms"}

Agrees == list = IF Active THEN record.mode ELSE "none"

\* What the only thread that serves a command has done so far.
Done(t) ==
  /\ pc[t] = "mark" => list = "none"
  /\ pc[t] \in {"snap", "post", "record"} => list = "none" /\ ~Active
  /\ pc[t] = "algorithms" => Active /\ record.mode = goal[t]
  /\ pc[t] \in {"snap_new", "post_new"} => Agrees

Serves(t) == pc[t] # "idle" /\ (t = "main" => node # "up")

Alone ==
  ~overlap =>
    /\ \A s, t \in Threads : Serves(s) /\ Serves(t) => s = t
    /\ \A t \in Threads : Serves(t) => Done(t)
    /\ (\A t \in Threads : ~Serves(t)) => Agrees

\* While the node is up the main thread only runs its timer, afterwards it only
\* cancels.
MainOK ==
  IF node = "up" THEN pc["main"] \in {"idle", "snap_new", "post_new"}
  ELSE pc["main"] \in {"idle", "none", "mark", "snap", "post"}

IInv == TypeOK /\ Goals /\ MainOK /\ Silenced /\ Alone
-----------------------------------------------------------------------------
LEMMA MainThread == "main" \in Threads /\ \A c \in Clients : c \in Threads /\ c # "main"
BY TasksAssumption DEF Threads

LEMMA InitIInv == Init => IInv
<1> SUFFICES ASSUME Init PROVE IInv
  OBVIOUS
<1>1. overlap \in BOOLEAN
  BY Zenon DEF Init
<1>2. TypeOK
  BY <1>1, TasksAssumption DEF Init, TypeOK, NoTask, Records, Modes
<1>3. Goals /\ MainOK /\ Silenced /\ Alone
  BY MainThread DEF Init, Goals, MainOK, Silenced, Alone, Agrees, Serves, NoTask, Active
<1>4. QED
  BY <1>2, <1>3 DEF IInv

\* A command begins alone if it finds nobody serving another.
LEMMA CommandIInv ==
  ASSUME IInv, NEW c \in Clients, NEW what \in Modes \union {"cancel"}, Command(c, what)
  PROVE  IInv'
<1>0. c \in Threads /\ c # "main" /\ "main" \in Threads
  BY MainThread
<1>1. /\ pc[c] = "idle" /\ pc' = [pc EXCEPT ![c] = "none"]
      /\ goal' = [goal EXCEPT ![c] = what]
      /\ UNCHANGED <<snap, record, list, posted, node>> /\ node # "gone"
      /\ commands < MaxCommands /\ commands' = commands + 1
  BY DEF Command, Step
<1>2. overlap' \in BOOLEAN
  BY Zenon DEF Command
<1>3. TypeOK'
  BY <1>0, <1>1, <1>2, TasksAssumption DEF IInv, TypeOK
<1>4. Goals' /\ MainOK'
  BY <1>0, <1>1 DEF IInv, TypeOK, Goals, MainOK
<1>5. Silenced'
  BY <1>0, <1>1 DEF IInv, TypeOK, Silenced, Active
<1>6. ASSUME ~overlap' PROVE \A s \in Threads \ {c} : ~Serves(s)
  <2>1. Serving \ {c} = {}
    BY <1>6, Zenon DEF Command
  <2>2. QED
    BY <2>1 DEF Serving, Serves
<1>7. Alone'
  BY <1>0, <1>1, <1>6 DEF IInv, TypeOK, Alone, Serves, Done
<1>8. QED
  BY <1>3, <1>4, <1>5, <1>7 DEF IInv

\* A step of a thread.
LEMMA RunIInv ==
  ASSUME IInv, NEW t \in Threads, Run(t)
  PROVE  IInv'
<1>0. pc \in [Threads -> {"idle", "none", "mark", "snap", "post", "record", "algorithms",
                         "snap_new", "post_new"}] /\ record \in Records
  BY DEF IInv, TypeOK
<1>a. UNCHANGED <<goal, node, commands, overlap>>
  BY DEF Run, PublishNone, Mark, Record, PublishAlgorithms, Snapshot, PublishState
<1>b. CASE node = "up" /\ t = "main"
  <2>1. pc["main"] \in {"snap_new", "post_new"}
    BY <1>b DEF IInv, MainOK, Run, PublishNone, Mark, Record, PublishAlgorithms, Snapshot,
       PublishState, Step
  <2>2. UNCHANGED <<record, list>> /\ \E label \in {"post_new", "idle"} : pc' = [pc EXCEPT !["main"] = label]
    BY <1>b, <2>1 DEF Run, PublishNone, Mark, Record, PublishAlgorithms, Snapshot,
       PublishState, Step
  <2>3. TypeOK'
    BY <1>b, <1>a, <2>2 DEF IInv, TypeOK, Run, PublishNone, Mark, Record, PublishAlgorithms,
       Snapshot, PublishState
  <2>4. Goals' /\ MainOK' /\ Silenced'
    BY <1>0, <1>a, <1>b, <2>1, <2>2, MainThread DEF IInv, Goals, MainOK, Silenced, Active
  <2>5. Alone'
    BY <1>0, <1>a, <1>b, <2>1, <2>2, MainThread DEF IInv, Alone, Serves, Done, Agrees, Active
  <2>6. QED
    BY <2>3, <2>4, <2>5 DEF IInv
<1>c. ASSUME ~(node = "up" /\ t = "main"), NEW from, NEW to, from # "idle",
             pc[t] = from, pc' = [pc EXCEPT ![t] = to],
             to \in {"idle", "none", "mark", "snap", "post", "record", "algorithms",
                    "snap_new", "post_new"},
             to # "idle",
             ~overlap /\ Done(t) => Done(t)'
      PROVE  Alone'
  BY <1>0, <1>a, <1>c DEF IInv, Alone, Serves
<1> USE DEF Step
<1>1. CASE ~(node = "up" /\ t = "main") /\ PublishNone(t)
  <2>1. TypeOK'
    BY <1>0, <1>1 DEF PublishNone, IInv, TypeOK
  <2>2. Goals' /\ MainOK' /\ Silenced'
    BY <1>0, <1>1 DEF PublishNone, IInv, Goals, MainOK, Silenced
  <2>3. Alone'
    <3>1. Done(t)'
      BY <1>0, <1>1 DEF PublishNone, Done
    <3>2. QED
      BY <1>1, <1>c, <3>1 DEF PublishNone
  <2>4. QED
    BY <2>1, <2>2, <2>3 DEF IInv
<1>2. CASE ~(node = "up" /\ t = "main") /\ Mark(t)
  <2>1. record' \in Records /\ ~Active'
    BY <1>0, <1>2 DEF Mark, Records, Active
  <2>2. TypeOK'
    BY <1>0, <1>2, <2>1 DEF Mark, IInv, TypeOK
  <2>3. Goals' /\ MainOK' /\ Silenced'
    BY <1>0, <1>2, <2>1 DEF Mark, IInv, Goals, MainOK, Silenced
  <2>4. Alone'
    <3>1. ~overlap /\ Done(t) => Done(t)'
      BY <1>0, <1>2, <2>1 DEF Mark, Done
    <3>2. QED
      BY <1>2, <1>c, <3>1 DEF Mark
  <2>5. QED
    BY <2>2, <2>3, <2>4 DEF IInv
<1>3. CASE Record(t)
  <2>0. goal[t] \in Modes /\ t # "main"
    BY <1>3 DEF Record, IInv, Goals, Modes
  <2>1. record' \in Records /\ Active' /\ record'.mode = goal[t]
    BY <1>0, <1>3, <2>0 DEF Record, Records, Active
  <2>2. TypeOK'
    BY <1>0, <1>3, <2>1 DEF Record, IInv, TypeOK
  <2>3. Goals' /\ MainOK' /\ Silenced'
    BY <1>0, <1>3, <2>0 DEF Record, IInv, Goals, MainOK, Silenced
  <2>4. Alone'
    <3>1. Done(t)'
      BY <1>0, <1>3, <1>a, <2>1 DEF Record, Done
    <3>2. QED
      BY <1>3, <1>c, <2>0, <3>1 DEF Record
  <2>5. QED
    BY <2>2, <2>3, <2>4 DEF IInv
<1>4. CASE PublishAlgorithms(t)
  <2>0. goal[t] \in Modes /\ t # "main"
    BY <1>4 DEF PublishAlgorithms, IInv, Goals, Modes
  <2>1. list' = goal[t] /\ list' # "none" /\ list' \in Modes
    BY <1>4, <2>0 DEF PublishAlgorithms, Modes
  <2>2. TypeOK'
    BY <1>0, <1>4, <2>1 DEF PublishAlgorithms, IInv, TypeOK
  <2>3. Goals' /\ MainOK' /\ Silenced'
    BY <1>0, <1>4, <2>0, <2>1 DEF PublishAlgorithms, IInv, Goals, MainOK, Silenced
  <2>4. Alone'
    <3>1. ~overlap /\ Done(t) => Done(t)'
      BY <1>0, <1>4, <1>a, <2>1 DEF PublishAlgorithms, Done, Agrees, Active
    <3>2. QED
      BY <1>4, <1>c, <2>0, <3>1 DEF PublishAlgorithms
  <2>5. QED
    BY <2>2, <2>3, <2>4 DEF IInv
<1>5. CASE ~(node = "up" /\ t = "main") /\ Snapshot(t)
  <2>1. TypeOK'
    BY <1>0, <1>5 DEF Snapshot, IInv, TypeOK
  <2>a. /\ pc[t] \in {"snap", "snap_new"} /\ UNCHANGED <<goal, record, list, node>>
        /\ pc' = [pc EXCEPT ![t] = IF pc[t] = "snap" THEN "post" ELSE "post_new"]
    BY <1>5 DEF Snapshot
  <2>b. UNCHANGED Active
    BY <2>a, Zenon DEF Active
  <2>2. Goals' /\ MainOK' /\ Silenced'
    <3>1. Goals'
      BY <1>0, <2>a DEF IInv, Goals
    <3>2. MainOK'
      BY <1>0, <2>a DEF IInv, MainOK
    <3>3. Silenced'
      <4>1. \A u \in Threads : pc[u] \in {"mark", "algorithms"} => pc'[u] = pc[u]
        BY <1>0, <2>a
      <4>2. QED
        BY <2>a, <2>b, <4>1 DEF IInv, Silenced
    <3>4. QED
      BY <3>1, <3>2, <3>3
  <2>3. Alone'
    <3>1. ~overlap /\ Done(t) => Done(t)'
      BY <1>0, <1>5 DEF Snapshot, Done, Agrees, Active
    <3>2. QED
      BY <1>5, <1>c, <3>1 DEF Snapshot
  <2>4. QED
    BY <2>1, <2>2, <2>3 DEF IInv
<1>6. CASE ~(node = "up" /\ t = "main") /\ PublishState(t)
  <2>1. TypeOK'
    BY <1>0, <1>6 DEF PublishState, IInv, TypeOK
  <2>a. /\ pc[t] \in {"post", "post_new"} /\ UNCHANGED <<goal, record, list, node>>
        /\ pc' = [pc EXCEPT ![t] = IF pc[t] = "post" /\ goal[t] \in Modes THEN "record" ELSE "idle"]
    BY <1>6 DEF PublishState
  <2>b. UNCHANGED Active
    BY <2>a, Zenon DEF Active
  <2>2. Goals' /\ MainOK' /\ Silenced'
    <3>1. Goals'
      BY <1>0, <2>a DEF IInv, Goals
    <3>2. MainOK'
      BY <1>0, <2>a DEF IInv, MainOK, Goals, Modes
    <3>3. Silenced'
      <4>1. \A u \in Threads : pc[u] \in {"mark", "algorithms"} => pc'[u] = pc[u]
        BY <1>0, <2>a
      <4>2. QED
        BY <2>a, <2>b, <4>1 DEF IInv, Silenced
    <3>4. QED
      BY <3>1, <3>2, <3>3
  <2>3. PICK to \in {"record", "idle"} : pc' = [pc EXCEPT ![t] = to]
    BY <1>6 DEF PublishState
  <2>4. pc[t] \in {"post", "post_new"} /\ (to = "record" => pc[t] = "post") /\ UNCHANGED <<record, list>>
    BY <1>0, <1>6, <2>3 DEF PublishState
  <2>5. Alone'
    <3>1. ~overlap /\ Done(t) => Done(t)' /\ Agrees'
      BY <1>0, <2>3, <2>4 DEF Done, Agrees, Active
    <3>2. QED
      BY <1>0, <1>6, <1>a, <2>3, <2>4, <3>1 DEF IInv, Alone, Serves
  <2>6. QED
    BY <2>1, <2>2, <2>5 DEF IInv
<1>7. QED
  BY <1>b, <1>1, <1>2, <1>3, <1>4, <1>5, <1>6 DEF Run
\* The timer, and the end of the node.
LEMMA MainIInv ==
  ASSUME IInv, Timer \/ Destroy \/ Gone
  PROVE  IInv'
<1>0. "main" \in Threads
  BY MainThread
<1>1. CASE Timer
  <2>1. pc["main"] = "idle" /\ pc' = [pc EXCEPT !["main"] = "snap_new"] /\ node = "up"
        /\ UNCHANGED <<goal, snap, record, list, posted, node, commands, overlap>>
    BY <1>1 DEF Timer, Step
  <2>2. TypeOK' /\ Goals' /\ MainOK' /\ Silenced'
    BY <1>0, <2>1 DEF IInv, TypeOK, Goals, MainOK, Silenced, Active
  <2>3. Alone'
    BY <1>0, <2>1 DEF IInv, TypeOK, Alone, Serves, Done, Agrees, Active
  <2>4. QED
    BY <2>2, <2>3 DEF IInv
<1>2. CASE Destroy
  <2>1. pc["main"] = "idle" /\ pc' = [pc EXCEPT !["main"] = "none"] /\ node = "up" /\ node' = "closing"
        /\ UNCHANGED <<goal, snap, record, list, posted, commands>>
    BY <1>2 DEF Destroy, Step
  <2>2. overlap' \in BOOLEAN
    BY <1>2, Zenon DEF Destroy
  <2>3. TypeOK' /\ Goals' /\ MainOK' /\ Silenced'
    BY <1>0, <2>1, <2>2 DEF IInv, TypeOK, Goals, MainOK, Silenced, Active
  <2>4. ASSUME ~overlap' PROVE \A s \in Threads \ {"main"} : ~Serves(s)
    <3>1. Serving = {}
      BY <1>2, <2>4, Zenon DEF Destroy
    <3>2. QED
      BY <3>1 DEF Serving, Serves
  <2>5. Alone'
    BY <1>0, <2>1, <2>4 DEF IInv, TypeOK, Alone, Serves, Done
  <2>6. QED
    BY <2>3, <2>5 DEF IInv
<1>3. CASE Gone
  BY <1>0, <1>3 DEF Gone, IInv, TypeOK, Goals, MainOK, Silenced, Alone, Serves, Done, Agrees, Active
<1>4. QED
  BY <1>1, <1>2, <1>3

LEMMA StepIInv == IInv /\ [Next]_vars => IInv'
<1> SUFFICES ASSUME IInv, [Next]_vars PROVE IInv'
  OBVIOUS
<1>1. CASE UNCHANGED vars
  BY <1>1 DEF vars, IInv, TypeOK, Goals, MainOK, Silenced, Alone, Serves, Done, Agrees, Active
<1>2. QED
  BY <1>1, CommandIInv, RunIInv, MainIInv DEF Next

LEMMA Inductive == Spec => []IInv
BY InitIInv, StepIInv, PTL DEF Spec
-----------------------------------------------------------------------------
\* Every variable has its type.
THEOREM TypeCorrect == Spec => []TypeOK
<1>1. IInv => TypeOK
  BY DEF IInv
<1>2. QED
  BY <1>1, Inductive, PTL

\* However many phones command at once, a task that is left running has algorithms.
THEOREM RunningTasksHaveAlgorithms == Spec => []RunningIsNeverSilent
<1>1. IInv => RunningIsNeverSilent
  BY DEF IInv, Silenced, RunningIsNeverSilent, Quiet
<1>2. QED
  BY <1>1, Inductive, PTL

\* Commands that follow one another leave the record and the list in agreement.
THEOREM SequentialCommandsAgree == Spec => []RecordAgreesWithList
<1>1. IInv => RecordAgreesWithList
  BY DEF IInv, Alone, Serves, Agrees, RecordAgreesWithList, Quiet
<1>2. QED
  BY <1>1, Inductive, PTL
=============================================================================
