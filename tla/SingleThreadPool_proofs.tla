----------------------- MODULE SingleThreadPool_proofs -----------------------
(***************************************************************************)
(* Proofs about SingleThreadPool, for any number of tasks, any barriers    *)
(* and polls and any number of pictures in which no task throws.  Where    *)
(* the caller stands (at) tells which tasks have been added; with that the *)
(* counter counts the queue, and a counter of zero means that all the      *)
(* tasks that were added are done.                                         *)
(***************************************************************************)
EXTENDS SingleThreadPool, FiniteSetTheorems, TLAPS

Waiting == {t \in Tasks \ {Finish} : state[t] = "queued"}

Places == [pc : {"process", "add", "again", "direct", "queue", "parsed", "over"},
           task : Tasks, ret : {"again", "next", "over", "parsed"}, picture : Nat]

StpType ==
  /\ scenario \in Scenario
  /\ state \in [Tasks -> {"absent", "queued", "done"}]
  /\ part \in [Tasks -> {"barriers", "call", "rest"}]
  /\ failed = FALSE /\ locked \in BOOLEAN
  /\ at \in Places

(* The task that is being added is still outside of the queue.             *)
Adding ==
  \/ at.pc \in {"add", "again", "direct", "queue", "parsed"}
  \/ at.pc = "process" /\ at.ret \in {"again", "parsed"}

AddedInv ==
  /\ \A t \in Tasks : t < at.task => state[t] # "absent"
  /\ \A t \in Tasks : t > at.task => state[t] = "absent"
  /\ Adding => state[at.task] = "absent"
  /\ ~Adding => state[at.task] # "absent"
  /\ at.pc = "direct" => part[at.task] # "barriers"

CountInv ==
  /\ count = Cardinality(Waiting)
  /\ locked <=> count > 0

Quiet == StpType /\ AddedInv /\ CountInv /\ FinishLast

StpInv == MayThrow = {} => Quiet

-----------------------------------------------------------------------------
LEMMA TasksFacts ==
  /\ NumTasks \in Nat /\ Finish \in Tasks /\ IsFiniteSet(Tasks)
  /\ Tasks \subseteq Nat /\ \A t \in Tasks : t # Finish => t + 1 \in Tasks /\ t < Finish
<1>1. NumTasks \in Nat /\ Finish \in Tasks
  BY SingleThreadAssumption DEF Tasks, Finish
<1>2. IsFiniteSet(Tasks)
  BY <1>1, FS_Interval DEF Tasks
<1> QED BY <1>1, <1>2 DEF Tasks, Finish

(* No exception anywhere, so no check throws.                              *)
LEMMA NoThrow ==
  ASSUME StpType, NEW t \in Tasks
  PROVE  ~CheckThrows(t)
<1>1. \A b \in Barriers[t] : state[b] # "failed"
  BY DEF StpType, Barriers, Scenario
<1> QED BY <1>1 DEF StpType, CheckThrows

(* The tasks in the queue that the counter counts are finitely many.       *)
LEMMA WaitingFinite ==
  /\ IsFiniteSet(Waiting) /\ Cardinality(Waiting) \in Nat
  /\ Cardinality(Waiting) = 0 <=> Waiting = {}
<1>1. IsFiniteSet(Waiting)
  BY TasksFacts, FS_Subset DEF Waiting
<1> QED BY <1>1, FS_CardinalityType, FS_EmptySet

(* When Finish has passed its barriers, the counter was zero, and all the  *)
(* tasks before it had been added.                                         *)
LEMMA FinishReady ==
  ASSUME StpType, AddedInv, CountInv, TaskReady(Finish), part[Finish] = "barriers",
         at.task = Finish \/ state[Finish] # "absent"
  PROVE  \A t \in Tasks : t # Finish => state[t] = "done"
<1>1. ~locked
  BY DEF TaskReady
<1>2. Waiting = {}
  BY <1>1, WaitingFinite DEF CountInv
<1>3. at.task = Finish
  BY TasksFacts DEF AddedInv, StpType, Places
<1> SUFFICES ASSUME NEW t \in Tasks, t # Finish PROVE state[t] = "done"
  OBVIOUS
<1>4. state[t] # "absent"
  BY <1>3, TasksFacts DEF AddedInv
<1>5. state[t] # "queued"
  BY <1>2 DEF Waiting
<1> QED BY <1>4, <1>5 DEF StpType

-----------------------------------------------------------------------------
(* The steps, in pictures without errors.                                  *)

LEMMA TryKeeps == ASSUME Quiet, TryDirectly PROVE Quiet'
<1> DEFINE t == at.task
<1> USE DEF Quiet
<1>1. t \in Tasks /\ at.pc \in {"add", "again"} /\ ~CheckThrows(t)
  BY NoThrow DEF TryDirectly, StpType, Places
<1>2. UNCHANGED <<scenario, state, failed, count, locked>>
  BY <1>1 DEF TryDirectly
<1>3. \/ TaskReady(t) /\ GoTo("direct")
      \/ ~TaskReady(t) /\ (Process("again") \/ GoTo("queue"))
  BY <1>1 DEF TryDirectly
<1>4. part' = IF TaskReady(t) /\ part[t] = "barriers" THEN [part EXCEPT ![t] = "call"] ELSE part
  BY DEF TryDirectly
<1>5. StpType'
  BY <1>1, <1>2, <1>3, <1>4 DEF StpType, Places, GoTo, Process
<1>6. AddedInv'
  BY <1>1, <1>2, <1>3, <1>4 DEF AddedInv, Adding, StpType, Places, GoTo, Process
<1>7. CountInv'
  BY <1>2 DEF CountInv, Waiting
<1>8. FinishLast'
  <2>1. CASE part'[Finish] = part[Finish]
    BY <1>2, <2>1 DEF FinishLast
  <2>2. CASE part'[Finish] # part[Finish]
    <3>1. t = Finish /\ TaskReady(t) /\ part[t] = "barriers"
      BY <1>1, <1>4, <2>2, TasksFacts DEF StpType
    <3>2. \A s \in Tasks : s # Finish => state[s] = "done"
      BY <3>1, FinishReady
    <3> QED BY <1>2, <3>2 DEF FinishLast
  <2> QED BY <2>1, <2>2
<1> QED BY <1>5, <1>6, <1>7, <1>8

(* After a task is queued or done, directly or when the queue has been     *)
(* processed, the next one is added.                                       *)
LEMMA NextAdded ==
  ASSUME at \in Places, at' = NextTask(at.task) \/ Process("next"),
         \A s \in Tasks : s <= at.task => state'[s] # "absent",
         \A s \in Tasks : s > at.task => state'[s] = "absent"
  PROVE  at' \in Places /\ AddedInv'
<1>1. \/ at' = NextTask(at.task) /\ at.task # NumTasks
      \/ at'.pc = "process" /\ at'.task = at.task /\ at'.ret \in {"next", "over"}
  BY DEF Places, NextTask, Process
<1>2. at' \in Places
  BY TasksFacts DEF Places, NextTask, Process, Finish
<1>3. CASE at' = NextTask(at.task) /\ at.task # NumTasks
  <2>1. at'.pc = "add" /\ at'.task = at.task + 1 /\ at.task \in Nat
    BY <1>3, TasksFacts DEF NextTask, Places
  <2>2. \A s \in Tasks : s < at.task + 1 => s <= at.task
    BY <2>1, TasksFacts
  <2>3. at.task + 1 \in Tasks /\ at.task + 1 > at.task
        /\ \A s \in Tasks : s > at.task + 1 => s > at.task
    BY <1>3, <2>1, TasksFacts DEF Places, Finish
  <2> QED BY <1>2, <2>1, <2>2, <2>3 DEF AddedInv, Adding
<1>4. CASE at'.pc = "process" /\ at'.task = at.task /\ at'.ret \in {"next", "over"}
  <2>1. at.task \in Tasks /\ at.task \in Nat
    BY TasksFacts DEF Places
  <2>2. at.task <= at.task /\ \A s \in Tasks : s < at.task => s <= at.task
    BY <2>1, TasksFacts
  <2> QED BY <1>2, <1>4, <2>1, <2>2 DEF AddedInv, Adding
<1> QED BY <1>1, <1>3, <1>4

LEMMA NowAdded ==
  ASSUME StpType, AddedInv, NEW v \in {"queued", "done"},
         state' = [state EXCEPT ![at.task] = v]
  PROVE  /\ \A s \in Tasks : s <= at.task => state'[s] # "absent"
         /\ \A s \in Tasks : s > at.task => state'[s] = "absent"
<1>1. at.task \in Tasks /\ at.task \in Nat
  BY TasksFacts DEF StpType, Places
<1>2. \A s \in Tasks : state'[s] = IF s = at.task THEN v ELSE state[s]
  BY DEF StpType
<1>3. \A s \in Tasks : s <= at.task => s = at.task \/ s < at.task
  BY <1>1, TasksFacts
<1>4. \A s \in Tasks : s > at.task => s # at.task
  BY <1>1, TasksFacts
<1> QED BY <1>2, <1>3, <1>4 DEF AddedInv

LEMMA DirectKeeps == ASSUME Quiet, MayThrow = {}, Direct PROVE Quiet'
<1> DEFINE t == at.task
<1> USE DEF Quiet
<1>1. t \in Tasks /\ at.pc = "direct" /\ state[t] = "absent" /\ part[t] # "barriers"
  BY DEF Direct, StpType, Places, AddedInv, Adding
<1>2. UNCHANGED <<scenario, failed, count, locked>>
  BY DEF Direct
<1>3. CASE Completes(t)
  <2>1. state' = [state EXCEPT ![t] = "done"] /\ UNCHANGED part
    BY <1>3 DEF Direct
  <2>2. at' = NextTask(t) \/ Process("next")
    BY <1>3 DEF Direct
  <2>3. at' \in Places /\ AddedInv'
    <3>1. /\ \A s \in Tasks : s <= t => state'[s] # "absent"
          /\ \A s \in Tasks : s > t => state'[s] = "absent"
      BY <2>1, NowAdded
    <3> QED BY <2>2, <3>1, NextAdded DEF StpType
  <2>4. StpType'
    BY <1>1, <1>2, <2>1, <2>3 DEF StpType
  <2>5. CountInv'
    <3>1. Waiting' = Waiting
      BY <1>1, <2>1 DEF Waiting, StpType
    <3> QED BY <1>2, <3>1 DEF CountInv
  <2>6. FinishLast'
    BY <1>1, <2>1 DEF FinishLast, StpType
  <2> QED BY <2>3, <2>4, <2>5, <2>6
<1>4. CASE ~Completes(t)
  <2>1. UNCHANGED state /\ part' = [part EXCEPT ![t] = "rest"] /\ GoTo("queue")
    BY <1>4 DEF Direct
  <2>2. StpType'
    BY <1>1, <1>2, <2>1 DEF StpType, Places, GoTo
  <2>3. AddedInv'
    BY <1>1, <2>1 DEF AddedInv, Adding, GoTo, StpType, Places
  <2>4. CountInv'
    BY <1>2, <2>1 DEF CountInv, Waiting
  <2>5. FinishLast'
    BY <1>1, <2>1, TasksFacts DEF FinishLast, StpType
  <2> QED BY <2>2, <2>3, <2>4, <2>5
<1> QED BY <1>3, <1>4

LEMMA QueueKeeps == ASSUME Quiet, Queue PROVE Quiet'
<1> DEFINE t == at.task
<1> USE DEF Quiet
<1>1. t \in Tasks /\ at.pc = "queue" /\ state[t] = "absent" /\ ~failed
  BY DEF Queue, StpType, Places, AddedInv, Adding
<1>2. /\ state' = [state EXCEPT ![t] = "queued"] /\ at' = NextTask(t)
      /\ UNCHANGED <<scenario, part, failed>>
      /\ IF Counted(t) THEN count' = count + 1 /\ locked' = TRUE
                       ELSE UNCHANGED <<count, locked>>
  BY <1>1 DEF Queue
<1>3. at' \in Places /\ AddedInv'
  <2>1. /\ \A s \in Tasks : s <= t => state'[s] # "absent"
        /\ \A s \in Tasks : s > t => state'[s] = "absent"
    BY <1>2, NowAdded
  <2> QED BY <1>2, <2>1, NextAdded DEF StpType
<1>4. StpType'
  BY <1>1, <1>2, <1>3 DEF StpType
<1>5. CountInv'
  <2>1. CASE t = Finish
    <3>1. Waiting' = Waiting
      BY <1>2, <2>1 DEF Waiting, StpType
    <3> QED BY <1>2, <2>1, <3>1 DEF CountInv, Counted
  <2>2. CASE t # Finish
    <3>1. Waiting' = Waiting \cup {t} /\ t \notin Waiting
      BY <1>1, <1>2, <2>2 DEF Waiting, StpType
    <3>2. Cardinality(Waiting') = Cardinality(Waiting) + 1
      BY <3>1, WaitingFinite, FS_AddElement
    <3> QED BY <1>2, <2>2, <3>2, WaitingFinite DEF CountInv, Counted
  <2> QED BY <2>1, <2>2
<1>6. FinishLast'
  BY <1>1, <1>2, TasksFacts DEF FinishLast, StpType
<1> QED BY <1>3, <1>4, <1>5, <1>6

LEMMA ProcessTaskKeeps ==
  ASSUME Quiet, MayThrow = {}, NEW t \in Tasks, ProcessTask(t)
  PROVE  Quiet'
<1> USE DEF Quiet
<1>1. state[t] = "queued" /\ TaskReady(t) /\ UNCHANGED <<scenario, at>>
  BY NoThrow DEF ProcessTask
<1>2. CASE Completes(t)
  <2>1. /\ state' = [state EXCEPT ![t] = "done"] /\ UNCHANGED <<part, failed>>
        /\ IF Counted(t) THEN CountDown ELSE UNCHANGED <<count, locked>>
    BY <1>2, NoThrow DEF ProcessTask
  <2>2. StpType'
    BY <1>1, <2>1 DEF StpType, CountDown
  <2>3. AddedInv'
    BY <1>1, <2>1 DEF AddedInv, StpType, Adding, Places
  <2>4. CountInv'
    <3>1. CASE t = Finish
      <4>1. Waiting' = Waiting
        BY <2>1, <3>1 DEF Waiting, StpType
      <4> QED BY <2>1, <3>1, <4>1 DEF CountInv, Counted
    <3>2. CASE t # Finish
      <4>1. Waiting' = Waiting \ {t} /\ t \in Waiting
        BY <1>1, <2>1, <3>2 DEF Waiting, StpType
      <4>2. Cardinality(Waiting') = Cardinality(Waiting) - 1
        BY <4>1, WaitingFinite, FS_RemoveElement
      <4>3. count' = count - 1 /\ locked' = IF count - 1 <= 0 THEN FALSE ELSE locked
        BY <2>1, <3>2 DEF Counted, CountDown
      <4> QED BY <4>2, <4>3, WaitingFinite DEF CountInv
    <3> QED BY <3>1, <3>2
  <2>5. FinishLast'
    <3>1. CASE t = Finish
      <4>1. \A s \in Tasks : s # Finish => state[s] = "done"
        <5>1. CASE part[Finish] = "barriers"
          BY <1>1, <3>1, <5>1, FinishReady
        <5>2. CASE part[Finish] # "barriers"
          BY <5>2 DEF FinishLast
        <5> QED BY <5>1, <5>2
      <4> QED BY <2>1, <3>1, <4>1 DEF FinishLast, StpType
    <3>2. CASE t # Finish
      BY <1>1, <2>1, <3>2, TasksFacts DEF FinishLast, StpType
    <3> QED BY <3>1, <3>2
  <2> QED BY <2>2, <2>3, <2>4, <2>5
<1>3. CASE ~Completes(t)
  <2>1. UNCHANGED <<state, failed, count, locked>> /\ part' = [part EXCEPT ![t] = "rest"]
    BY <1>3, NoThrow DEF ProcessTask
  <2>2. StpType'
    BY <1>1, <2>1 DEF StpType
  <2>3. AddedInv'
    BY <1>1, <2>1 DEF AddedInv, Adding, StpType, Places
  <2>4. CountInv'
    BY <2>1 DEF CountInv, Waiting
  <2>5. FinishLast'
    <3>1. CASE t = Finish /\ part[t] = "barriers"
      <4>1. \A s \in Tasks : s # Finish => state[s] = "done"
        BY <1>1, <3>1, FinishReady
      <4> QED BY <2>1, <4>1 DEF FinishLast
    <3>2. CASE t # Finish \/ part[t] # "barriers"
      BY <2>1, <3>2, TasksFacts DEF FinishLast, StpType
    <3> QED BY <3>1, <3>2
  <2> QED BY <2>2, <2>3, <2>4, <2>5
<1> QED BY <1>2, <1>3

LEMMA ProcessedKeeps == ASSUME Quiet, Processed PROVE Quiet'
<1> USE DEF Quiet
<1>1. at.pc = "process" /\ UNCHANGED <<scenario, state, part, count, locked, failed>>
  BY DEF Processed
<1>2. at' \in Places /\ AddedInv'
  <2>1. CASE at.ret = "next"
    <3>1. at' = NextTask(at.task)
      BY <2>1 DEF Processed
    <3>2. at.task \in Tasks /\ at.task \in Nat /\ state[at.task] # "absent"
      BY <1>1, <2>1, TasksFacts DEF StpType, Places, AddedInv, Adding
    <3>3. /\ \A s \in Tasks : s <= at.task => state'[s] # "absent"
          /\ \A s \in Tasks : s > at.task => state'[s] = "absent"
      <4>1. \A s \in Tasks : s <= at.task => s = at.task \/ s < at.task
        BY <3>2, TasksFacts
      <4> QED BY <1>1, <3>2, <4>1 DEF AddedInv
    <3> QED BY <3>1, <3>3, NextAdded DEF StpType
  <2>2. CASE at.ret # "next"
    <3>1. GoTo(at.ret)
      BY <2>2 DEF Processed
    <3> QED BY <1>1, <2>2, <3>1 DEF StpType, Places, AddedInv, Adding, GoTo
  <2> QED BY <2>1, <2>2
<1>3. StpType' /\ CountInv' /\ FinishLast'
  BY <1>1, <1>2 DEF StpType, CountInv, Waiting, FinishLast
<1> QED BY <1>2, <1>3

LEMMA ParsedKeeps == ASSUME Quiet, Parsed PROVE Quiet'
<1> USE DEF Quiet
<1>1. /\ GoTo("add") \/ Process("parsed")
      /\ UNCHANGED <<scenario, state, part, count, locked, failed>>
  BY DEF Parsed
<1>2. at.pc = "parsed"
  BY DEF Parsed
<1>3. at' \in Places /\ AddedInv'
  BY <1>1, <1>2 DEF StpType, Places, AddedInv, Adding, GoTo, Process
<1>4. StpType' /\ CountInv' /\ FinishLast'
  BY <1>1, <1>3 DEF StpType, CountInv, Waiting, FinishLast
<1> QED BY <1>3, <1>4

(* The counter of the picture object is zero again when it is reused.      *)
LEMMA ReuseKeeps == ASSUME Quiet, Reuse PROVE Quiet'
<1> USE DEF Quiet
<1>1. /\ state' = Fresh("absent") /\ part' = Fresh("barriers") /\ failed' = FALSE
      /\ UNCHANGED <<scenario, count, locked>> /\ count <= 0
  BY DEF Reuse
<1>2. at' = [at EXCEPT !.pc = "process", !.ret = "parsed", !.task = 1, !.picture = @ + 1]
  BY DEF Reuse
<1>3. 1 \in Tasks /\ \A s \in Tasks : ~(s < 1)
  BY TasksFacts DEF Tasks, Finish
<1>4. at' \in Places /\ at'.task = 1 /\ at'.pc = "process" /\ at'.ret = "parsed"
  <2>1. at \in Places /\ at.picture + 1 \in Nat
    BY DEF StpType, Places
  <2> QED BY <1>2, <1>3, <2>1 DEF Places
<1>5. StpType'
  BY <1>1, <1>4 DEF StpType, Fresh
<1>6. AddedInv'
  BY <1>1, <1>3, <1>4 DEF AddedInv, Adding, Fresh
<1>7. CountInv'
  <2>1. count = 0
    BY <1>1, WaitingFinite DEF CountInv
  <2>2. Waiting' = {}
    BY <1>1 DEF Waiting, Fresh
  <2> QED BY <1>1, <2>1, <2>2, FS_EmptySet DEF CountInv
<1>8. FinishLast'
  BY <1>1, TasksFacts DEF FinishLast, Fresh
<1> QED BY <1>5, <1>6, <1>7, <1>8

-----------------------------------------------------------------------------
LEMMA StpInitial == StpInit => StpInv
<1> SUFFICES ASSUME StpInit PROVE Quiet
  BY DEF StpInv
<1>1. scenario \in Scenario
  BY SingleThreadAssumption DEF StpInit
<1>2. 1 \in Tasks /\ \A s \in Tasks : ~(s < 1)
  BY TasksFacts DEF Tasks, Finish
<1>3. StpType
  BY <1>1, <1>2 DEF StpInit, StpType, Fresh, Places
<1>4. AddedInv
  BY <1>2 DEF StpInit, AddedInv, Adding, Fresh
<1>5. CountInv
  <2>1. Waiting = {}
    BY DEF StpInit, Waiting, Fresh
  <2> QED BY <2>1, FS_EmptySet DEF StpInit, CountInv
<1>6. FinishLast
  BY TasksFacts DEF StpInit, FinishLast, Fresh
<1> QED BY <1>3, <1>4, <1>5, <1>6 DEF Quiet

LEMMA StpInductive == StpInv /\ [StpNext]_stpVars => StpInv'
<1> SUFFICES ASSUME StpInv, [StpNext]_stpVars, MayThrow' = {} PROVE Quiet'
  BY DEF StpInv
<1>1. UNCHANGED scenario
  BY DEF StpNext, stpVars, TryDirectly, Direct, Queue, ProcessTask, Processed, Parsed, Reuse
<1>2. MayThrow = {} /\ Quiet
  BY <1>1 DEF MayThrow, StpInv
<1>3. CASE UNCHANGED stpVars
  BY <1>2, <1>3 DEF stpVars, Quiet, StpType, AddedInv, Adding, CountInv, Waiting, FinishLast
<1>4. CASE TryDirectly
  BY <1>2, <1>4, TryKeeps
<1>5. CASE Direct
  BY <1>2, <1>5, DirectKeeps
<1>6. CASE Queue
  BY <1>2, <1>6, QueueKeeps
<1>7. CASE Processed
  BY <1>2, <1>7, ProcessedKeeps
<1>8. CASE Parsed
  BY <1>2, <1>8, ParsedKeeps
<1>9. CASE Reuse
  BY <1>2, <1>9, ReuseKeeps
<1>10. CASE \E t \in Tasks : ProcessTask(t)
  BY <1>2, <1>10, ProcessTaskKeeps
<1> QED BY <1>3, <1>4, <1>5, <1>6, <1>7, <1>8, <1>9, <1>10 DEF StpNext

LEMMA StpInvariant == StpSpec => []StpInv
<1> QED BY StpInitial, StpInductive, PTL DEF StpSpec

(* The WaitCounter of a picture without errors counts the tasks in the     *)
(* queue, whether they went there at once or after a first direct call,    *)
(* for any number of tasks and any dependencies (addBarrierTask,           *)
(* processTasksOnMainThread).                                              *)
THEOREM QueueAlwaysCounted == StpSpec => []QueueCounted
<1>1. StpInv => QueueCounted
  BY DEF StpInv, Quiet, CountInv, Waiting, QueueCounted
<1> QED BY <1>1, StpInvariant, PTL

(* In a picture without errors, finishPicTask comes after all the tasks    *)
(* that are counted, directly or from the queue, for any dependencies.     *)
THEOREM FinishAlwaysLast == StpSpec => [](MayThrow = {} => FinishLast)
<1>1. StpInv => (MayThrow = {} => FinishLast)
  BY DEF StpInv, Quiet
<1> QED BY <1>1, StpInvariant, PTL
-----------------------------------------------------------------------------
(* A task in the queue has not begun or has begun: it is not about to be   *)
(* called.  When a picture is over all its tasks were added, and none that *)
(* is still in the queue is ready.                                         *)
OverInv ==
  /\ \A t \in Tasks : part[t] = "call" => state[t] = "done" \/ (at.pc = "direct" /\ t = at.task)
  /\ at.pc = "over" \/ (at.pc = "process" /\ at.ret = "over") => at.task = Finish
  /\ at.pc = "over" => \A t \in Tasks : state[t] = "queued" => ~TaskReady(t)

LEMMA NextTaskOver ==
  ASSUME at \in Places, at' = NextTask(at.task)
  PROVE  /\ at'.pc \in {"process", "add"}
         /\ at'.pc = "process" /\ at'.ret = "over" => at'.task = Finish
<1> QED BY DEF NextTask, Places, Finish

LEMMA OverKept ==
  ASSUME Quiet, OverInv, MayThrow = {}, StpNext
  PROVE  OverInv'
<1> USE DEF Quiet
<1>1. at \in Places /\ at.task \in Tasks /\ state \in [Tasks -> {"absent", "queued", "done"}]
      /\ part \in [Tasks -> {"barriers", "call", "rest"}]
  BY DEF StpType, Places
<1>2. CASE TryDirectly
  <2>1. at.pc \in {"add", "again"} /\ state' = state /\ ~CheckThrows(at.task)
    BY <1>1, <1>2, NoThrow DEF TryDirectly
  <2>2. part' = IF TaskReady(at.task) /\ part[at.task] = "barriers" THEN [part EXCEPT ![at.task] = "call"] ELSE part
    BY <1>2 DEF TryDirectly
  <2>3. \/ TaskReady(at.task) /\ GoTo("direct")
        \/ ~TaskReady(at.task) /\ (Process("again") \/ GoTo("queue"))
    BY <1>2, <2>1 DEF TryDirectly
  <2>4. at'.task = at.task /\ at'.pc # "over" /\ ~(at'.pc = "process" /\ at'.ret = "over")
    BY <1>1, <2>3 DEF Places, GoTo, Process
  <2>5. TaskReady(at.task) => at'.pc = "direct"
    BY <1>1, <2>3 DEF Places, GoTo
  <2> QED BY <1>1, <2>1, <2>2, <2>4, <2>5 DEF OverInv
<1>3. CASE Direct
  <2>1. at.pc = "direct"
    BY <1>3 DEF Direct
  <2>2. CASE Completes(at.task)
    <3>1. state' = [state EXCEPT ![at.task] = "done"] /\ part' = part
          /\ (at' = NextTask(at.task) \/ Process("next"))
      BY <1>3, <2>2 DEF Direct
    <3>2. at'.pc \in {"process", "add"} /\ (at'.pc = "process" /\ at'.ret = "over" => at'.task = Finish)
      BY <1>1, <3>1, NextTaskOver DEF Process, Places
    <3> QED BY <1>1, <3>1, <3>2 DEF OverInv
  <2>3. CASE ~Completes(at.task)
    <3>1. state' = state /\ part' = [part EXCEPT ![at.task] = "rest"] /\ GoTo("queue")
      BY <1>3, <2>3 DEF Direct
    <3>2. at'.pc = "queue"
      BY <1>1, <3>1 DEF GoTo, Places
    <3> QED BY <1>1, <3>1, <3>2 DEF OverInv
  <2> QED BY <2>2, <2>3
<1>4. CASE Queue
  <2>1. at.pc = "queue" /\ state[at.task] = "absent" /\ ~failed
    BY <1>1, <1>4 DEF Queue, StpType, AddedInv, Adding
  <2>2. state' = [state EXCEPT ![at.task] = "queued"] /\ at' = NextTask(at.task) /\ part' = part
    BY <1>4, <2>1 DEF Queue
  <2>3. at'.pc \in {"process", "add"} /\ (at'.pc = "process" /\ at'.ret = "over" => at'.task = Finish)
    BY <1>1, <2>2, NextTaskOver
  <2> QED BY <1>1, <2>1, <2>2, <2>3 DEF OverInv
<1>5. CASE Processed
  <2>1. at.pc = "process" /\ UNCHANGED <<scenario, state, part, count, locked, failed>>
        /\ \A t \in Tasks : state[t] = "queued" => ~TaskReady(t)
    BY <1>5 DEF Processed
  <2>2. \A t \in Tasks : TaskReady(t)' <=> TaskReady(t)
    BY <2>1 DEF TaskReady, CheckThrows, Barriers, Polls, Begun
  <2>3. CASE at.ret = "next"
    <3>1. at' = NextTask(at.task)
      BY <1>5, <2>3 DEF Processed
    <3>2. at'.pc \in {"process", "add"} /\ (at'.pc = "process" /\ at'.ret = "over" => at'.task = Finish)
      BY <1>1, <3>1, NextTaskOver
    <3> QED BY <2>1, <3>2 DEF OverInv
  <2>4. CASE at.ret # "next"
    <3>1. at'.pc = at.ret /\ at'.task = at.task /\ at'.pc \in {"again", "over", "parsed"}
      BY <1>1, <1>5, <2>4 DEF Processed, GoTo, Places
    <3> QED BY <2>1, <2>2, <3>1 DEF OverInv
  <2> QED BY <2>3, <2>4
<1>6. CASE Parsed
  <2>1. at.pc = "parsed" /\ state' = state /\ part' = part /\ (GoTo("add") \/ Process("parsed"))
    BY <1>6 DEF Parsed
  <2>2. at'.pc = "add" \/ (at'.pc = "process" /\ at'.ret = "parsed")
    BY <1>1, <2>1 DEF GoTo, Process, Places
  <2> QED BY <2>1, <2>2 DEF OverInv
<1>7. CASE Reuse
  <2>1. part' = Fresh("barriers") /\ at'.pc = "process" /\ at'.ret = "parsed"
    BY <1>1, <1>7 DEF Reuse, Places
  <2> QED BY <2>1 DEF OverInv, Fresh
<1>8. CASE \E t \in Tasks : ProcessTask(t)
  <2>1. PICK t \in Tasks : ProcessTask(t)
    BY <1>8
  <2>2. at.pc = "process" /\ at' = at /\ state[t] = "queued"
    BY <2>1 DEF ProcessTask
  <2>3. \/ state' = [state EXCEPT ![t] = "done"] /\ part' = part
        \/ state' = state /\ part' = [part EXCEPT ![t] = "rest"]
    BY <2>1, NoThrow DEF ProcessTask
  <2> QED BY <1>1, <2>2, <2>3 DEF OverInv
<1> QED BY <1>2, <1>3, <1>4, <1>5, <1>6, <1>7, <1>8 DEF StpNext

LEMMA OverInvariant == StpSpec => [](MayThrow = {} => Quiet /\ OverInv)
<1> DEFINE Inv == MayThrow = {} => Quiet /\ OverInv
<1>1. StpInit => Inv
  BY StpInitial DEF StpInv, StpInit, OverInv, Fresh
<1>2. Inv /\ [StpNext]_stpVars => Inv'
  <2> SUFFICES ASSUME Inv, [StpNext]_stpVars, MayThrow' = {} PROVE Quiet' /\ OverInv'
    OBVIOUS
  <2>1. UNCHANGED scenario
    BY DEF StpNext, stpVars, TryDirectly, Direct, Queue, ProcessTask, Processed, Parsed, Reuse
  <2>2. MayThrow = {} /\ Quiet /\ OverInv
    BY <2>1 DEF MayThrow
  <2>3. Quiet'
    BY <2>2, StpInductive DEF StpInv
  <2>4. CASE StpNext
    BY <2>2, <2>3, <2>4, OverKept
  <2>5. CASE UNCHANGED stpVars
    <3>1. \A t \in Tasks : TaskReady(t)' <=> TaskReady(t)
      BY <2>5 DEF stpVars, TaskReady, CheckThrows, Barriers, Polls, Begun
    <3> QED BY <2>2, <2>3, <2>5, <3>1 DEF stpVars, OverInv
  <2> QED BY <2>3, <2>4, <2>5
<1> QED BY <1>1, <1>2, PTL DEF StpSpec

(* Without errors, whatever the dependencies of the tasks are, as long as  *)
(* they have no cycle: what the last processTasksOnMainThread leaves       *)
(* behind is done.  A set of tasks that wait would have to wait for one    *)
(* another.                                                                *)
THEOREM EveryPictureAlwaysDone ==
  ASSUME \A g \in Scenarios : Acyclic(g)
  PROVE  StpSpec => []EveryPictureDone
<1>1. ASSUME MayThrow = {} => Quiet /\ OverInv, scenario \in Scenarios PROVE EveryPictureDone
  <2> SUFFICES ASSUME MayThrow = {}, at.pc = "over", \E t \in Tasks : state[t] # "done" PROVE FALSE
    BY DEF EveryPictureDone
  <2> DEFINE E == {t \in Tasks : state[t] # "done"}
             B == {t \in E : part[t] = "barriers"}
  <2>1. Quiet /\ OverInv
    BY <1>1
  <2>2. \A t \in E : state[t] = "queued" /\ part[t] \in {"barriers", "rest"} /\ ~TaskReady(t)
    <3>1. at.task = Finish /\ ~Adding
      BY <2>1 DEF OverInv, Adding
    <3>2. \A t \in Tasks : t = Finish \/ t < Finish
      BY TasksFacts
    <3>3. \A t \in Tasks : state[t] # "absent"
      BY <2>1, <3>1, <3>2 DEF Quiet, AddedInv
    <3> QED BY <2>1, <3>3 DEF OverInv, Quiet, StpType
  <2>3. \A t \in E : ~CheckThrows(t)
    BY <2>1, NoThrow DEF Quiet
  <2>4. SomebodyFree(scenario, E, B)
    <3>1. Acyclic(scenario) /\ E \in SUBSET Tasks /\ B \in SUBSET E /\ E # {}
      BY <1>1
    <3> HIDE DEF E, B
    <3> QED BY <3>1 DEF Acyclic
  <2>5. ASSUME NEW t \in B, E \cap scenario.barriers[t] = {}, t = Finish => E = {Finish}
        PROVE  FALSE
    <3>1. \A b \in Barriers[t] : state[b] = "done"
      <4>1. Barriers[t] \subseteq Tasks
        BY <2>1 DEF Quiet, StpType, Scenario, Barriers
      <4> QED BY <2>5, <4>1 DEF Barriers
    <3>2. t = Finish => ~locked
      <4>1. t = Finish => Waiting = {}
        BY <2>5 DEF Waiting
      <4> QED BY <2>1, <4>1, FS_EmptySet DEF Quiet, CountInv
    <3> QED BY <2>2, <2>3, <3>1, <3>2 DEF TaskReady
  <2>6. ASSUME NEW t \in E \ B, B \cap scenario.polls[t] = {} PROVE FALSE
    <3>1. part[t] = "rest"
      BY <2>2
    <3>2. \A p \in Polls[t] : Begun(p)
      <4>1. Polls[t] \subseteq Tasks
        BY <2>1 DEF Quiet, StpType, Scenario, Polls
      <4> QED BY <2>2, <2>6, <4>1 DEF Polls, Begun
    <3> QED BY <2>2, <2>3, <3>1, <3>2 DEF TaskReady
  <2> QED BY <2>4, <2>5, <2>6 DEF SomebodyFree
<1>2. StpSpec => [](scenario \in Scenarios)
  <2>1. StpInit => scenario \in Scenarios
    BY DEF StpInit
  <2>2. scenario \in Scenarios /\ [StpNext]_stpVars => (scenario \in Scenarios)'
    BY DEF StpNext, stpVars, TryDirectly, Direct, Queue, ProcessTask, Processed, Parsed, Reuse
  <2> QED BY <2>1, <2>2, PTL DEF StpSpec
<1> QED BY <1>1, <1>2, OverInvariant, PTL
=============================================================================
