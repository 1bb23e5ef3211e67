------------------------- MODULE ThreadPool_proofs -------------------------
(***************************************************************************)
(* Proofs about ThreadPool, for any number of workers, tasks and slots and *)
(* for any barriers, polled results and exceptions of the tasks.           *)
(*                                                                         *)
(* What a step does to the queue is stated once: a worker's step is calm,  *)
(* takes a slot, keeps the slot it has, or gives it back (WorkerSteps),    *)
(* and a step of the adding thread reserves, counts, adds, notifies or     *)
(* does none of these (MainSteps).  The invariants of the queue, of the    *)
(* counter and of the tasks are then shown for these few effects and not   *)
(* for every action.  The invariant of the sleeping thread (SleepInv) is   *)
(* about the actions themselves.                                           *)
(***************************************************************************)
EXTENDS ThreadPool, FiniteSetTheorems, SequenceTheorems, TLAPS

MainPcs   == {"claim", "count", "publish", "notify", "wait", "cleared", "unpause", "join", "joined"}
WorkerPcs == {"scan", "found", "putback", "none", "top", "idle", "exited", "lock", "pause",
              "asleep", "run", "unlock", "decrement", "free",
              "fail", "failCounter", "failDecrement", "failFree"}
States    == {"FREE", "PREPARING", "WAITING", "RUNNING"}
Slot      == [state : States, task : {0} \cup Tasks]
WorkerRec == [pc : WorkerPcs, search : {"first", "again", "idle", "pause"}, next : Nat, it : Nat]
SlotNos   == 1..Len(slots)

(* The type invariant with the fields of the records.                      *)
Shape ==
  /\ slots \in Seq(Slot)
  /\ part \in [Tasks -> {"barriers", "call", "rest"}]
  /\ done \in [Tasks -> {"locked", "open", "error"}]
  /\ count \in Int /\ failed \in BOOLEAN /\ exit \in BOOLEAN
  /\ pause \in [owner : 0..MainThread, all : BOOLEAN, notified : BOOLEAN]
  /\ idle \in {Nobody} \cup Workers
  /\ main \in [pc : MainPcs, task : 1..NumTasks + 1, it : Nat, fill : Nat]
  /\ main.it \in SlotNos /\ main.fill \in SlotNos
  /\ main.pc \in {"claim", "count", "publish", "notify"} => main.task <= NumTasks
  /\ worker \in [Workers -> WorkerRec]
  /\ \A w \in Workers : worker[w].it \in SlotNos /\ worker[w].next \in SlotNos

-----------------------------------------------------------------------------
(* What the helpers do to the slots and to a worker.                       *)

LEMMA SlotWrite ==
  ASSUME slots \in Seq(Slot), NEW s \in SlotNos, NEW x \in Slot,
         slots' = [slots EXCEPT ![s] = x]
  PROVE  /\ slots' \in Seq(Slot) /\ Len(slots') = Len(slots) /\ SlotNos' = SlotNos
         /\ slots'[s] = x
         /\ \A r \in SlotNos : r # s => slots'[r] = slots[r]
  BY ExceptSeq DEF SlotNos

LEMMA SlotState ==
  ASSUME slots \in Seq(Slot), NEW s \in SlotNos, NEW st \in States, SlotBecomes(s, st)
  PROVE  /\ slots' \in Seq(Slot) /\ Len(slots') = Len(slots) /\ SlotNos' = SlotNos
         /\ slots'[s].state = st /\ slots'[s].task = slots[s].task
         /\ \A r \in SlotNos : r # s => slots'[r] = slots[r]
<1>1. slots[s] \in Slot
  BY ElementOfSeq DEF SlotNos
<1> DEFINE x == [slots[s] EXCEPT !.state = st]
<1>2. x \in Slot /\ x.state = st /\ x.task = slots[s].task
  BY <1>1 DEF Slot
<1>3. slots' = [slots EXCEPT ![s] = x]
  BY DEF SlotBecomes
<1> HIDE DEF x
<1> QED BY <1>2, <1>3, SlotWrite

LEMMA SlotGrow ==
  ASSUME slots \in Seq(Slot), slots' = slots \o Chunk
  PROVE  /\ slots' \in Seq(Slot) /\ Len(slots') = Len(slots) + ChunkSize
         /\ SlotNos \subseteq SlotNos' /\ Len(slots) + 1 \in SlotNos'
         /\ \A r \in SlotNos : slots'[r] = slots[r]
         /\ \A r \in SlotNos' : r \notin SlotNos => slots'[r].state = "FREE"
<1>1. ChunkSize \in Nat /\ ChunkSize > 0
  BY PoolAssumption
<1>2. Chunk \in Seq(Slot) /\ Len(Chunk) = ChunkSize
      /\ \A i \in 1..ChunkSize : Chunk[i].state = "FREE"
  <2>1. Chunk \in [1..ChunkSize -> Slot]
    BY DEF Chunk, Slot, States
  <2>2. Chunk \in Seq(Slot)
    BY <1>1, <2>1, SeqDef
  <2>3. Len(Chunk) = ChunkSize
    BY <1>1, <2>1, <2>2, LenProperties
  <2> QED BY <2>2, <2>3 DEF Chunk
<1>3. Len(slots) \in Nat
  BY LenProperties
<1>4. /\ slots' \in Seq(Slot) /\ Len(slots') = Len(slots) + ChunkSize
      /\ \A i \in 1..Len(slots) + ChunkSize :
           slots'[i] = IF i <= Len(slots) THEN slots[i] ELSE Chunk[i - Len(slots)]
  BY <1>2, ConcatProperties
<1> QED BY <1>1, <1>2, <1>3, <1>4 DEF SlotNos

LEMMA Wraps ==
  ASSUME slots \in Seq(Slot), NEW s \in SlotNos
  PROVE  IncWrap(s) \in SlotNos
  BY LenProperties DEF SlotNos, IncWrap

(* Worker w gets the given record, the others keep theirs.                 *)
Steps(w, pc, search, next, it) ==
  /\ worker' \in [Workers -> WorkerRec]
  /\ worker'[w].pc = pc /\ worker'[w].search = search
  /\ worker'[w].next = next /\ worker'[w].it = it
  /\ \A v \in Workers : v # w => worker'[v] = worker[v]

LEMMA Goes ==
  ASSUME Shape, NEW w \in Workers, NEW pc \in WorkerPcs, WorkerGoes(w, pc)
  PROVE  Steps(w, pc, worker[w].search, worker[w].next, worker[w].it)
<1>1. worker \in [Workers -> WorkerRec]
  BY DEF Shape
<1>2. [worker[w] EXCEPT !.pc = pc] \in WorkerRec
  BY <1>1 DEF WorkerRec
<1> QED BY <1>1, <1>2 DEF WorkerGoes, Steps, WorkerRec

LEMMA Searches ==
  ASSUME Shape, NEW w \in Workers, NEW s \in {"first", "again", "idle", "pause"}, Search(w, s)
  PROVE  Steps(w, "scan", s, worker[w].next, worker[w].next)
  BY DEF Shape, Search, Steps, WorkerRec, WorkerPcs

LEMMA Nexts ==
  ASSUME Shape, NEW w \in Workers, NextFrom(w)
  PROVE  Steps(w, "top", worker[w].search, IncWrap(worker[w].it), worker[w].it)
<1>1. IncWrap(worker[w].it) \in Nat
  BY Wraps, LenProperties DEF Shape, SlotNos
<1> QED BY <1>1 DEF Shape, NextFrom, Steps, WorkerRec, WorkerPcs

LEMMA Advances ==
  ASSUME Shape, NEW w \in Workers, Advance(w)
  PROVE  \/ /\ IncWrap(worker[w].it) # worker[w].next
            /\ Steps(w, "scan", worker[w].search, worker[w].next, IncWrap(worker[w].it))
         \/ /\ IncWrap(worker[w].it) = worker[w].next
            /\ Steps(w, "none", worker[w].search, worker[w].next, worker[w].next)
<1>1. IncWrap(worker[w].it) \in Nat
  BY Wraps, LenProperties DEF Shape, SlotNos
<1> QED BY <1>1 DEF Shape, Advance, Steps, WorkerRec, WorkerPcs

-----------------------------------------------------------------------------
(* A step of worker w: it leaves slots and tasks alone, takes a slot, goes *)
(* on with the slot it has, or gives it back.                              *)

Freeing(w) == worker[w].pc \in {"free", "failFree"}
Ended(w)   == worker[w].pc \in {"decrement", "free", "failCounter", "failDecrement", "failFree"}

Calm(w) ==
  /\ ~Ended(w) /\ ~Holds(w)'
  /\ UNCHANGED <<slots, done, count>>

Takes(w) ==
  LET s == worker[w].it IN
    /\ ~Holds(w) /\ Holds(w)' /\ ~Ended(w)' /\ ~Executes(w)
    /\ worker'[w].it = s
    /\ slots[s].state = "WAITING" /\ slots'[s].state = "RUNNING"
    /\ slots'[s].task = slots[s].task
    /\ \A r \in SlotNos : r # s => slots'[r] = slots[r]
    /\ UNCHANGED <<done, count>>

Keeps(w) ==
  /\ Holds(w) /\ Holds(w)' /\ worker'[w].it = worker[w].it /\ slots' = slots
  /\ Ended(w) => Ended(w)'
  /\ IF Ended(w) = Ended(w)' THEN done' = done
     ELSE \E d \in {"open", "error"} : done' = [done EXCEPT ![TaskOf(w)] = d]
  /\ Freeing(w) => Freeing(w)'
  /\ count' = IF Freeing(w) = Freeing(w)' THEN count ELSE count - 1
  /\ Ended(w) /\ ~Ended(w)' => FALSE

Gives(w) ==
  LET s == worker[w].it IN
    /\ Holds(w) /\ ~Holds(w)'
    /\ \/ Freeing(w) /\ slots'[s].state = "FREE"
       \/ ~Ended(w) /\ slots'[s].state = "WAITING"
    /\ slots'[s].task = slots[s].task
    /\ \A r \in SlotNos : r # s => slots'[r] = slots[r]
    /\ UNCHANGED <<done, count>>

Effect(w) ==
  /\ Shape' /\ SlotNos' = SlotNos /\ main' = main
  /\ \A v \in Workers : v # w => worker'[v] = worker[v]
  /\ \A t \in Tasks : part'[t] # "barriers" =>
       part[t] # "barriers" \/ \A b \in Barriers[t] : done[b] = "open"
  /\ Calm(w) \/ Takes(w) \/ Keeps(w) \/ Gives(w)

Typed ==
  /\ part' \in [Tasks -> {"barriers", "call", "rest"}]
  /\ done' \in [Tasks -> {"locked", "open", "error"}]
  /\ count' \in Int /\ failed' \in BOOLEAN /\ exit' \in BOOLEAN
  /\ pause' \in [owner : 0..MainThread, all : BOOLEAN, notified : BOOLEAN]
  /\ idle' \in {Nobody} \cup Workers

Stepped(w) ==
  /\ worker' \in [Workers -> WorkerRec]
  /\ worker'[w].it \in SlotNos /\ worker'[w].next \in SlotNos
  /\ \A v \in Workers : v # w => worker'[v] = worker[v]

LEMMA ShapeKept ==
  ASSUME Shape, NEW w \in Workers, Stepped(w),
         slots' \in Seq(Slot), Len(slots') = Len(slots), Typed, main' = main
  PROVE  /\ Shape' /\ SlotNos' = SlotNos /\ main' = main
         /\ \A v \in Workers : v # w => worker'[v] = worker[v]
<1>1. SlotNos' = SlotNos
  BY DEF SlotNos
<1>2. \A v \in Workers : worker'[v].it \in SlotNos /\ worker'[v].next \in SlotNos
  BY DEF Stepped, Shape
<1>3. /\ main' \in [pc : MainPcs, task : 1..NumTasks + 1, it : Nat, fill : Nat]
      /\ main'.it \in SlotNos /\ main'.fill \in SlotNos
      /\ main'.pc \in {"claim", "count", "publish", "notify"} => main'.task <= NumTasks
      /\ worker' \in [Workers -> WorkerRec]
  BY DEF Stepped, Shape
<1>4. Shape'
  BY <1>1, <1>2, <1>3 DEF Shape, Typed
<1> QED BY <1>1, <1>4 DEF Stepped

PauseRec == [owner : 0..MainThread, all : BOOLEAN, notified : BOOLEAN]

LEMMA UnpausedType ==
  ASSUME pause \in PauseRec
  PROVE  Unpaused \in PauseRec /\ [pause EXCEPT !.owner = MainThread] \in PauseRec
<1>1. /\ Nobody \in 0..MainThread /\ MainThread \in 0..MainThread
      /\ pause.owner \in 0..MainThread
  BY PoolAssumption DEF MainThread, Nobody, PauseRec
<1> QED BY <1>1 DEF PauseRec, Unpaused

LEMMA OwnerTypes ==
  ASSUME Shape, NEW w \in Workers
  PROVE  /\ [pause EXCEPT !.owner = w] \in PauseRec
         /\ [pause EXCEPT !.owner = Nobody] \in PauseRec
         /\ [pause EXCEPT !.owner = w, !.all = TRUE] \in PauseRec
         /\ [pause EXCEPT !.owner = Nobody, !.notified = FALSE] \in PauseRec
         /\ [pause EXCEPT !.owner = MainThread] \in PauseRec
         /\ Unpaused \in PauseRec
<1>1. pause \in PauseRec
  BY DEF Shape, PauseRec
<1>2. /\ w \in 0..MainThread /\ Nobody \in 0..MainThread /\ MainThread \in 0..MainThread
  BY PoolAssumption DEF Workers, MainThread, Nobody
<1>3. Unpaused \in PauseRec
  BY <1>1, UnpausedType
<1> QED BY <1>1, <1>2, <1>3 DEF PauseRec

(* The steps of a worker that looks for work or sleeps.                    *)
LEMMA CalmSteps ==
  ASSUME Shape, NEW w \in Workers,
         \/ Skip(w) \/ Top(w) \/ IdleTop(w) \/ FoundNone(w) \/ LockIdle(w)
         \/ Pause(w) \/ Wake(w)
  PROVE  Effect(w)
<1>1. /\ ~Holds(w) /\ ~Ended(w)
      /\ UNCHANGED <<slots, part, done, count, failed, exit, main>>
  BY DEF Skip, Top, IdleTop, FoundNone, LockIdle, Pause, Wake, WorkerAt, Holds, Ended
<1>2. Typed
  <2>1. idle' \in {Nobody} \cup Workers
    BY DEF Shape, Skip, Top, IdleTop, FoundNone, LockIdle, Pause, Wake
  <2>2. pause' \in PauseRec
    <3>1. pause \in PauseRec
      BY DEF Shape, PauseRec
    <3> QED BY <3>1, OwnerTypes DEF Skip, Top, IdleTop, FoundNone, LockIdle, Pause, Wake
  <2> QED BY <1>1, <2>1, <2>2 DEF Shape, Typed, PauseRec
<1>3. /\ Stepped(w)
      /\ worker'[w].pc \in {"scan", "none", "exited", "idle", "pause", "lock", "asleep"}
  <2>0. worker[w].it \in SlotNos /\ worker[w].next \in SlotNos /\ slots \in Seq(Slot)
    BY DEF Shape
  <2>1. CASE Advance(w)
    BY <2>0, <2>1, Advances, Wraps DEF Stepped, Steps
  <2>2. ASSUME NEW s \in {"first", "again", "idle", "pause"}, Search(w, s)
        PROVE  Stepped(w) /\ worker'[w].pc = "scan"
    BY <2>0, <2>2, Searches DEF Stepped, Steps
  <2>3. ASSUME NEW pc \in {"exited", "idle", "pause", "lock", "asleep"}, WorkerGoes(w, pc)
        PROVE  Stepped(w) /\ worker'[w].pc = pc
    <3>1. pc \in WorkerPcs
      BY DEF WorkerPcs
    <3> QED BY <2>0, <2>3, <3>1, Goes DEF Stepped, Steps
  <2> QED BY <2>1, <2>2, <2>3
     DEF Skip, Top, IdleTop, FoundNone, LockIdle, Pause, Wake
<1>4. /\ Shape' /\ SlotNos' = SlotNos /\ main' = main
      /\ \A v \in Workers : v # w => worker'[v] = worker[v]
  BY <1>1, <1>2, <1>3, ShapeKept DEF Shape
<1>5. Calm(w)
  BY <1>1, <1>3 DEF Calm, Holds
<1> QED BY <1>1, <1>4, <1>5 DEF Effect

LEMMA TakeStep ==
  ASSUME Shape, NEW w \in Workers, Take(w)
  PROVE  Effect(w)
<1> DEFINE s == worker[w].it
           t == slots[s].task
<1>1. s \in SlotNos /\ slots \in Seq(Slot) /\ slots[s].state = "WAITING" /\ worker[w].pc = "scan"
  BY DEF Shape, Take, WorkerAt
<1>2. /\ slots' \in Seq(Slot) /\ Len(slots') = Len(slots)
      /\ slots'[s].state = "RUNNING" /\ slots'[s].task = slots[s].task
      /\ \A r \in SlotNos : r # s => slots'[r] = slots[r]
  <2>1. SlotBecomes(s, "RUNNING")
    BY DEF Take
  <2> QED BY <1>1, <2>1, SlotState DEF States
<1>3. Stepped(w) /\ worker'[w].it = s /\ worker'[w].pc \in {"fail", "found", "putback"}
  <2>1. PICK pc \in {"fail", "found", "putback"} : WorkerGoes(w, pc)
    BY DEF Take
  <2>2. pc \in WorkerPcs
    BY DEF WorkerPcs
  <2> QED BY <2>1, <2>2, Goes DEF Stepped, Steps, Shape
<1>4. UNCHANGED <<done, count, failed, exit, main>>
  BY DEF Take
<1>5. part' = part \/ (TaskReady(t) /\ part' = [part EXCEPT ![t] = IF @ = "barriers" THEN "call" ELSE @])
  BY DEF Take
<1>6. Typed
  <2>1. part' \in [Tasks -> {"barriers", "call", "rest"}]
    BY <1>5 DEF Shape
  <2>2. idle' \in {Nobody} \cup Workers
    BY DEF Shape, Take
  <2>3. pause' \in PauseRec
    <3>1. pause \in PauseRec
      BY DEF Shape, PauseRec
    <3> QED BY <3>1, OwnerTypes DEF Take
  <2> QED BY <1>4, <2>1, <2>2, <2>3 DEF Shape, Typed, PauseRec
<1>7. ASSUME NEW u \in Tasks, part'[u] # "barriers", part[u] = "barriers"
      PROVE  \A b \in Barriers[u] : done[b] = "open"
  <2>1. u = t /\ TaskReady(t)
    BY <1>5, <1>7 DEF Shape
  <2>2. ~BarriersBlock(u) /\ ~BarriersThrow(u)
    BY <2>1 DEF TaskReady, CheckThrows
  <2>3. \A b \in Barriers[u] : done[b] \in {"locked", "open", "error"}
    BY PoolAssumption DEF Shape
  <2> QED BY <1>7, <2>2, <2>3 DEF BarriersBlock, BarriersThrow
<1>8. Takes(w)
  BY <1>1, <1>2, <1>3, <1>4 DEF Takes, Holds, Ended, Executes
<1> HIDE DEF s, t
<1>9. /\ Shape' /\ SlotNos' = SlotNos /\ main' = main
      /\ \A v \in Workers : v # w => worker'[v] = worker[v]
  BY <1>2, <1>3, <1>4, <1>6, ShapeKept
<1> QED BY <1>7, <1>8, <1>9 DEF Effect

(* The steps in which a worker stays with its slot, or leaves it behind    *)
(* because the pool is shut down.                                          *)
LEMMA KeepSteps ==
  ASSUME Shape, NEW w \in Workers,
         \/ Found(w) \/ Unlock(w) \/ Decrement(w)
         \/ FailDone(w) \/ FailCounter(w) \/ FailDecrement(w)
         \/ Run(w) /\ worker'[w].pc # "top"
  PROVE  Effect(w)
<1> DEFINE Goto(pc) == Steps(w, pc, worker[w].search, worker[w].next, worker[w].it)
<1>0. worker[w].it \in SlotNos /\ worker[w].next \in SlotNos
  BY DEF Shape
<1>1. ASSUME NEW pc \in WorkerPcs, WorkerGoes(w, pc)
      PROVE  Stepped(w) /\ worker'[w].it = worker[w].it /\ worker'[w].pc = pc
  BY <1>0, <1>1, Goes DEF Stepped, Steps
<1>2. /\ UNCHANGED <<exit, main>>
      /\ Typed
  <2>1. UNCHANGED <<exit, pause, main>> /\ idle' \in {Nobody} \cup Workers
    BY DEF Shape, Found, Unlock, Decrement, FailDone, FailCounter, FailDecrement, Run
  <2>2. part' \in [Tasks -> {"barriers", "call", "rest"}]
    BY DEF Shape, Found, Unlock, Decrement, FailDone, FailCounter, FailDecrement, Run
  <2>3. done' \in [Tasks -> {"locked", "open", "error"}]
    BY DEF Shape, Found, Unlock, Decrement, FailDone, FailCounter, FailDecrement, Run
  <2>4. count' \in Int /\ failed' \in BOOLEAN
    <3>1. count' = count \/ count' = count - 1
      BY DEF Found, Unlock, Decrement, FailDone, FailCounter, FailDecrement, Run
    <3>2. failed' = failed \/ failed' = TRUE
      BY DEF Found, Unlock, Decrement, FailDone, FailCounter, FailDecrement, Run
    <3>3. count \in Int /\ failed \in BOOLEAN
      BY DEF Shape
    <3>4. count' \in Int
      BY <3>1, <3>3
    <3>5. failed' \in BOOLEAN
      BY <3>2, <3>3
    <3> QED BY <3>4, <3>5
  <2> QED BY <2>1, <2>2, <2>3, <2>4 DEF Shape, Typed
<1>3. /\ Stepped(w) /\ slots' = slots
      /\ \A t \in Tasks : part'[t] # "barriers" => part[t] # "barriers"
      /\ Calm(w) \/ Keeps(w)
  <2>1. CASE Found(w)
    BY <1>1, <2>1 DEF Found, WorkerAt, WorkerPcs, Calm, Keeps, Holds, Ended, Freeing
  <2>2. CASE Unlock(w)
    BY <1>1, <2>2 DEF Unlock, WorkerAt, WorkerPcs, Keeps, Holds, Ended, Freeing
  <2>3. CASE Decrement(w)
    BY <1>1, <2>3 DEF Decrement, WorkerAt, WorkerPcs, Keeps, Holds, Ended, Freeing
  <2>4. CASE FailDone(w)
    BY <1>1, <2>4 DEF FailDone, WorkerAt, WorkerPcs, Keeps, Holds, Ended, Freeing
  <2>5. CASE FailCounter(w)
    BY <1>1, <2>5 DEF FailCounter, WorkerAt, WorkerPcs, Keeps, Holds, Ended, Freeing
  <2>6. CASE FailDecrement(w)
    BY <1>1, <2>6 DEF FailDecrement, WorkerAt, WorkerPcs, Keeps, Holds, Ended, Freeing
  <2>7. CASE Run(w) /\ worker'[w].pc # "top"
    <3>1. ~NextFrom(w)
      BY <2>7, Nexts DEF Steps
    <3>2. /\ worker[w].pc = "run" /\ UNCHANGED <<slots, part, done, count>>
          /\ WorkerGoes(w, "unlock") \/ WorkerGoes(w, "fail")
      BY <2>7, <3>1 DEF Run, WorkerAt
    <3>3. Stepped(w) /\ worker'[w].it = worker[w].it /\ worker'[w].pc \in {"unlock", "fail"}
      BY <1>1, <3>2 DEF WorkerPcs
    <3> QED BY <3>2, <3>3 DEF Keeps, Holds, Ended, Freeing
  <2> QED BY <2>1, <2>2, <2>3, <2>4, <2>5, <2>6, <2>7
<1>4. /\ Shape' /\ SlotNos' = SlotNos /\ main' = main
      /\ \A v \in Workers : v # w => worker'[v] = worker[v]
  <2>1. slots' \in Seq(Slot) /\ Len(slots') = Len(slots)
    BY <1>3 DEF Shape
  <2> QED BY <1>2, <1>3, <2>1, ShapeKept
<1> QED BY <1>3, <1>4 DEF Effect

(* The steps in which a worker gives its slot back.                        *)
LEMMA GiveSteps ==
  ASSUME Shape, NEW w \in Workers,
         PutBack(w) \/ Free(w) \/ FailFree(w) \/ (Run(w) /\ worker'[w].pc = "top")
  PROVE  Effect(w)
<1> DEFINE s == worker[w].it
<1>0. s \in SlotNos /\ worker[w].next \in SlotNos /\ slots \in Seq(Slot)
  BY DEF Shape
<1>1. /\ UNCHANGED <<done, count, failed, exit, pause, idle, main>>
      /\ part' \in [Tasks -> {"barriers", "call", "rest"}]
      /\ \A t \in Tasks : part'[t] # "barriers" => part[t] # "barriers"
  BY DEF Shape, PutBack, Free, FailFree, Run
<1>2. /\ Stepped(w)
      /\ \E st \in {"WAITING", "FREE"} :
           /\ SlotBecomes(s, st)
           /\ IF st = "FREE" THEN Freeing(w) ELSE ~Ended(w)
      /\ Holds(w) /\ ~Holds(w)'
  <2>1. CASE PutBack(w)
    BY <1>0, <2>1, Advances, Wraps DEF PutBack, WorkerAt, Stepped, Steps, Ended, Holds
  <2>2. CASE Free(w)
    BY <1>0, <2>2, Nexts, Wraps DEF Free, WorkerAt, Stepped, Steps, Freeing, Holds
  <2>3. CASE FailFree(w)
    BY <1>0, <2>3, Goes DEF FailFree, WorkerAt, WorkerPcs, Stepped, Steps, Freeing, Holds
  <2>4. CASE Run(w) /\ worker'[w].pc = "top"
    <3>1. ~WorkerGoes(w, "unlock") /\ ~WorkerGoes(w, "fail")
      BY <2>4, Goes DEF Steps, WorkerPcs
    <3> QED BY <1>0, <2>4, <3>1, Nexts, Wraps DEF Run, WorkerAt, Stepped, Steps, Ended, Holds
  <2> QED BY <2>1, <2>2, <2>3, <2>4
<1>3. PICK st \in {"WAITING", "FREE"} :
        SlotBecomes(s, st) /\ IF st = "FREE" THEN Freeing(w) ELSE ~Ended(w)
  BY <1>2
<1>4. /\ slots' \in Seq(Slot) /\ Len(slots') = Len(slots)
      /\ slots'[s].state = st /\ slots'[s].task = slots[s].task
      /\ \A r \in SlotNos : r # s => slots'[r] = slots[r]
  BY <1>0, <1>3, SlotState DEF States
<1>5. Gives(w)
  BY <1>1, <1>2, <1>3, <1>4 DEF Gives
<1>6. Typed
  BY <1>1 DEF Shape, Typed
<1> HIDE DEF s
<1>7. /\ Shape' /\ SlotNos' = SlotNos /\ main' = main
      /\ \A v \in Workers : v # w => worker'[v] = worker[v]
  BY <1>1, <1>2, <1>4, <1>6, ShapeKept
<1> QED BY <1>1, <1>5, <1>7 DEF Effect

LEMMA WorkerSteps ==
  ASSUME Shape, NEW w \in Workers, Worker(w) \/ Spurious(w)
  PROVE  Effect(w)
<1>1. CASE Skip(w) \/ Top(w) \/ IdleTop(w) \/ FoundNone(w) \/ LockIdle(w) \/ Pause(w)
           \/ Notified(w) \/ Spurious(w)
  BY <1>1, CalmSteps DEF Notified, Spurious
<1>2. CASE Take(w)
  BY <1>2, TakeStep
<1>3. CASE Found(w) \/ (Process(w) /\ ~Free(w) /\ ~FailFree(w))
  BY <1>3, KeepSteps, GiveSteps DEF Process
<1>4. CASE PutBack(w) \/ Free(w) \/ FailFree(w)
  BY <1>4, GiveSteps
<1> QED BY <1>1, <1>2, <1>3, <1>4 DEF Worker

-----------------------------------------------------------------------------
(* A step of the adding thread.                                            *)

Reserves ==
  /\ main.pc = "claim" /\ main'.pc = "count"
  /\ main'.it = main.it /\ main'.task = main.task /\ SlotNos' = SlotNos
  /\ slots[main.it].state = "FREE" /\ slots'[main.it].state = "PREPARING"
  /\ \A r \in SlotNos : r # main.it => slots'[r] = slots[r]
  /\ count' = count

Counts ==
  /\ main.pc = "count" /\ main'.pc = "publish"
  /\ main'.it = main.it /\ main'.task = main.task
  /\ slots' = slots /\ count' = count + 1

Adds ==
  /\ main.pc = "publish" /\ main'.pc = "notify"
  /\ main'.it = main.it /\ main'.task = main.task /\ SlotNos' = SlotNos
  /\ slots'[main.it] = [state |-> "WAITING", task |-> main.task]
  /\ \A r \in SlotNos : r # main.it => slots'[r] = slots[r]
  /\ count' = count

Notifies ==
  /\ main.pc = "notify" /\ main'.pc \in {"claim", "wait"} /\ main'.task = main.task + 1
  /\ slots' = slots /\ count' = count

Prepares ==
  /\ main.pc \notin {"publish", "notify"} /\ main'.pc \notin {"count", "publish", "notify"}
  /\ main'.task = main.task
  /\ main'.pc = "cleared" => count <= 0
  /\ \A r \in SlotNos : slots'[r] = slots[r]
  /\ \A r \in SlotNos' : r \notin SlotNos => slots'[r].state = "FREE"
  /\ count' = count

MainEffect ==
  /\ Shape' /\ SlotNos \subseteq SlotNos' /\ UNCHANGED <<worker, part, done, failed, idle>>
  /\ Reserves \/ Counts \/ Adds \/ Notifies \/ Prepares

LEMMA MainShape ==
  ASSUME Shape, slots' \in Seq(Slot), SlotNos \subseteq SlotNos',
         main' \in [pc : MainPcs, task : 1..NumTasks + 1, it : SlotNos', fill : SlotNos'],
         main'.pc \in {"claim", "count", "publish", "notify"} => main'.task <= NumTasks,
         UNCHANGED <<worker, part, done, failed, idle>>,
         count' \in Int, exit' \in BOOLEAN, pause' \in PauseRec
  PROVE  Shape'
<1>1. SlotNos' \subseteq Nat
  BY LenProperties DEF SlotNos
<1>2. /\ main' \in [pc : MainPcs, task : 1..NumTasks + 1, it : Nat, fill : Nat]
      /\ main'.it \in SlotNos' /\ main'.fill \in SlotNos'
  BY <1>1
<1>3. \A w \in Workers : worker'[w].it \in SlotNos' /\ worker'[w].next \in SlotNos'
  BY DEF Shape
<1> QED BY <1>2, <1>3 DEF Shape, PauseRec

LEMMA MainSteps ==
  ASSUME Shape, Main \/ Close
  PROVE  MainEffect
<1>0. /\ slots \in Seq(Slot) /\ Len(slots) \in Nat
      /\ main \in [pc : MainPcs, task : 1..NumTasks + 1, it : Nat, fill : Nat]
      /\ main.it \in SlotNos /\ main.fill \in SlotNos
      /\ main.pc \in {"claim", "count", "publish", "notify"} => main.task <= NumTasks
      /\ count \in Int /\ exit \in BOOLEAN /\ pause \in PauseRec
      /\ NumTasks \in Nat
  BY PoolAssumption, LenProperties DEF Shape, PauseRec
<1>1. CASE Claim /\ slots[main.it].state = "FREE"
  <2>1. /\ SlotBecomes(main.it, "PREPARING") /\ main.pc = "claim"
        /\ main' = [main EXCEPT !.pc = "count"]
        /\ UNCHANGED <<part, done, count, failed, exit, pause, idle, worker>>
    BY <1>1 DEF Claim, MainAt, MainGoes
  <2>2. /\ slots' \in Seq(Slot) /\ SlotNos' = SlotNos
        /\ slots'[main.it].state = "PREPARING"
        /\ \A r \in SlotNos : r # main.it => slots'[r] = slots[r]
    BY <1>0, <2>1, SlotState DEF States
  <2>3. Reserves
    BY <1>0, <1>1, <2>1, <2>2 DEF Reserves
  <2>4. /\ main' \in [pc : MainPcs, task : 1..NumTasks + 1, it : SlotNos', fill : SlotNos']
        /\ main'.task <= NumTasks
    BY <1>0, <2>1, <2>2 DEF MainPcs
  <2>5. Shape'
    BY <1>0, <2>1, <2>2, <2>4, MainShape
  <2> QED BY <2>1, <2>2, <2>3, <2>5 DEF MainEffect
<1>2. CASE Claim /\ slots[main.it].state # "FREE" /\ IncWrap(main.it) # main.fill
  <2>1. /\ main.pc = "claim" /\ slots' = slots /\ SlotNos' = SlotNos
        /\ main' = [main EXCEPT !.it = IncWrap(main.it)]
        /\ UNCHANGED <<part, done, count, failed, exit, pause, idle, worker>>
    BY <1>2 DEF Claim, MainAt, SlotNos
  <2>2. /\ main' \in [pc : MainPcs, task : 1..NumTasks + 1, it : SlotNos', fill : SlotNos']
        /\ main'.task <= NumTasks /\ main'.pc = "claim" /\ main'.task = main.task
    BY <1>0, <2>1, Wraps
  <2>3. Prepares
    BY <1>0, <2>1, <2>2 DEF Prepares
  <2>4. Shape'
    BY <1>0, <2>1, <2>2, MainShape
  <2> QED BY <2>1, <2>3, <2>4 DEF MainEffect
<1>3. CASE Claim /\ slots[main.it].state # "FREE" /\ IncWrap(main.it) = main.fill
  <2>1. /\ main.pc = "claim" /\ slots' = slots \o Chunk
        /\ main' = [main EXCEPT !.it = Len(slots) + 1, !.fill = Len(slots) + 1]
        /\ UNCHANGED <<part, done, count, failed, exit, pause, idle, worker>>
    BY <1>3 DEF Claim, MainAt
  <2>2. /\ slots' \in Seq(Slot) /\ SlotNos \subseteq SlotNos' /\ Len(slots) + 1 \in SlotNos'
        /\ \A r \in SlotNos : slots'[r] = slots[r]
        /\ \A r \in SlotNos' : r \notin SlotNos => slots'[r].state = "FREE"
    BY <1>0, <2>1, SlotGrow
  <2>3. /\ main' \in [pc : MainPcs, task : 1..NumTasks + 1, it : SlotNos', fill : SlotNos']
        /\ main'.task <= NumTasks /\ main'.pc = "claim" /\ main'.task = main.task
    BY <1>0, <2>1, <2>2
  <2>4. Prepares
    BY <1>0, <2>1, <2>2, <2>3 DEF Prepares
  <2>5. Shape'
    BY <1>0, <2>1, <2>2, <2>3, MainShape
  <2> QED BY <2>1, <2>2, <2>4, <2>5 DEF MainEffect
<1>4. CASE Publish
  <2> DEFINE x == [state |-> "WAITING", task |-> main.task]
  <2>1. /\ main.pc = "publish" /\ main' = [main EXCEPT !.pc = "notify"]
        /\ slots' = [slots EXCEPT ![main.it] = x]
        /\ pause' = [pause EXCEPT !.owner = MainThread]
        /\ UNCHANGED <<part, done, count, failed, exit, idle, worker>>
    BY <1>4 DEF Publish, MainAt, MainGoes
  <2>2. x \in Slot
    BY <1>0, <2>1 DEF Slot, States, Tasks
  <2> HIDE DEF x
  <2>3. /\ slots' \in Seq(Slot) /\ SlotNos' = SlotNos
        /\ slots'[main.it] = x
        /\ \A r \in SlotNos : r # main.it => slots'[r] = slots[r]
    BY <1>0, <2>1, <2>2, SlotWrite
  <2>4. Adds
    BY <1>0, <2>1, <2>3 DEF Adds, x
  <2>5. /\ main' \in [pc : MainPcs, task : 1..NumTasks + 1, it : SlotNos', fill : SlotNos']
        /\ main'.task <= NumTasks
    BY <1>0, <2>1, <2>3 DEF MainPcs
  <2>6. pause' \in PauseRec
    <3>1. [pause EXCEPT !.owner = MainThread] \in PauseRec
      BY <1>0, UnpausedType
    <3> QED BY <2>1, <3>1
  <2>7. Shape'
    BY <1>0, <2>1, <2>3, <2>5, <2>6, MainShape
  <2> QED BY <2>1, <2>3, <2>4, <2>7 DEF MainEffect
<1>5. CASE Notify
  <2>1. /\ main.pc = "notify" /\ slots' = slots /\ SlotNos' = SlotNos
        /\ main' = [pc   |-> IF main.task = NumTasks THEN "wait" ELSE "claim",
                    task |-> main.task + 1, it |-> IncWrap(main.fill), fill |-> IncWrap(main.fill)]
        /\ pause' = Unpaused
        /\ UNCHANGED <<part, done, count, failed, exit, idle, worker>>
    BY <1>5 DEF Notify, MainAt, SlotNos
  <2>2. /\ main' \in [pc : MainPcs, task : 1..NumTasks + 1, it : SlotNos', fill : SlotNos']
        /\ main'.pc = "claim" => main'.task <= NumTasks
        /\ main'.pc \in {"claim", "wait"} /\ main'.task = main.task + 1
    BY <1>0, <2>1, Wraps DEF MainPcs
  <2>3. Notifies
    BY <2>1, <2>2 DEF Notifies
  <2>4. pause' \in PauseRec
    <3>1. Unpaused \in PauseRec
      BY <1>0, UnpausedType
    <3> QED BY <2>1, <3>1
  <2>5. Shape'
    BY <1>0, <2>1, <2>2, <2>4, MainShape
  <2> QED BY <2>1, <2>3, <2>5 DEF MainEffect
<1>6. CASE Count \/ Wait \/ Shutdown \/ Close \/ Unpause \/ Join
  <2>1. PICK pc \in MainPcs :
          /\ main' = [main EXCEPT !.pc = pc] /\ slots' = slots /\ SlotNos' = SlotNos
          /\ pc \notin {"claim", "count", "notify"}
          /\ main.pc \notin {"publish", "notify"}
          /\ pc = "cleared" => count <= 0
          /\ IF pc = "publish" THEN main.pc = "count" /\ count' = count + 1
                               ELSE count' = count
    BY <1>6 DEF Count, Wait, Shutdown, Close, ShutsDown, Unpause, Join, MainAt, MainGoes,
                MainPcs, SlotNos
  <2>2. /\ UNCHANGED <<part, done, failed, idle, worker>>
        /\ exit' = exit \/ exit' = TRUE
        /\ pause' = pause \/ pause' = Unpaused
    BY <1>6 DEF Count, Wait, Shutdown, Close, ShutsDown, Unpause, Join
  <2>3. /\ main' \in [pc : MainPcs, task : 1..NumTasks + 1, it : SlotNos', fill : SlotNos']
        /\ main'.pc \in {"claim", "count", "publish", "notify"} => main'.task <= NumTasks
        /\ main'.pc = pc /\ main'.it = main.it /\ main'.task = main.task
    BY <1>0, <2>1
  <2>4. pause' \in PauseRec
    BY <1>0, <2>2, UnpausedType
  <2>5. Shape'
    <3>1. count' \in Int
      BY <1>0, <2>1
    <3>2. exit' \in BOOLEAN /\ slots' \in Seq(Slot)
      BY <1>0, <2>1, <2>2
    <3> QED BY <2>1, <2>2, <2>3, <2>4, <3>1, <3>2, MainShape
  <2>6. Counts \/ Prepares
    BY <2>1, <2>3 DEF Counts, Prepares
  <2> QED BY <2>1, <2>2, <2>5, <2>6 DEF MainEffect
<1> QED BY <1>1, <1>2, <1>3, <1>4, <1>5, <1>6 DEF Main

-----------------------------------------------------------------------------
(* A slot in use belongs to one thread.                                    *)

LEMMA ExclusiveByWorker ==
  ASSUME Shape, SlotExclusive, NEW w \in Workers, Effect(w)
  PROVE  SlotExclusive'
<1> DEFINE s == worker[w].it
<1>1. /\ \A v \in Workers : Holds(v) => slots[worker[v].it].state = "RUNNING"
      /\ \A u, v \in Workers : u # v /\ Holds(u) /\ Holds(v) => worker[u].it # worker[v].it
      /\ main.pc \in {"count", "publish"} => slots[main.it].state = "PREPARING"
      /\ \A v \in Workers : worker[v].it \in SlotNos
      /\ main.it \in SlotNos
  BY DEF SlotExclusive, Shape
<1>2. /\ \A v \in Workers : v # w => worker'[v] = worker[v] /\ (Holds(v)' <=> Holds(v))
      /\ main' = main
  BY DEF Effect, Holds
<1>3. CASE Calm(w)
  BY <1>1, <1>2, <1>3 DEF Calm, SlotExclusive
<1>4. CASE Takes(w)
  BY <1>1, <1>2, <1>4 DEF Takes, SlotExclusive
<1>5. CASE Keeps(w)
  BY <1>1, <1>2, <1>5 DEF Keeps, SlotExclusive
<1>6. CASE Gives(w)
  BY <1>1, <1>2, <1>6 DEF Gives, SlotExclusive
<1> QED BY <1>3, <1>4, <1>5, <1>6 DEF Effect

LEMMA ExclusiveByMain ==
  ASSUME Shape, SlotExclusive, MainEffect
  PROVE  SlotExclusive'
<1>1. /\ \A v \in Workers : Holds(v) => slots[worker[v].it].state = "RUNNING"
      /\ \A u, v \in Workers : u # v /\ Holds(u) /\ Holds(v) => worker[u].it # worker[v].it
      /\ main.pc \in {"count", "publish"} => slots[main.it].state = "PREPARING"
      /\ \A v \in Workers : worker[v].it \in SlotNos
      /\ main.it \in SlotNos
  BY DEF SlotExclusive, Shape
<1>2. worker' = worker /\ \A v \in Workers : Holds(v)' <=> Holds(v)
  BY DEF MainEffect, Holds
<1>3. CASE Reserves
  BY <1>1, <1>2, <1>3 DEF Reserves, SlotExclusive
<1>4. CASE Counts
  BY <1>1, <1>2, <1>4 DEF Counts, SlotExclusive
<1>5. CASE Adds
  BY <1>1, <1>2, <1>5 DEF Adds, SlotExclusive
<1>6. CASE Notifies
  BY <1>1, <1>2, <1>6 DEF Notifies, SlotExclusive
<1>7. CASE Prepares
  BY <1>1, <1>2, <1>7 DEF Prepares, SlotExclusive
<1> QED BY <1>3, <1>4, <1>5, <1>6, <1>7 DEF MainEffect

-----------------------------------------------------------------------------
(* The counter.                                                            *)

Active(s) == slots[s].state \in {"WAITING", "RUNNING"}

CountedSlots ==
  {s \in SlotNos : Active(s) /\ ~\E w \in Workers : worker[w].it = s /\ Freeing(w)}

CountInv ==
  /\ count = Cardinality(CountedSlots) + IF main.pc = "publish" THEN 1 ELSE 0
  /\ main.pc = "cleared" => count <= 0

LEMMA CountedFinite ==
  ASSUME Shape
  PROVE  IsFiniteSet(CountedSlots) /\ Cardinality(CountedSlots) \in Nat
<1>1. Len(slots) \in Nat
  BY LenProperties DEF Shape
<1>2. IsFiniteSet(SlotNos)
  BY <1>1, FS_Interval DEF SlotNos
<1>3. CountedSlots \in SUBSET SlotNos
  BY DEF CountedSlots
<1> QED BY <1>2, <1>3, FS_Subset, FS_CardinalityType

LEMMA CountByWorker ==
  ASSUME Shape, SlotExclusive, CountInv, NEW w \in Workers, Effect(w)
  PROVE  CountInv'
<1> DEFINE s == worker[w].it
<1>1. /\ \A v \in Workers : Holds(v) => slots[worker[v].it].state = "RUNNING"
      /\ \A u, v \in Workers : u # v /\ Holds(u) /\ Holds(v) => worker[u].it # worker[v].it
      /\ s \in SlotNos
  BY DEF SlotExclusive, Shape
<1>2. /\ \A v \in Workers : v # w => worker'[v] = worker[v] /\ (Freeing(v)' <=> Freeing(v))
      /\ main' = main /\ SlotNos' = SlotNos
  BY DEF Effect, Freeing
<1>3. \A v \in Workers : Freeing(v) => Holds(v)
  BY DEF Freeing, Holds
<1>4. /\ \A v \in Workers : ~Ended(v) => ~Freeing(v)
      /\ (~Holds(w) => ~Freeing(w))' /\ (~Ended(w) => ~Freeing(w))'
  BY DEF Freeing, Holds, Ended
<1>5. CASE Calm(w)
  <2>1. CountedSlots' = CountedSlots
    BY <1>2, <1>4, <1>5 DEF Calm, CountedSlots, Active
  <2> QED BY <1>2, <1>5, <2>1 DEF Calm, CountInv
<1>6. CASE Takes(w)
  <2>1. CountedSlots' = CountedSlots
    BY <1>2, <1>3, <1>4, <1>6 DEF Takes, CountedSlots, Active
  <2> QED BY <1>2, <1>6, <2>1 DEF Takes, CountInv
<1>7. CASE Keeps(w) /\ (Freeing(w) <=> Freeing(w)')
  <2>1. CountedSlots' = CountedSlots
    BY <1>2, <1>7 DEF Keeps, CountedSlots, Active
  <2>2. count' = count
    BY <1>7 DEF Keeps, Freeing
  <2> QED BY <1>2, <2>1, <2>2 DEF CountInv
<1>8. CASE Keeps(w) /\ ~Freeing(w) /\ Freeing(w)'
  <2>1. CountedSlots' = CountedSlots \ {s}
    BY <1>2, <1>8 DEF Keeps, CountedSlots, Active
  <2>2. s \in CountedSlots
    BY <1>1, <1>3, <1>8 DEF Keeps, CountedSlots, Active
  <2>3. Cardinality(CountedSlots') = Cardinality(CountedSlots) - 1
    BY <2>1, <2>2, CountedFinite, FS_RemoveElement
  <2>4. count' = count - 1
    BY <1>8 DEF Keeps, Freeing
  <2>5. Cardinality(CountedSlots) \in Nat /\ count \in Int
    BY CountedFinite DEF Shape
  <2> QED BY <1>2, <2>3, <2>4, <2>5 DEF CountInv
<1>9. CASE Gives(w)
  <2>1. CountedSlots' = CountedSlots
    BY <1>1, <1>2, <1>3, <1>4, <1>9 DEF Gives, CountedSlots, Active
  <2> QED BY <1>2, <1>9, <2>1 DEF Gives, CountInv
<1> QED BY <1>5, <1>6, <1>7, <1>8, <1>9 DEF Effect, Keeps

LEMMA CountByMain ==
  ASSUME Shape, SlotExclusive, CountInv, MainEffect
  PROVE  CountInv'
<1>1. /\ \A v \in Workers : Freeing(v) => slots[worker[v].it].state = "RUNNING"
      /\ main.pc = "publish" => slots[main.it].state = "PREPARING"
      /\ main.it \in SlotNos
  BY DEF SlotExclusive, Shape, Holds, Freeing
<1>2. worker' = worker /\ (\A v \in Workers : Freeing(v)' <=> Freeing(v)) /\ SlotNos \subseteq SlotNos'
  BY DEF MainEffect, Freeing
<1>3. Cardinality(CountedSlots) \in Nat /\ count \in Int
  BY CountedFinite DEF Shape
<1>4. CASE Reserves
  <2>1. CountedSlots' = CountedSlots
    BY <1>1, <1>2, <1>4 DEF Reserves, CountedSlots, Active
  <2> QED BY <1>4, <2>1 DEF Reserves, CountInv
<1>5. CASE Counts
  <2>1. CountedSlots' = CountedSlots
    BY <1>2, <1>5 DEF Counts, CountedSlots, Active, SlotNos
  <2> QED BY <1>3, <1>5, <2>1 DEF Counts, CountInv
<1>6. CASE Adds
  <2>1. CountedSlots' = CountedSlots \cup {main.it} /\ main.it \notin CountedSlots
    BY <1>1, <1>2, <1>6 DEF Adds, CountedSlots, Active
  <2>2. Cardinality(CountedSlots') = Cardinality(CountedSlots) + 1
    BY <2>1, CountedFinite, FS_AddElement
  <2> QED BY <1>3, <1>6, <2>2 DEF Adds, CountInv
<1>7. CASE Notifies
  <2>1. CountedSlots' = CountedSlots
    BY <1>2, <1>7 DEF Notifies, CountedSlots, Active, SlotNos
  <2> QED BY <1>7, <2>1 DEF Notifies, CountInv
<1>8. CASE Prepares
  <2>1. CountedSlots' = CountedSlots
    BY <1>1, <1>2, <1>8 DEF Prepares, CountedSlots, Active
  <2> QED BY <1>8, <2>1 DEF Prepares, CountInv
<1> QED BY <1>4, <1>5, <1>6, <1>7, <1>8 DEF MainEffect

-----------------------------------------------------------------------------
(* The tasks that were added, their slots and their done barriers.         *)

Published(t) == t < main.task \/ (t = main.task /\ main.pc = "notify")

(* Nobody has told the task's done barrier how it ended.                   *)
Pending(s) == Active(s) /\ ~\E w \in Workers : worker[w].it = s /\ Ended(w)

TaskInv ==
  /\ \A s \in SlotNos : Active(s) => slots[s].task \in Tasks /\ Published(slots[s].task)
  /\ \A r, s \in SlotNos : Active(r) /\ Active(s) /\ slots[r].task = slots[s].task => r = s
  /\ \A s \in SlotNos : Pending(s) => done[slots[s].task] = "locked"
  /\ \A t \in Tasks : ~Published(t) => done[t] = "locked"
  /\ \A t \in Tasks : Published(t) /\ done[t] = "locked" =>
       \E s \in SlotNos : Pending(s) /\ slots[s].task = t

LEMMA TasksByWorker ==
  ASSUME Shape, SlotExclusive, TaskInv, NEW w \in Workers, Effect(w)
  PROVE  TaskInv'
<1> DEFINE s == worker[w].it
<1>1. /\ \A v \in Workers : Holds(v) => slots[worker[v].it].state = "RUNNING"
      /\ \A u, v \in Workers : u # v /\ Holds(u) /\ Holds(v) => worker[u].it # worker[v].it
      /\ s \in SlotNos
  BY DEF SlotExclusive, Shape
<1>2. /\ \A v \in Workers : v # w => worker'[v] = worker[v] /\ (Ended(v)' <=> Ended(v))
      /\ main' = main /\ SlotNos' = SlotNos /\ \A t : Published(t)' <=> Published(t)
  BY DEF Effect, Ended, Published
<1>3. /\ \A v \in Workers : Ended(v) => Holds(v)
      /\ \A v \in Workers : Freeing(v) => Ended(v)
      /\ (~Holds(w) => ~Ended(w))'
  BY DEF Ended, Holds, Freeing
<1>4. ASSUME \A r \in SlotNos : /\ Active(r)' <=> Active(r)
                                /\ Pending(r)' <=> Pending(r)
                                /\ slots'[r].task = slots[r].task,
             done' = done
      PROVE  TaskInv'
  BY <1>2, <1>4 DEF TaskInv
<1>5. CASE Calm(w)
  <2>1. \A r \in SlotNos : /\ Active(r)' <=> Active(r)
                           /\ Pending(r)' <=> Pending(r)
                           /\ slots'[r].task = slots[r].task
    BY <1>2, <1>3, <1>5 DEF Calm, Active, Pending
  <2> QED BY <1>4, <1>5, <2>1 DEF Calm
<1>6. CASE Takes(w)
  <2>1. \A r \in SlotNos : /\ Active(r)' <=> Active(r)
                           /\ Pending(r)' <=> Pending(r)
                           /\ slots'[r].task = slots[r].task
    BY <1>2, <1>3, <1>6 DEF Takes, Active, Pending
  <2> QED BY <1>4, <1>6, <2>1 DEF Takes
<1>7. CASE Keeps(w) /\ (Ended(w) <=> Ended(w)')
  <2>1. \A r \in SlotNos : /\ Active(r)' <=> Active(r)
                           /\ Pending(r)' <=> Pending(r)
                           /\ slots'[r].task = slots[r].task
    BY <1>2, <1>7 DEF Keeps, Active, Pending
  <2>2. done' = done
    BY <1>7 DEF Keeps, Ended
  <2> QED BY <1>4, <2>1, <2>2
<1>8. CASE Keeps(w) /\ ~Ended(w) /\ Ended(w)'
  <2>1. PICK d \in {"open", "error"} : done' = [done EXCEPT ![slots[s].task] = d]
    BY <1>8 DEF Keeps, Ended, TaskOf
  <2>2. Pending(s) /\ Active(s)
    BY <1>1, <1>3, <1>8 DEF Keeps, Active, Pending
  <2>3. /\ slots' = slots
        /\ \A r \in SlotNos : /\ Active(r)' <=> Active(r)
                              /\ Pending(r)' <=> (Pending(r) /\ r # s)
    BY <1>2, <1>8 DEF Keeps, Active, Pending
  <2>4. slots[s].task \in Tasks /\ Published(slots[s].task)
    BY <1>1, <2>2 DEF TaskInv
  <2>5. \A t \in Tasks : done'[t] = IF t = slots[s].task THEN d ELSE done[t]
    BY <2>1, <2>4 DEF Shape
  <2>6. \A r \in SlotNos : Active(r) /\ slots[r].task = slots[s].task => r = s
    BY <1>1, <2>2 DEF TaskInv
  <2>7. (\A r \in SlotNos : Pending(r) => done[slots[r].task] = "locked")'
    BY <1>2, <2>3, <2>5, <2>6 DEF TaskInv, Pending
  <2>8. (\A t \in Tasks : ~Published(t) => done[t] = "locked")'
    BY <1>2, <2>4, <2>5 DEF TaskInv
  <2>9. (\A t \in Tasks : Published(t) /\ done[t] = "locked" =>
           \E r \in SlotNos : Pending(r) /\ slots[r].task = t)'
    BY <1>2, <2>3, <2>5 DEF TaskInv
  <2> QED BY <1>2, <2>3, <2>7, <2>8, <2>9 DEF TaskInv
<1>9. CASE Gives(w) /\ ~Freeing(w)
  <2>1. \A r \in SlotNos : /\ Active(r)' <=> Active(r)
                           /\ Pending(r)' <=> Pending(r)
                           /\ slots'[r].task = slots[r].task
    BY <1>1, <1>2, <1>3, <1>9 DEF Gives, Active, Pending
  <2> QED BY <1>4, <1>9, <2>1 DEF Gives
<1>10. CASE Gives(w) /\ Freeing(w)
  <2>1. \A r \in SlotNos : /\ Active(r)' <=> (Active(r) /\ r # s)
                           /\ Pending(r)' <=> Pending(r)
                           /\ slots'[r].task = slots[r].task
    BY <1>1, <1>2, <1>3, <1>10 DEF Gives, Active, Pending
  <2> QED BY <1>2, <1>10, <2>1 DEF Gives, TaskInv
<1> QED BY <1>5, <1>6, <1>7, <1>8, <1>9, <1>10 DEF Effect, Keeps

LEMMA TasksByMain ==
  ASSUME Shape, SlotExclusive, TaskInv, MainEffect
  PROVE  TaskInv'
<1>1. /\ \A v \in Workers : Ended(v) => slots[worker[v].it].state = "RUNNING"
      /\ \A v \in Workers : worker[v].it \in SlotNos
      /\ main.pc = "publish" => slots[main.it].state = "PREPARING"
      /\ main.it \in SlotNos /\ main.task \in Nat
      /\ main.pc \in {"publish", "notify"} => main.task \in Tasks
  BY PoolAssumption DEF SlotExclusive, Shape, Holds, Ended, Tasks
<1>2. /\ worker' = worker /\ done' = done /\ SlotNos \subseteq SlotNos'
      /\ \A v \in Workers : Ended(v)' <=> Ended(v)
  BY DEF MainEffect, Ended
<1>3. Tasks \subseteq Nat
  BY DEF Tasks
<1>4. ASSUME \A t \in Tasks : Published(t)' <=> Published(t),
             \A r \in SlotNos : /\ Active(r)' <=> Active(r)
                                /\ Active(r) => slots'[r].task = slots[r].task,
             \A r \in SlotNos' : r \notin SlotNos => ~Active(r)'
      PROVE  TaskInv'
  <2>1. \A r \in SlotNos' : Active(r)' => r \in SlotNos /\ Active(r) /\ slots'[r].task = slots[r].task
    BY <1>4
  <2>2. \A r \in SlotNos' : Pending(r)' => r \in SlotNos /\ Pending(r) /\ Active(r)
    BY <1>2, <2>1 DEF Pending
  <2>3. \A r \in SlotNos : Pending(r) => Pending(r)' /\ Active(r)
    BY <1>2, <1>4 DEF Pending
  <2> QED BY <1>2, <1>4, <2>1, <2>2, <2>3 DEF TaskInv
<1>5. CASE Reserves
  BY <1>1, <1>2, <1>4, <1>5 DEF Reserves, Active, Published
<1>6. CASE Counts
  BY <1>1, <1>2, <1>4, <1>6 DEF Counts, Active, Published, SlotNos
<1>7. CASE Notifies
  BY <1>1, <1>2, <1>3, <1>4, <1>7 DEF Notifies, Active, Published, SlotNos
<1>8. CASE Prepares
  BY <1>1, <1>2, <1>4, <1>8 DEF Prepares, Active, Published
<1>9. CASE Adds
  <2>0. PICK s \in SlotNos, t \in Tasks : s = main.it /\ t = main.task
    BY <1>1, <1>9 DEF Adds
  <2>1. /\ ~Active(s) /\ ~Published(t) /\ done[t] = "locked"
    BY <1>1, <1>9, <2>0 DEF Adds, Published, Active, TaskInv
  <2>2. /\ \A u \in Tasks : Published(u)' <=> (Published(u) \/ u = t)
        /\ SlotNos' = SlotNos /\ slots'[s].task = t /\ Active(s)'
        /\ \A r \in SlotNos : r # s => slots'[r] = slots[r] /\ (Active(r)' <=> Active(r))
    BY <1>9, <2>0 DEF Adds, Published, Active
  <2>3. Pending(s)'
    BY <1>1, <1>2, <1>9, <2>0, <2>2 DEF Adds, Pending
  <2>4. \A r \in SlotNos : r # s => (Pending(r)' <=> Pending(r))
    BY <1>2, <2>2 DEF Pending
  <2>5. \A r \in SlotNos : Active(r) => slots[r].task # t /\ r # s
    BY <2>1 DEF TaskInv
  <2>6. \A r \in SlotNos : Pending(r) => r # s
    BY <2>1 DEF Pending
  <2>7. /\ (\A r \in SlotNos : Active(r) => slots[r].task \in Tasks /\ Published(slots[r].task))'
        /\ (\A r, q \in SlotNos : Active(r) /\ Active(q) /\ slots[r].task = slots[q].task => r = q)'
    BY <2>1, <2>2, <2>5 DEF TaskInv
  <2>8. (\A r \in SlotNos : Pending(r) => done[slots[r].task] = "locked")'
    BY <1>2, <2>1, <2>2, <2>4 DEF TaskInv
  <2>9. (\A u \in Tasks : ~Published(u) => done[u] = "locked")'
    BY <1>2, <2>2 DEF TaskInv
  <2>10. (\A u \in Tasks : Published(u) /\ done[u] = "locked" =>
            \E r \in SlotNos : Pending(r) /\ slots[r].task = u)'
    <3> SUFFICES ASSUME NEW u \in Tasks, Published(u)', done[u] = "locked"
                 PROVE  \E r \in SlotNos : Pending(r)' /\ slots'[r].task = u
      BY <1>2, <2>2
    <3>1. CASE u = t
      BY <2>1, <2>2, <2>3, <3>1
    <3>2. CASE u # t
      <4>1. PICK r \in SlotNos : Pending(r) /\ slots[r].task = u
        BY <2>2, <3>2 DEF TaskInv
      <4> QED BY <2>2, <2>4, <2>6, <4>1
    <3> QED BY <3>1, <3>2
  <2> QED BY <2>7, <2>8, <2>9, <2>10 DEF TaskInv
<1> QED BY <1>5, <1>6, <1>7, <1>8, <1>9 DEF MainEffect

(* A task ends once, so an open done barrier stays open.                   *)
LEMMA EarlyByWorker ==
  ASSUME Shape, SlotExclusive, TaskInv, NothingRunsEarly, NEW w \in Workers, Effect(w)
  PROVE  NothingRunsEarly'
<1> DEFINE s == worker[w].it
<1>1. ASSUME NEW b \in Tasks, done[b] = "open" PROVE done'[b] = "open"
  <2>1. CASE done' = done
    BY <1>1, <2>1
  <2>2. CASE Keeps(w) /\ ~Ended(w)
    <3>1. Pending(s) /\ s \in SlotNos
      BY <2>2 DEF SlotExclusive, Shape, Keeps, Pending, Active, Holds, Ended
    <3>2. done[slots[s].task] = "locked"
      BY <3>1 DEF TaskInv
    <3>3. done' = done \/ \E d : done' = [done EXCEPT ![slots[s].task] = d]
      BY <2>2 DEF Keeps, TaskOf
    <3> QED BY <1>1, <3>2, <3>3 DEF Shape
  <2> QED BY <2>1, <2>2 DEF Effect, Calm, Takes, Keeps, Gives, Ended
<1>2. \A t \in Tasks : Barriers[t] \subseteq Tasks
  BY PoolAssumption
<1> QED BY <1>1, <1>2 DEF Effect, NothingRunsEarly

-----------------------------------------------------------------------------
PoolInv == Shape /\ SlotExclusive /\ CountInv /\ TaskInv /\ NothingRunsEarly

LEMMA PoolInitial == PoolInit => PoolInv
<1> SUFFICES ASSUME PoolInit PROVE PoolInv
  OBVIOUS
<1>0. ChunkSize \in Nat /\ ChunkSize >= 1 /\ NumThreads \in Nat /\ NumTasks \in Nat /\ NumTasks >= 1
  BY PoolAssumption
<1>1. /\ slots \in Seq(Slot) /\ Len(slots) = ChunkSize
      /\ \A s \in SlotNos : slots[s].state = "FREE"
  <2>1. Chunk \in [1..ChunkSize -> Slot]
    BY DEF Chunk, Slot, States
  <2>2. Chunk \in Seq(Slot)
    BY <1>0, <2>1, SeqDef
  <2>3. Len(Chunk) = ChunkSize
    BY <1>0, <2>1, <2>2, LenProperties
  <2> QED BY <2>2, <2>3 DEF PoolInit, Chunk, SlotNos
<1>2. 1 \in SlotNos
  BY <1>0, <1>1 DEF SlotNos
<1>3. Shape
  <2>1. /\ part \in [Tasks -> {"barriers", "call", "rest"}]
        /\ done \in [Tasks -> {"locked", "open", "error"}]
    BY DEF PoolInit
  <2>2. /\ count \in Int /\ failed \in BOOLEAN /\ exit \in BOOLEAN
        /\ idle \in {Nobody} \cup Workers
    <3>1. count \in Int
      BY DEF PoolInit
    <3>2. failed \in BOOLEAN /\ exit \in BOOLEAN
      BY DEF PoolInit
    <3>3. idle \in {Nobody} \cup Workers
      BY DEF PoolInit
    <3> QED BY <3>1, <3>2, <3>3
  <2>3. pause \in [owner : 0..MainThread, all : BOOLEAN, notified : BOOLEAN]
    BY <1>0 DEF PoolInit, Nobody, MainThread
  <2>4. /\ main \in [pc : MainPcs, task : 1..NumTasks + 1, it : Nat, fill : Nat]
        /\ main.it = 1 /\ main.fill = 1 /\ main.task = 1
    BY <1>0 DEF PoolInit, MainPcs
  <2>5. /\ worker \in [Workers -> WorkerRec]
        /\ \A w \in Workers : worker[w].it = 1 /\ worker[w].next = 1
    BY DEF PoolInit, WorkerRec, WorkerPcs
  <2> QED BY <1>0, <1>1, <1>2, <2>1, <2>2, <2>3, <2>4, <2>5 DEF Shape
<1>4. /\ \A w \in Workers : worker[w].pc = "scan"
      /\ main.pc = "claim" /\ main.task = 1
  BY DEF PoolInit
<1>5. SlotExclusive
  BY <1>4 DEF SlotExclusive, Holds
<1>6. CountInv
  <2>1. CountedSlots = {}
    BY <1>1 DEF CountedSlots, Active
  <2> QED BY <1>4, <2>1, FS_EmptySet DEF CountInv, PoolInit
<1>7. TaskInv
  <2>1. \A t \in Tasks : ~Published(t) /\ done[t] = "locked"
    BY <1>4 DEF Published, Tasks, PoolInit
  <2> QED BY <1>1, <2>1 DEF TaskInv, Active, Pending
<1>8. NothingRunsEarly
  BY DEF PoolInit, NothingRunsEarly
<1> QED BY <1>3, <1>5, <1>6, <1>7, <1>8 DEF PoolInv

LEMMA PoolInductive == PoolInv /\ [PoolNext]_poolVars => PoolInv'
<1> SUFFICES ASSUME PoolInv, [PoolNext]_poolVars PROVE PoolInv'
  OBVIOUS
<1> USE DEF PoolInv
<1>1. ASSUME NEW w \in Workers, Worker(w) \/ Spurious(w) PROVE PoolInv'
  <2>1. Effect(w)
    BY <1>1, WorkerSteps
  <2>2. Shape'
    BY <2>1 DEF Effect
  <2> QED BY <2>1, <2>2, ExclusiveByWorker, CountByWorker, TasksByWorker, EarlyByWorker
<1>2. CASE Main \/ Close
  <2>1. MainEffect
    BY <1>2, MainSteps
  <2>2. Shape' /\ NothingRunsEarly'
    BY <2>1 DEF MainEffect, NothingRunsEarly
  <2> QED BY <2>1, <2>2, ExclusiveByMain, CountByMain, TasksByMain
<1>3. CASE UNCHANGED poolVars
  BY <1>3 DEF poolVars, Shape, SlotNos, SlotExclusive, Holds, CountInv, CountedSlots, Active,
     Freeing, TaskInv, Published, Pending, Ended, NothingRunsEarly
<1> QED BY <1>1, <1>2, <1>3 DEF PoolNext

-----------------------------------------------------------------------------
(* The thread that pauses.  It owns the idle lock, so all the others wait  *)
(* for it, and while it searches it owns the pause mutex, so that nothing  *)
(* is published: what it has passed stays as it was.                       *)

Looks(w)   == worker[w].search = "pause" /\ worker[w].pc \in {"scan", "putback", "none"}
InPause(w) == Looks(w) \/ WorkerAt(w, "asleep")

Hopeless(s) == slots[s].state = "WAITING" =>
                 ~TaskReady(slots[s].task) /\ ~CheckThrows(slots[s].task)

(* A search that began at slot next and is at slot it has yet to see s.    *)
Ahead(it, next, s) == IF it >= next THEN s >= it \/ s < next ELSE s >= it /\ s < next

Passed(w) == {s \in SlotNos : ~Ahead(worker[w].it, worker[w].next, s)}

SoundPause(w) ==
  /\ idle = w
  /\ \A v \in Workers \ {w} : WorkerAt(v, "lock")
  /\ Looks(w) => pause.owner = w
  /\ Looks(w) /\ worker[w].pc # "none" => \A s \in Passed(w) : Hopeless(s)
  /\ WorkerAt(w, "putback") =>
       LET t == slots[worker[w].it].task IN ~TaskReady(t) /\ ~CheckThrows(t)
  /\ WorkerAt(w, "none") => \A s \in SlotNos : Hopeless(s)
  /\ WorkerAt(w, "asleep") /\ ~pause.notified =>
       /\ main.pc # "notify" => \A s \in SlotNos : Hopeless(s)
       /\ exit => main.pc = "unpause"

SleepInv ==
  /\ \A w \in Workers : WorkerAt(w, "pause") => idle = w
  /\ \A w \in Workers : InPause(w) => SoundPause(w)
  /\ main.pc = "notify" => pause.owner = MainThread

LEMMA SearchOrder ==
  ASSUME slots \in Seq(Slot), NEW it \in SlotNos, NEW next \in SlotNos, NEW s \in SlotNos
  PROVE  /\ Ahead(next, next, s)
         /\ s # it /\ IncWrap(it) # next /\ Ahead(it, next, s) => Ahead(IncWrap(it), next, s)
         /\ s # it /\ IncWrap(it) = next => ~Ahead(it, next, s)
  BY LenProperties DEF SlotNos, Ahead, IncWrap

LEMMA AllOthersWait ==
  ASSUME NEW w \in Workers, ~WorkerAt(w, "lock"), OthersWaiting(w)
  PROVE  \A v \in Workers \ {w} : WorkerAt(v, "lock")
<1> DEFINE S == {v \in Workers : WorkerAt(v, "lock")}
<1>0. NumThreads \in Nat /\ NumThreads >= 1
  BY PoolAssumption
<1>1. IsFiniteSet(Workers) /\ Cardinality(Workers) = NumThreads
  BY <1>0, FS_Interval DEF Workers
<1>2. IsFiniteSet(Workers \ {w}) /\ Cardinality(Workers \ {w}) = NumThreads - 1
  BY <1>1, FS_RemoveElement
<1>3. S \in SUBSET (Workers \ {w})
  OBVIOUS
<1>4. Cardinality(S) >= NumThreads - 1
  BY DEF OthersWaiting
<1>5. IsFiniteSet(S) /\ Cardinality(S) <= NumThreads - 1
  BY <1>2, <1>3, FS_Subset
<1>6. Cardinality(S) \in Nat
  BY <1>5, FS_CardinalityType
<1>7. Cardinality(S) = Cardinality(Workers \ {w})
  BY <1>0, <1>2, <1>4, <1>5, <1>6
<1>8. S = Workers \ {w}
  BY <1>2, <1>3, <1>7, FS_Subset
<1> QED BY <1>8

(* Locks are given back by their owner only. *)
LEMMA LockSteps ==
  ASSUME Shape, SleepInv, NEW w \in Workers, Worker(w) \/ Spurious(w)
  PROVE  /\ \/ idle' = idle
            \/ idle = w /\ idle' = Nobody
            \/ idle = Nobody /\ idle' = w
         /\ pause'.owner = pause.owner \/ pause.owner \in {Nobody, w}
<1>1. \/ idle' = idle
      \/ idle = w /\ idle' = Nobody
      \/ idle = Nobody /\ idle' = w
  BY DEF Worker, Spurious, Notified, Take, Skip, PutBack, Top, IdleTop, FoundNone, LockIdle, Pause,
     Wake, Found, Process, Run, Unlock, Decrement, Free, FailDone, FailCounter, FailDecrement, FailFree
<1>2. CASE pause' = pause
  BY <1>1, <1>2
<1>3. CASE FoundNone(w) /\ worker[w].search = "pause"
  <2>1. Looks(w)
    BY <1>3 DEF FoundNone, WorkerAt, Looks
  <2> QED BY <1>1, <2>1 DEF SleepInv, InPause, SoundPause
<1>4. CASE Pause(w) \/ Wake(w)
  BY <1>1, <1>4 DEF Pause, Wake, Nobody
<1>5. CASE Take(w)
  BY <1>1, <1>5 DEF Take
<1> QED BY <1>2, <1>3, <1>4, <1>5
   DEF Worker, Spurious, Notified, Skip, PutBack, Top, IdleTop, FoundNone, LockIdle,
     Found, Process, Run, Unlock, Decrement, Free, FailDone, FailCounter, FailDecrement, FailFree

(* The steps of the thread that pauses.                                    *)
LEMMA PauseSteps ==
  ASSUME Shape, SlotExclusive, SleepInv, NEW w \in Workers, Worker(w) \/ Spurious(w),
         Effect(w), InPause(w)'
  PROVE  SoundPause(w)'
<1>0. /\ slots \in Seq(Slot) /\ w # Nobody /\ pause \in PauseRec
      /\ worker[w].it \in SlotNos /\ worker[w].next \in SlotNos
  BY DEF Shape, Workers, Nobody, PauseRec
<1>a. PICK s \in SlotNos, n \in SlotNos : s = worker[w].it /\ n = worker[w].next
  BY <1>0
<1>1. /\ SlotNos' = SlotNos /\ main' = main
      /\ \A v \in Workers : v # w => worker'[v] = worker[v]
  BY DEF Effect
<1>2. InPause(w) => SoundPause(w)
  BY DEF SleepInv
<1>3. ASSUME NEW st \in {"first", "again", "idle", "pause"}, Search(w, st)
      PROVE  /\ worker'[w].pc = "scan" /\ worker'[w].search = st
             /\ worker'[w].it = n /\ worker'[w].next = n
  BY <1>a, <1>3, Searches DEF Steps
<1>4. ASSUME NEW pc \in WorkerPcs, WorkerGoes(w, pc)
      PROVE  /\ worker'[w].pc = pc /\ worker'[w].search = worker[w].search
             /\ worker'[w].it = s /\ worker'[w].next = n
  BY <1>a, <1>4, Goes DEF Steps
<1>5. CASE Take(w)
  <2>1. /\ worker[w].pc = "scan" /\ UNCHANGED <<done, failed, exit, main>>
        /\ worker'[w].pc \in {"fail", "found", "putback"} /\ worker'[w].search = worker[w].search
        /\ worker'[w].it = s /\ worker'[w].next = n
    BY <1>4, <1>5 DEF Take, WorkerAt, WorkerPcs
  <2>2. worker'[w].pc = "putback" /\ Looks(w)
    BY <2>1 DEF InPause, Looks, WorkerAt
  <2>3. ~WorkerGoes(w, "fail") /\ ~WorkerGoes(w, "found")
    BY <1>4, <2>2 DEF WorkerPcs
  <2>4. /\ ~CheckThrows(slots[s].task) /\ ~TaskReady(slots[s].task)
        /\ UNCHANGED <<part, idle, pause>>
    BY <1>a, <1>5, <2>3 DEF Take
  <2>5. \A t : (TaskReady(t)' <=> TaskReady(t)) /\ (CheckThrows(t)' <=> CheckThrows(t))
    BY <2>1, <2>4 DEF TaskReady, CheckThrows, BarriersBlock, BarriersThrow, PollsBlock
  <2>6. /\ slots'[s].task = slots[s].task /\ slots'[s].state = "RUNNING"
        /\ \A r \in SlotNos : r # s => slots'[r] = slots[r]
    BY <1>a, <1>0, <1>5, SlotState DEF Take, States
  <2>7. \A r \in SlotNos : Hopeless(r) => Hopeless(r)'
    BY <2>5, <2>6 DEF Hopeless
  <2>8. SoundPause(w) /\ InPause(w)
    BY <1>2, <2>2 DEF InPause
  <2>9. Passed(w)' = Passed(w)
    BY <1>a, <1>1, <2>1 DEF Passed
  <2> QED BY <1>1, <2>1, <2>2, <2>4, <2>5, <2>6, <2>7, <2>8, <2>9
      DEF SoundPause, Looks, WorkerAt, Passed
<1>6. CASE (Skip(w) \/ PutBack(w))
  <2>1. /\ worker[w].pc \in {"scan", "putback"} /\ Advance(w)
        /\ UNCHANGED <<part, done, failed, exit, pause, idle, main>>
    BY <1>6 DEF Skip, PutBack, WorkerAt
  <2>2. /\ worker'[w].search = worker[w].search /\ worker'[w].next = n
        /\ \/ worker'[w].pc = "scan" /\ IncWrap(s) # n /\ worker'[w].it = IncWrap(s)
           \/ worker'[w].pc = "none" /\ IncWrap(s) = n
    BY <1>a, <2>1, Advances DEF Steps
  <2>3. Looks(w) /\ SoundPause(w)
    BY <1>2, <2>1, <2>2 DEF InPause, Looks, WorkerAt
  <2>4. \A t : (TaskReady(t)' <=> TaskReady(t)) /\ (CheckThrows(t)' <=> CheckThrows(t))
    BY <2>1 DEF TaskReady, CheckThrows, BarriersBlock, BarriersThrow, PollsBlock
  <2>5. /\ slots'[s].task = slots[s].task
        /\ \A r \in SlotNos : r # s => slots'[r] = slots[r]
        /\ worker[w].pc = "scan" => slots' = slots /\ slots[s].state # "WAITING"
    BY <1>a, <1>0, <1>6, SlotState DEF Skip, PutBack, WorkerAt, States
  <2>6. Hopeless(s)'
    BY <1>a, <2>1, <2>3, <2>4, <2>5 DEF Hopeless, SoundPause, WorkerAt
  <2>7. \A r \in SlotNos : Hopeless(r) => Hopeless(r)'
    BY <2>4, <2>5, <2>6 DEF Hopeless
  <2>8. \A r \in Passed(w) : Hopeless(r)
    BY <2>1, <2>3 DEF SoundPause
  <2>9. CASE worker'[w].pc = "none"
    <3>1. \A r \in SlotNos : r # s => r \in Passed(w)
      BY <1>a, <1>0, <2>2, <2>9, SearchOrder DEF Passed
    <3>2. \A r \in SlotNos : Hopeless(r)'
      BY <2>6, <2>7, <2>8, <3>1
    <3> QED BY <1>1, <2>1, <2>3, <2>9, <3>2 DEF SoundPause, Looks, WorkerAt
  <2>10. CASE worker'[w].pc = "scan"
    <3>1. \A r \in SlotNos : r # s /\ ~Ahead(IncWrap(s), n, r) => r \in Passed(w)
      BY <1>a, <1>0, <2>2, <2>10, SearchOrder DEF Passed
    <3>2. \A r \in Passed(w)' : r \in SlotNos /\ ~Ahead(IncWrap(s), n, r)
      BY <1>1, <2>2, <2>10 DEF Passed
    <3>3. \A r \in Passed(w)' : Hopeless(r)'
      BY <2>6, <2>7, <2>8, <3>1, <3>2
    <3> QED BY <1>1, <2>1, <2>3, <2>10, <3>3 DEF SoundPause, Looks, WorkerAt
  <2> QED BY <2>2, <2>9, <2>10
<1>7. CASE FoundNone(w)
  <2>1. /\ worker[w].pc = "none" /\ UNCHANGED <<slots, part, done, failed, exit, main>>
    BY <1>7 DEF FoundNone, WorkerAt
  <2>2. /\ worker[w].search = "pause" /\ ~exit /\ WorkerGoes(w, "asleep")
        /\ pause' = [pause EXCEPT !.owner = Nobody, !.notified = FALSE] /\ idle' = idle
    BY <1>3, <1>4, <1>7 DEF FoundNone, InPause, Looks, WorkerAt, WorkerPcs
  <2>3. worker'[w].pc = "asleep"
    BY <1>4, <2>2 DEF WorkerPcs
  <2>4. Looks(w) /\ SoundPause(w)
    BY <1>2, <2>1, <2>2 DEF InPause, Looks, WorkerAt
  <2>5. \A r \in SlotNos : Hopeless(r)'
    BY <2>1, <2>4 DEF SoundPause, WorkerAt, Hopeless, TaskReady, CheckThrows, BarriersBlock,
       BarriersThrow, PollsBlock
  <2> QED BY <1>1, <2>1, <2>2, <2>3, <2>4, <2>5 DEF SoundPause, Looks, WorkerAt
<1>8. CASE Pause(w) \/ Wake(w)
  <2>1. /\ UNCHANGED <<slots, part, done, failed, exit, idle, main>>
        /\ worker[w].pc \in {"pause", "asleep"}
    BY <1>8 DEF Pause, Wake, WorkerAt
  <2>2. /\ Search(w, "pause") /\ pause'.owner = w
        /\ idle = w /\ \A v \in Workers \ {w} : WorkerAt(v, "lock")
    <3>1. ~WorkerGoes(w, "idle")
      BY <1>4 DEF InPause, Looks, WorkerAt, WorkerPcs
    <3>2. CASE Pause(w)
      <4>1. OthersWaiting(w) /\ WorkerAt(w, "pause") /\ ~WorkerAt(w, "lock")
        BY <3>1, <3>2 DEF Pause, WorkerAt
      <4>2. \A v \in Workers \ {w} : WorkerAt(v, "lock")
        BY <4>1, AllOthersWait
      <4> QED BY <1>0, <3>2, <4>1, <4>2 DEF Pause, SleepInv, PauseRec
    <3>3. CASE Wake(w)
      <4>1. WorkerAt(w, "asleep")
        BY <3>3 DEF Wake
      <4> QED BY <1>0, <1>2, <3>1, <3>3, <4>1 DEF Wake, InPause, SoundPause, PauseRec
    <3> QED BY <1>8, <3>2, <3>3
  <2>3. /\ worker'[w].pc = "scan" /\ worker'[w].search = "pause"
        /\ worker'[w].it = n /\ worker'[w].next = n
    BY <1>3, <2>2
  <2>4. Passed(w)' = {}
    BY <1>0, <1>1, <2>3, SearchOrder DEF Passed
  <2> QED BY <1>1, <2>1, <2>2, <2>3, <2>4 DEF SoundPause, Looks, WorkerAt
<1>9. CASE Top(w) \/ IdleTop(w) \/ LockIdle(w) \/ Found(w)
  BY <1>3, <1>4, <1>9 DEF Top, IdleTop, LockIdle, Found, WorkerPcs, InPause, Looks, WorkerAt
<1>10. CASE Process(w)
  <2>1. worker'[w].pc \in {"top", "unlock", "fail", "decrement", "free", "failCounter", "failDecrement", "failFree"}
    BY <1>4, <1>10, Nexts DEF Process, Run, Unlock, Decrement, Free, FailDone, FailCounter,
       FailDecrement, FailFree, WorkerPcs, Steps
  <2> QED BY <2>1 DEF InPause, Looks, WorkerAt
<1> QED BY <1>5, <1>6, <1>7, <1>8, <1>9, <1>10 DEF Worker, Spurious, Notified

LEMMA SleepByWorker ==
  ASSUME Shape, SlotExclusive, SleepInv, NEW w \in Workers, Worker(w) \/ Spurious(w), Effect(w)
  PROVE  SleepInv'
<1>0. /\ main' = main /\ w # Nobody /\ w # MainThread /\ MainThread # Nobody
      /\ \A v \in Workers : v # Nobody
      /\ \A v \in Workers : v # w => worker'[v] = worker[v]
  BY PoolAssumption DEF Effect, Workers, Nobody, MainThread
<1>1. ASSUME NEW u \in Workers, u # w, InPause(u) PROVE FALSE
  <2>1. idle = u /\ WorkerAt(w, "lock")
    BY <1>1 DEF SleepInv, SoundPause
  <2>2. LockIdle(w)
    BY <2>1 DEF Worker, Spurious, Notified, Take, Skip, PutBack, Top, IdleTop, FoundNone, Pause,
       Wake, Found, Process, Run, Unlock, Decrement, Free, FailDone, FailCounter, FailDecrement,
       FailFree, WorkerAt
  <2> QED BY <1>0, <2>1, <2>2 DEF LockIdle
<1>2. ASSUME NEW u \in Workers, InPause(u)' PROVE SoundPause(u)'
  <2>1. CASE u = w
    BY <1>2, <2>1, PauseSteps
  <2>2. CASE u # w
    <3>1. InPause(u)
      BY <1>0, <1>2, <2>2 DEF InPause, Looks, WorkerAt
    <3> QED BY <1>1, <2>2, <3>1
  <2> QED BY <2>1, <2>2
<1>3. ASSUME NEW u \in Workers, WorkerAt(u, "pause")' PROVE idle' = u
  <2>1. CASE u # w
    <3>1. idle = u
      BY <1>0, <1>3, <2>1 DEF SleepInv, WorkerAt
    <3> QED BY <1>0, <2>1, <3>1, LockSteps
  <2>2. CASE u = w
    <3>1. FoundNone(w) /\ WorkerGoes(w, "pause")
      <4>1. \A st \in {"first", "again", "idle", "pause"} : ~Search(w, st)
        BY <1>3, <2>2, Searches DEF WorkerAt, Steps
      <4>2. \A pc \in WorkerPcs : WorkerGoes(w, pc) => pc = "pause"
        BY <1>3, <2>2, Goes DEF WorkerAt, Steps
      <4>3. ~Advance(w) /\ ~NextFrom(w)
        BY <1>3, <2>2, Advances, Nexts DEF WorkerAt, Steps
      <4>4. ~(Skip(w) \/ PutBack(w) \/ Top(w) \/ IdleTop(w) \/ LockIdle(w) \/ Pause(w) \/ Wake(w))
        BY <4>1, <4>2, <4>3 DEF Skip, PutBack, Top, IdleTop, LockIdle, Pause, Wake, WorkerPcs
      <4>5. ~(Take(w) \/ Found(w) \/ Process(w))
        BY <4>2, <4>3 DEF Take, Found, Process, Run, Unlock, Decrement, Free, FailDone, FailCounter,
           FailDecrement, FailFree, WorkerPcs
      <4>6. FoundNone(w)
        BY <4>4, <4>5 DEF Worker, Spurious, Notified
      <4> QED BY <4>1, <4>2, <4>6 DEF FoundNone, WorkerPcs
    <3>2. idle = w /\ idle' = idle
      <4>1. /\ ~WorkerGoes(w, "idle") /\ ~WorkerGoes(w, "lock") /\ ~WorkerGoes(w, "exited")
            /\ ~WorkerGoes(w, "asleep") /\ \A st \in {"first", "again", "idle", "pause"} : ~Search(w, st)
        BY <1>3, <2>2, Goes, Searches DEF WorkerAt, Steps, WorkerPcs
      <4> QED BY <3>1, <4>1 DEF FoundNone
    <3> QED BY <2>2, <3>2
  <2> QED BY <2>1, <2>2
<1>4. main'.pc = "notify" => pause'.owner = MainThread
  BY <1>0, LockSteps DEF SleepInv
<1> QED BY <1>2, <1>3, <1>4 DEF SleepInv

LEMMA SleepByMain ==
  ASSUME Shape, SlotExclusive, SleepInv, Main \/ Close, MainEffect
  PROVE  SleepInv'
<1>0. /\ MainThread # Nobody /\ \A v \in Workers : v # Nobody /\ v # MainThread
      /\ pause \in PauseRec /\ main.it \in SlotNos
      /\ main \in [pc : MainPcs, task : 1..NumTasks + 1, it : Nat, fill : Nat]
  BY PoolAssumption DEF Workers, Nobody, MainThread, Shape, PauseRec
<1>1. /\ UNCHANGED <<worker, part, done, failed, idle>> /\ SlotNos \subseteq SlotNos'
      /\ \A t : (TaskReady(t)' <=> TaskReady(t)) /\ (CheckThrows(t)' <=> CheckThrows(t))
      /\ \A w : (Looks(w)' <=> Looks(w)) /\ (InPause(w)' <=> InPause(w))
      /\ \A w, pc : WorkerAt(w, pc)' <=> WorkerAt(w, pc)
  BY DEF MainEffect, TaskReady, CheckThrows, BarriersBlock, BarriersThrow, PollsBlock,
     Looks, InPause, WorkerAt
<1>2. \/ pause' = pause /\ ~Publish /\ ~Notify
      \/ Publish
      \/ Notify
      \/ Unpause
  BY DEF Main, Close, ShutsDown, Claim, Count, Publish, Notify, Wait, Shutdown, Unpause, Join, MainAt
<1>3. Publish => pause.owner = Nobody /\ pause'.owner = MainThread /\ main'.pc = "notify"
  BY <1>0 DEF Publish, PauseRec, MainGoes
<1>4. Notify => pause.owner = MainThread /\ pause'.notified /\ main'.pc # "notify"
  BY <1>0 DEF Notify, SleepInv, MainAt, Unpaused
<1>5. Unpause => pause.owner = Nobody /\ pause'.notified /\ main'.pc # "notify" /\ pause'.owner = Nobody
  BY <1>0 DEF Unpause, MainGoes, Unpaused
<1>6. main'.pc = "notify" => pause'.owner = MainThread
  <2>1. ~Publish /\ ~Notify => (main'.pc = "notify" => FALSE)
    BY <1>0 DEF Main, Close, ShutsDown, Claim, Count, Wait, Shutdown, Unpause, Join, MainAt, MainGoes
  <2> QED BY <1>3, <1>4, <2>1
(* Without Publish and Notify no slot comes to be WAITING. *)
<1>7. ASSUME ~Publish, NEW r \in SlotNos', slots'[r].state = "WAITING"
      PROVE  r \in SlotNos /\ slots'[r] = slots[r]
  <2>1. ~Adds
    <3>1. main.pc # "publish" \/ ~(Main \/ Close) \/ Publish
      BY DEF Main, Close, ShutsDown, Claim, Count, Notify, Wait, Shutdown, Unpause, Join, MainAt
    <3> QED BY <1>7, <3>1 DEF Adds
  <2>2. CASE Reserves
    BY <1>7, <2>2 DEF Reserves
  <2>3. CASE Counts \/ Notifies
    BY <1>7, <2>3 DEF Counts, Notifies, SlotNos
  <2>4. CASE Prepares
    BY <1>7, <2>4 DEF Prepares
  <2> QED BY <2>1, <2>2, <2>3, <2>4 DEF MainEffect
<1>8. ASSUME ~Publish, NEW r \in SlotNos', r \in SlotNos => Hopeless(r) PROVE Hopeless(r)'
  BY <1>1, <1>7, <1>8 DEF Hopeless
<1>9. ASSUME NEW w \in Workers, InPause(w) PROVE SoundPause(w)'
  <2>1. SoundPause(w)
    BY <1>9 DEF SleepInv
  <2>2. idle' = w /\ \A v \in Workers \ {w} : WorkerAt(v, "lock")'
    BY <1>1, <2>1 DEF SoundPause
  <2>3. CASE Looks(w)
    <3>1. pause' = pause /\ ~Publish /\ pause.owner = w
      BY <1>0, <1>2, <1>3, <1>4, <1>5, <2>1, <2>3 DEF SoundPause
    <3>2. ~WorkerAt(w, "asleep")
      BY <2>3 DEF Looks, WorkerAt
    <3>3. \A r \in Passed(w)' : r \in SlotNos => r \in Passed(w)
      BY <1>1 DEF Passed
    <3>4. worker[w].pc # "none" => \A r \in Passed(w)' : Hopeless(r)'
      <4>1. Passed(w)' \subseteq SlotNos'
        BY DEF Passed
      <4> QED BY <1>8, <2>1, <2>3, <3>1, <3>3, <4>1 DEF SoundPause
    <3>5. WorkerAt(w, "none") => \A r \in SlotNos' : Hopeless(r)'
      BY <1>8, <2>1, <2>3, <3>1 DEF SoundPause
    <3>6. WorkerAt(w, "putback") => slots'[worker[w].it] = slots[worker[w].it]
      <4>1. WorkerAt(w, "putback") => slots[worker[w].it].state = "RUNNING" /\ worker[w].it \in SlotNos
        BY DEF SlotExclusive, Holds, WorkerAt, Shape
      <4>2. \A r \in SlotNos : slots[r].state = "RUNNING" => slots'[r] = slots[r]
        BY DEF MainEffect, Reserves, Counts, Adds, Notifies, Prepares, SlotExclusive
      <4> QED BY <4>1, <4>2
    <3> QED BY <1>1, <2>1, <2>2, <2>3, <3>1, <3>2, <3>4, <3>5, <3>6 DEF SoundPause
  <2>4. CASE WorkerAt(w, "asleep")
    <3>1. ~Looks(w) /\ ~WorkerAt(w, "none") /\ ~WorkerAt(w, "putback")
      BY <2>4 DEF Looks, WorkerAt
    <3>2. ASSUME ~pause'.notified
          PROVE  /\ main'.pc # "notify" => \A r \in SlotNos' : Hopeless(r)'
                 /\ exit' => main'.pc = "unpause"
      <4>1. (pause' = pause /\ ~Notify /\ ~Unpause) \/ Publish
        BY <1>2, <1>4, <1>5, <3>2
      <4>2. CASE Publish
        BY <1>3, <2>1, <2>4, <3>2, <4>2 DEF Publish, SoundPause, MainAt, PauseRec
      <4>3. CASE pause' = pause /\ ~Notify /\ ~Unpause /\ ~Publish
        <5>1. main.pc # "notify"
          BY <4>3 DEF Main, Close, ShutsDown, Claim, Count, Wait, Shutdown, Join, MainAt
        <5>2. \A r \in SlotNos' : Hopeless(r)'
          BY <1>8, <2>1, <2>4, <3>2, <4>3, <5>1 DEF SoundPause
        <5>3. exit' => main'.pc = "unpause"
          <6>1. CASE ShutsDown
            BY <1>0, <6>1 DEF ShutsDown, MainGoes
          <6>2. CASE ~ShutsDown
            <7>1. exit' = exit /\ main.pc # "unpause"
              BY <4>3, <6>2 DEF Main, Close, Claim, Count, Wait, Shutdown, Join, MainAt
            <7> QED BY <2>1, <2>4, <3>2, <4>3, <7>1 DEF SoundPause
          <6> QED BY <6>1, <6>2
        <5> QED BY <5>2, <5>3
      <4> QED BY <4>1, <4>2, <4>3
    <3> QED BY <1>1, <2>2, <2>4, <3>1, <3>2 DEF SoundPause
  <2> QED BY <1>9, <2>3, <2>4 DEF InPause
<1>10. \A w \in Workers : WorkerAt(w, "pause")' => idle' = w
  BY <1>1 DEF SleepInv
<1> QED BY <1>1, <1>6, <1>9, <1>10 DEF SleepInv

LEMMA SleepInitial == PoolInit => SleepInv
<1> SUFFICES ASSUME PoolInit PROVE SleepInv
  OBVIOUS
<1>1. /\ \A w \in Workers : worker[w].pc = "scan" /\ worker[w].search = "first"
      /\ main.pc = "claim"
  BY DEF PoolInit
<1> QED BY <1>1 DEF SleepInv, InPause, Looks, WorkerAt

LEMMA SleepInductive == PoolInv /\ SleepInv /\ [PoolNext]_poolVars => SleepInv'
<1> SUFFICES ASSUME PoolInv, SleepInv, [PoolNext]_poolVars PROVE SleepInv'
  OBVIOUS
<1>1. ASSUME NEW w \in Workers, Worker(w) \/ Spurious(w) PROVE SleepInv'
  BY <1>1, WorkerSteps, SleepByWorker DEF PoolInv
<1>2. CASE Main \/ Close
  BY <1>2, MainSteps, SleepByMain DEF PoolInv
<1>3. CASE UNCHANGED poolVars
  <2>1. /\ SlotNos' = SlotNos /\ worker' = worker /\ main' = main /\ idle' = idle
        /\ pause' = pause /\ exit' = exit /\ slots' = slots
        /\ \A t : (TaskReady(t)' <=> TaskReady(t)) /\ (CheckThrows(t)' <=> CheckThrows(t))
    BY <1>3 DEF poolVars, SlotNos, TaskReady, CheckThrows, BarriersBlock, BarriersThrow, PollsBlock
  <2>2. /\ \A w : (InPause(w)' <=> InPause(w)) /\ (Looks(w)' <=> Looks(w)) /\ Passed(w)' = Passed(w)
        /\ \A w, pc : WorkerAt(w, pc)' <=> WorkerAt(w, pc)
    BY <2>1 DEF InPause, Looks, Passed, WorkerAt
  <2>3. \A s : Hopeless(s)' <=> Hopeless(s)
    BY <2>1 DEF Hopeless
  <2>4. ASSUME NEW w \in Workers, SoundPause(w) PROVE SoundPause(w)'
    BY <2>1, <2>2, <2>3, <2>4 DEF SoundPause
  <2> QED BY <2>1, <2>2, <2>4 DEF SleepInv
<1> QED BY <1>1, <1>2, <1>3 DEF PoolNext

LEMMA PoolInvariant == PoolSpec => [](PoolInv /\ SleepInv)
<1>1. PoolInit => PoolInv /\ SleepInv
  BY PoolInitial, SleepInitial
<1>2. (PoolInv /\ SleepInv) /\ [PoolNext]_poolVars => (PoolInv /\ SleepInv)'
  BY PoolInductive, SleepInductive
<1> QED BY <1>1, <1>2, PTL DEF PoolSpec

LEMMA SlotDomain ==
  ASSUME Shape
  PROVE  DOMAIN slots = SlotNos
  BY LenProperties DEF Shape, SlotNos

-----------------------------------------------------------------------------
(* The variables keep their types; in particular every slot position that  *)
(* a thread keeps stays inside the queue, also while addBarrierTask makes  *)
(* it longer.                                                              *)
THEOREM PoolTypeCorrect == PoolSpec => []PoolTypeOK
<1>1. Shape => PoolTypeOK
  BY SlotDomain DEF Shape, PoolTypeOK, Slot, States, WorkerRec, MainPcs
<1> QED BY <1>1, PoolInvariant, PTL DEF PoolInv

(* A slot that findNextTask or addBarrierTask has won by its compare and   *)
(* exchange belongs to that thread until the thread gives it back: no task *)
(* is ever run by two threads, and no task is written over another.        *)
THEOREM SlotsStayExclusive == PoolSpec => []SlotExclusive
  BY PoolInvariant, PTL DEF PoolInv

(* WaitCounter::m_count is the number of the tasks that are counted and    *)
(* not counted down, in spite of exceptions and of slots that are freed    *)
(* later than their task is counted down.                                  *)
THEOREM CounterAlwaysExact == PoolSpec => []CounterExact
<1>1. Shape /\ CountInv => CounterExact
  <2> SUFFICES ASSUME Shape, CountInv PROVE CounterExact
    OBVIOUS
  <2> DEFINE C == {s \in DOMAIN slots :
                     /\ slots[s].state \in {"WAITING", "RUNNING"}
                     /\ ~\E w \in Workers : worker[w].it = s /\ worker[w].pc \in {"free", "failFree"}}
  <2>1. C = CountedSlots
    BY SlotDomain DEF CountedSlots, Active, Freeing
  <2>2. count = Cardinality(C) + IF main.pc = "publish" THEN 1 ELSE 0
    BY <2>1 DEF CountInv
  <2> QED BY <2>2 DEF CounterExact
<1> QED BY <1>1, PoolInvariant, PTL DEF PoolInv

(* WaitCounter::wait_nothrow returns only when no thread is inside a task  *)
(* any more and every task that was added has told its done barrier how it *)
(* ended, with or without exceptions.                                      *)
THEOREM WaitAlwaysMeansCleared == PoolSpec => []WaitMeansCleared
<1>1. PoolInv => WaitMeansCleared
  <2> SUFFICES ASSUME PoolInv, main.pc = "cleared" PROVE WaitMeansCleared
    BY DEF WaitMeansCleared
  <2>1. CountedSlots = {}
    <3>1. IsFiniteSet(CountedSlots) /\ Cardinality(CountedSlots) \in Nat
      BY CountedFinite DEF PoolInv
    <3>2. Cardinality(CountedSlots) <= 0
      BY <3>1 DEF PoolInv, CountInv
    <3>3. Cardinality(CountedSlots) = 0
      BY <3>1, <3>2
    <3> QED BY <3>1, <3>3, FS_EmptySet
  <2>2. ASSUME NEW w \in Workers, Executes(w) PROVE FALSE
    <3> DEFINE s == worker[w].it
    <3>1. s \in SlotNos /\ slots[s].state = "RUNNING"
      BY <2>2 DEF PoolInv, Shape, SlotExclusive, Holds, Executes
    <3>2. \A v \in Workers : worker[v].it = s /\ Freeing(v) => v = w
      BY <2>2 DEF PoolInv, SlotExclusive, Holds, Executes, Freeing
    <3>3. ~Freeing(w)
      BY <2>2 DEF Executes, Freeing
    <3> QED BY <2>1, <3>1, <3>2, <3>3 DEF CountedSlots, Active
  <2>3. ASSUME NEW t \in Tasks, t < main.task PROVE done[t] # "locked"
    <3>1. \A s \in SlotNos : ~Pending(s)
      BY <2>1 DEF CountedSlots, Pending, Freeing, Ended
    <3> QED BY <2>3, <3>1 DEF PoolInv, TaskInv, Published
  <2> QED BY <2>2, <2>3 DEF WaitMeansCleared
<1> QED BY <1>1, PoolInvariant, PTL

(* No task is called before all the barriers it was added with are open:   *)
(* checkTaskReady throws the barriers away once it has seen them open, and *)
(* nothing ever closes one again or turns it into an error.                *)
THEOREM NothingEverRunsEarly == PoolSpec => []NothingRunsEarly
  BY PoolInvariant, PTL DEF PoolInv

(* The thread pool never sleeps on work: when the last thread waits for    *)
(* m_allThreadsWaitingCV and nobody is about to notify it, no queued task  *)
(* is ready or could throw, and no thread is asked to leave.               *)
THEOREM NoWakeupLost == PoolSpec => []NoLostWakeup
<1>1. PoolInv /\ SleepInv => NoLostWakeup
  <2> SUFFICES ASSUME PoolInv, SleepInv, main.pc \notin {"notify", "unpause"},
                      NEW w \in Workers, WorkerAt(w, "asleep"), ~pause.notified
               PROVE  /\ \A s \in DOMAIN slots : Hopeless(s)
                      /\ ~exit
    BY DEF NoLostWakeup, Hopeless
  <2>1. SoundPause(w)
    BY DEF SleepInv, InPause
  <2> QED BY <2>1, SlotDomain DEF SoundPause, PoolInv
<1> QED BY <1>1, PoolInvariant, PTL
=============================================================================
