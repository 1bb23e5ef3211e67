----------------------------- MODULE ThreadPool -----------------------------
(***************************************************************************)
(* The multi-threaded ThreadPool: one thread that adds tasks, waits for    *)
(* their WaitCounter and shuts the pool down, and the workers, which share *)
(* the chunked task queue without a lock.  A step is one access to an      *)
(* atomic, or one critical section; the steps are those of threadProc,     *)
(* findNextTask, processTask, addBarrierTask and PoolPause.                *)
(*                                                                         *)
(* The tasks are abstract: task t has a vector of barriers (the done       *)
(* barriers of Barriers[t]), and its function can give up the worker once  *)
(* and be called again, after its readyCheck has seen the results it polls *)
(* for (Polls[t]), the way ctuTask does.  All tasks count in one           *)
(* WaitCounter, and a task that polls throws when that counter has an      *)
(* exception, as ctuTask does.  The busy-waiting times are abstract: every *)
(* time a thread compares the clock, both outcomes are possible.           *)
(***************************************************************************)
EXTENDS Integers, Sequences, FiniteSets

CONSTANTS
  NumThreads,  \* workers of the pool
  NumTasks,    \* tasks the adding thread adds, in the order of their numbers
  Barriers,    \* t -> the tasks whose done barriers are in the barrier vector of t
  Polls,       \* t -> the tasks whose results the second part of t asks for
  MayThrow,    \* tasks whose function can throw
  ChunkSize,   \* ChunkedTaskQueue::ChunkSize
  MayClose,    \* the pool may be shut down while tasks are queued (DecLib::destroy)
  SpuriousWakeups  \* the condition variable may return without a notification

Workers == 1..NumThreads
Tasks   == 1..NumTasks
Nobody  == 0

ASSUME PoolAssumption ==
  /\ NumThreads \in Nat \ {0} /\ NumTasks \in Nat \ {0} /\ ChunkSize \in Nat \ {0}
  /\ Barriers \in [Tasks -> SUBSET Tasks] /\ Polls \in [Tasks -> SUBSET Tasks]
  /\ MayThrow \subseteq Tasks
  /\ MayClose \in BOOLEAN /\ SpuriousWakeups \in BOOLEAN

VARIABLES
  slots,   \* ChunkedTaskQueue: the state of every slot and the task it was given last
  part,    \* what is left of a task: its barriers, its first call, its polled part
  done,    \* the done barrier of a task: locked, open, error
  count, failed,  \* WaitCounter::m_count and whether m_done has an exception
  exit,    \* m_exitThreads
  pause,   \* PoolPause: owner of the mutex, m_allThreadsWaiting, a sleeper was notified
  idle,    \* owner of m_idleMutex
  main,    \* the adding thread: pc, task to add, slot it looks at, m_nextFillSlot
  worker   \* a worker: pc, the search it is in, nextTaskIt, the slot it looks at

poolVars == <<slots, part, done, count, failed, exit, pause, idle, main, worker>>

Chunk == [s \in 1..ChunkSize |-> [state |-> "FREE", task |-> 0]]

PoolInit ==
  /\ slots = Chunk
  /\ part = [t \in Tasks |-> "barriers"]
  /\ done = [t \in Tasks |-> "locked"]
  /\ count = 0 /\ failed = FALSE /\ exit = FALSE
  /\ pause = [owner |-> Nobody, all |-> FALSE, notified |-> FALSE]
  /\ idle = Nobody
  /\ main = [pc |-> "claim", task |-> 1, it |-> 1, fill |-> 1]
  /\ worker = [w \in Workers |-> [pc |-> "scan", search |-> "first", next |-> 1, it |-> 1]]

-----------------------------------------------------------------------------
IncWrap(s) == IF s < Len(slots) THEN s + 1 ELSE 1

WorkerAt(w, pc)   == worker[w].pc = pc
WorkerGoes(w, pc) == worker' = [worker EXCEPT ![w].pc = pc]
SlotBecomes(s, st) == slots' = [slots EXCEPT ![s].state = st]
TaskOf(w) == slots[worker[w].it].task

MainAt(pc)   == main.pc = pc
MainGoes(pc) == main' = [main EXCEPT !.pc = pc]
MainThread == NumThreads + 1      \* as an owner of the pause mutex

-----------------------------------------------------------------------------
(* addBarrierTask.  The search for a free slot starts at m_nextFillSlot;   *)
(* when it comes round without one the queue grows by a chunk.             *)

Claim ==
  /\ MainAt("claim")
  /\ IF slots[main.it].state = "FREE"
     THEN /\ SlotBecomes(main.it, "PREPARING")
          /\ MainGoes("count")
     ELSE IF IncWrap(main.it) # main.fill
     THEN /\ main' = [main EXCEPT !.it = IncWrap(main.it)]
          /\ UNCHANGED slots
     ELSE /\ slots' = slots \o Chunk
          /\ main' = [main EXCEPT !.it = Len(slots) + 1, !.fill = Len(slots) + 1]
  /\ UNCHANGED <<part, done, count, failed, exit, pause, idle, worker>>

(* WaitCounter::operator++ rethrows an exception before it counts; the     *)
(* caller then waits for the tasks it has added (cleanupOnException).      *)
Count ==
  /\ MainAt("count")
  /\ IF failed THEN MainGoes("wait") /\ UNCHANGED count
               ELSE MainGoes("publish") /\ count' = count + 1
  /\ UNCHANGED <<slots, part, done, failed, exit, pause, idle, worker>>

PublishUnlocked ==                                   \* fault: without acquireLock
  /\ MainAt("publish")
  /\ slots' = [slots EXCEPT ![main.it] = [state |-> "WAITING", task |-> main.task]]
  /\ MainGoes("notify")
  /\ UNCHANGED <<part, done, count, failed, exit, pause, idle, worker>>

Publish ==
  /\ MainAt("publish")
  /\ pause.owner = Nobody
  /\ pause' = [pause EXCEPT !.owner = MainThread]
  /\ slots' = [slots EXCEPT ![main.it] = [state |-> "WAITING", task |-> main.task]]
  /\ MainGoes("notify")
  /\ UNCHANGED <<part, done, count, failed, exit, idle, worker>>

Unpaused == [owner |-> IF pause.owner = MainThread THEN Nobody ELSE pause.owner,
             all |-> FALSE, notified |-> TRUE]

(* unpauseIfPaused, the end of the critical section, and the next call.    *)
Notify ==
  /\ MainAt("notify")
  /\ pause' = Unpaused
  /\ LET fill == IncWrap(main.fill) IN
       main' = [pc   |-> IF main.task = NumTasks THEN "wait" ELSE "claim",
                task |-> main.task + 1, it |-> fill, fill |-> fill]
  /\ UNCHANGED <<slots, part, done, count, failed, exit, idle, worker>>

(* WaitCounter::wait_nothrow.                                              *)
WaitFault ==                                         \* fault: wait() instead of wait_nothrow()
  /\ MainAt("wait")
  /\ count <= 0 \/ failed
  /\ MainGoes("cleared")
  /\ UNCHANGED <<slots, part, done, count, failed, exit, pause, idle, worker>>

Wait ==
  /\ MainAt("wait")
  /\ count <= 0
  /\ MainGoes("cleared")
  /\ UNCHANGED <<slots, part, done, count, failed, exit, pause, idle, worker>>

(* shutdown(true): the flag, then unpauseIfPaused, then the joins.         *)
ShutsDown ==
  /\ exit' = TRUE
  /\ MainGoes("unpause")
  /\ UNCHANGED <<slots, part, done, count, failed, pause, idle, worker>>

Shutdown == MainAt("cleared") /\ ShutsDown

(* DecLib::destroy while tasks are queued or running.                      *)
Close == MayClose /\ (MainAt("claim") \/ MainAt("wait")) /\ ShutsDown

Unpause ==
  /\ MainAt("unpause")
  /\ pause.owner = Nobody
  /\ pause' = Unpaused
  /\ MainGoes("join")
  /\ UNCHANGED <<slots, part, done, count, failed, exit, idle, worker>>

Join ==
  /\ MainAt("join")
  /\ \A w \in Workers : WorkerAt(w, "exited")
  /\ MainGoes("joined")
  /\ UNCHANGED <<slots, part, done, count, failed, exit, pause, idle, worker>>

Main == Claim \/ Count \/ Publish \/ Notify \/ Wait \/ Shutdown \/ Unpause \/ Join

-----------------------------------------------------------------------------
(* checkTaskReady.  Barrier::isBlocked rethrows, and no barrier is left    *)
(* out; the vector is cleared once none is blocked, so that a task that    *)
(* has begun never looks at its barriers again.                            *)

BarriersBlock(t) == part[t] = "barriers" /\ \E b \in Barriers[t] : done[b] = "locked"
PollsBlock(t)    == part[t] = "rest" /\ \E p \in Polls[t] : done[p] # "open"

BarriersThrow(t) == part[t] = "barriers" /\ \E b \in Barriers[t] : done[b] = "error"

CheckThrows(t) == \/ BarriersThrow(t)
                  \/ ~BarriersBlock(t) /\ Polls[t] # {} /\ failed

TaskReadyFault(t) == ~CheckThrows(t) /\ ~PollsBlock(t)   \* fault: only the ready check is asked

TaskReady(t) == ~CheckThrows(t) /\ ~BarriersBlock(t) /\ ~PollsBlock(t)

(* findNextTask at one slot: compare_exchange WAITING -> RUNNING, then the *)
(* check.  Until the slot is given back no other thread sees the task.     *)
Take(w) ==
  LET s == worker[w].it
      t == slots[s].task
  IN
  /\ WorkerAt(w, "scan")
  /\ slots[s].state = "WAITING"
  /\ SlotBecomes(s, "RUNNING")
  /\ IF CheckThrows(t) THEN WorkerGoes(w, "fail") /\ UNCHANGED part
     ELSE IF TaskReady(t)
     THEN WorkerGoes(w, "found") /\ part' = [part EXCEPT ![t] = IF @ = "barriers" THEN "call" ELSE @]
     ELSE WorkerGoes(w, "putback") /\ UNCHANGED part
  (* TaskException leaves the idle loop: both locks are given back *)
  /\ idle' = IF CheckThrows(t) /\ idle = w THEN Nobody ELSE idle
  /\ pause' = IF (CheckThrows(t) \/ TaskReady(t)) /\ pause.owner = w
              THEN [pause EXCEPT !.owner = Nobody] ELSE pause
  /\ UNCHANGED <<done, count, failed, exit, main>>

(* it.incWrap(); the search ends where it started.                         *)
Advance(w) ==
  LET r == worker[w] IN
  worker' = [worker EXCEPT ![w] =
    IF IncWrap(r.it) # r.next THEN [r EXCEPT !.pc = "scan", !.it = IncWrap(r.it)]
    ELSE [r EXCEPT !.pc = "none", !.it = r.next]]

Skip(w) ==
  /\ WorkerAt(w, "scan")
  /\ slots[worker[w].it].state # "WAITING"
  /\ Advance(w)
  /\ UNCHANGED <<slots, part, done, count, failed, exit, pause, idle, main>>

PutBackFault(w) ==                                    \* fault: an unready task is not rescheduled
  /\ WorkerAt(w, "putback")
  /\ Advance(w)
  /\ UNCHANGED <<slots, part, done, count, failed, exit, pause, idle, main>>

PutBack(w) ==
  /\ WorkerAt(w, "putback")
  /\ SlotBecomes(worker[w].it, "WAITING")
  /\ Advance(w)
  /\ UNCHANGED <<part, done, count, failed, exit, pause, idle, main>>

-----------------------------------------------------------------------------
(* threadProc.  The two searches, then the idle loop.                      *)

Search(w, s) ==
  worker' = [worker EXCEPT ![w].pc = "scan", ![w].search = s, ![w].it = worker[w].next]

NextFrom(w) ==
  worker' = [worker EXCEPT ![w].pc = "top", ![w].next = IncWrap(worker[w].it)]

(* The head of the thread's loop.                                          *)
Top(w) ==
  /\ WorkerAt(w, "top")
  /\ IF exit THEN WorkerGoes(w, "exited") ELSE Search(w, "first")
  /\ UNCHANGED <<slots, part, done, count, failed, exit, pause, idle, main>>

(* The head of the idle loop.                                              *)
IdleTop(w) ==
  /\ WorkerAt(w, "idle")
  /\ IF exit THEN WorkerGoes(w, "exited") /\ idle' = IF idle = w THEN Nobody ELSE idle
             ELSE Search(w, "idle") /\ UNCHANGED idle
  /\ UNCHANGED <<slots, part, done, count, failed, exit, pause, main>>

OthersWaiting(w) == Cardinality({v \in Workers : WorkerAt(v, "lock")}) >= NumThreads - 1

(* A search in the idle loop found nothing.                                *)
FoundNone(w) ==
  /\ WorkerAt(w, "none")
  /\ \/ worker[w].search = "first" /\ Search(w, "again") /\ UNCHANGED <<pause, idle>>
     \/ worker[w].search = "again" /\ WorkerGoes(w, "idle") /\ UNCHANGED <<pause, idle>>
     \/ /\ worker[w].search = "idle" /\ exit
        /\ WorkerGoes(w, "exited")
        /\ idle' = IF idle = w THEN Nobody ELSE idle
        /\ UNCHANGED pause
     \/ /\ worker[w].search = "idle" /\ ~exit
        /\ WorkerGoes(w, "idle") \/ WorkerGoes(w, IF idle = w THEN "pause" ELSE "lock")
        /\ UNCHANGED <<pause, idle>>
     \/ /\ worker[w].search = "pause"                \* the predicate: taskIt.isValid() || m_exitThreads
        /\ WorkerGoes(w, IF exit THEN "idle" ELSE "asleep")
        /\ pause' = [pause EXCEPT !.owner = Nobody, !.notified = FALSE]
        /\ UNCHANGED idle
  /\ UNCHANGED <<slots, part, done, count, failed, exit, main>>

(* idleLock.lock(), counted in m_waitingForLockThreads until it returns.   *)
LockIdle(w) ==
  /\ WorkerAt(w, "lock")
  /\ idle = Nobody
  /\ idle' = w
  /\ WorkerGoes(w, "idle")
  /\ UNCHANGED <<slots, part, done, count, failed, exit, pause, main>>

(* pauseIfAllOtherThreadsWaiting up to the predicate's search.             *)
Pause(w) ==
  /\ WorkerAt(w, "pause")
  /\ IF OthersWaiting(w)
     THEN /\ pause.owner = Nobody
          /\ pause' = [pause EXCEPT !.owner = w, !.all = TRUE]
          /\ Search(w, "pause")
     ELSE WorkerGoes(w, "idle") /\ UNCHANGED pause
  /\ UNCHANGED <<slots, part, done, count, failed, exit, idle, main>>

(* m_allThreadsWaitingCV.wait returns or evaluates its predicate again.    *)
Wake(w) ==
  /\ WorkerAt(w, "asleep")
  /\ pause.owner = Nobody
  /\ IF ~pause.all THEN WorkerGoes(w, "idle") /\ UNCHANGED pause
     ELSE Search(w, "pause") /\ pause' = [pause EXCEPT !.owner = w]
  /\ UNCHANGED <<slots, part, done, count, failed, exit, idle, main>>

Notified(w) == pause.notified /\ Wake(w)
Spurious(w) == SpuriousWakeups /\ ~pause.notified /\ Wake(w)

(* The idle loop is left with a task, unless the pool is shutting down:    *)
(* then the thread returns and the slot stays RUNNING.                     *)
Found(w) ==
  /\ WorkerAt(w, "found")
  /\ idle' = IF idle = w THEN Nobody ELSE idle
  /\ WorkerGoes(w, IF exit THEN "exited" ELSE "run")
  /\ UNCHANGED <<slots, part, done, count, failed, exit, pause, main>>

-----------------------------------------------------------------------------
(* processTask and handleTaskException.                                    *)

Run(w) ==
  LET t == TaskOf(w) IN
  /\ WorkerAt(w, "run")
  /\ \/ (* done, in one call or in the second one *)
        /\ part[t] = "rest" \/ \A p \in Polls[t] : done[p] = "open"
        /\ WorkerGoes(w, "unlock")
        /\ UNCHANGED <<part, slots>>
     \/ (* not finished: back into the queue, and on to the next slot *)
        /\ part[t] = "call" /\ \E p \in Polls[t] : done[p] # "open"
        /\ part' = [part EXCEPT ![t] = "rest"]
        /\ SlotBecomes(worker[w].it, "WAITING")
        /\ NextFrom(w)
     \/ /\ t \in MayThrow \/ (Polls[t] # {} /\ failed)
        /\ WorkerGoes(w, "fail")
        /\ UNCHANGED <<part, slots>>
  /\ UNCHANGED <<done, count, failed, exit, pause, idle, main>>

UnlockFault(w) ==                                     \* fault: the slot is freed here already
  /\ WorkerAt(w, "unlock")
  /\ done' = [done EXCEPT ![TaskOf(w)] = "open"]
  /\ SlotBecomes(worker[w].it, "FREE")
  /\ WorkerGoes(w, "decrement")
  /\ UNCHANGED <<part, count, failed, exit, pause, idle, main>>

Unlock(w) ==
  /\ WorkerAt(w, "unlock")
  /\ done' = [done EXCEPT ![TaskOf(w)] = "open"]
  /\ WorkerGoes(w, "decrement")
  /\ UNCHANGED <<slots, part, count, failed, exit, pause, idle, main>>

Decrement(w) ==
  /\ WorkerAt(w, "decrement")
  /\ count' = count - 1
  /\ WorkerGoes(w, "free")
  /\ UNCHANGED <<slots, part, done, failed, exit, pause, idle, main>>

Free(w) ==
  /\ WorkerAt(w, "free")
  /\ SlotBecomes(worker[w].it, "FREE")
  /\ NextFrom(w)
  /\ UNCHANGED <<part, done, count, failed, exit, pause, idle, main>>

(* The done barrier, the counter's exception, the counter, the slot; the   *)
(* next search begins where this one did.                                  *)
FailDone(w) ==
  /\ WorkerAt(w, "fail")
  /\ done' = [done EXCEPT ![TaskOf(w)] = "error"]
  /\ WorkerGoes(w, "failCounter")
  /\ UNCHANGED <<slots, part, count, failed, exit, pause, idle, main>>

FailCounter(w) ==
  /\ WorkerAt(w, "failCounter")
  /\ failed' = TRUE
  /\ WorkerGoes(w, "failDecrement")
  /\ UNCHANGED <<slots, part, done, count, exit, pause, idle, main>>

FailDecrementFault(w) ==                              \* fault: a failed task stays counted
  /\ WorkerAt(w, "failDecrement")
  /\ WorkerGoes(w, "failFree")
  /\ UNCHANGED <<slots, part, done, count, failed, exit, pause, idle, main>>

FailDecrement(w) ==
  /\ WorkerAt(w, "failDecrement")
  /\ count' = count - 1
  /\ WorkerGoes(w, "failFree")
  /\ UNCHANGED <<slots, part, done, failed, exit, pause, idle, main>>

FailFree(w) ==
  /\ WorkerAt(w, "failFree")
  /\ SlotBecomes(worker[w].it, "FREE")
  /\ WorkerGoes(w, "top")
  /\ UNCHANGED <<part, done, count, failed, exit, pause, idle, main>>

Process(w) == \/ Run(w) \/ Unlock(w) \/ Decrement(w) \/ Free(w)
              \/ FailDone(w) \/ FailCounter(w) \/ FailDecrement(w) \/ FailFree(w)

Worker(w) == \/ Take(w) \/ Skip(w) \/ PutBack(w) \/ Top(w) \/ IdleTop(w) \/ FoundNone(w)
             \/ LockIdle(w) \/ Pause(w) \/ Notified(w) \/ Found(w) \/ Process(w)

PoolNext == Main \/ Close \/ \E w \in Workers : Worker(w) \/ Spurious(w)

PoolSpec == PoolInit /\ [][PoolNext]_poolVars

(* Every thread is run by the operating system; a mutex that stays free is *)
(* obtained.  Spurious wake-ups need not come, and do not come for ever.   *)
(* The shutdown of a pool with queued tasks is the caller's free choice.   *)
FairPoolSpec == /\ PoolSpec
                /\ <>[][\A w \in Workers : ~Spurious(w)]_poolVars
                /\ WF_poolVars(Main)
                /\ \A w \in Workers : WF_poolVars(Worker(w))

-----------------------------------------------------------------------------
(* Type invariant: the shape of every variable of the pool.                *)
PoolTypeOK ==
  /\ slots \in Seq([state : {"FREE", "PREPARING", "WAITING", "RUNNING"}, task : {0} \cup Tasks])
  /\ part \in [Tasks -> {"barriers", "call", "rest"}]
  /\ done \in [Tasks -> {"locked", "open", "error"}]
  /\ count \in Int /\ failed \in BOOLEAN /\ exit \in BOOLEAN
  /\ pause \in [owner : 0..MainThread, all : BOOLEAN, notified : BOOLEAN]
  /\ idle \in {Nobody} \cup Workers
  /\ main.pc \in {"claim", "count", "publish", "notify", "wait", "cleared", "unpause", "join", "joined"}
  /\ main.task \in 1..NumTasks + 1 /\ main.it \in DOMAIN slots /\ main.fill \in DOMAIN slots
  /\ \A w \in Workers : /\ worker[w].it \in DOMAIN slots /\ worker[w].next \in DOMAIN slots
                        /\ worker[w].search \in {"first", "again", "idle", "pause"}

Holds(w) == worker[w].pc \in {"putback", "found", "run", "unlock", "decrement", "free",
                              "fail", "failCounter", "failDecrement", "failFree"}
Executes(w) == worker[w].pc \in {"run", "unlock", "decrement", "fail", "failCounter", "failDecrement"}

(* The queue has no lock: a slot that a worker has taken out of WAITING,   *)
(* or that addBarrierTask has taken out of FREE, belongs to that thread    *)
(* alone until the thread itself gives it back.                            *)
SlotExclusive ==
  /\ \A w \in Workers : Holds(w) =>
       /\ slots[worker[w].it].state = "RUNNING"
       /\ \A v \in Workers \ {w} : Holds(v) => worker[v].it # worker[w].it
  /\ main.pc \in {"count", "publish"} => slots[main.it].state = "PREPARING"

(* WaitCounter: m_count is the number of tasks that are counted and whose  *)
(* thread has not yet counted them down; it is never negative (the CHECK   *)
(* in operator--), and it cannot be zero while a task is queued.           *)
CounterExact ==
  count = Cardinality({s \in DOMAIN slots :
            /\ slots[s].state \in {"WAITING", "RUNNING"}
            /\ ~\E w \in Workers : worker[w].it = s /\ worker[w].pc \in {"free", "failFree"}})
          + IF main.pc = "publish" THEN 1 ELSE 0

(* wait_nothrow returns when "all tasks have been cleared from the thread  *)
(* pool", also with an exception: no thread is inside a task any more, and *)
(* every added task has its done barrier open or in the error state.       *)
WaitMeansCleared ==
  main.pc = "cleared" =>
    /\ \A w \in Workers : ~Executes(w)
    /\ \A t \in Tasks : t < main.task => done[t] # "locked"

(* A task that was called has seen all its barriers open, and one that     *)
(* succeeded has not done so on the result of a task that failed.          *)
NothingRunsEarly ==
  \A t \in Tasks : part[t] # "barriers" => \A b \in Barriers[t] : done[b] = "open"

(* "The only way how more work for the threads can come in is if           *)
(* addBarrierTask is called or if the thread pool is closed": when the     *)
(* last thread sleeps without a notification, no queued task could be run  *)
(* or could fail, and nobody is asked to leave.                            *)
NoLostWakeup ==
  (\E w \in Workers : WorkerAt(w, "asleep") /\ ~pause.notified) /\ main.pc \notin {"notify", "unpause"} =>
    /\ \A s \in DOMAIN slots : slots[s].state = "WAITING" =>
         ~TaskReady(slots[s].task) /\ ~CheckThrows(slots[s].task)
    /\ ~exit

(* The adding thread gets through: all tasks are done or have failed, the  *)
(* wait returns and all the threads can be joined.                         *)
PoolComesToRest == <>(main.pc = "joined")
=============================================================================
