-------------------------- MODULE SingleThreadPool --------------------------
(***************************************************************************)
(* The ThreadPool without threads.  addBarrierTask runs a task directly    *)
(* when it can (bypassTaskQueue), and the queue holds only those that had  *)
(* to wait; they run when a later task is added, or when the decoder calls *)
(* processTasksOnMainThread.  Everything happens in one thread; what is    *)
(* hard is the bookkeeping of the two paths, which share one WaitCounter.  *)
(*                                                                         *)
(* The caller adds the tasks of a picture in order.  The last one, Finish, *)
(* has the counter's done barrier in its barrier vector, as finishPicTask  *)
(* has.  A task has one or two parts, the second part asks for the first   *)
(* parts of Polls[t].  Which of several ready tasks of the queue is found  *)
(* first depends on slots used long before and is left open.               *)
(***************************************************************************)
EXTENDS Integers, FiniteSets

CONSTANTS
  NumTasks,  \* tasks of a picture, the last one is Finish
  Scenarios  \* what a sequence of pictures may look like: t -> the tasks whose done
             \* barriers t waits for, t -> the tasks whose first part the second part of
             \* t asks for, the tasks that can throw, and the number of pictures decoded
             \* one after the other with the same Picture object

Tasks  == 1..NumTasks
Finish == NumTasks

Scenario == [barriers : [Tasks -> SUBSET Tasks], polls : [Tasks -> SUBSET Tasks],
             throws : SUBSET Tasks, pictures : Nat \ {0}]

(* The dependencies of g have no cycle: whichever tasks have not begun (B) *)
(* and whichever are not done (E), one of them is free to go on.           *)
SomebodyFree(g, E, B) ==
  \/ \E t \in B : E \cap g.barriers[t] = {} /\ (t = Finish => E = {Finish})
  \/ \E t \in E \ B : B \cap g.polls[t] = {}

Acyclic(g) == \A E \in SUBSET Tasks : \A B \in SUBSET E : E # {} => SomebodyFree(g, E, B)

ASSUME SingleThreadAssumption == NumTasks \in Nat \ {0} /\ Scenarios \subseteq Scenario

VARIABLES
  scenario, \* the dependencies of the tasks, the same for all pictures, and their errors
  state,    \* where the task is: absent, queued, done, failed
  part,     \* what is left of it: its barriers, its first call, its polled part
  count, locked, failed,  \* WaitCounter: m_count, and lock state and exception of m_done
  filled,   \* m_nextFillSlot is no longer the first slot
  stuck,    \* slots that stay PREPARING
  waiting,  \* waiting_tasks of bypassTaskQueue
  at        \* pc, task that is added, where processTasksOnMainThread returns to, picture

stpVars == <<scenario, state, part, count, locked, failed, filled, stuck, waiting, at>>

Barriers == scenario.barriers
Polls    == scenario.polls
MayThrow == scenario.throws
Pictures == scenario.pictures

Fresh(v) == [t \in Tasks |-> v]

StpInit ==
  /\ scenario \in Scenarios
  /\ state = Fresh("absent") /\ part = Fresh("barriers")
  /\ count = 0 /\ locked = FALSE /\ failed = FALSE
  /\ filled = FALSE /\ stuck = 0 /\ waiting = FALSE
  /\ at = [pc |-> "process", task |-> 1, ret |-> "parsed", picture |-> 1]

-----------------------------------------------------------------------------
Counted(t) == t # Finish                 \* Finish counts in m_divTasksCounter
Begun(t)   == part[t] = "rest" \/ state[t] = "done"

CheckThrows(t) ==
  \/ part[t] = "barriers" /\ \E b \in Barriers[t] : state[b] = "failed"
  \/ part[t] = "barriers" /\ t = Finish /\ failed
  \/ Polls[t] # {} /\ failed

OpensEarly(t) ==                                      \* fault: Finish forgets the counter
  /\ part[t] = "barriers" => \A b \in Barriers[t] : state[b] = "done"
  /\ part[t] = "rest" => \A p \in Polls[t] : Begun(p)
  /\ ~CheckThrows(t)

TaskReady(t) ==
  /\ part[t] = "barriers" => /\ \A b \in Barriers[t] : state[b] = "done"
                             /\ t = Finish => ~locked
  /\ part[t] = "rest" => \A p \in Polls[t] : Begun(p)
  /\ ~CheckThrows(t)

GoTo(pc) == at' = [at EXCEPT !.pc = pc]
NextTask(t) == IF t = NumTasks THEN [at EXCEPT !.pc = "process", !.ret = "over"]
                               ELSE [at EXCEPT !.pc = "add", !.task = t + 1]
Process(ret) == at' = [at EXCEPT !.pc = "process", !.ret = ret]

(* decrement_nothrow.                                                      *)
CountDown ==
  /\ count' = count - 1
  /\ locked' = IF count - 1 <= 0 THEN FALSE ELSE locked

(* handleTaskException.                                                    *)
Fails(t) ==
  /\ state' = [state EXCEPT ![t] = "failed"]
  /\ IF Counted(t) THEN failed' = TRUE /\ CountDown
                   ELSE UNCHANGED <<failed, count, locked>>

(* What a call of the function does.                                       *)
Completes(t) == part[t] = "rest" \/ \A p \in Polls[t] : Begun(p)

-----------------------------------------------------------------------------
(* bypassTaskQueue up to the call of the function.                         *)
TryDirectly ==
  LET t == at.task IN
  /\ at.pc \in {"add", "again"}
  /\ IF CheckThrows(t) THEN Fails(t) /\ GoTo("queue")
     ELSE /\ UNCHANGED <<state, failed, count, locked>>
          /\ IF TaskReady(t) THEN GoTo("direct")
             ELSE IF at.pc = "add" /\ filled THEN Process("again") ELSE GoTo("queue")
  /\ part' = IF TaskReady(t) /\ part[t] = "barriers" THEN [part EXCEPT ![t] = "call"] ELSE part
  /\ waiting' = IF at.pc = "add" THEN filled ELSE waiting
  /\ UNCHANGED <<scenario, filled, stuck>>

Direct ==
  LET t == at.task IN
  /\ at.pc = "direct"
  /\ \/ /\ Completes(t)
        /\ state' = [state EXCEPT ![t] = "done"]
        /\ IF waiting THEN Process("next") ELSE at' = NextTask(t)
        /\ UNCHANGED <<part, failed, count, locked>>
     \/ /\ ~Completes(t)
        /\ part' = [part EXCEPT ![t] = "rest"]
        /\ GoTo("queue")
        /\ UNCHANGED <<state, failed, count, locked>>
     \/ /\ t \in MayThrow
        /\ Fails(t)
        /\ GoTo("queue")
        /\ UNCHANGED part
  /\ UNCHANGED <<scenario, filled, stuck, waiting>>

(* The rest of addBarrierTask: "direct execution of the task failed".      *)
(* operator++ rethrows, and then the slot is not given back.               *)
QueueUncounted ==                                     \* fault: without operator++
  LET t == at.task IN
  /\ at.pc = "queue"
  /\ state' = [state EXCEPT ![t] = "queued"] /\ filled' = TRUE
  /\ at' = NextTask(t)
  /\ UNCHANGED <<scenario, part, count, locked, failed, stuck, waiting>>

Queue ==
  LET t == at.task IN
  /\ at.pc = "queue"
  /\ IF failed \/ state[t] = "failed"
     THEN /\ stuck' = stuck + 1
          /\ Process("over")
          /\ UNCHANGED <<state, count, locked, filled>>
     ELSE /\ state' = [state EXCEPT ![t] = "queued"]
          /\ filled' = TRUE
          /\ IF Counted(t) THEN count' = count + 1 /\ locked' = TRUE
                           ELSE UNCHANGED <<count, locked>>
          /\ at' = NextTask(t)
          /\ UNCHANGED stuck
  /\ UNCHANGED <<scenario, part, failed, waiting>>

(* One task of processTasksOnMainThread.                                   *)
ProcessTask(t) ==
  /\ at.pc = "process"
  /\ state[t] = "queued"
  /\ \/ /\ TaskReady(t) /\ Completes(t)
        /\ state' = [state EXCEPT ![t] = "done"]
        /\ IF Counted(t) THEN CountDown ELSE UNCHANGED <<count, locked>>
        /\ UNCHANGED <<part, failed>>
     \/ /\ TaskReady(t) /\ ~Completes(t)
        /\ part' = [part EXCEPT ![t] = "rest"]
        /\ UNCHANGED <<state, failed, count, locked>>
     \/ /\ CheckThrows(t) \/ (TaskReady(t) /\ t \in MayThrow)
        /\ Fails(t)
        /\ UNCHANGED part
  /\ UNCHANGED <<scenario, filled, stuck, waiting, at>>

(* "return true if all done (-> false if some tasks blocked due to         *)
(* barriers)"; bypassTaskQueue keeps the result in waiting_tasks.          *)
ProcessedEarly ==                                     \* fault: returns with tasks left to run
  /\ at.pc = "process"
  /\ waiting' = (stuck = 0 /\ \A t \in Tasks : state[t] # "queued")
  /\ IF at.ret = "next" THEN at' = NextTask(at.task) ELSE GoTo(at.ret)
  /\ UNCHANGED <<scenario, state, part, count, locked, failed, filled, stuck>>

Processed ==
  /\ at.pc = "process"
  /\ \A t \in Tasks : state[t] = "queued" => ~TaskReady(t) /\ ~CheckThrows(t)
  /\ waiting' = (stuck = 0 /\ \A t \in Tasks : state[t] # "queued")
  /\ IF at.ret = "next" THEN at' = NextTask(at.task) ELSE GoTo(at.ret)
  /\ UNCHANGED <<scenario, state, part, count, locked, failed, filled, stuck>>

(* The parser, after a slice of a picture with several slices:             *)
(* while( !m_threadPool->processTasksOnMainThread() );                     *)
ParsedInverted ==                                     \* fault: takes the result for "tasks wait"
  /\ at.pc = "parsed"
  /\ IF ~waiting THEN GoTo("add") ELSE Process("parsed")
  /\ UNCHANGED <<scenario, state, part, count, locked, failed, filled, stuck, waiting>>

Parsed ==
  /\ at.pc = "parsed"
  /\ IF waiting THEN GoTo("add") ELSE Process("parsed")
  /\ UNCHANGED <<scenario, state, part, count, locked, failed, filled, stuck, waiting>>

(* The picture leaves DecLibRecon (wait_nothrow), and the object is reused *)
(* for the next one: resetForUse clears the exceptions.                    *)
Reuse ==
  /\ at.pc = "over"
  /\ count <= 0
  /\ at.picture < Pictures
  /\ state' = Fresh("absent") /\ part' = Fresh("barriers") /\ failed' = FALSE
  /\ at' = [at EXCEPT !.pc = "process", !.ret = "parsed", !.task = 1, !.picture = @ + 1]
  /\ UNCHANGED <<scenario, count, locked, filled, stuck, waiting>>

StpNext == \/ TryDirectly \/ Direct \/ Queue \/ Processed \/ Parsed \/ Reuse
           \/ \E t \in Tasks : ProcessTask(t)

StpSpec == StpInit /\ [][StpNext]_stpVars /\ WF_stpVars(StpNext)

-----------------------------------------------------------------------------
(* WaitCounter: m_count counts the tasks in the queue, whether a task went *)
(* there at once or was run directly first, as long as no task throws.     *)
QueueCounted ==
  MayThrow = {} => count = Cardinality({t \in Tasks \ {Finish} : state[t] = "queued"})

(* finishPicTask, which swaps the filter buffers, sets the picture to      *)
(* reconstructed and frees what the tasks work on, comes after them all,   *)
(* whether it is run directly or from the queue.                           *)
FinishLast == part[Finish] # "barriers" \/ state[Finish] = "done" =>
                \A t \in Tasks : t # Finish => state[t] = "done"

(* Without errors one processTasksOnMainThread at the end runs everything  *)
(* that is left ("can't make progress. some dependecy has not been         *)
(* finished" is what the decoder says otherwise), for every picture.       *)
EveryPictureDone == MayThrow = {} /\ at.pc = "over" => \A t \in Tasks : state[t] = "done"

(* All the pictures get through the decoder: processTasksOnMainThread is   *)
(* "false if some tasks [are] blocked due to barriers", so the loop of the *)
(* parser ends when nothing is left to do.                                 *)
AllPicturesEnd == <>(at.pc = "over" /\ at.picture = Pictures)
=============================================================================
