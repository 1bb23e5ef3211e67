---------------------------- MODULE CtuWavefront ----------------------------
(***************************************************************************)
(* The CTU wavefront of DecLibRecon::ctuTask.  One thread-pool task is     *)
(* responsible for a group of neighbouring CTUs of one CTU line and takes  *)
(* them through the stages of TaskType.  Before a stage the task looks at  *)
(* the published states of its neighbours; when they are not far enough it *)
(* gives the worker back to the pool and is called again later.            *)
(*                                                                         *)
(* What is abstract: the samples.  ctu[l][c] = k says that the loop of the *)
(* current stage is working on its k-th item, so a step that lies between  *)
(* the beginning and the end of an item is an interleaving point, and the  *)
(* data the kernels read and write is expressed by the properties below.   *)
(*                                                                         *)
(* A guard reads several atomics one after the other.  All of them only    *)
(* grow while the picture is decoded and all comparisons ask for "at       *)
(* least", so a guard that was seen true conjunct by conjunct is true as a *)
(* whole when the last conjunct is read: the guards are evaluated in one   *)
(* step here.                                                              *)
(***************************************************************************)
EXTENDS Integers, FiniteSets

CONSTANTS
  HeightInCtus,     \* CTU lines of the picture
  NumTasksPerLine,  \* tasks of one CTU line
  CtusInTask,       \* CTUs of a task (ctuEnd - ctuStart), a function of its column
  NumThreads,       \* workers that can be inside ctuTask at the same time
  DoALF,            \* common.doALF
  AllIntra,         \* all slices of the picture are intra slices
  MayThrow          \* a kernel can throw (broken bitstream)

Lines == 0..HeightInCtus - 1
Cols  == 0..NumTasksPerLine - 1
Last  == NumTasksPerLine - 1

ASSUME SizeAssumption ==
  /\ HeightInCtus \in Nat \ {0}
  /\ NumTasksPerLine \in Nat \ {0}
  /\ CtusInTask \in [Cols -> Nat \ {0}]
  /\ NumThreads \in Nat \ {0}
  /\ DoALF \in BOOLEAN /\ AllIntra \in BOOLEAN /\ MayThrow \in BOOLEAN

-----------------------------------------------------------------------------
(* enum TaskType; the order of the numbers is what the guards compare.     *)

MIDER      == 0
MIDER_cont == 1
LF_INIT    == 2
INTER      == 3
INTRA      == 4
INTRA_cont == 5
RSP        == 6
LF_V       == 7
LF_V_cont  == 8
LF_H       == 9
PRESAO     == 10
SAO        == 11
SAO_cont   == 12
ALF        == 13
DONE       == 14

TaskType == MIDER..DONE

(* The *_cont values are published inside the loop of the stage before     *)
(* them, after an item has been processed.                                 *)
HasCont(stage) == stage \in {MIDER, INTRA, LF_V, SAO}
Stage(s)       == IF s \in {MIDER_cont, INTRA_cont, LF_V_cont, SAO_cont} THEN s - 1 ELSE s
NextStage(s)   == IF HasCont(Stage(s)) THEN Stage(s) + 2 ELSE Stage(s) + 1

(* Iterations of the loops of a stage: one per CTU; SAO has a second loop, *)
(* AdaptiveLoopFilter::prepareCTU, when ALF follows; PRESAO handles a line *)
(* in one call, and ALF does nothing when it is off.                       *)
Items(s, c) ==
  IF Stage(s) = PRESAO \/ (Stage(s) = ALF /\ ~DoALF) THEN 1
  ELSE IF Stage(s) = SAO /\ DoALF THEN 2 * CtusInTask[c]
  ELSE CtusInTask[c]

(* What is published after item k of the stage.                            *)
Published(s, k, c) ==
  IF \/ Stage(s) \in {MIDER, INTRA, LF_V}
     \/ Stage(s) = SAO /\ k > CtusInTask[c]
  THEN Stage(s) + 1
  ELSE s

-----------------------------------------------------------------------------
VARIABLES
  ctuState,  \* common.ctuStates, one per task
  ctu,       \* the item the stage loop is working on, 0 between two stages
  pool,      \* where the task is: absent, queued (barriers), waiting, running, gone
  exc,       \* Picture::m_ctuTaskCounter.hasException()
  refExt     \* Picture::refPicExtDepBarriers: blocked, open or error

wfVars == <<ctuState, ctu, pool, exc, refExt>>

TypeOK ==
  /\ ctuState \in [Lines -> [Cols -> TaskType]]
  /\ ctu \in [Lines -> [Cols -> Nat]]
  /\ pool \in [Lines -> [Cols -> {"absent", "queued", "waiting", "running", "gone"}]]
  /\ exc \in BOOLEAN
  /\ refExt \in {"blocked", "open", "error"}

Init ==
  /\ ctuState = [l \in Lines |-> [c \in Cols |-> MIDER]]
  /\ ctu = [l \in Lines |-> [c \in Cols |-> 0]]
  /\ pool = [l \in Lines |-> [c \in Cols |-> "absent"]]
  /\ exc = FALSE
  /\ refExt \in IF AllIntra THEN {"open"} ELSE {"open", "blocked"}

-----------------------------------------------------------------------------
(* The preconditions of the stages, as the case labels of ctuTask test     *)
(* them.  s is MIDER or INTRA: left task complete, and of the line above   *)
(* the first CTU of the next task (or all of this one at the line's end).  *)

UpperRightDoneFault(s, l, c) ==                       \* fault: forgets the task above right
  /\ c > 0 => ctuState[l][c-1] > s + 1
  /\ l > 0 => ctuState[l-1][c] > s + 1

UpperRightDone(s, l, c) ==
  /\ c > 0 => ctuState[l][c-1] > s + 1
  /\ l > 0 => IF c + 1 < NumTasksPerLine THEN ctuState[l-1][c+1] > s
                                         ELSE ctuState[l-1][c] > s + 1

IntraWavefront(l, c) ==
  AllIntra => /\ c > 1 => ctuState[l][c-2] > INTER
              /\ l > 0 => ctuState[l-1][c] > INTER

NoLongerIntraSourceFault(l, c) ==                     \* fault: forgets the task below right
  /\ c + 1 < NumTasksPerLine => ctuState[l][c+1] >= INTRA_cont
  /\ l + 1 < HeightInCtus => ctuState[l+1][c] >= RSP

NoLongerIntraSourceMutual(l, c) ==                    \* fault: LF_V_cont for INTRA_cont
  c + 1 < NumTasksPerLine => ctuState[l][c+1] >= LF_V_cont

NoLongerIntraSource(l, c) ==
  /\ c + 1 < NumTasksPerLine => ctuState[l][c+1] >= INTRA_cont
  /\ l + 1 < HeightInCtus =>
       /\ ctuState[l+1][c] >= RSP
       /\ c + 1 < NumTasksPerLine => ctuState[l+1][c+1] >= INTRA_cont

VerticalEdgesDoneFault(l, c) ==                       \* fault: forgets the task on the right
  l > 0 => /\ ctuState[l-1][c] >= LF_H
           /\ c + 1 < NumTasksPerLine => ctuState[l-1][c+1] >= LF_V_cont

VerticalEdgesDone(l, c) ==
  /\ l > 0 => /\ ctuState[l-1][c] >= LF_H
              /\ c + 1 < NumTasksPerLine => ctuState[l-1][c+1] >= LF_V_cont
  /\ c + 1 < NumTasksPerLine => ctuState[l][c+1] >= LF_V_cont

LineDeblockedFault(l, c) ==                           \* fault: forgets the line below
  IF c = Last THEN \A d \in Cols : ctuState[l][d] >= PRESAO
              ELSE ctuState[l][Last] > PRESAO

LineDeblocked(l, c) ==
  IF c = Last
  THEN /\ l > 0 => ctuState[l-1][c] > PRESAO
       /\ \A d \in Cols : /\ ctuState[l][d] >= PRESAO
                          /\ l + 1 < HeightInCtus => ctuState[l+1][d] >= PRESAO
  ELSE ctuState[l][Last] > PRESAO

NeighboursPreparedFault(l, c) ==                      \* fault: SAO for SAO_cont on the right
  DoALF => \A i \in {l - 1, l, l + 1} \cap Lines, j \in {c - 1, c, c + 1} \cap Cols :
             (i # l \/ j # c) => ctuState[i][j] >= (IF j = c + 1 THEN SAO ELSE ALF)

NeighboursPrepared(l, c) ==
  DoALF => \A i \in {l - 1, l, l + 1} \cap Lines, j \in {c - 1, c, c + 1} \cap Cols :
             (i # l \/ j # c) => ctuState[i][j] >= (IF j = c + 1 THEN SAO_cont ELSE ALF)

Ready(l, c) ==
  LET s == ctuState[l][c] IN
    /\ s \in {MIDER, INTRA} => UpperRightDone(s, l, c)
    /\ s = INTER  => IntraWavefront(l, c) /\ refExt = "open"
    /\ s = RSP    => NoLongerIntraSource(l, c)
    /\ s = LF_V /\ c > 0 => ctuState[l][c-1] >= LF_V
    /\ s = LF_H   => VerticalEdgesDone(l, c)
    /\ s = PRESAO => LineDeblocked(l, c)
    /\ s = ALF    => NeighboursPrepared(l, c)

(* Barrier::isBlocked rethrows the exception of a reference picture.       *)
GuardThrows(l, c) == ctuState[l][c] = INTER /\ IntraWavefront(l, c) /\ refExt = "error"

-----------------------------------------------------------------------------
Running == {t \in Lines \X Cols : pool[t[1]][t[2]] = "running"}

(* addBarrierTask from decompressPicture. *)
AddTask(l, c) ==
  /\ pool[l][c] = "absent"
  /\ ~exc                                  \* WaitCounter::operator++ rethrows
  /\ pool' = [pool EXCEPT ![l][c] = "queued"]
  /\ UNCHANGED <<ctuState, ctu, exc, refExt>>

(* checkTaskReady finds no barrier blocked and clears the barrier vector.  *)
Unblock(l, c) ==
  /\ pool[l][c] = "queued"
  /\ pool' = [pool EXCEPT ![l][c] = "waiting"]
  /\ UNCHANGED <<ctuState, ctu, exc, refExt>>

(* Whatever throws inside the task or its checks ends in                   *)
(* handleTaskException: the counter gets the exception, the slot is freed. *)
Fail(l, c) ==
  /\ exc' = TRUE
  /\ pool' = [pool EXCEPT ![l][c] = "gone"]
  /\ UNCHANGED <<ctuState, ctu, refExt>>

BarrierFails(l, c) == pool[l][c] = "queued" /\ Fail(l, c)

(* A worker takes the slot, the ready check succeeds and the first stage   *)
(* loop begins (an exception seen here is CallThrows).                     *)
Call(l, c) ==
  /\ pool[l][c] = "waiting"
  /\ ~exc
  /\ Ready(l, c)
  /\ Cardinality(Running) < NumThreads
  /\ pool' = [pool EXCEPT ![l][c] = "running"]
  /\ ctu' = [ctu EXCEPT ![l][c] = 1]
  /\ UNCHANGED <<ctuState, exc, refExt>>

(* ... or the check of the counter at the top of ctuTask, or a guard, throws. *)
CallThrows(l, c) ==
  /\ pool[l][c] = "waiting"
  /\ exc \/ GuardThrows(l, c)
  /\ Fail(l, c)

(* One item of the stage loop ends; the last one falls through to the next *)
(* case label.                                                             *)
FinishItem(l, c) ==
  /\ pool[l][c] = "running" /\ ctu[l][c] > 0
  /\ LET s == ctuState[l][c]
         k == ctu[l][c]
     IN IF k < Items(s, c)
        THEN /\ ctu' = [ctu EXCEPT ![l][c] = k + 1]
             /\ ctuState' = [ctuState EXCEPT ![l][c] = Published(s, k, c)]
        ELSE /\ ctu' = [ctu EXCEPT ![l][c] = 0]
             /\ ctuState' = [ctuState EXCEPT ![l][c] = NextStage(s)]
  /\ UNCHANGED <<pool, exc, refExt>>

Throw(l, c) ==
  /\ MayThrow
  /\ pool[l][c] = "running" /\ ctu[l][c] > 0
  /\ Fail(l, c)

(* Between two stages: go on, ... *)
EnterStage(l, c) ==
  /\ pool[l][c] = "running" /\ ctu[l][c] = 0
  /\ ctuState[l][c] # DONE
  /\ Ready(l, c)
  /\ ctu' = [ctu EXCEPT ![l][c] = 1]
  /\ UNCHANGED <<ctuState, pool, exc, refExt>>

(* ... return false and be rescheduled, ... *)
Reschedule(l, c) ==
  /\ pool[l][c] = "running" /\ ctu[l][c] = 0
  /\ ctuState[l][c] # DONE
  /\ ~Ready(l, c) /\ ~GuardThrows(l, c)
  /\ pool' = [pool EXCEPT ![l][c] = "waiting"]
  /\ UNCHANGED <<ctuState, ctu, exc, refExt>>

StageThrows(l, c) ==
  /\ pool[l][c] = "running" /\ ctu[l][c] = 0
  /\ GuardThrows(l, c)
  /\ Fail(l, c)

(* ... or return true: the counter is decremented and the slot freed. *)
Return(l, c) ==
  /\ pool[l][c] = "running" /\ ctu[l][c] = 0
  /\ ctuState[l][c] = DONE
  /\ pool' = [pool EXCEPT ![l][c] = "gone"]
  /\ UNCHANGED <<ctuState, ctu, exc, refExt>>

(* The border extension of the reference pictures ends, or has failed. *)
RefExtDone  == /\ refExt = "blocked" /\ refExt' = "open"
               /\ UNCHANGED <<ctuState, ctu, pool, exc>>
RefExtFails == /\ refExt = "blocked" /\ MayThrow /\ refExt' = "error"
               /\ UNCHANGED <<ctuState, ctu, pool, exc>>

(* The steps a worker takes inside ctuTask. *)
TaskStep(l, c) ==
  \/ Call(l, c)       \/ CallThrows(l, c)
  \/ FinishItem(l, c) \/ Throw(l, c)
  \/ EnterStage(l, c) \/ Reschedule(l, c) \/ StageThrows(l, c)
  \/ Return(l, c)

(* Every task has left the pool, or was never added because of an error.   *)
Complete ==
  \A l \in Lines, c \in Cols : pool[l][c] = "gone" \/ (exc /\ pool[l][c] = "absent")

Next ==
  \/ \E l \in Lines, c \in Cols :
        AddTask(l, c) \/ Unblock(l, c) \/ BarrierFails(l, c) \/ TaskStep(l, c)
  \/ RefExtDone \/ RefExtFails

Spec == Init /\ [][Next]_wfVars

(* Workers poll the slots for as long as the pool lives and the reference  *)
(* pictures are finished by tasks of their own, so something that can      *)
(* happen does happen; no step is repeated, so this is all that is needed. *)
FairSpec == Spec /\ WF_wfVars(Next)

-----------------------------------------------------------------------------
(* Where a stage is with CTU k of a task.  NextTo says that of two CTUs of *)
(* a line, given as (task, index in the task), the second is the right     *)
(* neighbour of the first.                                                 *)

Doing(s, l, c, k) ==
  pool[l][c] = "running" /\ Stage(ctuState[l][c]) = s /\ ctu[l][c] = k

Begun(s, l, c, k) ==
  ctuState[l][c] >= NextStage(s) \/ (Stage(ctuState[l][c]) = s /\ ctu[l][c] >= k)

Finished(s, l, c, k) ==
  ctuState[l][c] >= NextStage(s) \/ (Stage(ctuState[l][c]) = s /\ ctu[l][c] > k)

NextTo(c, k, d, j) ==
  \/ d = c /\ j = k + 1
  \/ d = c + 1 /\ k = CtusInTask[c] /\ j = 1

Near(c, k, d, j) == (c = d /\ k = j) \/ NextTo(c, k, d, j) \/ NextTo(d, j, c, k)

Ctus(c) == 1..CtusInTask[c]

(* While the motion of a CTU is derived, or its filter strengths are       *)
(* calculated from it, the motion of the left CTU and of the three CTUs    *)
(* above is complete: merge candidates and edge strengths are taken from   *)
(* there (cases MIDER and LF_INIT).                                        *)
MotionSources ==
  \A l \in Lines, c, d \in Cols : \A k \in Ctus(c), j \in Ctus(d) :
    Doing(MIDER, l, c, k) \/ Doing(LF_INIT, l, c, k) =>
      /\ NextTo(d, j, c, k) => Finished(MIDER, l, d, j)
      /\ l > 0 /\ Near(c, k, d, j) => Finished(MIDER, l - 1, d, j)

(* While a CTU is intra predicted, the left CTU and the three CTUs above   *)
(* are reconstructed and still in the mapped domain: none of them has been *)
(* taken over by the inverse reshaper (cases INTRA and RSP).               *)
IntraSourceIntact(l, d, j) == Finished(INTRA, l, d, j) /\ ~Begun(RSP, l, d, 1)

IntraSourcesIntact ==
  \A l \in Lines, c, d \in Cols : \A k \in Ctus(c), j \in Ctus(d) :
    Doing(INTRA, l, c, k) =>
      /\ NextTo(d, j, c, k) => IntraSourceIntact(l, d, j)
      /\ l > 0 /\ Near(c, k, d, j) => IntraSourceIntact(l - 1, d, j)

(* Deblocking changes samples on both sides of an edge.  Vertical edges    *)
(* are filtered when the left CTU is reshaped and has no horizontal edge   *)
(* filtered yet; horizontal edges are filtered when every vertical edge    *)
(* that touches the CTU or the one above is done (cases LF_V and LF_H).    *)
DeblockOrder ==
  \A l \in Lines, c, d \in Cols : \A k \in Ctus(c), j \in Ctus(d) :
    /\ Doing(LF_V, l, c, k) /\ (d = c \/ NextTo(d, j, c, k)) =>
         Finished(RSP, l, d, j) /\ ~Begun(LF_H, l, d, j)
    /\ Doing(LF_H, l, c, k) /\ ((d = c /\ j = k) \/ NextTo(c, k, d, j)) =>
         /\ Finished(LF_V, l, d, j)
         /\ l > 0 => Finished(LF_V, l - 1, d, j)

(* SAOPrepareCTULine copies its line and the first rows of the next one to *)
(* m_tempBuf after both are deblocked and before SAO changes a sample of   *)
(* them; SAO reads that copy around its CTU, so it runs after the copies   *)
(* of its line and of the line above, and before ALF, whose output buffer  *)
(* is the same memory (m_fltBuf), writes there (cases PRESAO, SAO, ALF).   *)
SaoCopyIntact ==
  \A l, m \in Lines, c, d \in Cols : \A k \in Ctus(c), j \in Ctus(d) :
    /\ Doing(PRESAO, l, Last, 1) /\ m \in {l, l + 1} =>
         Finished(LF_H, m, d, j) /\ ~Begun(SAO, m, d, j)
    /\ Doing(SAO, l, c, k) =>
         /\ m \in {l - 1, l} => Finished(PRESAO, m, Last, 1)
         /\ DoALF /\ m \in {l - 1, l, l + 1} /\ Near(c, k, d, j) => ~Begun(ALF, m, d, j)

(* ALF reads the samples of the eight CTUs around: all of them have their  *)
(* SAO result and their extended picture borders (case ALF).               *)
AlfSourcesFinal ==
  \A l, m \in Lines, c, d \in Cols : \A k \in Ctus(c), j \in Ctus(d) :
    DoALF /\ Doing(ALF, l, c, k) /\ m \in {l - 1, l, l + 1} /\ Near(c, k, d, j) =>
      Finished(SAO, m, d, CtusInTask[d] + j)

(* The guards of the stages never block each other for good, whatever the  *)
(* number of workers: every task of the picture ends, and without an       *)
(* exception it ends in DONE.                                              *)
EveryTaskEnds == <>(Complete /\ (exc \/ \A l \in Lines, c \in Cols : ctuState[l][c] = DONE))

=============================================================================
