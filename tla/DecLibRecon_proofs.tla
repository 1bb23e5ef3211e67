------------------------- MODULE DecLibRecon_proofs -------------------------
(***************************************************************************)
(* Proofs about CtuWavefront, and about DecLibRecon, which is the picture  *)
(* around the wavefront: for pictures of any size, any distribution of     *)
(* CTUs to tasks, any number of workers, lost slices and failures of every *)
(* kind.                                                                   *)
(***************************************************************************)
EXTENDS DecLibRecon, FiniteSetTheorems, TLAPS

(***************************************************************************)
(* The wavefront.  A guard is tested once, when a stage is entered; what   *)
(* it has seen stays true because published states only grow.  So "has     *)
(* entered the stage" implies the guard of the stage at any later time,    *)
(* and the properties follow from these implications for neighbouring      *)
(* tasks.                                                                  *)
(***************************************************************************)
(* A task that is not being executed is between two stages, and a task     *)
(* that is DONE is not called again.                                       *)
TaskInv ==
  \A l \in Lines, c \in Cols :
    /\ pool[l][c] \notin {"running", "gone"} => ctu[l][c] = 0
    /\ ctuState[l][c] = DONE => ctu[l][c] = 0 /\ pool[l][c] \in {"running", "gone"}

Entered(s, l, c) ==
  ctuState[l][c] > s \/ (ctuState[l][c] = s /\ ctu[l][c] > 0)

(* The guards that compare the states of other tasks.                      *)
Guard(s, l, c) ==
  /\ s \in {MIDER, INTRA} => UpperRightDone(s, l, c)
  /\ s = RSP    => NoLongerIntraSource(l, c)
  /\ s = LF_V /\ c > 0 => ctuState[l][c-1] >= LF_V
  /\ s = LF_H   => VerticalEdgesDone(l, c)
  /\ s = PRESAO => LineDeblocked(l, c)
  /\ s = ALF    => NeighboursPrepared(l, c)

Guarded == {MIDER, INTRA, RSP, LF_V, LF_H, PRESAO, ALF}

GuardInv ==
  \A l \in Lines, c \in Cols, s \in Guarded : Entered(s, l, c) => Guard(s, l, c)

(* The states inside the loop of a stage tell how far the loop is.         *)
LoopInv ==
  \A l \in Lines, c \in Cols :
    /\ ctuState[l][c] \in {MIDER, INTRA, LF_V} => ctu[l][c] <= 1
    /\ ctuState[l][c] \in {MIDER_cont, INTRA_cont, LF_V_cont} => ctu[l][c] > 1
    /\ ctuState[l][c] = SAO_cont => ctu[l][c] > CtusInTask[c] + 1

IndInv == TypeOK /\ TaskInv /\ GuardInv /\ LoopInv

-----------------------------------------------------------------------------
(* What a step can do to the progress of one task.                         *)

Rests(l, c) == ctuState'[l][c] = ctuState[l][c] /\ ctu'[l][c] = ctu[l][c]

Enters(l, c) ==
  /\ ctuState'[l][c] = ctuState[l][c] /\ ctuState[l][c] # DONE
  /\ ctu[l][c] = 0 /\ ctu'[l][c] = 1
  /\ Ready(l, c)

Advances(l, c) ==
  /\ ctu[l][c] > 0 /\ ctuState[l][c] # DONE
  /\ \/ /\ ctu'[l][c] = ctu[l][c] + 1
        /\ ctuState'[l][c] = Published(ctuState[l][c], ctu[l][c], c)
     \/ /\ ctu'[l][c] = 0
        /\ ctuState'[l][c] = NextStage(ctuState[l][c])

Moves(l, c) == Rests(l, c) \/ Enters(l, c) \/ Advances(l, c)

USE DEF MIDER, MIDER_cont, LF_INIT, INTER, INTRA, INTRA_cont, RSP, LF_V, LF_V_cont,
        LF_H, PRESAO, SAO, SAO_cont, ALF, DONE, TaskType

LEMMA StageFacts ==
  ASSUME NEW s \in TaskType, s # DONE, NEW k \in Nat, NEW c \in Cols
  PROVE  /\ NextStage(s) \in TaskType /\ NextStage(s) > s
         /\ NextStage(s) \notin {MIDER_cont, INTRA_cont, LF_V_cont, SAO_cont}
         /\ Published(s, k, c) \in TaskType \ {DONE} /\ Published(s, k, c) >= s
         /\ Published(s, k, c) \notin {MIDER, INTRA, LF_V}
         /\ \A g \in Guarded : /\ NextStage(s) > g => s >= g
                               /\ Published(s, k, c) >= g => s >= g
  BY DEF NextStage, Published, Stage, HasCont, Guarded

(* A value that is published inside a loop tells what item was finished.   *)
LEMMA ContFacts ==
  ASSUME NEW s \in TaskType, NEW k \in Nat, NEW c \in Cols,
         Published(s, k, c) = SAO_cont
  PROVE  s = SAO_cont \/ k > CtusInTask[c]
  BY DEF Published, Stage

(* Every action leaves all tasks but one alone. *)
LEMMA StepShape ==
  ASSUME TypeOK, TaskInv, [Next]_wfVars
  PROVE  /\ TypeOK' /\ TaskInv'
         /\ \A l \in Lines, c \in Cols : Moves(l, c)
<1> USE DEF TypeOK, TaskInv, Moves, Rests
<1>1. CASE UNCHANGED wfVars
  BY <1>1 DEF wfVars
<1>2. CASE RefExtDone \/ RefExtFails
  BY <1>2 DEF RefExtDone, RefExtFails
<1>3. ASSUME NEW l \in Lines, NEW c \in Cols,
             AddTask(l, c) \/ Unblock(l, c) \/ Reschedule(l, c) \/ Return(l, c)
      PROVE  TypeOK' /\ TaskInv' /\ \A a \in Lines, b \in Cols : Moves(a, b)
  <2>1. PICK p \in {"queued", "waiting", "gone"} :
          /\ pool' = [pool EXCEPT ![l][c] = p]
          /\ UNCHANGED <<ctuState, ctu, exc, refExt>>
    BY <1>3 DEF AddTask, Unblock, Reschedule, Return
  <2>2. ctu[l][c] = 0 /\ (ctuState[l][c] = DONE => p = "gone")
    BY <1>3, <2>1 DEF AddTask, Unblock, Reschedule, Return
  <2> QED BY <2>1, <2>2
<1>4. ASSUME NEW l \in Lines, NEW c \in Cols, Fail(l, c)
      PROVE  TypeOK' /\ TaskInv' /\ \A a \in Lines, b \in Cols : Moves(a, b)
  BY <1>4 DEF Fail
<1>5. ASSUME NEW l \in Lines, NEW c \in Cols, Call(l, c) \/ EnterStage(l, c)
      PROVE  TypeOK' /\ TaskInv' /\ \A a \in Lines, b \in Cols : Moves(a, b)
  <2>1. /\ pool[l][c] \in {"waiting", "running"}
        /\ pool' = [pool EXCEPT ![l][c] = "running"]
        /\ ctu' = [ctu EXCEPT ![l][c] = 1]
        /\ UNCHANGED <<ctuState, exc, refExt>>
        /\ ctu[l][c] = 0 /\ ctuState[l][c] # DONE /\ Ready(l, c)
    BY <1>5 DEF Call, EnterStage
  <2> QED BY <2>1 DEF Enters
<1>6. ASSUME NEW l \in Lines, NEW c \in Cols, FinishItem(l, c)
      PROVE  TypeOK' /\ TaskInv' /\ \A a \in Lines, b \in Cols : Moves(a, b)
  <2> DEFINE s == ctuState[l][c]
             k == ctu[l][c]
  <2>1. s \in TaskType /\ k \in Nat /\ k > 0 /\ s # DONE
    BY <1>6 DEF FinishItem
  <2>2. /\ NextStage(s) \in TaskType /\ Published(s, k, c) \in TaskType
        /\ Published(s, k, c) # DONE
    BY <2>1, StageFacts
  <2>3. CASE k < Items(s, c)
    <3>1. /\ ctu' = [ctu EXCEPT ![l][c] = k + 1]
          /\ ctuState' = [ctuState EXCEPT ![l][c] = Published(s, k, c)]
          /\ UNCHANGED <<pool, exc, refExt>> /\ pool[l][c] = "running"
      BY <1>6, <2>3 DEF FinishItem
    <3> QED BY <3>1, <2>1, <2>2 DEF Advances
  <2>4. CASE ~(k < Items(s, c))
    <3>1. /\ ctu' = [ctu EXCEPT ![l][c] = 0]
          /\ ctuState' = [ctuState EXCEPT ![l][c] = NextStage(s)]
          /\ UNCHANGED <<pool, exc, refExt>> /\ pool[l][c] = "running"
      BY <1>6, <2>4 DEF FinishItem
    <3> QED BY <3>1, <2>1, <2>2 DEF Advances
  <2> QED BY <2>3, <2>4
<1> QED
  BY <1>1, <1>2, <1>3, <1>4, <1>5, <1>6
  DEF Next, TaskStep, BarrierFails, CallThrows, Throw, StageThrows

(* Published states only grow, and a stage is entered through its guard.   *)
LEMMA Growth ==
  ASSUME TypeOK, NEW l \in Lines, NEW c \in Cols, Moves(l, c)
  PROVE  /\ ctuState'[l][c] >= ctuState[l][c]
         /\ \A g \in Guarded :
              Entered(g, l, c)' => \/ Entered(g, l, c)
                                   \/ ctuState[l][c] = g /\ Ready(l, c)
<1> DEFINE s == ctuState[l][c]
           k == ctu[l][c]
<1>1. s \in TaskType /\ k \in Nat /\ Guarded \subseteq TaskType
  BY DEF TypeOK, Guarded
<1>2. CASE Rests(l, c)
  BY <1>1, <1>2 DEF Rests, Entered
<1>3. CASE Enters(l, c)
  BY <1>1, <1>3 DEF Enters, Entered
<1>4. CASE Advances(l, c)
  <2>1. /\ ctuState'[l][c] \in TaskType /\ ctuState'[l][c] >= s
        /\ \A g \in Guarded : /\ ctuState'[l][c] > g => s >= g
                              /\ ctuState'[l][c] = g /\ ctu'[l][c] > 0 => s >= g
    <3>1. s # DONE /\ \A g \in Guarded : g \in Int
      BY <1>4 DEF Advances, Guarded
    <3>2. CASE ctuState'[l][c] = Published(s, k, c)
      BY <1>1, <3>1, <3>2, StageFacts
    <3>3. CASE ctu'[l][c] = 0 /\ ctuState'[l][c] = NextStage(s)
      BY <1>1, <3>1, <3>3, StageFacts
    <3> QED BY <1>4, <3>2, <3>3 DEF Advances
  <2> QED BY <1>1, <1>4, <2>1 DEF Advances, Entered
<1> QED BY <1>2, <1>3, <1>4 DEF Moves

LEMMA Loops ==
  ASSUME TypeOK, TypeOK', LoopInv, \A l \in Lines, c \in Cols : Moves(l, c)
  PROVE  LoopInv'
<1> SUFFICES ASSUME NEW l \in Lines, NEW c \in Cols
             PROVE  /\ (ctuState[l][c] \in {MIDER, INTRA, LF_V} => ctu[l][c] <= 1)'
                    /\ (ctuState[l][c] \in {MIDER_cont, INTRA_cont, LF_V_cont} => ctu[l][c] > 1)'
                    /\ (ctuState[l][c] = SAO_cont => ctu[l][c] > CtusInTask[c] + 1)'
  BY DEF LoopInv
<1> DEFINE s == ctuState[l][c]
           k == ctu[l][c]
<1>1. s \in TaskType /\ k \in Nat /\ CtusInTask[c] \in Nat
  BY SizeAssumption DEF TypeOK
<1>2. /\ s \in {MIDER, INTRA, LF_V} => k <= 1
      /\ s \in {MIDER_cont, INTRA_cont, LF_V_cont} => k > 1
      /\ s = SAO_cont => k > CtusInTask[c] + 1
  BY DEF LoopInv
<1>3. CASE Rests(l, c)
  BY <1>2, <1>3 DEF Rests
<1>4. CASE Enters(l, c)
  BY <1>1, <1>2, <1>4 DEF Enters
<1>5. CASE Advances(l, c)
  BY <1>1, <1>2, <1>5, StageFacts, ContFacts DEF Advances
<1> QED BY <1>3, <1>4, <1>5 DEF Moves

LEMMA Neighbours ==
  ASSUME NEW l \in Lines, NEW c \in Cols
  PROVE  /\ l \in Nat /\ c \in Nat /\ l < HeightInCtus /\ c < NumTasksPerLine
         /\ HeightInCtus \in Nat /\ NumTasksPerLine \in Nat
         /\ c > 0 => c - 1 \in Cols
         /\ c + 1 < NumTasksPerLine => c + 1 \in Cols
         /\ l > 0 => l - 1 \in Lines
         /\ l + 1 < HeightInCtus => l + 1 \in Lines
         /\ Last \in Cols
  BY SizeAssumption DEF Lines, Cols, Last

(* What a guard has seen stays true. *)
LEMMA GuardsStable ==
  ASSUME TypeOK, TypeOK', \A a \in Lines, b \in Cols : Moves(a, b),
         NEW l \in Lines, NEW c \in Cols, NEW s \in Guarded, Guard(s, l, c)
  PROVE  Guard(s, l, c)'
<1>1. \A a \in Lines, b \in Cols : ctuState'[a][b] >= ctuState[a][b]
  BY Growth
<1>2. \A a \in Lines, b \in Cols : ctuState[a][b] \in TaskType /\ ctuState'[a][b] \in TaskType
  BY DEF TypeOK
<1>3. \A a \in Lines, b \in Cols, n \in Int :
        /\ ctuState[a][b] >= n => ctuState'[a][b] >= n
        /\ ctuState[a][b] > n => ctuState'[a][b] > n
  BY <1>1, <1>2
<1>4. /\ c > 0 => c - 1 \in Cols
      /\ c + 1 < NumTasksPerLine => c + 1 \in Cols
      /\ l > 0 => l - 1 \in Lines
      /\ l + 1 < HeightInCtus => l + 1 \in Lines
      /\ Last \in Cols
  BY Neighbours
<1>5. CASE s \in {MIDER, INTRA}
  <2>1. UpperRightDone(s, l, c)'
    BY <1>3, <1>4, <1>5 DEF UpperRightDone, Guard
  <2> QED BY <2>1, <1>5 DEF Guard
<1>6. CASE s = RSP
  <2>1. NoLongerIntraSource(l, c)
    BY <1>6 DEF Guard
  <2>2. NoLongerIntraSource(l, c)'
    BY <2>1, <1>3, <1>4 DEF NoLongerIntraSource
  <2> QED BY <2>2, <1>6 DEF Guard
<1>7. CASE s = LF_V
  <2>1. c > 0 => ctuState[l][c-1] >= LF_V
    BY <1>7 DEF Guard
  <2>2. c > 0 => ctuState'[l][c-1] >= LF_V
    BY <2>1, <1>3, <1>4
  <2> QED BY <2>2, <1>7 DEF Guard
<1>8. CASE s = LF_H
  <2>1. VerticalEdgesDone(l, c)
    BY <1>8 DEF Guard
  <2>2. VerticalEdgesDone(l, c)'
    BY <2>1, <1>3, <1>4 DEF VerticalEdgesDone
  <2> QED BY <2>2, <1>8 DEF Guard
<1>9. CASE s = PRESAO
  <2>1. LineDeblocked(l, c)
    BY <1>9 DEF Guard
  <2>2. LineDeblocked(l, c)'
    <3>1. CASE c = Last
      BY <2>1, <3>1, <1>3, <1>4 DEF LineDeblocked
    <3>2. CASE c # Last
      BY <2>1, <3>2, <1>3, <1>4 DEF LineDeblocked
    <3> QED BY <3>1, <3>2
  <2> QED BY <2>2, <1>9 DEF Guard
<1>10. CASE s = ALF
  <2>1. NeighboursPrepared(l, c)
    BY <1>10 DEF Guard
  <2>2. ASSUME DoALF, NEW i \in {l - 1, l, l + 1} \cap Lines, NEW j \in {c - 1, c, c + 1} \cap Cols,
               i # l \/ j # c
        PROVE  ctuState'[i][j] >= (IF j = c + 1 THEN SAO_cont ELSE ALF)
    <3>1. ctuState[i][j] >= (IF j = c + 1 THEN SAO_cont ELSE ALF)
      BY <2>1, <2>2 DEF NeighboursPrepared
    <3> QED BY <3>1, <1>3
  <2>3. NeighboursPrepared(l, c)'
    BY <2>2 DEF NeighboursPrepared
  <2> QED BY <2>3, <1>10 DEF Guard
<1> QED BY <1>5, <1>6, <1>7, <1>8, <1>9, <1>10 DEF Guarded

LEMMA Initial == Init => IndInv
<1> SUFFICES ASSUME Init PROVE IndInv
  OBVIOUS
<1>1. TypeOK
  <2>1. refExt \in {"blocked", "open", "error"}
    BY DEF Init
  <2>2. /\ ctuState \in [Lines -> [Cols -> TaskType]]
        /\ ctu \in [Lines -> [Cols -> Nat]]
    BY DEF Init
  <2>3. /\ pool \in [Lines -> [Cols -> {"absent", "queued", "waiting", "running", "gone"}]]
        /\ exc \in BOOLEAN
    BY DEF Init
  <2> QED BY <2>1, <2>2, <2>3 DEF TypeOK
<1>2. TaskInv
  BY DEF Init, TaskInv
<1>3. GuardInv
  BY DEF Init, GuardInv, Guarded, Entered
<1>4. LoopInv
  BY DEF Init, LoopInv
<1> QED BY <1>1, <1>2, <1>3, <1>4 DEF IndInv

LEMMA Inductive == IndInv /\ [Next]_wfVars => IndInv'
<1> SUFFICES ASSUME IndInv, [Next]_wfVars PROVE IndInv'
  OBVIOUS
<1> USE DEF IndInv
<1>1. TypeOK' /\ TaskInv' /\ \A l \in Lines, c \in Cols : Moves(l, c)
  BY StepShape
<1>2. ASSUME NEW l \in Lines, NEW c \in Cols, NEW s \in Guarded, Entered(s, l, c)'
      PROVE  Guard(s, l, c)'
  <2>1. Entered(s, l, c) \/ (ctuState[l][c] = s /\ Ready(l, c))
    BY <1>1, <1>2, Growth
  <2>2. Guard(s, l, c)
    BY <2>1 DEF GuardInv, Guard, Ready
  <2> QED BY <1>1, <2>2, GuardsStable
<1>3. GuardInv'
  BY <1>2 DEF GuardInv, Guarded
<1>4. LoopInv'
  BY <1>1, Loops
<1> QED BY <1>1, <1>3, <1>4

(* The variables keep their types (CtuTaskParam, CommonTaskParam, Slot).   *)
THEOREM TypeCorrect == Spec => []TypeOK
<1>1. IndInv => TypeOK
  BY DEF IndInv
<1> QED BY Initial, Inductive, <1>1, PTL DEF Spec

-----------------------------------------------------------------------------
(* The guards of the tasks, as facts about states.                         *)
LEMMA Seen ==
  ASSUME IndInv
  PROVE  \A l \in Lines, c \in Cols :
           /\ ctuState[l][c] \in TaskType /\ ctu[l][c] \in Nat
           /\ \A s \in {MIDER, INTRA} : Entered(s, l, c) => UpperRightDone(s, l, c)
           /\ Entered(RSP, l, c) => NoLongerIntraSource(l, c)
           /\ Entered(LF_V, l, c) /\ c > 0 => ctuState[l][c-1] >= LF_V
           /\ Entered(LF_H, l, c) => VerticalEdgesDone(l, c)
           /\ Entered(PRESAO, l, c) => LineDeblocked(l, c)
           /\ Entered(ALF, l, c) => NeighboursPrepared(l, c)
<1>1. TypeOK /\ GuardInv
  BY DEF IndInv
<1>2. \A l \in Lines, c \in Cols : ctuState[l][c] \in TaskType /\ ctu[l][c] \in Nat
  BY <1>1 DEF TypeOK
<1>3. \A l \in Lines, c \in Cols, s \in Guarded : Entered(s, l, c) => Guard(s, l, c)
  BY <1>1 DEF GuardInv
<1> QED BY <1>2, <1>3 DEF Guard, Guarded

(* A task inside MIDER or INTRA, or past it, has the tasks to the left,    *)
(* above left and above behind it, and the one above right has begun.      *)
LEMMA UpperRight ==
  ASSUME IndInv, NEW l \in Lines, NEW c \in Cols, NEW s \in {MIDER, INTRA},
         Entered(s, l, c)
  PROVE  /\ c > 0 => ctuState[l][c-1] > s + 1
         /\ l > 0 => ctuState[l-1][c] > s + 1
         /\ l > 0 /\ c > 0 => ctuState[l-1][c-1] > s + 1
         /\ l > 0 /\ c + 1 < NumTasksPerLine => ctuState[l-1][c+1] > s
<1>1. \A a \in Lines, b \in Cols :
        /\ ctuState[a][b] \in Int
        /\ ctuState[a][b] > s => UpperRightDone(s, a, b)
  BY Seen DEF Entered
<1>2. UpperRightDone(s, l, c)
  BY Seen
<1>3. s \in Int
  OBVIOUS
<1>4. l > 0 => ctuState[l-1][c] > s + 1
  <2>1. CASE l > 0 /\ c + 1 < NumTasksPerLine
    <3>1. c + 1 \in Cols /\ l - 1 \in Lines
      BY <2>1, Neighbours
    <3>2. UpperRightDone(s, l - 1, c + 1)
      BY <1>1, <1>2, <2>1, <3>1 DEF UpperRightDone
    <3> QED BY <1>1, <1>3, <3>2, Neighbours DEF UpperRightDone
  <2> QED BY <1>2, <2>1 DEF UpperRightDone
<1>5. l > 0 /\ c > 0 => ctuState[l-1][c-1] > s + 1
  BY <1>1, <1>3, <1>4, Neighbours DEF UpperRightDone
<1> QED BY <1>2, <1>4, <1>5 DEF UpperRightDone

(* While CTU k of a task is worked on in the loop of MIDER, or in LF_INIT, *)
(* respectively in the loop of INTRA, the same stage is finished for the   *)
(* CTU on the left and for the three above.                                *)
LEMMA UpperRightFinished ==
  ASSUME IndInv, NEW l \in Lines, NEW c \in Cols, NEW d \in Cols,
         NEW k \in Ctus(c), NEW j \in Ctus(d), NEW s \in {MIDER, INTRA},
         ctu[l][c] = k, ctuState[l][c] \in {s, s + 1, s + 2}
  PROVE  /\ NextTo(d, j, c, k) => Finished(s, l, d, j)
         /\ l > 0 /\ Near(c, k, d, j) => Finished(s, l - 1, d, j)
<1>1. \A a \in Lines, b \in Cols :
        /\ ctuState[a][b] \in TaskType /\ ctu[a][b] \in Nat
        /\ ctuState[a][b] = s + 1 => ctu[a][b] > 1
  BY Seen DEF IndInv, LoopInv
<1>2. \A a \in Lines, b \in Cols, i \in Nat :
        Finished(s, a, b, i) <=>
          \/ ctuState[a][b] > s + 1
          \/ ctuState[a][b] \in {s, s + 1} /\ ctu[a][b] > i
  BY <1>1 DEF Finished, Stage, NextStage, HasCont
<1>3. /\ k \in Nat /\ j \in Nat /\ k >= 1 /\ j >= 1
      /\ s \in Int /\ CtusInTask[c] \in Nat /\ CtusInTask[d] \in Nat
  BY SizeAssumption DEF Ctus
<1>4. Entered(s, l, c)
  BY <1>3 DEF Entered
<1>5. /\ c > 0 => ctuState[l][c-1] > s + 1
      /\ l > 0 => ctuState[l-1][c] > s + 1
      /\ l > 0 /\ c > 0 => ctuState[l-1][c-1] > s + 1
      /\ l > 0 /\ c + 1 < NumTasksPerLine => ctuState[l-1][c+1] > s
  BY <1>4, UpperRight
<1>6. /\ c \in Nat /\ d \in Nat /\ d < NumTasksPerLine
      /\ l > 0 => l - 1 \in Lines
  BY Neighbours
<1>7. ASSUME NextTo(d, j, c, k) PROVE Finished(s, l, d, j)
  <2>1. CASE d = c /\ k = j + 1
    BY <2>1, <1>2, <1>3
  <2>2. CASE c = d + 1
    <3>1. d = c - 1 /\ c > 0
      BY <2>2, <1>6
    <3> QED BY <3>1, <1>2, <1>3, <1>5
  <2> QED BY <1>7, <2>1, <2>2 DEF NextTo
<1>8. ASSUME l > 0, Near(c, k, d, j) PROVE Finished(s, l - 1, d, j)
  <2>1. CASE d = c
    BY <2>1, <1>2, <1>3, <1>5, <1>6, <1>8
  <2>2. CASE c = d + 1
    <3>1. d = c - 1 /\ c > 0
      BY <2>2, <1>6
    <3> QED BY <3>1, <1>2, <1>3, <1>5, <1>6, <1>8
  <2>3. CASE d = c + 1 /\ j = 1
    <3>1. ctuState[l-1][d] > s
      BY <2>3, <1>5, <1>6, <1>8
    <3>2. ctuState[l-1][d] > s + 1 \/ (ctuState[l-1][d] = s + 1 /\ ctu[l-1][d] > 1)
      BY <3>1, <1>1, <1>3, <1>6, <1>8
    <3> QED BY <3>2, <2>3, <1>2, <1>3, <1>6, <1>8
  <2> QED BY <1>8, <2>1, <2>2, <2>3 DEF Near, NextTo
<1> QED BY <1>7, <1>8

(* Merge candidates and filter strengths are taken from motion that is     *)
(* complete (cases MIDER and LF_INIT of ctuTask).                          *)
THEOREM MotionSourcesComplete == Spec => []MotionSources
<1>1. IndInv => MotionSources
  <2> SUFFICES ASSUME IndInv,
                      NEW l \in Lines, NEW c \in Cols, NEW d \in Cols,
                      NEW k \in Ctus(c), NEW j \in Ctus(d),
                      Doing(MIDER, l, c, k) \/ Doing(LF_INIT, l, c, k)
               PROVE  /\ NextTo(d, j, c, k) => Finished(MIDER, l, d, j)
                      /\ l > 0 /\ Near(c, k, d, j) => Finished(MIDER, l - 1, d, j)
    BY DEF MotionSources
  <2>1. ctuState[l][c] \in {MIDER, MIDER + 1, MIDER + 2} /\ ctu[l][c] = k
    BY Seen DEF Doing, Stage
  <2> QED BY <2>1, UpperRightFinished
<1> QED BY Initial, Inductive, <1>1, PTL DEF Spec

(* None of the tasks around one that is being intra predicted, except the  *)
(* ones on its right, has been taken by the inverse reshaper.              *)
LEMMA AroundIntra ==
  ASSUME IndInv, NEW l \in Lines, NEW c \in Cols,
         ctuState[l][c] \in {INTRA, INTRA_cont}, ctu[l][c] > 0
  PROVE  /\ c > 0 /\ ctu[l][c] = 1 => ~Entered(RSP, l, c - 1)
         /\ l > 0 => ~Entered(RSP, l - 1, c)
         /\ l > 0 /\ c > 0 /\ ctu[l][c] = 1 => ~Entered(RSP, l - 1, c - 1)
         /\ l > 0 /\ c + 1 < NumTasksPerLine => ~Entered(RSP, l - 1, c + 1)
<1>1. \A a \in Lines, b \in Cols :
        /\ ctuState[a][b] \in Int
        /\ Entered(RSP, a, b) => NoLongerIntraSource(a, b)
        /\ ctuState[a][b] = INTRA_cont => ctu[a][b] > 1
  BY Seen DEF IndInv, LoopInv
<1>0. /\ l \in Nat /\ c \in Nat /\ l < HeightInCtus /\ c < NumTasksPerLine
      /\ c > 0 => c - 1 \in Cols
      /\ l > 0 => l - 1 \in Lines
  BY Neighbours
<1>2. c > 0 /\ ctu[l][c] = 1 => ~Entered(RSP, l, c - 1)
  BY <1>0, <1>1 DEF NoLongerIntraSource
<1>3. l > 0 => ~Entered(RSP, l - 1, c)
  BY <1>0, <1>1 DEF NoLongerIntraSource
<1>4. l > 0 /\ c > 0 /\ ctu[l][c] = 1 => ~Entered(RSP, l - 1, c - 1)
  BY <1>0, <1>1 DEF NoLongerIntraSource
<1>5. ASSUME l > 0, c + 1 < NumTasksPerLine, Entered(RSP, l - 1, c + 1) PROVE FALSE
  <2>1. c + 1 \in Cols /\ l - 1 \in Lines /\ c \in Nat /\ l \in Nat /\ l < HeightInCtus
    BY <1>5, Neighbours
  <2>2. ctuState[l][c+1] >= RSP
    BY <1>1, <1>5, <2>1 DEF NoLongerIntraSource
  <2>3. Entered(INTRA, l, c + 1)
    BY <1>1, <2>1, <2>2 DEF Entered
  <2>4. (c + 1) - 1 = c /\ c + 1 > 0
    BY <2>1
  <2>5. ctuState[l][c] > INTRA + 1
    BY <2>1, <2>3, <2>4, UpperRight
  <2> QED BY <2>5
<1> QED BY <1>2, <1>3, <1>4, <1>5

(* Intra prediction never reads samples that are missing or already        *)
(* reshaped (cases INTRA and RSP of ctuTask).                              *)
THEOREM IntraSourcesAlwaysIntact == Spec => []IntraSourcesIntact
<1>1. IndInv => IntraSourcesIntact
  <2> SUFFICES ASSUME IndInv,
                      NEW l \in Lines, NEW c \in Cols, NEW d \in Cols,
                      NEW k \in Ctus(c), NEW j \in Ctus(d),
                      Doing(INTRA, l, c, k)
               PROVE  /\ NextTo(d, j, c, k) => IntraSourceIntact(l, d, j)
                      /\ l > 0 /\ Near(c, k, d, j) => IntraSourceIntact(l - 1, d, j)
    BY DEF IntraSourcesIntact
  <2>1. ctuState[l][c] \in {INTRA, INTRA_cont} /\ ctu[l][c] = k
    BY Seen DEF Doing, Stage
  <2>2. /\ NextTo(d, j, c, k) => Finished(INTRA, l, d, j)
        /\ l > 0 /\ Near(c, k, d, j) => Finished(INTRA, l - 1, d, j)
    BY <2>1, UpperRightFinished
  <2>3. \A a \in Lines, b \in Cols : Begun(RSP, a, b, 1) => Entered(RSP, a, b)
    BY Seen DEF Begun, Entered, Stage, NextStage, HasCont
  <2>4. /\ c \in Nat /\ d \in Nat /\ d < NumTasksPerLine /\ NumTasksPerLine \in Nat
        /\ l > 0 => l - 1 \in Lines
        /\ k \in Nat /\ k > 0
    <3>1. CtusInTask[c] \in Nat
      BY SizeAssumption
    <3>2. k \in Nat /\ k > 0
      BY <3>1 DEF Ctus
    <3> QED BY <3>2, Neighbours
  <2>5. /\ c > 0 /\ k = 1 => ~Begun(RSP, l, c - 1, 1)
        /\ l > 0 => ~Begun(RSP, l - 1, c, 1)
        /\ l > 0 /\ c > 0 /\ k = 1 => ~Begun(RSP, l - 1, c - 1, 1)
        /\ l > 0 /\ c + 1 < NumTasksPerLine => ~Begun(RSP, l - 1, c + 1, 1)
    BY <2>1, <2>3, <2>4, AroundIntra, Neighbours
  <2>6. ~Begun(RSP, l, c, 1)
    BY <2>1 DEF Begun, Stage, NextStage, HasCont
  <2>7. \/ d = c
        \/ c > 0 /\ d = c - 1 /\ k = 1
        \/ d = c + 1 /\ c + 1 < NumTasksPerLine /\ ~NextTo(d, j, c, k)
        \/ ~Near(c, k, d, j) /\ ~NextTo(d, j, c, k)
    BY <2>4 DEF Near, NextTo
  <2>8. ASSUME NextTo(d, j, c, k) PROVE ~Begun(RSP, l, d, 1)
    BY <2>5, <2>6, <2>7, <2>8
  <2>9. ASSUME l > 0, Near(c, k, d, j) PROVE ~Begun(RSP, l - 1, d, 1)
    BY <2>4, <2>5, <2>7, <2>9 DEF Near
  <2> QED BY <2>2, <2>8, <2>9 DEF IntraSourceIntact
<1> QED BY Initial, Inductive, <1>1, PTL DEF Spec

-----------------------------------------------------------------------------
(* Vertical edges are filtered after the left CTU is reshaped and before   *)
(* its horizontal edges are, horizontal edges after all vertical edges     *)
(* they touch (cases LF_V and LF_H of ctuTask).                            *)
THEOREM DeblockInOrder == Spec => []DeblockOrder
<1>1. IndInv => DeblockOrder
  <2> SUFFICES ASSUME IndInv,
                      NEW l \in Lines, NEW c \in Cols, NEW d \in Cols,
                      NEW k \in Ctus(c), NEW j \in Ctus(d)
               PROVE  /\ Doing(LF_V, l, c, k) /\ (d = c \/ NextTo(d, j, c, k)) =>
                           Finished(RSP, l, d, j) /\ ~Begun(LF_H, l, d, j)
                      /\ Doing(LF_H, l, c, k) /\ ((d = c /\ j = k) \/ NextTo(c, k, d, j)) =>
                           /\ Finished(LF_V, l, d, j)
                           /\ l > 0 => Finished(LF_V, l - 1, d, j)
    BY DEF DeblockOrder
  <2>1. \A a \in Lines, b \in Cols :
          /\ ctuState[a][b] \in TaskType /\ ctu[a][b] \in Nat
          /\ ctuState[a][b] = LF_V_cont => ctu[a][b] > 1
          /\ Entered(LF_V, a, b) /\ b > 0 => ctuState[a][b-1] >= LF_V
          /\ Entered(LF_H, a, b) => VerticalEdgesDone(a, b)
    BY Seen DEF IndInv, LoopInv
  <2>2. CtusInTask[c] \in Nat /\ CtusInTask[d] \in Nat
    BY SizeAssumption
  <2>3. k \in Nat /\ k >= 1 /\ j \in Nat /\ j >= 1
    BY <2>2 DEF Ctus
  <2>4. /\ c \in Nat /\ d \in Nat /\ c < NumTasksPerLine /\ d < NumTasksPerLine
        /\ NumTasksPerLine \in Nat
        /\ l > 0 => l - 1 \in Lines
    BY Neighbours
  <2>5. \A a \in Lines, b \in Cols, i \in Nat :
          /\ Finished(RSP, a, b, i) <=>
               ctuState[a][b] >= LF_V \/ (ctuState[a][b] = RSP /\ ctu[a][b] > i)
          /\ Finished(LF_V, a, b, i) <=>
               \/ ctuState[a][b] >= LF_H
               \/ ctuState[a][b] \in {LF_V, LF_V_cont} /\ ctu[a][b] > i
          /\ Begun(LF_H, a, b, i) /\ i >= 1 => Entered(LF_H, a, b)
    BY <2>1 DEF Finished, Begun, Entered, Stage, NextStage, HasCont
  <2>6. ASSUME Doing(LF_V, l, c, k), d = c \/ NextTo(d, j, c, k)
        PROVE  Finished(RSP, l, d, j) /\ ~Begun(LF_H, l, d, j)
    <3>1. ctuState[l][c] \in {LF_V, LF_V_cont} /\ ctu[l][c] = k
      BY <2>1, <2>6 DEF Doing, Stage
    <3>2. CASE d = c
      BY <3>1, <3>2, <2>3, <2>5 DEF Entered
    <3>3. CASE c = d + 1 /\ k = 1
      <4>1. d = c - 1 /\ c > 0
        BY <3>3, <2>4
      <4>2. ctuState[l][d] >= LF_V
        BY <4>1, <3>1, <3>3, <2>1 DEF Entered
      <4>3. ~Entered(LF_H, l, d)
        BY <3>1, <3>3, <2>1, <2>4 DEF VerticalEdgesDone
      <4> QED BY <4>2, <4>3, <2>3, <2>5
    <3> QED BY <2>6, <3>2, <3>3 DEF NextTo
  <2>7. ASSUME Doing(LF_H, l, c, k), (d = c /\ j = k) \/ NextTo(c, k, d, j)
        PROVE  /\ Finished(LF_V, l, d, j)
               /\ l > 0 => Finished(LF_V, l - 1, d, j)
    <3>1. ctuState[l][c] = LF_H /\ ctu[l][c] = k
      BY <2>1, <2>7 DEF Doing, Stage
    <3>2. VerticalEdgesDone(l, c)
      BY <3>1, <2>1, <2>3 DEF Entered
    <3>3. CASE d = c
      BY <3>1, <3>2, <3>3, <2>3, <2>4, <2>5 DEF VerticalEdgesDone
    <3>4. CASE d = c + 1 /\ j = 1
      BY <3>2, <3>4, <2>1, <2>3, <2>4, <2>5 DEF VerticalEdgesDone
    <3> QED BY <2>7, <3>3, <3>4 DEF NextTo
  <2> QED BY <2>6, <2>7
<1> QED BY Initial, Inductive, <1>1, PTL DEF Spec

-----------------------------------------------------------------------------
(* A line whose SAO has begun somewhere has been copied, and so has the    *)
(* line above: PRESAO of a line is done by its last task.                  *)
LEMMA CopiedBelow ==
  ASSUME IndInv, NEW l \in Lines, NEW c \in Cols, ctuState[l][c] > PRESAO
  PROVE  /\ ctuState[l][Last] > PRESAO
         /\ l > 0 => ctuState[l-1][Last] > PRESAO
<1>1. \A a \in Lines, b \in Cols : ctuState[a][b] > PRESAO => LineDeblocked(a, b)
  BY Seen DEF Entered
<1>2. Last \in Cols
  BY Neighbours
<1>3. ctuState[l][Last] > PRESAO
  BY <1>1 DEF LineDeblocked
<1> QED BY <1>1, <1>2, <1>3 DEF LineDeblocked

(* SAO works with a copy of the deblocked line that nobody has changed     *)
(* before it was made, and that ALF has not overwritten (cases PRESAO, SAO *)
(* and ALF of ctuTask).                                                    *)
THEOREM SaoCopyAlwaysIntact == Spec => []SaoCopyIntact
<1>1. IndInv => SaoCopyIntact
  <2> SUFFICES ASSUME IndInv,
                      NEW l \in Lines, NEW m \in Lines, NEW c \in Cols, NEW d \in Cols,
                      NEW k \in Ctus(c), NEW j \in Ctus(d)
               PROVE  /\ Doing(PRESAO, l, Last, 1) /\ m \in {l, l + 1} =>
                           Finished(LF_H, m, d, j) /\ ~Begun(SAO, m, d, j)
                      /\ Doing(SAO, l, c, k) =>
                           /\ m \in {l - 1, l} => Finished(PRESAO, m, Last, 1)
                           /\ DoALF /\ m \in {l - 1, l, l + 1} /\ Near(c, k, d, j) =>
                                ~Begun(ALF, m, d, j)
    BY DEF SaoCopyIntact
  <2>1. \A a \in Lines, b \in Cols :
          /\ ctuState[a][b] \in TaskType /\ ctu[a][b] \in Nat
          /\ ctuState[a][b] = SAO_cont => ctu[a][b] > CtusInTask[b] + 1
          /\ Entered(PRESAO, a, b) => LineDeblocked(a, b)
          /\ Entered(ALF, a, b) => NeighboursPrepared(a, b)
    BY Seen DEF IndInv, LoopInv
  <2>2. CtusInTask[c] \in Nat /\ CtusInTask[d] \in Nat
    BY SizeAssumption
  <2>3. k \in Nat /\ k >= 1 /\ k <= CtusInTask[c] /\ j \in Nat /\ j >= 1
    BY <2>2 DEF Ctus
  <2>4. /\ l \in Nat /\ m \in Nat /\ m < HeightInCtus /\ HeightInCtus \in Nat
        /\ c \in Nat /\ d \in Nat /\ Last \in Cols
    BY Neighbours
  <2>5. \A a \in Lines, b \in Cols, i \in Nat :
          /\ ctuState[a][b] >= PRESAO => Finished(LF_H, a, b, i)
          /\ ctuState[a][b] > PRESAO => Finished(PRESAO, a, b, i)
          /\ Begun(SAO, a, b, i) => ctuState[a][b] > PRESAO
          /\ Begun(ALF, a, b, i) /\ i >= 1 => Entered(ALF, a, b)
    BY <2>1 DEF Finished, Begun, Entered, Stage, NextStage, HasCont
  <2>6. ASSUME Doing(PRESAO, l, Last, 1), m \in {l, l + 1}
        PROVE  Finished(LF_H, m, d, j) /\ ~Begun(SAO, m, d, j)
    <3>1. ctuState[l][Last] = PRESAO /\ ctu[l][Last] = 1
      BY <2>1, <2>4, <2>6 DEF Doing, Stage
    <3>2. LineDeblocked(l, Last)
      BY <3>1, <2>1, <2>4 DEF Entered
    <3>3. ctuState[m][d] >= PRESAO
      BY <3>2, <2>4, <2>6 DEF LineDeblocked
    <3>4. ~(ctuState[m][d] > PRESAO)
      <4>1. CASE m = l
        BY <4>1, <3>1, CopiedBelow
      <4>2. CASE m = l + 1
        <5>1. m > 0 /\ m - 1 = l
          BY <4>2, <2>4
        <5> QED BY <5>1, <3>1, CopiedBelow
      <4> QED BY <2>6, <4>1, <4>2
    <3> QED BY <3>3, <3>4, <2>3, <2>5
  <2>7. ASSUME Doing(SAO, l, c, k)
        PROVE  ctuState[l][c] \in {SAO, SAO_cont} /\ ctu[l][c] = k
    BY <2>1, <2>7 DEF Doing, Stage
  <2>8. ASSUME Doing(SAO, l, c, k), m \in {l - 1, l}
        PROVE  Finished(PRESAO, m, Last, 1)
    <3>1. ctuState[l][Last] > PRESAO /\ (l > 0 => ctuState[l-1][Last] > PRESAO)
      BY <2>7, <2>8, CopiedBelow
    <3>2. ctuState[m][Last] > PRESAO
      BY <3>1, <2>4, <2>8
    <3> QED BY <3>2, <2>4, <2>5
  <2>9. ASSUME Doing(SAO, l, c, k), DoALF, m \in {l - 1, l, l + 1}, Near(c, k, d, j)
        PROVE  ~Begun(ALF, m, d, j)
    <3>1. ctuState[l][c] = SAO
      BY <2>1, <2>2, <2>3, <2>7, <2>9
    <3> SUFFICES ASSUME Begun(ALF, m, d, j) PROVE FALSE
      OBVIOUS
    <3>2. NeighboursPrepared(m, d) /\ ctuState[m][d] >= ALF
      BY <2>1, <2>3, <2>5 DEF Entered
    <3>3. l \in {m - 1, m, m + 1} \cap Lines /\ c \in {d - 1, d, d + 1} \cap Cols
      BY <2>4, <2>9 DEF Near, NextTo
    <3>4. l # m \/ c # d
      BY <3>1, <3>2
    <3>5. ctuState[l][c] >= (IF c = d + 1 THEN SAO_cont ELSE ALF)
      BY <3>2, <3>3, <3>4, <2>9 DEF NeighboursPrepared
    <3> QED BY <3>1, <3>5
  <2> QED BY <2>6, <2>8, <2>9
<1> QED BY Initial, Inductive, <1>1, PTL DEF Spec

(* ALF reads final samples: the eight CTUs around have their SAO result    *)
(* and extended borders (case ALF of ctuTask).                             *)
THEOREM AlfSourcesAlwaysFinal == Spec => []AlfSourcesFinal
<1>1. IndInv => AlfSourcesFinal
  <2> SUFFICES ASSUME IndInv,
                      NEW l \in Lines, NEW m \in Lines, NEW c \in Cols, NEW d \in Cols,
                      NEW k \in Ctus(c), NEW j \in Ctus(d),
                      DoALF, Doing(ALF, l, c, k), m \in {l - 1, l, l + 1}, Near(c, k, d, j)
               PROVE  Finished(SAO, m, d, CtusInTask[d] + j)
    BY DEF AlfSourcesFinal
  <2>1. \A a \in Lines, b \in Cols :
          /\ ctuState[a][b] \in TaskType /\ ctu[a][b] \in Nat
          /\ ctuState[a][b] = SAO_cont => ctu[a][b] > CtusInTask[b] + 1
          /\ Entered(ALF, a, b) => NeighboursPrepared(a, b)
    BY Seen DEF IndInv, LoopInv
  <2>2. CtusInTask[c] \in Nat /\ CtusInTask[d] \in Nat
    BY SizeAssumption
  <2>3. k \in Nat /\ k >= 1 /\ j \in Nat /\ j >= 1
    BY <2>2 DEF Ctus
  <2>4. ctuState[l][c] = ALF /\ ctu[l][c] = k
    BY <2>1 DEF Doing, Stage
  <2>5. NeighboursPrepared(l, c)
    BY <2>1, <2>3, <2>4 DEF Entered
  <2>6. /\ m \in {l - 1, l, l + 1} \cap Lines /\ d \in {c - 1, c, c + 1} \cap Cols
        /\ d = c + 1 => j = 1
    BY Neighbours DEF Near, NextTo
  <2>7. ctuState[m][d] >= (IF d = c + 1 THEN SAO_cont ELSE ALF)
    BY <2>4, <2>5, <2>6 DEF NeighboursPrepared
  <2>8. CASE ctuState[m][d] >= ALF
    BY <2>8 DEF Finished, Stage, NextStage, HasCont
  <2>9. CASE ctuState[m][d] = SAO_cont /\ j = 1
    BY <2>1, <2>2, <2>9 DEF Finished, Stage, NextStage, HasCont
  <2> QED BY <2>1, <2>6, <2>7, <2>8, <2>9
<1> QED BY Initial, Inductive, <1>1, PTL DEF Spec

-----------------------------------------------------------------------------
(***************************************************************************)
(* The picture around the wavefront.  Of the wavefront it uses two facts:  *)
(* what its steps do to the place of a task in the pool (WavefrontSteps),  *)
(* and that a task that is DONE is being executed or gone (TaskInv).       *)
(***************************************************************************)
NumTasks == HeightInCtus * NumTasksPerLine

-----------------------------------------------------------------------------
(* The zig-zag scan gives every task a position of its own below NumTasks. *)

Earlier(l, c) == {t \in Lines \X Cols : Before(t, <<l, c>>)}

LEMMA EarlierFinite ==
  /\ IsFiniteSet(Lines \X Cols) /\ Cardinality(Lines \X Cols) = NumTasks
  /\ \A l \in Lines, c \in Cols : IsFiniteSet(Earlier(l, c)) /\ ZigZag(l, c) \in Nat
<1>1. HeightInCtus \in Nat /\ NumTasksPerLine \in Nat /\ HeightInCtus > 0 /\ NumTasksPerLine > 0
  BY SizeAssumption
<1>2. IsFiniteSet(Lines) /\ Cardinality(Lines) = HeightInCtus
  BY <1>1, FS_Interval DEF Lines
<1>3. IsFiniteSet(Cols) /\ Cardinality(Cols) = NumTasksPerLine
  BY <1>1, FS_Interval DEF Cols
<1>4. IsFiniteSet(Lines \X Cols) /\ Cardinality(Lines \X Cols) = NumTasks
  BY <1>2, <1>3, FS_Product DEF NumTasks
<1>5. ASSUME NEW l \in Lines, NEW c \in Cols
      PROVE  IsFiniteSet(Earlier(l, c)) /\ ZigZag(l, c) \in Nat
  <2>1. Earlier(l, c) \in SUBSET (Lines \X Cols)
    BY DEF Earlier
  <2>2. IsFiniteSet(Earlier(l, c)) /\ Cardinality(Earlier(l, c)) \in Nat
    BY <1>4, <2>1, FS_Subset, FS_CardinalityType
  <2> QED BY <2>2 DEF ZigZag, Earlier
<1> QED BY <1>4, <1>5

LEMMA ScanGrows ==
  ASSUME NEW l \in Lines, NEW c \in Cols, NEW m \in Lines, NEW d \in Cols,
         Before(<<l, c>>, <<m, d>>)
  PROVE  ZigZag(l, c) < ZigZag(m, d)
<1>1. l \in Int /\ c \in Int /\ m \in Int /\ d \in Int
  BY DEF Lines, Cols
<1>2. Earlier(l, c) \subseteq Earlier(m, d)
  <2> SUFFICES ASSUME NEW t \in Lines \X Cols, Before(t, <<l, c>>) PROVE Before(t, <<m, d>>)
    BY DEF Earlier
  <2>1. t[1] \in Int /\ t[2] \in Int
    BY DEF Lines, Cols
  <2> QED BY <1>1, <2>1 DEF Before
<1>3. <<l, c>> \in Earlier(m, d) /\ <<l, c>> \notin Earlier(l, c)
  BY <1>1 DEF Earlier, Before
<1>4. Cardinality(Earlier(l, c)) < Cardinality(Earlier(m, d))
  <2>1. IsFiniteSet(Earlier(m, d)) /\ Earlier(l, c) # Earlier(m, d)
    BY <1>3, EarlierFinite
  <2>2. /\ Cardinality(Earlier(l, c)) <= Cardinality(Earlier(m, d))
        /\ Cardinality(Earlier(l, c)) # Cardinality(Earlier(m, d))
    BY <1>2, <2>1, FS_Subset
  <2>3. Cardinality(Earlier(l, c)) \in Nat /\ Cardinality(Earlier(m, d)) \in Nat
    BY EarlierFinite, FS_CardinalityType
  <2> QED BY <2>2, <2>3
<1> QED BY <1>4 DEF ZigZag, Earlier

LEMMA ScanPositions ==
  ASSUME NEW l \in Lines, NEW c \in Cols
  PROVE  /\ ZigZag(l, c) < NumTasks
         /\ \A m \in Lines, d \in Cols : ZigZag(m, d) = ZigZag(l, c) => m = l /\ d = c
<1>1. ZigZag(l, c) < NumTasks
  <2>1. Earlier(l, c) \subseteq Lines \X Cols /\ Earlier(l, c) # Lines \X Cols
    <3>1. ~Before(<<l, c>>, <<l, c>>)
      BY DEF Before, Lines, Cols
    <3> QED BY <3>1 DEF Earlier
  <2>2. /\ Cardinality(Earlier(l, c)) <= Cardinality(Lines \X Cols)
        /\ Cardinality(Earlier(l, c)) # Cardinality(Lines \X Cols)
    BY <2>1, EarlierFinite, FS_Subset
  <2>3. Cardinality(Earlier(l, c)) = ZigZag(l, c)
    BY DEF ZigZag, Earlier
  <2>4. NumTasks \in Nat
    BY SizeAssumption DEF NumTasks
  <2> QED BY <2>2, <2>3, <2>4, EarlierFinite
<1>2. ASSUME NEW m \in Lines, NEW d \in Cols, ZigZag(m, d) = ZigZag(l, c)
      PROVE  m = l /\ d = c
  <2>1. ~Before(<<m, d>>, <<l, c>>) /\ ~Before(<<l, c>>, <<m, d>>)
    BY <1>2, ScanGrows, EarlierFinite
  <2>2. l \in Int /\ c \in Int /\ m \in Int /\ d \in Int
    BY DEF Lines, Cols
  <2> QED BY <2>1, <2>2 DEF Before
<1> QED BY <1>1, <1>2

-----------------------------------------------------------------------------
(* What a step of the wavefront does to the task (l, c): its line's        *)
(* barrier opens, a worker works on it, or it leaves the pool, done or     *)
(* with an exception.                                                      *)

Others(l, c) ==
  \A m \in Lines, d \in Cols : <<m, d>> # <<l, c>> =>
    pool'[m][d] = pool[m][d] /\ ctuState'[m][d] = ctuState[m][d]

Opens(l, c) ==
  /\ pool[l][c] = "queued" /\ pool'[l][c] = "waiting" /\ parsed > l
  /\ ctuState'[l][c] = ctuState[l][c] /\ exc' = exc

Works(l, c) ==
  /\ pool[l][c] \in {"waiting", "running"} /\ pool'[l][c] \in {"waiting", "running"}
  /\ ctuState'[l][c] # ctuState[l][c] => ctuState[l][c] # DONE
  /\ exc' = exc

Leaves(l, c) ==
  /\ InPool(l, c) /\ pool'[l][c] = "gone"
  /\ ctuState'[l][c] = ctuState[l][c]
  /\ exc' = TRUE \/ (exc' = exc /\ ctuState[l][c] = DONE)

LEMMA WavefrontSteps ==
  ASSUME TypeOK, TaskInv, NEW l \in Lines, NEW c \in Cols, CtuStep(l, c)
  PROVE  Others(l, c) /\ (Opens(l, c) \/ Works(l, c) \/ Leaves(l, c)) /\ UNCHANGED picVars
<1>0. UNCHANGED picVars
  BY DEF CtuStep
<1>1. /\ ctuState \in [Lines -> [Cols -> TaskType]]
      /\ pool \in [Lines -> [Cols -> {"absent", "queued", "waiting", "running", "gone"}]]
      /\ ctuState[l][c] = DONE => ctu[l][c] = 0
  BY DEF TypeOK, TaskInv
<1>2. CASE LineParsed(l, c)
  BY <1>0, <1>1, <1>2 DEF LineParsed, Unblock, Others, Opens
<1>3. CASE LineFails(l, c) \/ CallThrows(l, c) \/ Throw(l, c) \/ StageThrows(l, c)
  <2>1. Fail(l, c) /\ pool[l][c] \in {"queued", "waiting", "running"}
    BY <1>3 DEF LineFails, BarrierFails, CallThrows, Throw, StageThrows
  <2> QED BY <1>0, <1>1, <2>1 DEF Fail, Others, Leaves, InPool
<1>4. CASE Call(l, c) \/ EnterStage(l, c) \/ Reschedule(l, c)
  <2>1. PICK p \in {"waiting", "running"} : pool' = [pool EXCEPT ![l][c] = p]
    BY <1>1, <1>4 DEF Call, EnterStage, Reschedule
  <2>2. /\ ctuState' = ctuState /\ exc' = exc
        /\ pool[l][c] \in {"waiting", "running"}
    BY <1>4 DEF Call, EnterStage, Reschedule
  <2> QED BY <1>0, <1>1, <2>1, <2>2 DEF Others, Works
<1>5. CASE FinishItem(l, c)
  <2>1. PICK s : ctuState' = [ctuState EXCEPT ![l][c] = s]
    BY <1>5 DEF FinishItem
  <2>2. /\ pool' = pool /\ exc' = exc /\ pool[l][c] = "running" /\ ctuState[l][c] # DONE
    BY <1>1, <1>5 DEF FinishItem
  <2> QED BY <1>0, <1>1, <2>1, <2>2 DEF Others, Works
<1>6. CASE Return(l, c)
  BY <1>0, <1>1, <1>6 DEF Return, Others, Leaves, InPool
<1> QED BY <1>2, <1>3, <1>4, <1>5, <1>6 DEF CtuStep, TaskStep

LEMMA PicStepIsWavefrontStep == [PicNext]_vars => [Next]_wfVars
<1> SUFFICES ASSUME [PicNext]_vars PROVE [Next]_wfVars
  OBVIOUS
<1>1. ASSUME NEW l \in Lines, NEW c \in Cols, Schedule(l, c) \/ CtuStep(l, c)
      PROVE  Next
  BY <1>1 DEF Schedule, CtuStep, LineParsed, LineFails, Next
<1>2. CASE RefExt
  BY <1>2 DEF RefExt, Next
<1>3. CASE \/ ScheduleFinish \/ ScheduleFails \/ SliceMissing \/ PictureDone \/ PictureFailed
           \/ CleanedUp \/ ParseLine \/ ParseEnds \/ ParseFails \/ FinishTask \/ FinishUnlocks
           \/ FinishFails
  BY <1>3 DEF ScheduleFinish, ScheduleFails, GiveUp, SliceMissing, PictureDone, PictureFailed,
     CleanedUp, ParseLine, ParseEnds, ParseFails, FinishTask, FinishUnlocks, FinishFails
<1>4. CASE UNCHANGED vars
  BY <1>4 DEF vars
<1> QED BY <1>1, <1>2, <1>3, <1>4 DEF PicNext

(* The picture around the tasks adds no behaviour to the wavefront, so all *)
(* that is proved of CtuWavefront holds in a DecLibRecon object.           *)
THEOREM DecodesByWavefront == PicSpec => Spec
<1>1. PicInit => Init
  BY DEF PicInit
<1> QED BY <1>1, PicStepIsWavefrontStep, PTL DEF PicSpec, Spec

-----------------------------------------------------------------------------
(* The invariant of the picture.                                           *)

PicType ==
  /\ main \in {"schedule", "decoding", "cleanup", "released"}
  /\ next \in Nat
  /\ received \in 1..HeightInCtus /\ parsed \in 0..received
  /\ parseTask \in {"running", "gone"}
  /\ parseDone \in {"locked", "unlocked", "error"}
  /\ finishPic \in {"absent", "queued", "returned", "gone"}
  /\ reconDone \in {"locked", "unlocked", "error"}
  /\ picError \in BOOLEAN
  /\ progress \in {"reconstructing", "reconstructed"}

(* The tasks up to the position of the scan were added.                    *)
ScanInv ==
  /\ \A l \in Lines, c \in Cols : ZigZag(l, c) < next => pool[l][c] # "absent"
  /\ finishPic # "absent" => next = NumTasks

(* Only an exception lets a task leave the pool unfinished.                *)
GoneInv == \A l \in Lines, c \in Cols : pool[l][c] = "gone" /\ ctuState[l][c] # DONE => exc

PictureComplete ==
  /\ ~exc /\ progress = "reconstructed"
  /\ \A l \in Lines, c \in Cols : pool[l][c] = "gone" /\ ctuState[l][c] = DONE

OutcomeInv ==
  /\ main = "schedule" => finishPic = "absent" /\ reconDone = "locked"
  /\ reconDone = "unlocked" => finishPic = "gone"
  /\ finishPic = "returned" \/ reconDone = "unlocked" => PictureComplete
  /\ main = "cleanup" => picError /\ reconDone # "locked"
  /\ main = "released" => /\ NoCtuTask /\ reconDone # "locked"
                          /\ ~picError => reconDone = "unlocked"
  /\ parseDone = "error" => picError

PicInv == TypeOK /\ TaskInv /\ PicType /\ ScanInv /\ GoneInv /\ OnlyParsedLines /\ OutcomeInv

LEMMA CompleteIsParsed ==
  ASSUME PicInv, PictureComplete
  PROVE  parsed = HeightInCtus /\ received = HeightInCtus
<1>1. HeightInCtus - 1 \in Lines /\ 0 \in Cols
  BY SizeAssumption DEF Lines, Cols
<1>2. parsed > HeightInCtus - 1
  BY <1>1 DEF PictureComplete, PicInv, OnlyParsedLines, DONE, MIDER
<1> QED BY <1>2, SizeAssumption DEF PicInv, PicType

LEMMA PicInitial == PicInit => PicInv
<1> SUFFICES ASSUME PicInit PROVE PicInv
  OBVIOUS
<1>1. Init /\ HeightInCtus \in Nat /\ HeightInCtus > 0
  BY SizeAssumption DEF PicInit
<1>2. TypeOK /\ TaskInv
  BY <1>1, Initial DEF IndInv
<1>3. received \in 1..HeightInCtus
  BY <1>1 DEF PicInit
<1>4. PicType
  BY <1>1, <1>3 DEF PicInit, PicType
<1>5. \A l \in Lines, c \in Cols : pool[l][c] = "absent" /\ ctuState[l][c] = MIDER
  BY <1>1 DEF Init
<1>6. ScanInv
  <2>1. \A l \in Lines, c \in Cols : ~(ZigZag(l, c) < 0)
    BY EarlierFinite
  <2> QED BY <2>1 DEF PicInit, ScanInv
<1>7. GoneInv /\ OnlyParsedLines
  BY <1>5 DEF GoneInv, OnlyParsedLines, MIDER
<1>8. OutcomeInv
  BY DEF PicInit, OutcomeInv
<1> QED BY <1>2, <1>4, <1>6, <1>7, <1>8 DEF PicInv

LEMMA WavefrontKept ==
  ASSUME PicInv, [PicNext]_vars
  PROVE  TypeOK' /\ TaskInv'
  BY PicStepIsWavefrontStep, StepShape DEF PicInv

LEMMA CtuStepKeeps ==
  ASSUME PicInv, NEW l \in Lines, NEW c \in Cols, CtuStep(l, c)
  PROVE  PicType' /\ ScanInv' /\ GoneInv' /\ OnlyParsedLines' /\ OutcomeInv'
<1>1. Others(l, c) /\ (Opens(l, c) \/ Works(l, c) \/ Leaves(l, c)) /\ UNCHANGED picVars
  BY WavefrontSteps DEF PicInv
<1>2. /\ UNCHANGED <<main, next, received, parsed, parseTask, parseDone, finishPic, reconDone>>
      /\ UNCHANGED <<picError, progress>>
  BY <1>1 DEF picVars
<1>3. pool[l][c] \in {"queued", "waiting", "running"} /\ pool'[l][c] \in {"waiting", "running", "gone"}
  BY <1>1 DEF Opens, Works, Leaves, InPool
<1>4. \A m \in Lines, d \in Cols : \/ m = l /\ d = c
                                   \/ pool'[m][d] = pool[m][d] /\ ctuState'[m][d] = ctuState[m][d]
  BY <1>1 DEF Others
<1>5. PicType'
  BY <1>2 DEF PicInv, PicType
<1>6. ScanInv'
  <2>1. \A m \in Lines, d \in Cols : pool[m][d] # "absent" => pool'[m][d] # "absent"
    BY <1>3, <1>4
  <2> QED BY <1>2, <2>1 DEF PicInv, ScanInv
<1>7. GoneInv'
  <2>1. exc => exc'
    BY <1>1 DEF Opens, Works, Leaves
  <2>2. pool'[l][c] = "gone" /\ ctuState'[l][c] # DONE => exc'
    BY <1>1 DEF Opens, Works, Leaves
  <2> QED BY <1>4, <2>1, <2>2 DEF PicInv, GoneInv
<1>8. OnlyParsedLines'
  <2>1. pool'[l][c] \in {"waiting", "running"} \/ ctuState'[l][c] > MIDER => parsed > l
    BY <1>1 DEF PicInv, OnlyParsedLines, Opens, Works, Leaves
  <2> QED BY <1>2, <1>4, <2>1 DEF PicInv, OnlyParsedLines
<1>9. ~PictureComplete
  BY <1>3 DEF PictureComplete
<1>10. main # "released"
  BY <1>3 DEF PicInv, OutcomeInv, NoCtuTask, InPool
<1>11. OutcomeInv'
  BY <1>2, <1>9, <1>10 DEF PicInv, OutcomeInv
<1> QED BY <1>5, <1>6, <1>7, <1>8, <1>11

LEMMA ScheduleKeeps ==
  ASSUME PicInv, NEW l \in Lines, NEW c \in Cols, Schedule(l, c)
  PROVE  PicType' /\ ScanInv' /\ GoneInv' /\ OnlyParsedLines' /\ OutcomeInv'
<1>1. /\ main = "schedule" /\ next = ZigZag(l, c) /\ next' = next + 1
      /\ pool[l][c] = "absent" /\ pool' = [pool EXCEPT ![l][c] = "queued"]
      /\ UNCHANGED <<ctuState, exc>>
      /\ UNCHANGED <<main, received, parsed, parseTask, parseDone, finishPic, reconDone>>
      /\ UNCHANGED <<picError, progress>>
  BY DEF Schedule, AddTask
<1>2. /\ pool \in [Lines -> [Cols -> {"absent", "queued", "waiting", "running", "gone"}]]
      /\ finishPic = "absent" /\ reconDone = "locked" /\ next \in Nat
  BY <1>1 DEF PicInv, TypeOK, OutcomeInv, PicType
<1>3. \A m \in Lines, d \in Cols :
        pool'[m][d] = IF m = l /\ d = c THEN "queued" ELSE pool[m][d]
  BY <1>1, <1>2
<1>4. PicType'
  BY <1>1, <1>2 DEF PicInv, PicType
<1>5. ScanInv'
  <2>1. ASSUME NEW m \in Lines, NEW d \in Cols, ZigZag(m, d) < next' PROVE pool'[m][d] # "absent"
    <3>1. ZigZag(m, d) < next \/ (m = l /\ d = c)
      BY <1>1, <1>2, <2>1, EarlierFinite, ScanPositions
    <3> QED BY <1>3, <3>1 DEF PicInv, ScanInv
  <2> QED BY <1>1, <1>2, <2>1 DEF ScanInv
<1>6. GoneInv' /\ OnlyParsedLines'
  BY <1>1, <1>3 DEF PicInv, GoneInv, OnlyParsedLines
<1>7. OutcomeInv'
  BY <1>1, <1>2 DEF PicInv, OutcomeInv
<1> QED BY <1>4, <1>5, <1>6, <1>7

(* The steps around the tasks leave the tasks alone.                       *)
LEMMA OtherStepsKeep ==
  ASSUME PicInv,
         \/ ScheduleFinish \/ ScheduleFails \/ SliceMissing \/ PictureDone \/ PictureFailed
         \/ CleanedUp \/ ParseLine \/ ParseEnds \/ ParseFails \/ FinishTask \/ FinishUnlocks
         \/ FinishFails
  PROVE  PicType' /\ ScanInv' /\ GoneInv' /\ OnlyParsedLines' /\ OutcomeInv'
<1>0. PicType /\ ScanInv /\ GoneInv /\ OnlyParsedLines /\ OutcomeInv
  BY DEF PicInv
<1>1. /\ UNCHANGED <<pool, ctuState, exc, next, received>>
      /\ NoCtuTask' <=> NoCtuTask
  BY DEF ScheduleFinish, ScheduleFails, GiveUp, SliceMissing, PictureDone, PictureFailed,
     CleanedUp, ParseLine, ParseEnds, ParseFails, FinishTask, FinishUnlocks, FinishFails, wfVars,
     NoCtuTask, InPool
<1>2. parsed' = parsed \/ (parsed' = parsed + 1 /\ parsed < received)
  BY DEF ScheduleFinish, ScheduleFails, GiveUp, SliceMissing, PictureDone, PictureFailed,
     CleanedUp, ParseLine, ParseEnds, ParseFails, FinishTask, FinishUnlocks, FinishFails
<1>3. PicType'
  <2>1. received' \in 1..HeightInCtus /\ parsed' \in 0..received' /\ next' \in Nat
    BY <1>0, <1>1, <1>2, SizeAssumption DEF PicType
  <2> QED BY <1>0, <2>1
      DEF PicType, ScheduleFinish, ScheduleFails, GiveUp, SliceMissing, PictureDone, PictureFailed,
     CleanedUp, ParseLine, ParseEnds, ParseFails, FinishTask, FinishUnlocks, FinishFails
<1>4. ScanInv'
  <2>1. finishPic' # "absent" => next = NumTasks
    BY <1>0 DEF ScanInv, ScheduleFinish, ScheduleFails, GiveUp, SliceMissing, PictureDone,
       PictureFailed, CleanedUp, ParseLine, ParseEnds, ParseFails, FinishTask, FinishUnlocks,
       FinishFails, NumTasks
  <2> QED BY <1>0, <1>1, <2>1 DEF ScanInv
<1>5. GoneInv' /\ OnlyParsedLines'
  <2>1. \A l \in Lines : parsed > l => parsed' > l
    BY <1>0, <1>2, SizeAssumption DEF PicType, Lines
  <2> QED BY <1>0, <1>1, <2>1 DEF GoneInv, OnlyParsedLines
<1>6. PictureComplete => PictureComplete'
  BY <1>1 DEF PictureComplete, ScheduleFinish, ScheduleFails, GiveUp, SliceMissing, PictureDone,
     PictureFailed, CleanedUp, ParseLine, ParseEnds, ParseFails, FinishTask, FinishUnlocks,
     FinishFails
<1>7. OutcomeInv'
  <2>1. CASE ScheduleFinish \/ ScheduleFails
    BY <1>0, <2>1 DEF OutcomeInv, ScheduleFinish, ScheduleFails, GiveUp
  <2>2. CASE SliceMissing
    <3>1. ~PictureComplete
      BY <2>2, CompleteIsParsed DEF SliceMissing, PicInv, PicType
    <3> QED BY <1>0, <2>2, <3>1 DEF OutcomeInv, SliceMissing
  <2>3. CASE PictureDone
    <3>1. NoCtuTask
      BY <1>0, <2>3 DEF PictureDone, OutcomeInv, PictureComplete, NoCtuTask, InPool
    <3> QED BY <1>0, <1>1, <1>6, <2>3, <3>1 DEF OutcomeInv, PictureDone
  <2>4. CASE PictureFailed \/ CleanedUp
    BY <1>0, <1>1, <1>6, <2>4 DEF OutcomeInv, PictureFailed, CleanedUp
  <2>5. CASE ParseLine \/ ParseEnds \/ ParseFails
    BY <1>0, <1>1, <1>6, <2>5 DEF OutcomeInv, ParseLine, ParseEnds, ParseFails
  <2>6. CASE FinishTask
    <3>1. PictureComplete'
      <4>1. \A l \in Lines, c \in Cols : pool[l][c] # "absent"
        BY <1>0, <2>6, ScanPositions DEF ScanInv, FinishTask
      <4>2. \A l \in Lines, c \in Cols : pool[l][c] = "gone"
        BY <2>6, <4>1 DEF FinishTask, NoCtuTask, InPool, PicInv, TypeOK
      <4> QED BY <1>0, <1>1, <2>6, <4>2 DEF FinishTask, GoneInv, PictureComplete
    <3> QED BY <1>0, <1>1, <2>6, <3>1 DEF OutcomeInv, FinishTask
  <2>7. CASE FinishUnlocks \/ FinishFails
    BY <1>0, <1>1, <1>6, <2>7 DEF OutcomeInv, FinishUnlocks, FinishFails, PicType
  <2> QED BY <2>1, <2>2, <2>3, <2>4, <2>5, <2>6, <2>7
<1> QED BY <1>3, <1>4, <1>5, <1>7

LEMMA PicInductive == PicInv /\ [PicNext]_vars => PicInv'
<1> SUFFICES ASSUME PicInv, [PicNext]_vars PROVE PicInv'
  OBVIOUS
<1>1. TypeOK' /\ TaskInv'
  BY WavefrontKept
<1>2. CASE UNCHANGED vars \/ RefExt
  <2>1. UNCHANGED <<pool, ctuState, exc, picVars>>
    BY <1>2 DEF vars, wfVars, RefExt, RefExtDone, RefExtFails
  <2>2. PicType' /\ ScanInv' /\ GoneInv' /\ OnlyParsedLines'
    BY <2>1 DEF PicInv, PicType, ScanInv, GoneInv, OnlyParsedLines, picVars
  <2>3. OutcomeInv'
    BY <2>1 DEF PicInv, OutcomeInv, PictureComplete, NoCtuTask, InPool, picVars
  <2> QED BY <1>1, <2>2, <2>3 DEF PicInv
<1>3. ASSUME NEW l \in Lines, NEW c \in Cols, Schedule(l, c) \/ CtuStep(l, c) PROVE PicInv'
  BY <1>1, <1>3, ScheduleKeeps, CtuStepKeeps DEF PicInv
<1>4. CASE \/ ScheduleFinish \/ ScheduleFails \/ SliceMissing \/ PictureDone \/ PictureFailed
           \/ CleanedUp \/ ParseLine \/ ParseEnds \/ ParseFails \/ FinishTask \/ FinishUnlocks
           \/ FinishFails
  BY <1>1, <1>4, OtherStepsKeep DEF PicInv
<1> QED BY <1>2, <1>3, <1>4 DEF PicNext

LEMMA PicInvariant == PicSpec => []PicInv
  BY PicInitial, PicInductive, PTL DEF PicSpec

-----------------------------------------------------------------------------
(* A task starts on a CTU line only when the parse task has opened its     *)
(* ctuParsedBarrier.                                                       *)
THEOREM LinesAlwaysParsedFirst == PicSpec => []OnlyParsedLines
  BY PicInvariant, PTL DEF PicInv

(* When waitForPrevDecompressedPic gives the object back, no CTU task is   *)
(* in the pool, and a picture without an error is parsed, reconstructed    *)
(* and DONE in every task, whatever failed and whichever slices were lost. *)
THEOREM ReleasedAlwaysClean == PicSpec => []ReleasedClean
<1>1. PicInv => ReleasedClean
  <2> SUFFICES ASSUME PicInv, main = "released" PROVE ReleasedClean
    BY DEF ReleasedClean
  <2>1. NoCtuTask /\ (~picError => PictureComplete)
    BY DEF PicInv, OutcomeInv
  <2> QED BY <2>1, CompleteIsParsed DEF ReleasedClean, PictureComplete
<1> QED BY <1>1, PicInvariant, PTL

(* A picture in which a kernel or the parser threw is never released as a  *)
(* good one.                                                               *)
THEOREM ErrorsAlwaysReported == PicSpec => []ErrorsAreReported
<1>1. PicInv => ErrorsAreReported
  BY DEF PicInv, OutcomeInv, PictureComplete, ErrorsAreReported
<1> QED BY <1>1, PicInvariant, PTL

-----------------------------------------------------------------------------
(* The refinement.  Every step of the picture is a step of PictureRecon or *)
(* leaves what PictureRecon sees as it was.                                *)

Active   == {t \in Lines \X Cols : InPool(t[1], t[2])}
Final    == {t \in Lines \X Cols : ctuState[t[1]][t[2]] = DONE}
Outcome  == IF reconDone = "error" THEN "error"
            ELSE IF reconDone = "unlocked" THEN "reconstructed" ELSE "pending"
Released == main = "released"

LEMMA PromiseInitial == PicInit => Promise!RInit
<1> SUFFICES ASSUME PicInit PROVE Active = {} /\ Final = {} /\ Outcome = "pending" /\ ~Released
  BY DEF Promise!RInit, Active, Final, Outcome, Released
<1>1. \A l \in Lines, c \in Cols : pool[l][c] = "absent" /\ ctuState[l][c] # DONE
  BY DEF PicInit, Init, MIDER, DONE
<1> QED BY <1>1 DEF PicInit, Active, Final, Outcome, Released, InPool

LEMMA PromiseByTask ==
  ASSUME PicInv, NEW l \in Lines, NEW c \in Cols, Schedule(l, c) \/ CtuStep(l, c)
  PROVE  [Promise!RNext]_(Promise!rVars)
<1> DEFINE t == <<l, c>>
<1>0. t \in Lines \X Cols /\ t[1] = l /\ t[2] = c
  OBVIOUS
<1>1. CASE Schedule(l, c)
  <2>1. /\ pool[l][c] = "absent" /\ ctuState' = ctuState /\ ~Released
        /\ UNCHANGED <<main, reconDone>>
    BY <1>1 DEF Schedule, AddTask, Released
  <2>2. \A m \in Lines, d \in Cols :
          pool'[m][d] = IF m = l /\ d = c THEN "queued" ELSE pool[m][d]
    BY <1>1 DEF Schedule, AddTask, PicInv, TypeOK
  <2>3. t \notin Active /\ t \notin Final
    BY <1>0, <2>1 DEF Active, Final, InPool, PicInv, TaskInv
  <2>4. Active' = Active \cup {t}
    BY <1>0, <2>2 DEF Active, InPool
  <2>5. Final' = Final /\ Outcome' = Outcome /\ Released' = Released
    BY <2>1 DEF Final, Outcome, Released
  <2>6. Promise!RStart(t)
    BY <2>1, <2>3, <2>4, <2>5 DEF Promise!RStart, Active, Final, Outcome, Released
  <2> QED BY <1>0, <2>6 DEF Promise!RNext
<1>2. CASE CtuStep(l, c)
  <2>1. Others(l, c) /\ (Opens(l, c) \/ Works(l, c) \/ Leaves(l, c)) /\ UNCHANGED picVars
    BY <1>2, WavefrontSteps DEF PicInv
  <2>2. Outcome' = Outcome /\ Released' = Released
    BY <2>1 DEF picVars, Outcome, Released
  <2>3. t \in Active
    BY <1>0, <2>1 DEF Active, InPool, Opens, Works, Leaves
  <2>4. \A u \in Lines \X Cols : u # t =>
          /\ InPool(u[1], u[2])' <=> InPool(u[1], u[2])
          /\ ctuState'[u[1]][u[2]] = ctuState[u[1]][u[2]]
    <3> SUFFICES ASSUME NEW m \in Lines, NEW d \in Cols, <<m, d>> # t
                 PROVE  /\ InPool(m, d)' <=> InPool(m, d)
                        /\ ctuState'[m][d] = ctuState[m][d]
      OBVIOUS
    <3> QED BY <2>1 DEF Others, InPool
  <2>5. CASE Opens(l, c) \/ Works(l, c)
    <3>1. Active' = Active
      BY <1>0, <2>4, <2>5 DEF Active, InPool, Opens, Works
    <3>2. CASE (ctuState'[l][c] = DONE) <=> (ctuState[l][c] = DONE)
      <4>1. Final' = Final
        BY <1>0, <2>4, <3>2 DEF Final
      <4> QED BY <2>2, <3>1, <4>1 DEF Promise!rVars, Active, Final, Outcome, Released
    <3>3. CASE ctuState'[l][c] = DONE /\ ctuState[l][c] # DONE
      <4>1. Final' = Final \cup {t} /\ t \notin Final
        BY <1>0, <2>4, <3>3 DEF Final
      <4>2. Promise!RFinalize(t)
        BY <2>2, <2>3, <3>1, <4>1 DEF Promise!RFinalize, Active, Final, Outcome, Released
      <4> QED BY <1>0, <4>2 DEF Promise!RNext
    <3>4. ctuState[l][c] = DONE => ctuState'[l][c] = DONE
      BY <2>5 DEF Opens, Works
    <3> QED BY <3>2, <3>3, <3>4
  <2>6. CASE Leaves(l, c)
    <3>1. Active' = Active \ {t}
      BY <1>0, <2>4, <2>6 DEF Active, InPool, Leaves
    <3>2. Final' = Final
      BY <1>0, <2>4, <2>6 DEF Final, Leaves
    <3>3. Promise!RLeave(t)
      BY <2>2, <2>3, <3>1, <3>2 DEF Promise!RLeave, Active, Final, Outcome, Released
    <3> QED BY <1>0, <3>3 DEF Promise!RNext
  <2> QED BY <2>1, <2>5, <2>6
<1> QED BY <1>1, <1>2

LEMMA PromiseByOther ==
  ASSUME PicInv,
         \/ ScheduleFinish \/ ScheduleFails \/ SliceMissing \/ PictureDone \/ PictureFailed
         \/ CleanedUp \/ ParseLine \/ ParseEnds \/ ParseFails \/ FinishTask \/ FinishUnlocks
         \/ FinishFails
  PROVE  [Promise!RNext]_(Promise!rVars)
<1>0. PicType /\ OutcomeInv
  BY DEF PicInv
<1>1. Active' = Active /\ Final' = Final
  BY DEF ScheduleFinish, ScheduleFails, GiveUp, SliceMissing, PictureDone, PictureFailed,
     CleanedUp, ParseLine, ParseEnds, ParseFails, FinishTask, FinishUnlocks, FinishFails, wfVars,
     Active, Final, InPool
<1>2. NoCtuTask => Active = {}
  BY DEF NoCtuTask, Active
<1>3. CASE UNCHANGED reconDone /\ (Released' <=> Released)
  BY <1>1, <1>3 DEF Promise!rVars, Active, Final, Outcome, Released
<1>4. CASE (ScheduleFails \/ SliceMissing \/ FinishFails) /\ reconDone' # reconDone
  <2>1. reconDone # "unlocked"
    <3>1. CASE ScheduleFails \/ FinishFails
      BY <1>0, <3>1 DEF OutcomeInv, ScheduleFails, FinishFails
    <3>2. CASE SliceMissing
      <4>1. ~PictureComplete
        BY <1>0, <3>2, CompleteIsParsed DEF SliceMissing, PicType
      <4> QED BY <1>0, <4>1 DEF OutcomeInv
    <3> QED BY <1>4, <3>1, <3>2
  <2>2. Outcome = "pending" /\ Outcome' = "error" /\ (Released' <=> Released)
    BY <1>0, <1>4, <2>1 DEF Outcome, Released, OutcomeInv, PicType, ScheduleFails, GiveUp,
       SliceMissing, FinishFails
  <2>3. Promise!RError
    BY <1>1, <2>2 DEF Promise!RError, Active, Final, Outcome, Released
  <2> QED BY <2>3 DEF Promise!RNext
<1>5. CASE FinishUnlocks /\ reconDone' # reconDone
  <2>1. PictureComplete /\ Outcome = "pending" /\ Outcome' = "reconstructed" /\ (Released' <=> Released)
    BY <1>0, <1>5 DEF FinishUnlocks, OutcomeInv, PicType, Outcome, Released
  <2>2. Active = {} /\ Final = Lines \X Cols
    BY <2>1 DEF PictureComplete, Active, Final, InPool
  <2>3. Promise!RReconstructed
    BY <1>1, <2>1, <2>2 DEF Promise!RReconstructed, Active, Final, Outcome, Released
  <2> QED BY <2>3 DEF Promise!RNext
<1>6. CASE PictureDone \/ CleanedUp
  <2>1. Active = {} /\ Outcome # "pending"
    <3>1. CASE PictureDone
      BY <1>0, <3>1 DEF PictureDone, OutcomeInv, PictureComplete, Active, InPool, Outcome
    <3>2. CASE CleanedUp
      BY <1>0, <1>2, <3>2 DEF CleanedUp, OutcomeInv, PicType, Outcome
    <3> QED BY <1>6, <3>1, <3>2
  <2>2. ~Released /\ Released' /\ Outcome' = Outcome
    BY <1>6 DEF PictureDone, CleanedUp, Outcome, Released
  <2>3. Promise!RRelease
    BY <1>1, <2>1, <2>2 DEF Promise!RRelease, Active, Final, Outcome, Released
  <2> QED BY <2>3 DEF Promise!RNext
<1> QED
  BY <1>3, <1>4, <1>5, <1>6
  DEF ScheduleFinish, ScheduleFails, GiveUp, SliceMissing, PictureFailed, ParseLine, ParseEnds,
     ParseFails, FinishTask, FinishUnlocks, FinishFails, Released

LEMMA PromiseStep == PicInv /\ [PicNext]_vars => [Promise!RNext]_(Promise!rVars)
<1> SUFFICES ASSUME PicInv, [PicNext]_vars PROVE [Promise!RNext]_(Promise!rVars)
  OBVIOUS
<1>1. CASE UNCHANGED vars \/ RefExt
  <2>1. UNCHANGED <<pool, ctuState, picVars>>
    BY <1>1 DEF vars, wfVars, RefExt, RefExtDone, RefExtFails
  <2>2. Active' = Active /\ Final' = Final /\ Outcome' = Outcome /\ (Released' <=> Released)
    BY <2>1 DEF picVars, Active, Final, Outcome, Released, InPool
  <2> QED BY <2>2 DEF Promise!rVars, Active, Final, Outcome, Released
<1>2. ASSUME NEW l \in Lines, NEW c \in Cols, Schedule(l, c) \/ CtuStep(l, c)
      PROVE  [Promise!RNext]_(Promise!rVars)
  BY <1>2, PromiseByTask
<1>3. CASE \/ ScheduleFinish \/ ScheduleFails \/ SliceMissing \/ PictureDone \/ PictureFailed
           \/ CleanedUp \/ ParseLine \/ ParseEnds \/ ParseFails \/ FinishTask \/ FinishUnlocks
           \/ FinishFails
  BY <1>3, PromiseByOther
<1> QED BY <1>1, <1>2, <1>3 DEF PicNext

(* A DecLibRecon object implements PictureRecon: outcomes are told once,   *)
(* "reconstructed" only when all tasks are final, and the object is given  *)
(* back when no task can touch the picture or its buffers any more.        *)
THEOREM PromiseAlwaysKept == PicSpec => KeepsPromise
<1>1. PicInv /\ PicInv' /\ [PicNext]_vars => [Promise!RNext]_(Promise!rVars)
  BY PromiseStep
<1> QED BY <1>1, PromiseInitial, PicInvariant, PTL DEF PicSpec, KeepsPromise, Promise!RSpec
=============================================================================
