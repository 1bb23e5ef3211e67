------------------------ MODULE TaskSchedule_proofs ------------------------
(***************************************************************************)
(* Proofs about TaskSchedule, for pictures of any size and any number of   *)
(* threads: the cut of a CTU line into tasks, which is arithmetic, and the *)
(* zig-zag scan, whose invariant says that the tasks that were added are   *)
(* those the scan has passed.                                              *)
(***************************************************************************)
EXTENDS TaskSchedule, FiniteSetTheorems, SequenceTheorems, TLAPS

-----------------------------------------------------------------------------
(* Tasks of k CTUs in a line of w CTUs.                                    *)

LEMMA Division ==
  ASSUME NEW n \in Nat, NEW k \in Nat, k > 0
  PROVE  /\ n \div k \in Nat /\ n % k \in Nat
         /\ n = k * (n \div k) + (n % k) /\ n % k < k
  BY SMT

LEMMA Cancel ==
  ASSUME NEW a \in Int, NEW b \in Int, NEW k \in Nat, k > 0, a * k < b * k
  PROVE  a < b
<1> SUFFICES ASSUME a >= b PROVE FALSE
  OBVIOUS
<1>1. a - b >= 0 /\ (a - b) * k >= 0
  BY SMT
<1>2. (a - b) * k = a * k - b * k
  BY SMT
<1> QED BY <1>1, <1>2

LEMMA Cut ==
  ASSUME NEW w \in Nat, NEW k \in Nat, w > 0, k > 0
  PROVE  /\ NumTasksPerLine(w, k) \in Nat /\ NumTasksPerLine(w, k) > 0
         /\ (NumTasksPerLine(w, k) - 1) * k < w /\ w <= NumTasksPerLine(w, k) * k
<1> DEFINE q == w \div k
           r == w % k
<1>1. q \in Nat /\ r \in Nat /\ w = k * q + r /\ r < k
  BY Division
<1>2. NumTasksPerLine(w, k) = q + IF r # 0 THEN 1 ELSE 0
  BY DEF NumTasksPerLine
<1> HIDE DEF q, r
<1>3. CASE r = 0
  <2>1. q > 0
    BY <1>1, <1>3
  <2>2. (q - 1) * k = k * q - k /\ q * k = k * q
    BY <1>1
  <2> QED BY <1>1, <1>2, <1>3, <2>1, <2>2
<1>4. CASE r # 0
  <2>1. q * k = k * q /\ (q + 1) * k = k * q + k
    BY <1>1
  <2> QED BY <1>1, <1>2, <1>4, <2>1
<1> QED BY <1>3, <1>4

LEMMA Partition ==
  ASSUME NEW w \in Nat, NEW k \in Nat, w > 0, k > 0,
         NEW T \in Nat, T = NumTasksPerLine(w, k)
  PROVE  /\ \A c \in 0..T - 1 : CtuStart(c, k) < CtuEnd(c, k, w)
         /\ \A x \in 0..w - 1 : \E q \in 0..T - 1 :
              {c \in 0..T - 1 : CtuStart(c, k) <= x /\ x < CtuEnd(c, k, w)} = {q}
<1>1. T > 0 /\ (T - 1) * k < w /\ w <= T * k
  BY Cut
<1>2. ASSUME NEW c \in 0..T - 1 PROVE CtuStart(c, k) < CtuEnd(c, k, w)
  <2>1. c \in Int /\ c * k \in Int /\ (T - 1) * k \in Int
    BY <1>1
  <2>2. c * k < w
    <3>1. (T - 1) * k - c * k = (T - 1 - c) * k /\ (T - 1 - c) * k >= 0
      BY <1>1, SMT
    <3> QED BY <1>1, <2>1, <3>1
  <2> QED BY <2>1, <2>2 DEF CtuStart, CtuEnd, Least
<1>3. ASSUME NEW x \in 0..w - 1
      PROVE  \E q \in 0..T - 1 : {c \in 0..T - 1 : CtuStart(c, k) <= x /\ x < CtuEnd(c, k, w)} = {q}
  <2>1. PICK q \in Nat : q * k <= x /\ x < (q + 1) * k
    <3>1. x \div k \in Nat /\ x % k \in Nat /\ x = k * (x \div k) + (x % k) /\ x % k < k
      BY Division
    <3>2. (x \div k) * k <= x /\ x < (x \div k + 1) * k
      BY <3>1
    <3> QED BY <3>1, <3>2
  <2>2. q \in 0..T - 1
    <3>1. q * k < T * k
      BY <1>1, <2>1
    <3> QED BY <1>1, <3>1, Cancel
  <2>3. ASSUME NEW c \in 0..T - 1
        PROVE  CtuStart(c, k) <= x /\ x < CtuEnd(c, k, w) <=> c = q
    <3>0. c \in Int /\ c * k \in Int /\ q * k \in Int /\ (c + 1) * k = c * k + k
          /\ (q + 1) * k = q * k + k
      BY <1>1
    <3>1. CASE c = q
      BY <2>1, <3>0, <3>1 DEF CtuStart, CtuEnd, Least
    <3>2. ASSUME CtuStart(c, k) <= x, x < CtuEnd(c, k, w) PROVE c = q
      <4>1. c * k <= x /\ x < (c + 1) * k
        BY <3>0, <3>2 DEF CtuStart, CtuEnd, Least
      <4>2. c * k < (q + 1) * k /\ q * k < (c + 1) * k
        BY <2>1, <3>0, <4>1
      <4>3. c < q + 1 /\ q < c + 1
        BY <3>0, <4>2, Cancel
      <4> QED BY <3>0, <4>3
    <3> QED BY <3>1, <3>2
  <2> QED BY <2>2, <2>3
<1> QED BY <1>2, <1>3

LEMMA Sizes ==
  ASSUME NEW w \in Nat, w > 0, NEW t \in Nat, NEW intra \in BOOLEAN
  PROVE  NumColPerTask(w, t, intra) \in Nat /\ NumColPerTask(w, t, intra) > 0
<1> DEFINE m == Greatest(t * (IF intra THEN 2 ELSE 1), 1)
<1>1. m \in Nat /\ m > 0
  <2>1. t * 2 \in Nat /\ t * 1 \in Nat
    OBVIOUS
  <2> QED BY <2>1 DEF Greatest
<1> HIDE DEF m
<1>2. w \div m \in Nat
  BY <1>1, Division
<1> QED BY <1>2 DEF NumColPerTask, Least, Greatest, m

-----------------------------------------------------------------------------
(* The scan.                                                               *)

Picture == [width : 1..MaxWidth, height : 1..MaxHeight, threads : 0..MaxThreads, intra : BOOLEAN]

Passed(t) == t[1] + t[2] < diag \/ (t[1] + t[2] = diag /\ t[1] < line)

Sources(t) == {<<t[1], t[2] - 1>>, <<t[1] - 1, t[2]>>, <<t[1] - 1, t[2] + 1>>}

ScanType ==
  /\ pic \in Picture
  /\ diag \in Nat /\ line \in Nat /\ col \in Int
  /\ col >= -1 /\ line + col = diag
  /\ added \in Seq(Tasks)

AddedInv ==
  /\ \A a \in 1..Len(added) : Passed(added[a])
  /\ \A t \in Tasks : Passed(t) => \E a \in 1..Len(added) : added[a] = t
  /\ \A a, b \in 1..Len(added) : a # b => added[a] # added[b]
  /\ \A b \in 1..Len(added) : \A t \in Sources(added[b]) \cap Tasks :
       \E a \in 1..b - 1 : added[a] = t

ScanInv == ScanType /\ AddedInv

LEMMA PictureFacts ==
  ASSUME pic \in Picture
  PROVE  /\ pic.width \in Nat /\ pic.width > 0 /\ pic.height \in Nat /\ pic.height > 0
         /\ PerTask \in Nat /\ PerTask > 0
         /\ TasksIn \in Nat /\ TasksIn > 0
<1>1. /\ pic.width \in Nat /\ pic.width > 0 /\ pic.height \in Nat /\ pic.height > 0
      /\ pic.threads \in Nat /\ pic.intra \in BOOLEAN
  BY BoundAssumption DEF Picture
<1>2. PerTask \in Nat /\ PerTask > 0
  BY <1>1, Sizes DEF PerTask
<1>3. TasksIn \in Nat /\ TasksIn > 0
  BY <1>1, <1>2, Cut DEF TasksIn
<1> QED BY <1>1, <1>2, <1>3

LEMMA ScanInitial == Init => ScanInv
<1> SUFFICES ASSUME Init PROVE ScanInv
  OBVIOUS
<1>1. pic \in Picture /\ diag = 0 /\ line = 0 /\ col = 0 /\ added = <<>>
  BY DEF Init, Picture
<1>2. added \in Seq(Tasks) /\ Len(added) = 0
  BY <1>1, EmptySeq
<1>3. \A t \in Tasks : ~Passed(t)
  BY <1>1 DEF Tasks, Passed
<1> QED BY <1>1, <1>2, <1>3 DEF ScanInv, ScanType, AddedInv

(* A step of the scan that adds nothing has no task at its position.       *)
LEMMA AddedKept ==
  ASSUME ScanInv, pic' = pic, added' = added,
         \A t \in Tasks : Passed(t)' <=> Passed(t)
  PROVE  AddedInv'
<1>1. Tasks' = Tasks /\ \A a \in 1..Len(added) : added[a] \in Tasks
  BY ElementOfSeq DEF ScanInv, ScanType, Tasks, TasksIn, PerTask
<1> QED BY <1>1 DEF ScanInv, AddedInv, Sources

LEMMA AddedGrows ==
  ASSUME ScanInv, pic' = pic, NEW t \in Tasks, added' = Append(added, t),
         ~Passed(t), \A u \in Tasks : Passed(u)' <=> (Passed(u) \/ u = t),
         \A u \in Sources(t) \cap Tasks : Passed(u)
  PROVE  AddedInv'
<1>1. Tasks' = Tasks
  BY DEF Tasks, TasksIn, PerTask
<1>2. added \in Seq(Tasks) /\ Len(added) \in Nat
  BY LenProperties DEF ScanInv, ScanType
<1>3. PICK n \in Nat : n = Len(added)
  BY <1>2
<1>4. /\ Len(added') = n + 1 /\ added'[n + 1] = t
      /\ \A a \in 1..n : added'[a] = added[a] /\ added[a] \in Tasks
  BY <1>2, <1>3, AppendProperties, ElementOfSeq
<1>5. /\ \A a \in 1..n : Passed(added[a]) /\ added[a] # t
      /\ \A u \in Tasks : Passed(u) => \E a \in 1..n : added[a] = u
      /\ \A a, b \in 1..n : a # b => added[a] # added[b]
      /\ \A b \in 1..n : \A u \in Sources(added[b]) \cap Tasks : \E a \in 1..b - 1 : added[a] = u
  BY <1>3 DEF ScanInv, AddedInv
<1>6. ASSUME NEW a \in 1..n + 1 PROVE \E u \in Tasks : u = added'[a] /\ Passed(u)'
  <2>1. PICK u \in Tasks : u = added'[a]
    BY <1>3, <1>4, <1>6
  <2>2. Passed(u) \/ u = t
    BY <1>3, <1>4, <1>5, <2>1
  <2> QED BY <2>1, <2>2
<1>7. ASSUME NEW u \in Tasks, Passed(u)' PROVE \E a \in 1..n + 1 : added'[a] = u
  BY <1>3, <1>4, <1>5, <1>7
<1>8. ASSUME NEW a \in 1..n + 1, NEW b \in 1..n + 1, a # b PROVE added'[a] # added'[b]
  BY <1>3, <1>4, <1>5, <1>8
<1>9. ASSUME NEW b \in 1..n + 1, NEW u \in Sources(added'[b]) \cap Tasks
      PROVE  \E a \in 1..b - 1 : added'[a] = u
  <2>1. CASE b = n + 1
    <3>1. PICK a \in 1..n : added[a] = u
      BY <1>4, <1>5, <1>9, <2>1
    <3> QED BY <1>3, <1>4, <2>1, <3>1
  <2>2. CASE b # n + 1
    <3>1. b \in 1..n /\ added'[b] = added[b]
      BY <1>3, <1>4, <2>2
    <3>2. PICK a \in 1..b - 1 : added[a] = u
      BY <1>5, <1>9, <3>1
    <3>3. a \in 1..n
      BY <1>3, <3>1, <3>2
    <3> QED BY <1>4, <3>2, <3>3
  <2> QED BY <2>1, <2>2
<1>10. (\A a \in 1..Len(added) : Passed(added[a]))'
  BY <1>4, <1>6 DEF Passed
<1>11. (\A b \in 1..Len(added) : \A u \in Sources(added[b]) \cap Tasks :
          \E a \in 1..b - 1 : added[a] = u)'
  BY <1>1, <1>4, <1>9 DEF Sources
<1> QED BY <1>1, <1>4, <1>7, <1>8, <1>10, <1>11 DEF AddedInv

LEMMA ScanInductive == ScanInv /\ [Next]_vars => ScanInv'
<1> SUFFICES ASSUME ScanInv, [Next]_vars PROVE ScanInv'
  OBVIOUS
<1>0. /\ pic \in Picture /\ diag \in Nat /\ line \in Nat /\ col \in Int
      /\ col >= -1 /\ line + col = diag /\ added \in Seq(Tasks)
  BY DEF ScanInv, ScanType
<1>1. /\ TasksIn \in Nat /\ pic.height \in Nat
      /\ \A t \in Tasks : t = <<t[1], t[2]>> /\ t[1] \in Nat /\ t[2] \in Nat
                          /\ t[1] < pic.height /\ t[2] < TasksIn
  BY <1>0, PictureFacts DEF Tasks
<1>2. pic' = pic /\ Tasks' = Tasks /\ TasksIn' = TasksIn
  BY DEF Next, Position, NextDiagonal, vars, Tasks, TasksIn, PerTask
<1>3. CASE Position
  <2>1. line' = line + 1 /\ col' = col - 1 /\ diag' = diag /\ col >= 0
    BY <1>3 DEF Position
  <2>2. \A t \in Tasks : Passed(t)' <=> (Passed(t) \/ t = <<line, col>>)
    BY <1>0, <1>1, <2>1 DEF Passed
  <2>3. CASE line < pic.height /\ col < TasksIn
    <3>0. line \in 0..pic.height - 1 /\ col \in 0..TasksIn - 1
      BY <1>0, <1>1, <2>1, <2>3
    <3>1. PICK t \in Tasks : t = <<line, col>>
      BY <3>0 DEF Tasks
    <3>2. added' = Append(added, t)
      BY <1>3, <2>3, <3>1 DEF Position
    <3>3. ~Passed(t) /\ \A u \in Sources(t) \cap Tasks : Passed(u)
      BY <1>0, <3>1 DEF Passed, Sources
    <3>4. AddedInv'
      BY <1>2, <2>2, <3>1, <3>2, <3>3, AddedGrows
    <3>5. added' \in Seq(Tasks)
      BY <1>0, <3>2, AppendProperties
    <3> QED BY <1>0, <1>2, <2>1, <3>4, <3>5 DEF ScanInv, ScanType
  <2>4. CASE ~(line < pic.height /\ col < TasksIn)
    <3>1. added' = added
      BY <1>3, <2>4 DEF Position
    <3>2. \A t \in Tasks : t # <<line, col>>
      BY <1>1, <2>4
    <3>3. AddedInv'
      BY <1>2, <2>2, <3>1, <3>2, AddedKept
    <3> QED BY <1>0, <1>2, <2>1, <3>1, <3>3 DEF ScanInv, ScanType
  <2> QED BY <2>3, <2>4
<1>4. CASE NextDiagonal
  <2>1. /\ diag' = diag + 1 /\ line' = 0 /\ col' = diag + 1 /\ col = -1 /\ line = diag + 1
        /\ added' = added
    BY <1>0, <1>4 DEF NextDiagonal
  <2>2. ASSUME NEW t \in Tasks PROVE Passed(t)' <=> Passed(t)
    <3>1. t[1] \in Nat /\ t[2] \in Nat
      BY <1>1
    <3> QED BY <1>0, <2>1, <3>1 DEF Passed
  <2>3. AddedInv'
    BY <1>2, <2>1, <2>2, AddedKept
  <2> QED BY <1>0, <1>2, <2>1, <2>3 DEF ScanInv, ScanType
<1>5. CASE UNCHANGED vars
  <2>1. UNCHANGED <<pic, diag, line, col, added>>
    BY <1>5 DEF vars
  <2>2. AddedInv'
    BY <2>1, AddedKept DEF Passed
  <2> QED BY <1>0, <1>2, <2>1, <2>2 DEF ScanInv, ScanType
<1> QED BY <1>3, <1>4, <1>5 DEF Next

LEMMA ScanInvariant == Spec => []ScanInv
  BY ScanInitial, ScanInductive, PTL DEF Spec

-----------------------------------------------------------------------------
(* numColPerTask and numTasksPerLine cut every CTU line so that each CTU   *)
(* has one task and no task is empty.                                      *)
THEOREM LineAlwaysPartitioned == Spec => []LinePartitioned
<1>1. ScanInv => LinePartitioned
  <2> SUFFICES ASSUME ScanInv PROVE LinePartitioned
    OBVIOUS
  <2>1. PICK w \in Nat, k \in Nat, n \in Nat :
          /\ w = pic.width /\ k = PerTask /\ n = TasksIn /\ w > 0 /\ k > 0
          /\ n = NumTasksPerLine(w, k)
    BY PictureFacts DEF ScanInv, ScanType, TasksIn
  <2>2. /\ \A c \in 0..n - 1 : CtuStart(c, k) < CtuEnd(c, k, w)
        /\ \A x \in 0..w - 1 : \E q \in 0..n - 1 :
             {c \in 0..n - 1 : CtuStart(c, k) <= x /\ x < CtuEnd(c, k, w)} = {q}
    BY <2>1, Partition
  <2>3. ASSUME NEW x \in 0..w - 1
        PROVE  Cardinality({c \in 0..n - 1 : CtuStart(c, k) <= x /\ x < CtuEnd(c, k, w)}) = 1
    <3>1. PICK q : {c \in 0..n - 1 : CtuStart(c, k) <= x /\ x < CtuEnd(c, k, w)} = {q}
      BY <2>2
    <3> QED BY <3>1, FS_Singleton
  <2> QED BY <2>1, <2>2, <2>3 DEF LinePartitioned
<1> QED BY <1>1, ScanInvariant, PTL

(* The zig-zag loops of decompressPicture add every task of the picture    *)
(* once.                                                                   *)
THEOREM EachTaskAlwaysOnce == Spec => []EachTaskOnce
<1>1. ScanInv => EachTaskOnce
  <2> SUFFICES ASSUME ScanInv PROVE EachTaskOnce
    OBVIOUS
  <2>1. \A a, b \in 1..Len(added) : a # b => added[a] # added[b]
    BY DEF ScanInv, AddedInv
  <2>2. ASSUME Done PROVE {added[a] : a \in 1..Len(added)} = Tasks
    <3>1. \A t \in Tasks : Passed(t)
      BY <2>2, PictureFacts DEF ScanInv, ScanType, Tasks, Passed, Done
    <3>2. \A a \in 1..Len(added) : added[a] \in Tasks
      BY ElementOfSeq DEF ScanInv, ScanType
    <3> QED BY <3>1, <3>2 DEF ScanInv, AddedInv
  <2> QED BY <2>1, <2>2 DEF EachTaskOnce
<1> QED BY <1>1, ScanInvariant, PTL

(* A task is added after its left neighbour and those above it, on which   *)
(* its first stages wait.                                                  *)
THEOREM SourcesAlwaysAddedFirst == Spec => []SourcesAddedFirst
<1>1. ScanInv => SourcesAddedFirst
  BY DEF ScanInv, AddedInv, Sources, SourcesAddedFirst
<1> QED BY <1>1, ScanInvariant, PTL
=============================================================================
