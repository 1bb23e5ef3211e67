---------------------------- MODULE TaskSchedule ----------------------------
(***************************************************************************)
(* How decompressPicture cuts the CTU lines into tasks and in which order  *)
(* it adds the tasks to the pool.                                          *)
(***************************************************************************)
EXTENDS Integers, Sequences, FiniteSets

CONSTANTS MaxWidth, MaxHeight, MaxThreads

ASSUME BoundAssumption ==
  MaxWidth \in Nat \ {0} /\ MaxHeight \in Nat \ {0} /\ MaxThreads \in Nat

Least(a, b)    == IF a < b THEN a ELSE b
Greatest(a, b) == IF a > b THEN a ELSE b

(* CTUs of a task, for w CTUs in a line and t decoder threads. *)
NumColPerTask(w, t, intra) ==
  Greatest(Least(w, w \div Greatest(t * (IF intra THEN 2 ELSE 1), 1)
                    + (IF intra THEN 0 ELSE 1)),
           1)

NumTasksPerLineFault(w, k) == w \div k               \* fault: the rest is forgotten

NumTasksPerLine(w, k) == w \div k + (IF w % k # 0 THEN 1 ELSE 0)

CtuStart(col, k)  == col * k
CtuEnd(col, k, w) == Least(CtuStart(col, k) + k, w)

-----------------------------------------------------------------------------
VARIABLES
  pic,        \* the input: width, height, threads, intra
  diag,       \* i, the diagonal
  line, col,  \* the position on it
  added       \* the tasks added so far, in order

vars == <<pic, diag, line, col, added>>

PerTask  == NumColPerTask(pic.width, pic.threads, pic.intra)
TasksIn  == NumTasksPerLine(pic.width, PerTask)

Init ==
  /\ pic \in [width : 1..MaxWidth, height : 1..MaxHeight, threads : 0..MaxThreads,
              intra : BOOLEAN]
  /\ diag = 0 /\ line = 0 /\ col = 0
  /\ added = <<>>

PositionFault ==                                      \* fault: clamps instead of skipping
  /\ diag < TasksIn + pic.height /\ col >= 0
  /\ added' = Append(added, <<Least(line, pic.height - 1), Least(col, TasksIn - 1)>>)
  /\ line' = line + 1 /\ col' = col - 1
  /\ UNCHANGED <<pic, diag>>

PositionReversed ==                                   \* fault: a diagonal from the bottom
  /\ diag < TasksIn + pic.height /\ col >= 0
  /\ added' = IF col < pic.height /\ line < TasksIn
              THEN Append(added, <<col, line>>) ELSE added
  /\ line' = line + 1 /\ col' = col - 1
  /\ UNCHANGED <<pic, diag>>

Position ==
  /\ diag < TasksIn + pic.height /\ col >= 0
  /\ added' = IF line < pic.height /\ col < TasksIn
              THEN Append(added, <<line, col>>) ELSE added
  /\ line' = line + 1 /\ col' = col - 1
  /\ UNCHANGED <<pic, diag>>

NextDiagonal ==
  /\ diag < TasksIn + pic.height /\ col < 0
  /\ diag' = diag + 1
  /\ line' = 0 /\ col' = diag + 1
  /\ UNCHANGED <<pic, added>>

Next == Position \/ NextDiagonal

Spec == Init /\ [][Next]_vars

-----------------------------------------------------------------------------
Done == diag = TasksIn + pic.height

Tasks == (0..pic.height - 1) \X (0..TasksIn - 1)

(* Every CTU of a line belongs to exactly one task, and no task is empty:  *)
(* a CTU outside all tasks would never be decoded, one in two tasks would  *)
(* be filtered twice (ctuStart and ctuEnd of CtuTaskParam).                *)
LinePartitioned ==
  LET Owners(x) == {c \in 0..TasksIn - 1 : CtuStart(c, PerTask) <= x
                                           /\ x < CtuEnd(c, PerTask, pic.width)}
  IN /\ \A x \in 0..pic.width - 1 : Cardinality(Owners(x)) = 1
     /\ \A c \in 0..TasksIn - 1 : CtuStart(c, PerTask) < CtuEnd(c, PerTask, pic.width)

(* The scan adds every task, and none twice (m_ctuTaskCounter would never  *)
(* reach zero, or the finish task would start early).                      *)
EachTaskOnce ==
  /\ \A a, b \in 1..Len(added) : a # b => added[a] # added[b]
  /\ Done => {added[a] : a \in 1..Len(added)} = Tasks

(* A task is added after the tasks its first stages wait for, the left one *)
(* and those above it, so the oldest task in the pool can always start     *)
(* (cases MIDER and INTRA of ctuTask).                                     *)
SourcesAddedFirst ==
  \A b \in 1..Len(added) :
    LET l == added[b][1]
        c == added[b][2]
    IN \A t \in {<<l, c - 1>>, <<l - 1, c>>, <<l - 1, c + 1>>} \cap Tasks :
         \E a \in 1..b - 1 : added[a] = t
=============================================================================
