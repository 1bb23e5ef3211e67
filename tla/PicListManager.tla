--------------------------- MODULE PicListManager ---------------------------
(***************************************************************************)
(* The decoded picture buffer: the list of Picture objects, from which the *)
(* parser takes a buffer, in which finished pictures give up the pictures  *)
(* they refer to, and from which DecLib takes the next picture to output.  *)
(*                                                                         *)
(* The methods are operators on a buffer d, a record with the fields of    *)
(* the class: picList (m_cPicList, the numbers of Picture objects), pic    *)
(* (the objects), tuneInDelay and firstOutputPic.  DecLib keeps it in one  *)
(* variable.  A method looks at one object after the other while workers   *)
(* change them; here it sees all of them at once.  What it asks of an      *)
(* object a worker can only make true ("at least reconstructed").          *)
(***************************************************************************)
EXTENDS Integers, Sequences, SequencesExt

CONSTANTS
  MaxPictures,         \* bound: Picture objects that can be created
  MaxDecPicBuffering,  \* getMaxDecPicBuffering of the SPS
  NumReorderPics,      \* getNumReorderPics of the SPS
  ParseFrameDelay,     \* m_parseFrameDelay
  DecInstances,        \* m_parallelDecInst, the number of DecLibRecon objects
  MaxOutOfOrderPics    \* MAX_OUT_OF_ORDER_PICS

ASSUME DpbAssumption ==
  /\ MaxPictures \in Nat \ {0} /\ DecInstances \in Nat \ {0}
  /\ {MaxDecPicBuffering, NumReorderPics, ParseFrameDelay, MaxOutOfOrderPics} \subseteq Nat

Pictures == 1..MaxPictures

(* Picture::PicStateEnum *)
init           == 0
parsing        == 1
parsed         == 2
reconstructing == 3
reconstructed  == 4
finished       == 5

(***************************************************************************)
(* A Picture after resetForUse, or a new one.  au is the access unit that  *)
(* it holds, 0 for none, negative for a generated reference picture; refs  *)
(* are the pictures in the reference lists of its slices.  parseTask and   *)
(* reconTask say where its tasks in the pool are.                          *)
(***************************************************************************)
Fresh ==
  [au |-> 0, type |-> "none", poc |-> 0, refs |-> {}, progress |-> init,
   dpbReferenceMark |-> FALSE, stillReferenced |-> FALSE, neededForOutput |-> FALSE,
   lockedByApplication |-> FALSE, wasLost |-> FALSE, error |-> FALSE,
   exceptionThrownOut |-> FALSE, skippedDecCount |-> 0,
   parseDone |-> "locked", reconDone |-> "locked", parseTask |-> "none", reconTask |-> "none"]

EmptyDpb ==
  [picList |-> <<>>, pic |-> [s \in Pictures |-> Fresh], tuneInDelay |-> 0, firstOutputPic |-> TRUE]

-----------------------------------------------------------------------------
Reusable(p) ==
  /\ p.progress >= reconstructed
  /\ ~p.stillReferenced /\ ~p.dpbReferenceMark
  /\ ~p.neededForOutput /\ ~p.lockedByApplication

(* The new buffer is the last of the list: a new object, or one to reuse.  *)
GetNewPicBuffer(d) ==
  LET i == SelectInSeq(d.picList, LAMBDA s : Reusable(d.pic[s]))
      room == Len(d.picList) < MaxDecPicBuffering + 1 + ParseFrameDelay
      list == IF room \/ i = 0 THEN Append(d.picList, Len(d.picList) + 1)
                               ELSE Append(RemoveAt(d.picList, i), d.picList[i])
  IN  [d EXCEPT !.picList = list, !.pic[Last(list)] = Fresh]

(* The list is gone through up to the first unfinished picture, a lost one *)
(* that has been filled in does not count.                                 *)
KeepsFollowing(p) == p.progress < finished /\ ~(p.progress = reconstructed /\ p.wasLost)

MarkUnusedFault(d) ==                                 \* fault: pictures in progress not asked
  [d EXCEPT !.pic = [s \in Pictures |->
     [d.pic[s] EXCEPT !.stillReferenced = d.pic[s].stillReferenced /\ d.pic[s].dpbReferenceMark]]]

MarkUnusedPicturesReusable(d) ==
  LET stop    == SelectInSeq(d.picList, LAMBDA s : KeepsFollowing(d.pic[s]))
      checked == IF stop = 0 THEN Range(d.picList) ELSE Range(SubSeq(d.picList, 1, stop - 1))
      allRefPics == UNION {d.pic[s].refs : s \in {t \in Range(d.picList) : d.pic[t].progress < reconstructed}}
      unused  == {s \in checked \ allRefPics : ~d.pic[s].dpbReferenceMark}
  IN  [d EXCEPT !.pic = [s \in Pictures |->
         [d.pic[s] EXCEPT !.stillReferenced = d.pic[s].stillReferenced /\ s \notin unused]]]

-----------------------------------------------------------------------------
(***************************************************************************)
(* getNextOutputPic.  The range it looks at ends before the first picture  *)
(* that is not finished, or before the first IDR picture that comes after  *)
(* a picture to output.  Pictures that wait are output in POC order when   *)
(* there are more of them than may be reordered; at first it holds some    *)
(* back, and when an IDR picture ends the range it lets all of them go.    *)
(***************************************************************************)
Skipped(p) == ~p.neededForOutput /\ p.progress >= reconstructed

RangeEnd(d) ==
  LET ends(i) ==
        LET p == d.pic[d.picList[i]]
        IN  /\ ~Skipped(p)
            /\ \/ p.progress < finished
               \/ p.type = "IDR" /\ \E j \in 1..(i-1) : d.pic[d.picList[j]].neededForOutput
  IN  SelectInSeq([i \in 1..Len(d.picList) |-> i], ends)

Waiting(d) ==
  LET end == RangeEnd(d)
  IN  {i \in 1..Len(d.picList) : /\ end # 0 => i < end
                                 /\ d.pic[d.picList[i]].neededForOutput
                                 /\ d.pic[d.picList[i]].progress >= finished}

TuningIn(d) == d.tuneInDelay <= NumReorderPics + DecInstances + 1

BumpFault(d, waiting) == waiting # {}                 \* fault: outputs as soon as something waits

Bump(d, waiting) ==
  Cardinality(waiting) > NumReorderPics + (IF d.firstOutputPic THEN MaxOutOfOrderPics ELSE 0)

LowestPoc(d, waiting) ==
  LET Poc(i) == d.pic[d.picList[i]].poc
  IN  d.picList[CHOOSE i \in waiting : \A j \in waiting : Poc(i) < Poc(j) \/ (Poc(i) = Poc(j) /\ i <= j)]

(* The picture that is output next, 0 for none, and the buffer after it.   *)
GetNextOutputPic(d, bFlush) ==
  LET waiting == Waiting(d)
      end     == RangeEnd(d)
      flush   == bFlush \/ (end # 0 /\ d.pic[d.picList[end]].type = "IDR")
      s       == LowestPoc(d, waiting)
  IN  IF waiting = {} THEN [pic |-> 0, dpb |-> d]
      ELSE IF TuningIn(d) /\ ~bFlush
           THEN [pic |-> 0, dpb |-> [d EXCEPT !.tuneInDelay = @ + 1]]
      ELSE IF ~Bump(d, waiting) /\ ~flush THEN [pic |-> 0, dpb |-> d]
      ELSE [pic |-> s, dpb |-> [d EXCEPT !.firstOutputPic = FALSE,
                                         !.pic[s].lockedByApplication = TRUE,
                                         !.pic[s].neededForOutput = FALSE]]

Restart(d) == [d EXCEPT !.firstOutputPic = TRUE, !.tuneInDelay = 0]

ReleasePicture(d, s) == [d EXCEPT !.pic[s].lockedByApplication = FALSE]
=============================================================================
