--------------------------- MODULE DecLib_proofs ---------------------------
(***************************************************************************)
(* Proofs about DecLib: for every stream, every number of Picture objects  *)
(* and DecLibRecon objects and every bound on errors and flushes, a buffer *)
(* is reused only when nobody needs the old picture, an exception leaves   *)
(* the library at most once, what is withheld at the end waits behind a    *)
(* picture that never was finished, and no CHECK about the life of Picture *)
(* objects fails, but for one that needs a slice header to fail.           *)
(*                                                                         *)
(* The argument follows a Picture object from hand to hand: it is in the   *)
(* parse list, in the main thread's hand, in a DecLibRecon object, or      *)
(* taken out of one and not finished yet.  Where it is says how far it is  *)
(* and which tasks it has; when it is nowhere it is done for good.         *)
(***************************************************************************)
EXTENDS DecLib, FiniteSetTheorems, SequenceTheorems, WellFoundedInduction, TLAPS

USE DEF init, parsing, parsed, reconstructing, reconstructed, finished

-----------------------------------------------------------------------------
(* The types of the variables.                                             *)
Progress == init..finished
Barrier == {"locked", "unlocked", "failed"}

PictureType ==
  [au : Int, type : {"none", "IDR", "CRA", "RASL", "TRAIL"}, poc : Int, refs : SUBSET Pictures,
   progress : Progress, dpbReferenceMark : BOOLEAN, stillReferenced : BOOLEAN,
   neededForOutput : BOOLEAN, lockedByApplication : BOOLEAN, wasLost : BOOLEAN, error : BOOLEAN,
   exceptionThrownOut : BOOLEAN, skippedDecCount : Nat, parseDone : Barrier, reconDone : Barrier,
   parseTask : {"none", "runs", "throws"}, reconTask : {"none", "runs", "ends"}]

DpbType ==
  [picList : Seq(Pictures), pic : [Pictures -> PictureType], tuneInDelay : Nat, firstOutputPic : BOOLEAN]

MainType ==
  [pc : {"app", "refs", "choose", "sanitize", "wait", "start", "finish", "output", "flushOutput",
         "drain", "block", "drained", "last"},
   call : {"decode", "flush"}, pic : 0..MaxPictures, done : 0..MaxPictures, exc : BOOLEAN, obj : Nat]

AppType == [state : {"decode", "flush", "eof", "stopped"}, tuningIn : BOOLEAN, flushes : Nat]

TypeInv ==
  /\ \E input \in Inputs : stream = input.units /\ tryContinue = input.tryContinue
  /\ nextNal \in 1..(Len(stream) + 1)
  /\ dpb \in DpbType
  /\ pocRandomAccess \in Int
  /\ dpbReferencePics \in SUBSET Pictures
  /\ parseFrameList \in Seq(Pictures)
  /\ decLibRecon \in [1..DecInstances -> 0..MaxPictures]
  /\ main \in MainType /\ app \in AppType
  /\ errors \in Nat /\ output \in Seq(Int)
  /\ thrown \in [1..Len(stream) -> Nat]

-----------------------------------------------------------------------------
(* Who has a picture.                                                      *)
Listed(s)    == s \in 1..Len(dpb.picList)
Queued(s)    == \E i \in 1..Len(parseFrameList) : parseFrameList[i] = s
InHand(s)    == main.pc \in {"sanitize", "wait"} /\ main.pic = s
InObject(s)  == \E i \in 1..DecInstances : decLibRecon[i] = s
TakenOut(s)  == main.pc \in {"start", "finish"} /\ main.done = s
Unstarted(s) == main.pc = "start" /\ main.pic = s
Owned(s)     == Queued(s) \/ InHand(s) \/ InObject(s) \/ TakenOut(s)

(* Every number up to the length of the list is in it, and nothing else.   *)
Numbered(list) == \A s \in Nat : (\E i \in 1..Len(list) : list[i] = s) <=> s \in 1..Len(list)

ListInv ==
  /\ Numbered(dpb.picList)
  /\ \A s \in Pictures : ~Listed(s) => Pic(s) = Fresh
  /\ \A i \in 1..Len(parseFrameList) : \A j \in 1..Len(parseFrameList) :
       parseFrameList[i] = parseFrameList[j] => i = j
  /\ \A i \in 1..DecInstances : \A j \in 1..DecInstances :
       decLibRecon[i] = decLibRecon[j] /\ decLibRecon[i] # 0 => i = j

(* A picture is in one place at most.                                      *)
PlaceInv ==
  /\ \A s \in Pictures : Owned(s) => Listed(s)
  /\ \A s \in Pictures : Queued(s) => ~InHand(s) /\ ~InObject(s) /\ ~TakenOut(s)
  /\ \A s \in Pictures : InHand(s) => ~InObject(s) /\ ~TakenOut(s)
  /\ \A s \in Pictures : InObject(s) => ~TakenOut(s)
  /\ main.pc \in {"sanitize", "wait", "start"} => main.pic \in Pictures
  /\ main.pc = "start" => decLibRecon[DecInstances] = main.pic

(* What its tasks say about a picture.                                     *)
TasksAgree(p) ==
  /\ p.parseTask # "none" => p.parseDone = "locked" /\ p.progress \in {parsing, reconstructing}
  /\ p.parseTask = "throws" => p.error
  /\ p.parseDone = "failed" => p.error
  /\ p.parseDone = "unlocked" => p.progress >= parsed
  /\ p.reconTask = "runs" => p.reconDone = "locked" /\ p.progress = reconstructing
  /\ p.reconTask = "ends" => p.reconDone = "locked" /\ p.progress = reconstructed /\ p.parseTask = "none"
  /\ p.reconDone = "unlocked" => p.progress >= reconstructed

(* A picture that somebody has is an access unit that nothing was reported *)
(* about; its error, if there is one, is still to be seen.                 *)
OwnedAgrees(p, times) ==
  /\ p.au > 0 /\ ~p.wasLost /\ ~p.exceptionThrownOut /\ p.progress < finished /\ times = 0
  /\ p.parseTask = "none" => p.parseDone # "locked"
  /\ p.error => p.parseTask = "throws" \/ p.parseDone = "failed" \/ p.reconDone = "failed"

WaitsAgrees(p) ==
  p.progress \in {parsing, parsed} /\ p.reconDone = "locked" /\ p.reconTask = "none"

ObjectAgrees(p) ==
  /\ p.progress \in {reconstructing, reconstructed}
  /\ p.reconDone = "failed" => p.progress = reconstructing

TakenOutAgrees(p) ==
  /\ p.progress \in {reconstructing, reconstructed} /\ p.reconDone # "locked"
  /\ p.parseTask = "none" /\ p.reconTask = "none"
  /\ p.reconDone = "failed" => p.progress = reconstructing /\ p.error

PictureInv(s) ==
  /\ TasksAgree(Pic(s))
  /\ Owned(s) => OwnedAgrees(Pic(s), thrown[Pic(s).au])
  /\ Queued(s) \/ InHand(s) => WaitsAgrees(Pic(s))
  /\ InHand(s) /\ main.pc = "sanitize" =>
       Pic(s).error /\ (main.exc => Pic(s).parseDone = "failed")
  /\ InObject(s) => ObjectAgrees(Pic(s))
  /\ InObject(s) => (Pic(s).reconTask = "none" /\ Pic(s).reconDone = "locked" <=> Unstarted(s))
  /\ Unstarted(s) => Pic(s).progress = reconstructing
  /\ TakenOut(s) => TakenOutAgrees(Pic(s))

(* A picture that nobody has is finished, was generated, or failed.        *)
Finished(p)   == p.progress = finished /\ ~p.wasLost /\ p.au > 0
LostOne(p)    == p.progress = reconstructed /\ p.wasLost /\ p.au < 0 /\ ~p.error /\ ~p.neededForOutput
NoHeader(p)   == p.progress = init /\ p.error /\ p.au > 0 /\ p.refs = {}
NotFinished(p) == p.progress = reconstructed /\ p.error /\ p.au > 0 /\ p.reconDone = "failed"

LeftAgrees(p, times) ==
  /\ p.parseTask = "none" /\ p.reconTask = "none"
  /\ Finished(p) \/ LostOne(p) \/ NoHeader(p) \/ NotFinished(p)
  /\ p.error => times = 1

LeftInv(s) == Listed(s) /\ ~Owned(s) => LeftAgrees(Pic(s), thrown[Pic(s).au])

LifeInv == \A s \in Pictures : PictureInv(s) /\ LeftInv(s)

(* Access units and what has been thrown about them.                       *)
AuInv ==
  /\ \A s \in Pictures : \A t \in Pictures : Pic(s).au = Pic(t).au /\ Pic(s).au > 0 => s = t
  /\ \A s \in Pictures : Pic(s).au < nextNal /\ (Pic(s).wasLost => Pic(s).au < 0)
  /\ \A a \in 1..Len(stream) : thrown[a] \in {0, 1} /\ (a >= nextNal => thrown[a] = 0)

(* A picture that is not finished is referred to or output.                *)
UseInv ==
  \A s \in Pictures : Pic(s).au > 0 /\ Pic(s).progress < finished =>
    Pic(s).stillReferenced \/ Pic(s).neededForOutput

(* What a picture in progress refers to is kept, and is before it in the   *)
(* parse list if it is there at all.                                       *)
Before(r, t) ==
  \A i \in 1..Len(parseFrameList) : parseFrameList[i] = r =>
    \E j \in 1..Len(parseFrameList) : i < j /\ parseFrameList[j] = t

RefInv ==
  \A t \in Pictures : \A r \in Pictures :
    Pic(t).progress < reconstructed /\ r \in Pic(t).refs =>
      Listed(r) /\ r # t /\ Pic(r).stillReferenced /\ Before(r, t)

(* The reference pictures of the parser.  One that is not marked is the    *)
(* last one it has parsed, and was not output yet.                         *)
Kept(s) ==
  /\ Pic(s).neededForOutput
  /\ \/ main.pc \in {"app", "refs"} \/ Queued(s)
     \/ main.pc \in {"sanitize", "wait"} /\ main.pic = s
     \/ main.pc \in {"start", "finish", "output"} /\ InObject(s)

InSequence == app.state = "decode" /\ pocRandomAccess # NoPoc /\ (main.pc = "refs" => Unit.refs # {})

DpbInv ==
  /\ \A s \in dpbReferencePics : Listed(s)
  /\ \A s \in Pictures : Pic(s).dpbReferenceMark => s \in dpbReferencePics /\ Pic(s).stillReferenced
  /\ InSequence => \A s \in dpbReferencePics : Pic(s).dpbReferenceMark \/ Kept(s)

(* Where the main thread can be.                                           *)
CallInv ==
  /\ main.pc \in {"flushOutput", "drain", "block", "drained", "last"} => main.call = "flush"
  /\ main.pc \in {"refs", "output"} => main.call = "decode"
  /\ main.pc # "app" => app.state = main.call
  /\ main.pc = "refs" => nextNal <= Len(stream) /\ Unit.type # "EOS" /\ pocRandomAccess # NoPoc
  /\ app.state = "eof" => pocRandomAccess = NoPoc

(* The flush: first the parse list gets empty, then the objects.           *)
DrainInv ==
  /\ main.pc \in {"drain", "block", "drained", "last"} \/ app.state = "eof" => parseFrameList = <<>>
  /\ main.pc = "block" => main.obj > 0 /\ \A i \in 1..DecInstances : i < main.obj => decLibRecon[i] = 0
  /\ main.pc \in {"drained", "last"} \/ app.state = "eof" => \A i \in 1..DecInstances : decLibRecon[i] = 0

RunInv == ListInv /\ PlaceInv /\ LifeInv /\ AuInv /\ UseInv /\ RefInv /\ DpbInv /\ CallInv /\ DrainInv

IInv ==
  /\ TypeInv
  /\ check = "none" => RunInv
  /\ check # "none" => main.pc = "app" /\ app.state = "stopped"
-----------------------------------------------------------------------------
(* Sequences.                                                              *)
LEMMA LeastElement ==
  ASSUME NEW T \in SUBSET Nat, T # {}
  PROVE  Min(T) \in T /\ \A x \in T : Min(T) <= x
<1> DEFINE R == OpToRel(<, Nat)
<1>1. IsWellFoundedOn(R, Nat)
  BY NatLessThanWellFounded
<1>2. \A x, y \in Nat : <<y, x>> \in R <=> y < x
  BY DEF OpToRel
<1> HIDE DEF R
<1>3. PICK x \in T : \A y \in T : ~(<<y, x>> \in R)
  BY <1>1, WFMin
<1>4. ASSUME NEW y \in T PROVE x =< y
  <2>1. x \in Nat /\ y \in Nat /\ ~(<<y, x>> \in R)
    BY <1>3
  <2>2. ~(y < x)
    BY <1>2, <2>1
  <2> QED BY <2>1, <2>2
<1> QED BY <1>3, <1>4 DEF Min

(* What SelectInSeq makes of the positions I where its test holds.         *)
LEMMA FirstPosition ==
  ASSUME NEW n \in Nat, NEW I \in SUBSET (1..n), NEW k, k = IF I # {} THEN Min(I) ELSE 0
  PROVE  k \in 0..n /\ (k = 0 => I = {}) /\ (k # 0 => k \in I) /\ \A i \in I : k <= i
<1>1. I \in SUBSET Nat
  OBVIOUS
<1>2. CASE I = {}
  BY <1>2
<1>3. CASE I # {}
  <2>1. k \in I /\ \A i \in I : k <= i
    BY <1>1, <1>3, LeastElement
  <2>2. k \in 1..n
    BY <2>1
  <2> QED BY <2>1, <2>2
<1> QED BY <1>2, <1>3

LEMMA Removed ==
  ASSUME NEW T, NEW seq \in Seq(T), NEW k \in 1..Len(seq)
  PROVE  /\ RemoveAt(seq, k) \in Seq(T)
         /\ Len(RemoveAt(seq, k)) = Len(seq) - 1
         /\ \A j \in 1..(Len(seq) - 1) : RemoveAt(seq, k)[j] = IF j < k THEN seq[j] ELSE seq[j + 1]
<1> DEFINE a == SubSeq(seq, 1, k - 1)
           b == SubSeq(seq, k + 1, Len(seq))
<1>1. Len(seq) \in Nat /\ k \in Int /\ 1 <= k /\ k <= Len(seq)
  BY LenProperties
<1>2. \A j \in 1..(k - 1) : seq[j] \in T
  BY <1>1, ElementOfSeq
<1>3. \A j \in (k + 1)..Len(seq) : seq[j] \in T
  BY <1>1, ElementOfSeq
<1>4. a \in Seq(T) /\ Len(a) = k - 1 /\ \A j \in 1..(k - 1) : a[j] = seq[j]
  BY <1>1, <1>2, SubSeqProperties
<1>5. b \in Seq(T) /\ Len(b) = Len(seq) - k /\ \A j \in 1..(Len(seq) - k) : b[j] = seq[k + j]
  BY <1>1, <1>3, SubSeqProperties
<1> HIDE DEF a, b
<1>6. /\ a \o b \in Seq(T) /\ Len(a \o b) = Len(a) + Len(b)
      /\ \A j \in 1..(Len(a) + Len(b)) : (a \o b)[j] = IF j <= Len(a) THEN a[j] ELSE b[j - Len(a)]
  BY <1>4, <1>5, ConcatProperties
<1>7. RemoveAt(seq, k) = a \o b
  BY DEF RemoveAt, a, b
<1>8. ASSUME NEW j \in 1..(Len(seq) - 1)
      PROVE  (a \o b)[j] = IF j < k THEN seq[j] ELSE seq[j + 1]
  <2>1. CASE j < k
    <3>1. j \in 1..(k - 1) /\ j <= Len(a) /\ j \in 1..(Len(a) + Len(b))
      BY <1>1, <1>4, <1>5, <2>1
    <3> QED BY <1>4, <1>6, <2>1, <3>1
  <2>2. CASE ~(j < k)
    <3>1. j - (k - 1) \in 1..(Len(seq) - k) /\ ~(j <= Len(a)) /\ j \in 1..(Len(a) + Len(b))
      BY <1>1, <1>4, <1>5, <2>2
    <3>2. (a \o b)[j] = b[j - (k - 1)]
      BY <1>4, <1>6, <3>1
    <3>3. b[j - (k - 1)] = seq[k + (j - (k - 1))]
      BY <1>5, <3>1
    <3>4. k + (j - (k - 1)) = j + 1
      BY <1>1
    <3> QED BY <2>2, <3>2, <3>3, <3>4
  <2> QED BY <2>1, <2>2
<1> QED BY <1>1, <1>4, <1>5, <1>6, <1>7, <1>8

(* The list after a buffer of it was moved to the end: the same buffers.   *)
ToEnd(seq, k) == Append(RemoveAt(seq, k), seq[k])

LEMMA MovedToEnd ==
  ASSUME NEW T, NEW seq \in Seq(T), NEW k \in 1..Len(seq)
  PROVE  /\ ToEnd(seq, k) \in Seq(T) /\ Len(ToEnd(seq, k)) = Len(seq)
         /\ ToEnd(seq, k)[Len(seq)] = seq[k]
         /\ \A i \in 1..Len(seq) : \E j \in 1..Len(seq) : ToEnd(seq, k)[j] = seq[i]
         /\ \A j \in 1..Len(seq) : \E i \in 1..Len(seq) : ToEnd(seq, k)[j] = seq[i]
<1> DEFINE r == RemoveAt(seq, k)
           new == ToEnd(seq, k)
<1>1. Len(seq) \in Nat /\ k \in Int /\ 1 <= k /\ k <= Len(seq) /\ seq[k] \in T
  BY LenProperties, ElementOfSeq
<1>2. r \in Seq(T) /\ Len(r) = Len(seq) - 1
  BY Removed
<1>3. \A j \in 1..(Len(seq) - 1) : r[j] = IF j < k THEN seq[j] ELSE seq[j + 1]
  BY Removed
<1> HIDE DEF r
<1>4. /\ new \in Seq(T) /\ Len(new) = Len(seq) /\ new[Len(seq)] = seq[k]
      /\ \A j \in 1..(Len(seq) - 1) : new[j] = r[j]
  <2>1. new = Append(r, seq[k])
    BY DEF r, ToEnd
  <2> HIDE DEF new
  <2> QED BY <1>1, <1>2, <2>1, AppendProperties
<1> HIDE DEF new
<1>5. ASSUME NEW i \in 1..Len(seq) PROVE \E j \in 1..Len(seq) : new[j] = seq[i]
  <2>1. CASE i < k
    <3>1. i \in 1..(Len(seq) - 1)
      BY <1>1, <2>1
    <3> QED BY <1>3, <1>4, <2>1, <3>1
  <2>2. CASE i = k
    <3>1. Len(seq) \in 1..Len(seq)
      BY <1>1
    <3> QED BY <1>4, <2>2, <3>1
  <2>3. CASE k < i
    <3>1. i - 1 \in 1..(Len(seq) - 1) /\ i - 1 \in 1..Len(seq) /\ ~(i - 1 < k) /\ (i - 1) + 1 = i
      BY <1>1, <2>3
    <3>2. new[i - 1] = seq[i]
      BY <1>3, <1>4, <3>1
    <3> QED BY <3>1, <3>2
  <2>4. i < k \/ i = k \/ k < i
    BY <1>1
  <2> QED BY <2>1, <2>2, <2>3, <2>4
<1>6. ASSUME NEW j \in 1..Len(seq) PROVE \E i \in 1..Len(seq) : new[j] = seq[i]
  <2>1. CASE j = Len(seq)
    BY <1>4, <2>1
  <2>2. CASE j # Len(seq)
    <3>1. j \in 1..(Len(seq) - 1) /\ j + 1 \in 1..Len(seq)
      BY <1>1, <2>2
    <3>2. new[j] = IF j < k THEN seq[j] ELSE seq[j + 1]
      BY <1>3, <1>4, <3>1
    <3> QED BY <3>1, <3>2
  <2> QED BY <2>1, <2>2
<1> QED BY <1>4, <1>5, <1>6 DEF new
LEMMA InPrefix ==
  ASSUME NEW T, NEW seq \in Seq(T), NEW k \in 1..Len(seq), NEW s \in Range(SubSeq(seq, 1, k - 1))
  PROVE  \E i \in 1..Len(seq) : i < k /\ seq[i] = s
<1> DEFINE part == SubSeq(seq, 1, k - 1)
<1>1. Len(seq) \in Nat /\ k \in Int /\ 1 <= k /\ k <= Len(seq)
  BY LenProperties
<1>2. \A j \in 1..(k - 1) : seq[j] \in T
  BY <1>1, ElementOfSeq
<1>3. part \in Seq(T) /\ Len(part) = k - 1 /\ \A j \in 1..(k - 1) : part[j] = seq[j]
  BY <1>1, <1>2, SubSeqProperties
<1>4. s \in Range(part)
  OBVIOUS
<1> HIDE DEF part
<1>5. PICK j \in 1..Len(part) : part[j] = s
  BY <1>3, <1>4, RangeEquality
<1>6. j \in 1..Len(seq) /\ j < k /\ seq[j] = s
  BY <1>1, <1>3, <1>5
<1> QED BY <1>6

-----------------------------------------------------------------------------
(* The operators of the picture list.                                      *)
LEMMA ProgressValues == {0, 1, 2, 3, 4, 5} \subseteq Progress
BY DEF Progress

LEMMA FreshType == Fresh \in PictureType
BY ProgressValues DEF Fresh, PictureType, Barrier

LEMMA DpbTypeFields ==
  ASSUME NEW d \in DpbType
  PROVE  /\ d.picList \in Seq(Pictures) /\ d.pic \in [Pictures -> PictureType]
         /\ d.tuneInDelay \in Nat /\ d.firstOutputPic \in BOOLEAN /\ Len(d.picList) \in Nat
BY LenProperties DEF DpbType

LEMMA WithPics ==
  ASSUME NEW d \in DpbType, NEW pic \in [Pictures -> PictureType], NEW new, new = [d EXCEPT !.pic = pic]
  PROVE  /\ new \in DpbType /\ new.picList = d.picList /\ new.pic = pic
         /\ new.tuneInDelay = d.tuneInDelay /\ new.firstOutputPic = d.firstOutputPic
BY DEF DpbType

(* A new buffer is a new object or one that may be reused, and it is reset.*)
LEMMA NewBufferShape ==
  ASSUME DpbAssumption, NEW d \in DpbType, Numbered(d.picList), HasRoom(GetNewPicBuffer(d)),
         NEW new, new = GetNewPicBuffer(d), NEW s, s = Last(new.picList)
  PROVE  /\ s \in Pictures /\ new \in DpbType /\ new.pic = [d.pic EXCEPT ![s] = Fresh]
         /\ new.tuneInDelay = d.tuneInDelay /\ new.firstOutputPic = d.firstOutputPic
         /\ Numbered(new.picList) /\ s \in 1..Len(new.picList)
         /\ \/ s = Len(d.picList) + 1 /\ Len(new.picList) = s
            \/ /\ s \in 1..Len(d.picList) /\ Reusable(d.pic[s])
               /\ Len(new.picList) = Len(d.picList)
<1> DEFINE seq == d.picList
           I == {i \in 1..Len(seq) : Reusable(d.pic[seq[i]])}
           k == IF I # {} THEN Min(I) ELSE 0
           room == Len(seq) < MaxDecPicBuffering + 1 + ParseFrameDelay
           list == IF room \/ k = 0 THEN Append(seq, Len(seq) + 1)
                                    ELSE Append(RemoveAt(seq, k), seq[k])
<1>1. seq \in Seq(Pictures) /\ Len(seq) \in Nat /\ d.pic \in [Pictures -> PictureType]
  BY DpbTypeFields
<1>2. k \in 0..Len(seq) /\ (k # 0 => k \in I)
  <2>1. I \in SUBSET (1..Len(seq))
    OBVIOUS
  <2> HIDE DEF I
  <2> QED BY <1>1, <2>1, FirstPosition
<1>3. new = [d EXCEPT !.picList = list, !.pic[Last(list)] = Fresh]
  BY DEF GetNewPicBuffer, SelectInSeq
<1>4. k # 0 => k \in 1..Len(seq) /\ Reusable(d.pic[seq[k]])
  BY <1>2
<1> HIDE DEF k, I, room
<1>5. ASSUME NEW last \in Pictures, last = Last(list), list \in Seq(Pictures)
      PROVE  /\ new \in DpbType /\ new.picList = list /\ new.pic = [d.pic EXCEPT ![last] = Fresh]
             /\ new.tuneInDelay = d.tuneInDelay /\ new.firstOutputPic = d.firstOutputPic
  <2> HIDE DEF list
  <2>1. new = [d EXCEPT !.picList = list, !.pic[last] = Fresh]
    BY <1>3, <1>5
  <2>2. [d.pic EXCEPT ![last] = Fresh] \in [Pictures -> PictureType]
    BY <1>1, FreshType
  <2>3. /\ new.picList = list /\ new.pic = [d.pic EXCEPT ![last] = Fresh]
        /\ new.tuneInDelay = d.tuneInDelay /\ new.firstOutputPic = d.firstOutputPic
    BY <2>1 DEF DpbType
  <2>4. new = [picList |-> list, pic |-> [d.pic EXCEPT ![last] = Fresh],
               tuneInDelay |-> d.tuneInDelay, firstOutputPic |-> d.firstOutputPic]
    BY <2>1 DEF DpbType
  <2>5. new \in DpbType
    BY <1>5, <2>2, <2>4, DpbTypeFields DEF DpbType
  <2> QED BY <2>3, <2>5
<1>6. CASE room \/ k = 0
  <2>1. list = Append(seq, Len(seq) + 1)
    BY <1>6
  <2>2. list \in Seq(Nat) /\ Len(list) = Len(seq) + 1 /\ list[Len(list)] = Len(seq) + 1
        /\ \A i \in 1..Len(seq) : list[i] = seq[i]
    <3>1. seq \in Seq(Nat) /\ Len(seq) + 1 \in Nat
      BY <1>1, SeqMonotonic, DpbAssumption DEF Pictures, DpbAssumption
    <3> HIDE DEF list
    <3> QED BY <2>1, <3>1, <1>1, AppendProperties
  <2>3. new.picList = list
    BY <1>3, <2>1 DEF DpbType
  <2>4. Len(list) <= MaxPictures
    BY <2>3 DEF HasRoom
  <2>5. Len(seq) + 1 \in Pictures
    BY <1>1, <2>2, <2>4 DEF Pictures, DpbAssumption
  <2>6. Last(list) = Len(seq) + 1 /\ list \in Seq(Pictures)
    BY <1>1, <2>1, <2>2, <2>5, AppendProperties DEF Last
  <2>7. s = Len(seq) + 1
    BY <2>3, <2>6
  <2>8. Numbered(list)
    <3> SUFFICES ASSUME NEW t \in Nat
                 PROVE  (\E i \in 1..Len(list) : list[i] = t) <=> t \in 1..Len(list)
      BY DEF Numbered
    <3>1. (\E i \in 1..Len(seq) : seq[i] = t) <=> t \in 1..Len(seq)
      BY DEF Numbered
    <3> HIDE DEF list
    <3>2. CASE t = Len(seq) + 1
      <4>1. Len(list) \in 1..Len(list)
        BY <1>1, <2>2
      <4> QED BY <1>1, <2>2, <3>2, <4>1
    <3>3. CASE t # Len(seq) + 1
      <4>1. t \in 1..Len(list) <=> t \in 1..Len(seq)
        BY <1>1, <2>2, <3>3
      <4>2. (\E i \in 1..Len(list) : list[i] = t) <=> (\E i \in 1..Len(seq) : seq[i] = t)
        <5>1. \A i \in 1..Len(seq) : i \in 1..Len(list) /\ list[i] = seq[i]
          BY <1>1, <2>2
        <5>2. \A i \in 1..Len(list) : i \in 1..Len(seq) \/ i = Len(list)
          BY <1>1, <2>2
        <5> QED BY <2>2, <3>3, <5>1, <5>2
      <4> QED BY <3>1, <4>1, <4>2
    <3> QED BY <3>2, <3>3
  <2> QED BY <1>1, <1>5, <2>2, <2>3, <2>5, <2>6, <2>7, <2>8
<1>7. CASE ~(room \/ k = 0)
  <2>1. list = Append(RemoveAt(seq, k), seq[k])
    BY <1>7
  <2>2. k \in 1..Len(seq)
    BY <1>4, <1>7
  <2>3. /\ list \in Seq(Pictures) /\ Len(list) = Len(seq) /\ list[Len(list)] = seq[k]
        /\ \A i \in 1..Len(seq) : \E j \in 1..Len(seq) : list[j] = seq[i]
        /\ \A j \in 1..Len(seq) : \E i \in 1..Len(seq) : list[j] = seq[i]
    <3>1. list = ToEnd(seq, k)
      BY <2>1 DEF ToEnd
    <3>2. seq \in Seq(Pictures)
      BY <1>1
    <3> HIDE DEF list, seq
    <3>3. ToEnd(seq, k) \in Seq(Pictures)
      BY <2>2, <3>2, MovedToEnd
    <3>4. Len(ToEnd(seq, k)) = Len(seq)
      BY <2>2, <3>2, MovedToEnd
    <3>5. /\ \A i \in 1..Len(seq) : \E j \in 1..Len(seq) : ToEnd(seq, k)[j] = seq[i]
         /\ \A j \in 1..Len(seq) : \E i \in 1..Len(seq) : ToEnd(seq, k)[j] = seq[i]
      BY ZenonT(30), <2>2, <3>2, MovedToEnd
    <3>6. ToEnd(seq, k)[Len(seq)] = seq[k]
      BY <2>2, <3>2, MovedToEnd
    <3> QED BY <3>1, <3>3, <3>4, <3>5, <3>6
  <2>4. seq[k] \in Pictures /\ Last(list) = seq[k]
    BY <1>1, <2>2, <2>3, ElementOfSeq DEF Last
  <2>5. s = seq[k]
    BY <1>5, <2>3, <2>4
  <2>6. seq[k] \in 1..Len(seq)
    <3>1. seq[k] \in Nat
      BY <2>4 DEF Pictures, DpbAssumption
    <3> QED BY <2>2, <3>1 DEF Numbered
  <2>7. Numbered(list)
    <3> SUFFICES ASSUME NEW t \in Nat
                 PROVE  (\E i \in 1..Len(list) : list[i] = t) <=> t \in 1..Len(list)
      BY DEF Numbered
    <3>1. (\E i \in 1..Len(seq) : seq[i] = t) <=> t \in 1..Len(seq)
      BY DEF Numbered
    <3> HIDE DEF list
    <3> QED BY <2>3, <3>1
  <2> QED BY <1>4, <1>5, <1>7, <2>3, <2>4, <2>5, <2>6, <2>7
<1> QED BY <1>6, <1>7

(* Only pictures that are done give up what they refer to, and only those  *)
(* that no picture in progress refers to.                                  *)
GivenUp(d, s) ==
  /\ s \in 1..Len(d.picList) /\ ~d.pic[s].dpbReferenceMark
  /\ d.pic[s].progress = finished \/ (d.pic[s].progress = reconstructed /\ d.pic[s].wasLost)
  /\ \A t \in 1..Len(d.picList) : d.pic[t].progress < reconstructed => s \notin d.pic[t].refs

LEMMA MarkUnusedShape ==
  ASSUME DpbAssumption, NEW d \in DpbType, Numbered(d.picList),
         NEW new, new = MarkUnusedPicturesReusable(d)
  PROVE  /\ new \in DpbType /\ new.picList = d.picList
         /\ new.tuneInDelay = d.tuneInDelay /\ new.firstOutputPic = d.firstOutputPic
         /\ \A s \in Pictures :
              \/ new.pic[s] = d.pic[s]
              \/ new.pic[s] = [d.pic[s] EXCEPT !.stillReferenced = FALSE] /\ GivenUp(d, s)
<1> DEFINE I == {i \in 1..Len(d.picList) : KeepsFollowing(d.pic[d.picList[i]])}
           stop == IF I # {} THEN Min(I) ELSE 0
           checked == IF stop = 0 THEN Range(d.picList) ELSE Range(SubSeq(d.picList, 1, stop - 1))
           allRefPics == UNION {d.pic[s].refs : s \in {t \in Range(d.picList) : d.pic[t].progress < reconstructed}}
           unused == {s \in checked \ allRefPics : ~d.pic[s].dpbReferenceMark}
           pic == [s \in Pictures |->
                    [d.pic[s] EXCEPT !.stillReferenced = d.pic[s].stillReferenced /\ s \notin unused]]
<1>1. d.picList \in Seq(Pictures) /\ Len(d.picList) \in Nat /\ d.pic \in [Pictures -> PictureType]
  BY DpbTypeFields
<1>2. new = [d EXCEPT !.pic = pic]
  BY DEF MarkUnusedPicturesReusable, SelectInSeq
<1>3. stop \in 0..Len(d.picList) /\ \A i \in I : stop <= i /\ stop # 0
  <2>1. I \in SUBSET (1..Len(d.picList))
    OBVIOUS
  <2> HIDE DEF I
  <2> QED BY <1>1, <2>1, FirstPosition
<1>4. \A s : s \in Range(d.picList) <=> \E i \in 1..Len(d.picList) : d.picList[i] = s
  BY <1>1, RangeEquality
<1>5. ASSUME NEW s \in Pictures, s \in checked
      PROVE  \E i \in 1..Len(d.picList) : d.picList[i] = s /\ i \notin I
  <2>1. CASE stop = 0
    BY <1>3, <1>4, <1>5, <2>1
  <2>2. CASE stop # 0
    <3>1. stop \in 1..Len(d.picList) /\ s \in Range(SubSeq(d.picList, 1, stop - 1))
      BY <1>1, <1>3, <1>5, <2>2
    <3>2. PICK i \in 1..Len(d.picList) : i < stop /\ d.picList[i] = s
      BY ZenonT(30), <1>1, <3>1, InPrefix
    <3>3. ~(stop <= i)
      BY <1>1, <3>1, <3>2
    <3> HIDE DEF I
    <3>4. i \notin I
      BY <1>3, <3>3
    <3> QED BY <3>2, <3>4
  <2> QED BY <2>1, <2>2
<1>6. \A t \in 1..Len(d.picList) : t \in Range(d.picList)
  BY <1>1, <1>4 DEF Numbered
<1> HIDE DEF stop, checked
<1>7. ASSUME NEW s \in Pictures, s \in unused
      PROVE  GivenUp(d, s)
  <2>1. s \in checked /\ s \notin allRefPics /\ ~d.pic[s].dpbReferenceMark
    BY <1>7
  <2>2. PICK i \in 1..Len(d.picList) : d.picList[i] = s /\ i \notin I
    BY <1>5, <2>1
  <2>3. ~KeepsFollowing(d.pic[s])
    BY <2>2
  <2>4. d.pic[s].progress \in init..finished
    BY <1>1 DEF PictureType, Progress
  <2>5. d.pic[s].progress = finished \/ (d.pic[s].progress = reconstructed /\ d.pic[s].wasLost)
    BY <2>3, <2>4 DEF KeepsFollowing
  <2>6. s \in 1..Len(d.picList)
    <3>1. s \in Nat
      BY DEF Pictures, DpbAssumption
    <3> QED BY <2>2, <3>1 DEF Numbered
  <2>7. ASSUME NEW t \in 1..Len(d.picList), d.pic[t].progress < reconstructed
        PROVE  s \notin d.pic[t].refs
    BY <1>6, <2>1, <2>7
  <2> QED BY <2>1, <2>5, <2>6, <2>7 DEF GivenUp
<1> HIDE DEF unused
<1>8. ASSUME NEW s \in Pictures
      PROVE  pic[s] = d.pic[s] \/ (pic[s] = [d.pic[s] EXCEPT !.stillReferenced = FALSE] /\ GivenUp(d, s))
  <2>1. d.pic[s] \in PictureType
    BY <1>1
  <2>2. pic[s] = [d.pic[s] EXCEPT !.stillReferenced = d.pic[s].stillReferenced /\ s \notin unused]
    OBVIOUS
  <2>3. CASE s \in unused
    <3>1. d.pic[s].stillReferenced /\ s \notin unused <=> FALSE
      BY <2>3
    <3>2. pic[s] = [d.pic[s] EXCEPT !.stillReferenced = FALSE]
      BY <2>2, <3>1
    <3> QED BY <1>7, <2>3, <3>2
  <2>4. CASE s \notin unused
    <3>1. pic[s] = [d.pic[s] EXCEPT !.stillReferenced = d.pic[s].stillReferenced]
      BY <2>1, <2>2, <2>4 DEF PictureType
    <3>2. pic[s] = d.pic[s]
      BY <2>1, <3>1 DEF PictureType
    <3> QED BY <3>2
  <2> QED BY <2>3, <2>4
<1>9. pic \in [Pictures -> PictureType]
  <2>1. ASSUME NEW s \in Pictures
        PROVE  [d.pic[s] EXCEPT !.stillReferenced = d.pic[s].stillReferenced /\ s \notin unused] \in PictureType
    <3>1. d.pic[s] \in PictureType
      BY <1>1
    <3> QED BY <3>1 DEF PictureType
  <2> QED BY <2>1
<1> HIDE DEF pic
<1>10. new.picList = d.picList /\ new.pic = pic
       /\ new.tuneInDelay = d.tuneInDelay /\ new.firstOutputPic = d.firstOutputPic
  BY <1>2 DEF DpbType
<1>11. new \in DpbType
  BY <1>2, <1>9 DEF DpbType
<1> QED BY <1>8, <1>10, <1>11

(* One of the pictures that wait comes first in POC order.                 *)
LEMMA FirstInOrder ==
  ASSUME NEW n \in Nat, NEW W \in SUBSET (1..n), W # {}, NEW f \in [W -> Int]
  PROVE  \E i \in W : \A j \in W : f[i] < f[j] \/ (f[i] = f[j] /\ i <= j)
<1> DEFINE Least(i, m) == i \in W /\ i <= m /\ \A j \in W : j <= m => f[i] < f[j] \/ (f[i] = f[j] /\ i <= j)
           Bad(m) == (\E j \in W : j <= m) /\ ~(\E i \in W : Least(i, m))
           T == {m \in 1..n : Bad(m)}
<1>1. CASE T = {}
  <2>1. PICK w \in W : TRUE
    OBVIOUS
  <2>2. n \in 1..n /\ w <= n
    BY <2>1
  <2>3. ~Bad(n)
    BY <1>1, <2>2
  <2>4. PICK i \in W : Least(i, n)
    BY <2>1, <2>2, <2>3
  <2>5. \A j \in W : j <= n
    OBVIOUS
  <2> QED BY <2>4, <2>5
<1>2. CASE T # {}
  <2> DEFINE m == Min(T)
  <2>1. m \in T /\ \A x \in T : m <= x
    <3>1. T \in SUBSET Nat
      OBVIOUS
    <3> HIDE DEF T
    <3> QED BY <1>2, <3>1, LeastElement
  <2> HIDE DEF m
  <2>2. m \in 1..n /\ Bad(m)
    BY <2>1
  <2>3. \A j \in W : j \in 1..n /\ f[j] \in Int
    OBVIOUS
  <2>4. PICK w \in W : w <= m
    BY <2>2
  <2>5. ~Bad(m - 1)
    <3>1. CASE m = 1
      <4>1. \A j \in W : ~(j <= m - 1)
        BY <2>3, <3>1
      <4> QED BY <4>1
    <3>2. CASE m # 1
      <4>1. m - 1 \in 1..n /\ ~(m <= m - 1)
        BY <2>2, <3>2
      <4>2. m - 1 \notin T
        BY <2>1, <4>1
      <4> QED BY <4>1, <4>2
    <3> QED BY <3>1, <3>2
  <2>8. ASSUME NEW j \in W, j <= m PROVE j <= m - 1 \/ j = m
    <3>1. j \in Int /\ m \in Int
      BY <2>2, <2>3
    <3> QED BY <2>8, <3>1
  <2>6. CASE \E j \in W : j <= m - 1
    <3>1. PICK i \in W : Least(i, m - 1)
      BY <2>5, <2>6
    <3>2. CASE m \notin W
      <4>1. \A j \in W : j <= m => j <= m - 1
        BY <2>8, <3>2
      <4>2. i <= m
        BY <2>2, <2>3, <3>1
      <4>3. Least(i, m)
        BY <3>1, <4>1, <4>2
      <4> QED BY <2>2, <4>3
    <3>3. CASE m \in W
      <4>1. \A j \in W : j <= m => j <= m - 1 \/ j = m
        BY <2>8
      <4>2. i <= m /\ i < m
        BY <2>2, <2>3, <3>1
      <4>3. CASE f[m] < f[i]
        <5>1. ASSUME NEW j \in W, j <= m PROVE f[m] < f[j] \/ (f[m] = f[j] /\ m <= j)
          BY <2>2, <2>3, <3>1, <3>3, <4>1, <4>3, <5>1
        <5>2. Least(m, m)
          BY <2>2, <3>3, <5>1
        <5> QED BY <2>2, <3>3, <5>2
      <4>4. CASE ~(f[m] < f[i])
        <5>1. ASSUME NEW j \in W, j <= m PROVE f[i] < f[j] \/ (f[i] = f[j] /\ i <= j)
          BY <2>2, <2>3, <3>1, <3>3, <4>1, <4>2, <4>4, <5>1
        <5>2. Least(i, m)
          BY <3>1, <4>2, <5>1
        <5> QED BY <2>2, <5>2
      <4> QED BY <4>3, <4>4
    <3> QED BY <3>2, <3>3
  <2>7. CASE ~\E j \in W : j <= m - 1
    <3>1. \A j \in W : j <= m => j = m
      BY <2>2, <2>3, <2>7
    <3>2. w = m
      BY <2>4, <3>1
    <3>3. Least(w, m)
      BY <2>2, <2>3, <2>4, <3>1, <3>2
    <3> QED BY <2>2, <3>3
  <2> QED BY <2>6, <2>7
<1> QED BY <1>1, <1>2

LEMMA LowestPocWaits ==
  ASSUME NEW d \in DpbType, NEW W \in SUBSET (1..Len(d.picList)), W # {}
  PROVE  \E i \in W : LowestPoc(d, W) = d.picList[i]
<1> DEFINE f == [i \in W |-> d.pic[d.picList[i]].poc]
<1>1. d.picList \in Seq(Pictures) /\ Len(d.picList) \in Nat /\ d.pic \in [Pictures -> PictureType]
  BY DpbTypeFields
<1>2. \A i \in W : d.pic[d.picList[i]] \in PictureType
  BY <1>1, ElementOfSeq
<1>3. f \in [W -> Int]
  BY <1>2 DEF PictureType
<1>4. \A i \in W : f[i] = d.pic[d.picList[i]].poc
  OBVIOUS
<1> HIDE DEF f
<1>5. \E i \in W : \A j \in W : f[i] < f[j] \/ (f[i] = f[j] /\ i <= j)
  BY <1>1, <1>3, FirstInOrder
<1>6. \E i \in W : \A j \in W :
        \/ d.pic[d.picList[i]].poc < d.pic[d.picList[j]].poc
        \/ d.pic[d.picList[i]].poc = d.pic[d.picList[j]].poc /\ i <= j
  BY <1>4, <1>5
<1> QED BY <1>6 DEF LowestPoc

(* What getNextOutputPic takes is finished and waits for output.           *)
LEMMA OutputShape ==
  ASSUME DpbAssumption, NEW d \in DpbType, Numbered(d.picList), NEW bFlush \in BOOLEAN,
         NEW o, o = GetNextOutputPic(d, bFlush)
  PROVE  /\ o.dpb \in DpbType /\ o.dpb.picList = d.picList
         /\ \/ o.pic = 0 /\ o.dpb.pic = d.pic
            \/ /\ o.pic \in Pictures /\ o.pic \in 1..Len(d.picList)
               /\ d.pic[o.pic].neededForOutput /\ d.pic[o.pic].progress = finished
               /\ o.dpb.pic = [d.pic EXCEPT ![o.pic] =
                                 [@ EXCEPT !.lockedByApplication = TRUE, !.neededForOutput = FALSE]]
         /\ bFlush /\ o.pic = 0 => Waiting(d) = {}
<1> DEFINE W == Waiting(d)
           s == LowestPoc(d, W)
<1>1. d.picList \in Seq(Pictures) /\ Len(d.picList) \in Nat /\ d.pic \in [Pictures -> PictureType]
      /\ d.tuneInDelay \in Nat
  BY DpbTypeFields
<1>2. \/ W = {} /\ o = [pic |-> 0, dpb |-> d]
      \/ ~bFlush /\ o = [pic |-> 0, dpb |-> [d EXCEPT !.tuneInDelay = @ + 1]]
      \/ ~bFlush /\ o = [pic |-> 0, dpb |-> d]
      \/ W # {} /\ o = [pic |-> s, dpb |-> [d EXCEPT !.firstOutputPic = FALSE,
                                              !.pic[s].lockedByApplication = TRUE,
                                              !.pic[s].neededForOutput = FALSE]]
  <2> HIDE DEF W, s
  <2>1. o = IF W = {} THEN [pic |-> 0, dpb |-> d]
      ELSE IF TuningIn(d) /\ ~bFlush
           THEN [pic |-> 0, dpb |-> [d EXCEPT !.tuneInDelay = @ + 1]]
      ELSE IF ~Bump(d, W) /\ ~(bFlush \/ (RangeEnd(d) # 0 /\ d.pic[d.picList[RangeEnd(d)]].type = "IDR"))
           THEN [pic |-> 0, dpb |-> d]
      ELSE [pic |-> s, dpb |-> [d EXCEPT !.firstOutputPic = FALSE,
                                         !.pic[s].lockedByApplication = TRUE,
                                         !.pic[s].neededForOutput = FALSE]]
    BY DEF GetNextOutputPic, W, s
  <2> QED BY <2>1
<1>3. \A i \in W : i \in 1..Len(d.picList) /\ d.pic[d.picList[i]].neededForOutput
                   /\ d.pic[d.picList[i]].progress >= finished
  BY DEF Waiting
<1>4. CASE W = {} /\ o = [pic |-> 0, dpb |-> d]
  <2>1. o.pic = 0 /\ o.dpb = d /\ Waiting(d) = {}
    BY <1>4
  <2>2. o.dpb \in DpbType /\ o.dpb.picList = d.picList /\ o.dpb.pic = d.pic
    BY <2>1
  <2> QED BY <2>1, <2>2, Zenon
<1>5. CASE ~bFlush /\ o = [pic |-> 0, dpb |-> [d EXCEPT !.tuneInDelay = @ + 1]]
  <2>1. [d EXCEPT !.tuneInDelay = @ + 1] \in DpbType
        /\ [d EXCEPT !.tuneInDelay = @ + 1].picList = d.picList
        /\ [d EXCEPT !.tuneInDelay = @ + 1].pic = d.pic
    BY <1>1 DEF DpbType
  <2>2. o.pic = 0 /\ o.dpb = [d EXCEPT !.tuneInDelay = @ + 1] /\ ~bFlush
    BY <1>5
  <2>3. o.dpb \in DpbType /\ o.dpb.picList = d.picList /\ o.dpb.pic = d.pic
    BY <2>1, <2>2
  <2> QED BY <2>2, <2>3, Zenon
<1>6. CASE ~bFlush /\ o = [pic |-> 0, dpb |-> d]
  BY <1>6
<1>7. CASE W # {} /\ o = [pic |-> s, dpb |-> [d EXCEPT !.firstOutputPic = FALSE,
                                              !.pic[s].lockedByApplication = TRUE,
                                              !.pic[s].neededForOutput = FALSE]]
  <2>1. PICK i \in W : s = d.picList[i]
    <3>1. W \in SUBSET (1..Len(d.picList))
      BY <1>3
    <3> HIDE DEF W
    <3> QED BY <1>7, <3>1, LowestPocWaits
  <2>2. s \in Pictures /\ i \in 1..Len(d.picList)
    BY <1>1, <1>3, <2>1, ElementOfSeq
  <2>3. s \in 1..Len(d.picList)
    <3>1. s \in Nat
      BY <2>2 DEF Pictures, DpbAssumption
    <3> HIDE DEF s
    <3> QED BY <2>1, <2>2, <3>1 DEF Numbered
  <2> HIDE DEF s, W
  <2>4. d.pic[s] \in PictureType /\ s # 0
    BY <1>1, <2>2 DEF Pictures, DpbAssumption
  <2>5. d.pic[s].neededForOutput /\ d.pic[s].progress = finished
    <3>1. d.pic[s].neededForOutput /\ d.pic[s].progress >= finished
      BY <1>3, <2>1
    <3>2. d.pic[s].progress \in init..finished
      BY <2>4 DEF PictureType, Progress
    <3> QED BY <3>1, <3>2
  <2> DEFINE e == [d EXCEPT !.firstOutputPic = FALSE, !.pic[s].lockedByApplication = TRUE,
                            !.pic[s].neededForOutput = FALSE]
             q == [d.pic[s] EXCEPT !.lockedByApplication = TRUE, !.neededForOutput = FALSE]
  <2>6. q \in PictureType
    BY <2>4 DEF PictureType
  <2>7. e.picList = d.picList /\ e.pic = [d.pic EXCEPT ![s] = q]
    BY <1>1, <2>2, <2>4 DEF DpbType
  <2>8. [d.pic EXCEPT ![s] = q] \in [Pictures -> PictureType]
    <3> HIDE DEF q
    <3> QED BY <1>1, <2>6
  <2>9. e \in DpbType
    <3> DEFINE x == [d EXCEPT !.firstOutputPic = FALSE]
    <3>1. x \in DpbType /\ x.pic = d.pic
      BY DEF DpbType
    <3>2. e = [x EXCEPT !.pic[s].lockedByApplication = TRUE, !.pic[s].neededForOutput = FALSE]
      BY Zenon
    <3> HIDE DEF x, e
    <3>3. e = [x EXCEPT !.pic = [x.pic EXCEPT ![s] =
                [@ EXCEPT !.lockedByApplication = TRUE, !.neededForOutput = FALSE]]]
      BY <2>2, <3>1, <3>2 DEF DpbType, PictureType
    <3>4. e = [x EXCEPT !.pic = [d.pic EXCEPT ![s] = q]]
      BY <3>1, <3>3
    <3> HIDE DEF q
    <3> QED BY <2>8, <3>1, <3>4, WithPics
  <2>10. o.dpb = e /\ o.pic = s
    BY <1>7
  <2> HIDE DEF e
  <2> QED BY <2>2, <2>3, <2>4, <2>5, <2>7, <2>9, <2>10
<1> HIDE DEF W, s
<1> QED BY <1>2, <1>4, <1>5, <1>6, <1>7

-----------------------------------------------------------------------------
(* finishPicture, by what the picture is.                                  *)
GivesUp(d, p, q, s) ==
  p = q \/ (q = [p EXCEPT !.stillReferenced = FALSE] /\ GivenUp(d, s))

LEMMA FinishFailed ==
  ASSUME NEW d \in DpbType, NEW s \in Pictures, d.pic[s].reconDone = "failed"
  PROVE  /\ FinishPicture(d, s).throws
         /\ FinishPicture(d, s).dpb \in DpbType /\ FinishPicture(d, s).dpb.picList = d.picList
         /\ FinishPicture(d, s).dpb.pic = [d.pic EXCEPT ![s] = [@ EXCEPT !.progress = reconstructed]]
<1> DEFINE p == d.pic[s]
           q == [p EXCEPT !.progress = reconstructed]
           f == FinishPicture(d, s)
<1>1. p \in PictureType /\ d.pic \in [Pictures -> PictureType]
  BY DpbTypeFields
<1>2. f = [dpb |-> [d EXCEPT !.pic[s] = FinishBad(@)], throws |-> FinishThrows(d.pic[s])]
  BY DEF FinishPicture, IsBad
<1>3. FinishBad(p) = q
  <2>1. FinishBad(p) = [p EXCEPT !.progress = reconstructed, !.reconDone = p.reconDone]
    BY DEF FinishBad, FillGrey
  <2> QED BY <1>1, <2>1 DEF PictureType
<1>4. q \in PictureType
  BY <1>1, ProgressValues DEF PictureType
<1>5. f.dpb = [d EXCEPT !.pic = [d.pic EXCEPT ![s] = FinishBad(d.pic[s])]]
  BY <1>2
<1>6. f.throws
  BY <1>2 DEF FinishThrows
<1> HIDE DEF q, f
<1>7. [d.pic EXCEPT ![s] = q] \in [Pictures -> PictureType]
  BY <1>1, <1>4
<1>8. f.dpb = [d EXCEPT !.pic = [d.pic EXCEPT ![s] = q]]
  BY <1>3, <1>5
<1> HIDE DEF p
<1>9. f.dpb \in DpbType /\ f.dpb.picList = d.picList /\ f.dpb.pic = [d.pic EXCEPT ![s] = q]
  <2> DEFINE pics == [d.pic EXCEPT ![s] = q]
  <2> HIDE DEF pics
  <2>1. pics \in [Pictures -> PictureType] /\ f.dpb = [d EXCEPT !.pic = pics]
    BY <1>7, <1>8 DEF pics
  <2>2. f.dpb \in DpbType /\ f.dpb.picList = d.picList /\ f.dpb.pic = pics
    BY <2>1, WithPics
  <2> QED BY <2>2 DEF pics
<1> QED BY <1>6, <1>9 DEF f, q, p

LEMMA FinishOther ==
  ASSUME NEW d \in DpbType, NEW s \in Pictures, d.pic[s].reconDone # "failed", IsBad(d.pic[s])
  PROVE  /\ FinishPicture(d, s).throws <=> d.pic[s].parseDone = "failed" /\ ~d.pic[s].exceptionThrownOut
         /\ FinishPicture(d, s).dpb \in DpbType /\ FinishPicture(d, s).dpb.picList = d.picList
         /\ FinishPicture(d, s).dpb.pic =
              [d.pic EXCEPT ![s] = [@ EXCEPT !.progress = finished, !.reconDone = "unlocked",
                 !.error = d.pic[s].error \/ d.pic[s].parseDone = "failed",
                 !.exceptionThrownOut = d.pic[s].exceptionThrownOut \/ d.pic[s].parseDone = "failed"]]
<1> DEFINE p == d.pic[s]
           q == [p EXCEPT !.progress = finished, !.reconDone = "unlocked",
                 !.error = p.error \/ p.parseDone = "failed",
                 !.exceptionThrownOut = p.exceptionThrownOut \/ p.parseDone = "failed"]
           f == FinishPicture(d, s)
<1>1. p \in PictureType /\ d.pic \in [Pictures -> PictureType]
  BY DpbTypeFields
<1>2. f = [dpb |-> [d EXCEPT !.pic[s] = FinishBad(@)], throws |-> FinishThrows(d.pic[s])]
  BY DEF FinishPicture
<1>3. FinishBad(p) = q
  <2>1. FillGrey(p) = [p EXCEPT !.progress = reconstructed, !.reconDone = "unlocked"]
    BY DEF FillGrey
  <2>2. FinishBad(p) = [FillGrey(p) EXCEPT !.progress = finished,
                 !.error = @ \/ p.parseDone = "failed",
                 !.exceptionThrownOut = @ \/ p.parseDone = "failed"]
    BY DEF FinishBad
  <2> QED BY <1>1, <2>1, <2>2 DEF PictureType
<1>4. q \in PictureType
  <2> DEFINE e == p.error \/ p.parseDone = "failed"
             x == p.exceptionThrownOut \/ p.parseDone = "failed"
  <2>1. e \in BOOLEAN /\ x \in BOOLEAN
    OBVIOUS
  <2>2. q = [p EXCEPT !.progress = finished, !.reconDone = "unlocked", !.error = e,
                      !.exceptionThrownOut = x]
    OBVIOUS
  <2> HIDE DEF e, x, q, p
  <2>3. ASSUME NEW y \in BOOLEAN, NEW z \in BOOLEAN
        PROVE  [p EXCEPT !.progress = finished, !.reconDone = "unlocked", !.error = y,
                         !.exceptionThrownOut = z] \in PictureType
    BY <1>1, ProgressValues DEF PictureType, Barrier
  <2> QED BY <2>1, <2>2, <2>3
<1>5. f.dpb = [d EXCEPT !.pic = [d.pic EXCEPT ![s] = FinishBad(d.pic[s])]]
  BY <1>2
<1>6. f.throws <=> p.parseDone = "failed" /\ ~p.exceptionThrownOut
  <2>1. f.throws = FinishThrows(p)
    BY <1>2
  <2> QED BY <2>1 DEF FinishThrows
<1> HIDE DEF q, f
<1>7. [d.pic EXCEPT ![s] = q] \in [Pictures -> PictureType]
  BY <1>1, <1>4
<1>8. f.dpb = [d EXCEPT !.pic = [d.pic EXCEPT ![s] = q]]
  BY <1>3, <1>5
<1>9. f.dpb \in DpbType /\ f.dpb.picList = d.picList /\ f.dpb.pic = [d.pic EXCEPT ![s] = q]
  <2> DEFINE pics == [d.pic EXCEPT ![s] = q]
  <2> HIDE DEF pics
  <2>1. pics \in [Pictures -> PictureType] /\ f.dpb = [d EXCEPT !.pic = pics]
    BY <1>7, <1>8 DEF pics
  <2>2. f.dpb \in DpbType /\ f.dpb.picList = d.picList /\ f.dpb.pic = pics
    BY <2>1, WithPics
  <2> QED BY <2>2 DEF pics
<1> QED BY <1>6, <1>9 DEF f, q, p

LEMMA FinishGood ==
  ASSUME DpbAssumption, NEW d \in DpbType, Numbered(d.picList), NEW s \in Pictures, ~IsBad(d.pic[s])
  PROVE  /\ ~FinishPicture(d, s).throws
         /\ FinishPicture(d, s).dpb \in DpbType /\ FinishPicture(d, s).dpb.picList = d.picList
         /\ \A t \in Pictures : t # s => GivesUp(d, d.pic[t], FinishPicture(d, s).dpb.pic[t], t)
         /\ \E p \in PictureType : /\ GivesUp(d, d.pic[s], p, s)
                                   /\ FinishPicture(d, s).dpb.pic[s] = [p EXCEPT !.progress = finished]
<1> DEFINE f == FinishPicture(d, s)
           m == MarkUnusedPicturesReusable(d)
           q == [m.pic[s] EXCEPT !.progress = finished]
<1>1. d.pic \in [Pictures -> PictureType]
  BY DpbTypeFields
<1>2. f = [dpb |-> [m EXCEPT !.pic[s].progress = finished], throws |-> FALSE]
  BY DEF FinishPicture
<1> HIDE DEF m
<1>3. m \in DpbType /\ m.picList = d.picList
  BY MarkUnusedShape DEF m
<1>4. ASSUME NEW t \in Pictures PROVE GivesUp(d, d.pic[t], m.pic[t], t)
  BY MarkUnusedShape DEF m, GivesUp
<1>5. m.pic \in [Pictures -> PictureType] /\ m.pic[s] \in PictureType
  BY <1>3, DpbTypeFields
<1>6. q \in PictureType
  BY <1>5, ProgressValues DEF PictureType
<1>7. f.dpb = [m EXCEPT !.pic = [m.pic EXCEPT ![s] = [m.pic[s] EXCEPT !.progress = finished]]] /\ ~f.throws
  BY <1>2
<1> HIDE DEF f, q
<1>8. [m.pic EXCEPT ![s] = q] \in [Pictures -> PictureType]
  BY <1>5, <1>6
<1>9. f.dpb = [m EXCEPT !.pic = [m.pic EXCEPT ![s] = q]]
  BY <1>7 DEF q
<1>10. f.dpb \in DpbType /\ f.dpb.picList = d.picList /\ f.dpb.pic = [m.pic EXCEPT ![s] = q]
  <2> DEFINE pics == [m.pic EXCEPT ![s] = q]
  <2> HIDE DEF pics
  <2>1. pics \in [Pictures -> PictureType] /\ f.dpb = [m EXCEPT !.pic = pics]
    BY <1>8, <1>9 DEF pics
  <2>2. f.dpb \in DpbType /\ f.dpb.picList = m.picList /\ f.dpb.pic = pics
    BY <1>3, <2>1, WithPics
  <2> QED BY <1>3, <2>2 DEF pics
<1>11. \A t \in Pictures : f.dpb.pic[t] = IF t = s THEN q ELSE m.pic[t]
  BY <1>5, <1>10
<1>12. \A t \in Pictures : t # s => GivesUp(d, d.pic[t], f.dpb.pic[t], t)
  BY <1>4, <1>11
<1>13. f.dpb.pic[s] = [m.pic[s] EXCEPT !.progress = finished]
  BY <1>11 DEF q
<1> QED BY <1>4, <1>5, <1>7, <1>10, <1>12, <1>13 DEF f

-----------------------------------------------------------------------------
(* What a step does to the pictures.  SameLife: nothing that says how far  *)
(* a picture is.  Goes: what no step undoes while a buffer holds a picture.*)
SameLife(p, q) ==
  /\ q.au = p.au /\ q.refs = p.refs /\ q.progress = p.progress /\ q.wasLost = p.wasLost
  /\ q.error = p.error /\ q.exceptionThrownOut = p.exceptionThrownOut
  /\ q.parseDone = p.parseDone /\ q.reconDone = p.reconDone
  /\ q.parseTask = p.parseTask /\ q.reconTask = p.reconTask
  /\ q.neededForOutput => p.neededForOutput

Goes(p, q) ==
  /\ q.au = p.au /\ q.refs = p.refs /\ q.wasLost = p.wasLost /\ q.dpbReferenceMark = p.dpbReferenceMark
  /\ p.progress <= q.progress
  /\ q.neededForOutput = p.neededForOutput \/ (p.progress = finished /\ ~q.neededForOutput)

KeptReferenced(s) ==
  \/ dpb'.pic[s].stillReferenced = Pic(s).stillReferenced
  \/ /\ Pic(s).progress = finished \/ Pic(s).wasLost
     /\ ~Pic(s).dpbReferenceMark
     /\ \A t \in Pictures : dpb'.pic[t].progress < reconstructed => s \notin Pic(t).refs

PicturesGoOn ==
  /\ dpb' \in DpbType /\ dpb'.picList = dpb.picList
  /\ \A s \in Pictures : Goes(Pic(s), dpb'.pic[s])
  /\ \A s \in Pictures : KeptReferenced(s)

PicturesStay ==
  /\ PicturesGoOn
  /\ \A s \in Pictures : SameLife(Pic(s), dpb'.pic[s])
  /\ \A s \in Pictures : ~Listed(s) => dpb'.pic[s] = Pic(s)

SamePlace(s) ==
  /\ Listed(s)' <=> Listed(s)
  /\ Queued(s)' <=> Queued(s)
  /\ InHand(s)' <=> InHand(s)
  /\ InObject(s)' <=> InObject(s)
  /\ TakenOut(s)' <=> TakenOut(s)
  /\ Unstarted(s)' <=> Unstarted(s)
  /\ InHand(s) => main'.pc = main.pc /\ main'.exc = main.exc

LEMMA PicType == ASSUME TypeInv, NEW s \in Pictures PROVE Pic(s) \in PictureType
BY DpbTypeFields DEF TypeInv, Pic

LEMMA PicTypePrimed == ASSUME dpb' \in DpbType, NEW s \in Pictures PROVE dpb'.pic[s] \in PictureType
BY DpbTypeFields

LEMMA LifeKept ==
  ASSUME NEW s \in Pictures, PictureInv(s), LeftInv(s), SameLife(Pic(s), dpb'.pic[s]), SamePlace(s),
         Pic(s).au > 0 => thrown'[Pic(s).au] = thrown[Pic(s).au]
  PROVE  PictureInv(s)' /\ LeftInv(s)'
<1> DEFINE p == Pic(s)
           q == dpb'.pic[s]
<1>1. Pic(s)' = q
  BY DEF Pic
<1>2. SameLife(p, q)
  OBVIOUS
<1>3. Owned(s)' <=> Owned(s)
  BY DEF SamePlace, Owned
<1>4. p.au > 0 => thrown'[q.au] = thrown[p.au]
  BY <1>2 DEF SameLife
<1> HIDE DEF p, q
<1>5. TasksAgree(p) => TasksAgree(q)
  BY <1>2 DEF SameLife, TasksAgree
<1>6. OwnedAgrees(p, thrown[p.au]) => OwnedAgrees(q, thrown'[q.au])
  BY <1>2, <1>4 DEF SameLife, OwnedAgrees
<1>7. WaitsAgrees(p) => WaitsAgrees(q)
  BY <1>2 DEF SameLife, WaitsAgrees
<1>8. ObjectAgrees(p) => ObjectAgrees(q)
  BY <1>2 DEF SameLife, ObjectAgrees
<1>9. TakenOutAgrees(p) => TakenOutAgrees(q)
  BY <1>2 DEF SameLife, TakenOutAgrees
<1>10. LeftAgrees(p, thrown[p.au]) => LeftAgrees(q, thrown'[q.au])
  BY <1>2, <1>4 DEF SameLife, LeftAgrees, Finished, LostOne, NoHeader, NotFinished
<1>11. PictureInv(s)'
  <2>1. /\ TasksAgree(q)
        /\ Owned(s)' => OwnedAgrees(q, thrown'[q.au])
        /\ Queued(s)' \/ InHand(s)' => WaitsAgrees(q)
        /\ InObject(s)' => ObjectAgrees(q)
        /\ TakenOut(s)' => TakenOutAgrees(q)
    BY <1>3, <1>5, <1>6, <1>7, <1>8, <1>9 DEF PictureInv, SamePlace, p
  <2>2. InHand(s)' /\ main'.pc = "sanitize" => q.error /\ (main'.exc => q.parseDone = "failed")
    BY <1>2 DEF PictureInv, SamePlace, SameLife, p
  <2>3. InObject(s)' => (q.reconTask = "none" /\ q.reconDone = "locked" <=> Unstarted(s)')
    BY <1>2 DEF PictureInv, SamePlace, SameLife, p
  <2>4. Unstarted(s)' => q.progress = reconstructing
    BY <1>2 DEF PictureInv, SamePlace, SameLife, p
  <2> QED BY <1>1, <2>1, <2>2, <2>3, <2>4 DEF PictureInv
<1>12. LeftInv(s)'
  BY <1>1, <1>3, <1>10 DEF LeftInv, SamePlace, p
<1> QED BY <1>11, <1>12

(* The same steps keep these parts of the invariant.                       *)
LEMMA UseKept ==
  ASSUME TypeInv, AuInv, UseInv, PicturesGoOn
  PROVE  UseInv'
<1> SUFFICES ASSUME NEW s \in Pictures, dpb'.pic[s].au > 0, dpb'.pic[s].progress < finished
             PROVE  dpb'.pic[s].stillReferenced \/ dpb'.pic[s].neededForOutput
  BY DEF UseInv, Pic
<1> DEFINE p == Pic(s)
           q == dpb'.pic[s]
<1>1. Goes(p, q) /\ KeptReferenced(s) /\ p \in PictureType /\ q \in PictureType
  BY PicType, PicTypePrimed DEF PicturesGoOn
<1>2. p.au > 0 /\ p.progress < finished /\ p.progress # finished /\ ~p.wasLost
  <2>1. p.au = q.au /\ p.progress <= q.progress
    BY <1>1 DEF Goes
  <2>2. p.progress \in Int /\ q.progress \in Int /\ p.au \in Int
    BY <1>1 DEF PictureType, Progress
  <2>3. p.wasLost => p.au < 0
    BY DEF AuInv
  <2> QED BY <2>1, <2>2, <2>3
<1>3. p.stillReferenced \/ p.neededForOutput
  BY <1>2 DEF UseInv
<1>4. q.stillReferenced = p.stillReferenced
  BY <1>1, <1>2 DEF KeptReferenced
<1>5. q.neededForOutput = p.neededForOutput
  BY <1>1, <1>2 DEF Goes
<1> QED BY <1>3, <1>4, <1>5

LEMMA AuKept ==
  ASSUME TypeInv, AuInv, PicturesGoOn, nextNal' \in Nat, nextNal <= nextNal',
         \A a \in 1..Len(stream') : thrown'[a] \in {0, 1} /\ (a >= nextNal' => thrown'[a] = 0)
  PROVE  AuInv'
<1>1. \A s \in Pictures : dpb'.pic[s].au = Pic(s).au /\ dpb'.pic[s].wasLost = Pic(s).wasLost
  BY DEF PicturesGoOn, Goes
<1>2. \A s \in Pictures : dpb'.pic[s].au < nextNal'
  <2> SUFFICES ASSUME NEW s \in Pictures PROVE dpb'.pic[s].au < nextNal'
    OBVIOUS
  <2>1. Pic(s).au \in Int /\ nextNal \in Int
    BY PicType DEF PictureType, TypeInv
  <2>2. Pic(s).au < nextNal
    BY DEF AuInv
  <2> QED BY <1>1, <2>1, <2>2
<1> QED BY <1>1, <1>2 DEF AuInv, Pic

LEMMA RefsKept ==
  ASSUME TypeInv, RefInv, PicturesGoOn,
         \A t \in Pictures : \A r \in Pictures :
           r \in Pic(t).refs /\ dpb'.pic[t].progress < reconstructed /\ Before(r, t) => Before(r, t)'
  PROVE  RefInv'
<1> SUFFICES ASSUME NEW t \in Pictures, NEW r \in Pictures,
                    dpb'.pic[t].progress < reconstructed, r \in dpb'.pic[t].refs
             PROVE  Listed(r)' /\ r # t /\ dpb'.pic[r].stillReferenced /\ Before(r, t)'
  BY DEF RefInv, Pic
<1>1. Goes(Pic(t), dpb'.pic[t]) /\ Pic(t) \in PictureType /\ dpb'.pic[t] \in PictureType
  BY PicType, PicTypePrimed DEF PicturesGoOn
<1>2. Pic(t).progress < reconstructed /\ r \in Pic(t).refs
  <2>1. Pic(t).progress \in Int /\ dpb'.pic[t].progress \in Int
    BY <1>1 DEF PictureType, Progress
  <2>2. Pic(t).progress <= dpb'.pic[t].progress /\ dpb'.pic[t].refs = Pic(t).refs
    BY <1>1 DEF Goes
  <2> QED BY <2>1, <2>2
<1>3. Listed(r) /\ r # t /\ Pic(r).stillReferenced /\ Before(r, t)
  BY <1>2 DEF RefInv
<1>4. Listed(r)'
  BY <1>3 DEF Listed, PicturesGoOn
<1>5. dpb'.pic[r].stillReferenced
  BY <1>2, <1>3 DEF PicturesGoOn, KeptReferenced
<1> QED BY <1>2, <1>3, <1>4, <1>5

LEMMA MarksKept ==
  ASSUME TypeInv, DpbInv, PicturesGoOn, dpbReferencePics' = dpbReferencePics
  PROVE  /\ \A s \in dpbReferencePics' : Listed(s)'
         /\ \A s \in Pictures :
              dpb'.pic[s].dpbReferenceMark => s \in dpbReferencePics' /\ dpb'.pic[s].stillReferenced
<1>1. \A s \in dpbReferencePics' : Listed(s)'
  BY DEF DpbInv, Listed, PicturesGoOn
<1>2. ASSUME NEW s \in Pictures, dpb'.pic[s].dpbReferenceMark
      PROVE  s \in dpbReferencePics' /\ dpb'.pic[s].stillReferenced
  <2>1. Goes(Pic(s), dpb'.pic[s]) /\ KeptReferenced(s)
    BY DEF PicturesGoOn
  <2>2. Pic(s).dpbReferenceMark
    BY <1>2, <2>1 DEF Goes
  <2> QED BY <2>1, <2>2 DEF DpbInv, KeptReferenced
<1> QED BY <1>1, <1>2

-----------------------------------------------------------------------------
(* Steps that change nothing that says how far a picture is.               *)
Same(p, q) ==
  /\ SameLife(p, q)
  /\ q.dpbReferenceMark = p.dpbReferenceMark /\ q.stillReferenced = p.stillReferenced
  /\ q.neededForOutput = p.neededForOutput \/ (p.progress = finished /\ ~q.neededForOutput)

LEMMA SamePictures ==
  ASSUME TypeInv, dpb' \in DpbType, dpb'.picList = dpb.picList,
         \A s \in Pictures : Same(Pic(s), dpb'.pic[s]) /\ (~Listed(s) => dpb'.pic[s] = Pic(s))
  PROVE  PicturesStay
<1>1. ASSUME NEW s \in Pictures PROVE Goes(Pic(s), dpb'.pic[s]) /\ KeptReferenced(s)
  <2>1. Same(Pic(s), dpb'.pic[s]) /\ Pic(s).progress \in Int
    BY PicType DEF PictureType, Progress
  <2>2. Goes(Pic(s), dpb'.pic[s])
    BY <2>1 DEF Goes, Same, SameLife
  <2> QED BY <2>1, <2>2 DEF KeptReferenced, Same
<1> QED BY <1>1 DEF PicturesStay, PicturesGoOn, Same

LEMMA SameIsSame == ASSUME NEW p PROVE Same(p, p)
BY DEF Same, SameLife

LEMMA StayUnchanged ==
  ASSUME TypeInv, dpb' = dpb \/ dpb' = Restart(dpb)
  PROVE  PicturesStay
<1>1. dpb' \in DpbType /\ dpb'.picList = dpb.picList /\ dpb'.pic = dpb.pic
  <2>1. CASE dpb' = dpb
    BY <2>1 DEF TypeInv
  <2>2. CASE dpb' = Restart(dpb)
    BY <2>2 DEF TypeInv, Restart, DpbType
  <2> QED BY <2>1, <2>2
<1>2. \A s \in Pictures : dpb'.pic[s] = Pic(s)
  BY <1>1 DEF Pic
<1> QED BY <1>1, <1>2, SamePictures, SameIsSame

LEMMA OutputSame ==
  ASSUME NEW p \in PictureType, p.progress = finished,
         NEW q, q = [p EXCEPT !.lockedByApplication = TRUE, !.neededForOutput = FALSE]
  PROVE  Same(p, q)
BY DEF PictureType, Same, SameLife

LEMMA StayOutput ==
  ASSUME DpbAssumption, TypeInv, Numbered(dpb.picList), NEW bFlush \in BOOLEAN,
         dpb' = GetNextOutputPic(dpb, bFlush).dpb
  PROVE  PicturesStay
<1> DEFINE o == GetNextOutputPic(dpb, bFlush)
<1>1. dpb \in DpbType /\ dpb.pic \in [Pictures -> PictureType]
  BY DpbTypeFields DEF TypeInv
<1>2. /\ o.dpb \in DpbType /\ o.dpb.picList = dpb.picList
      /\ \/ o.pic = 0 /\ o.dpb.pic = dpb.pic
         \/ /\ o.pic \in Pictures /\ o.pic \in 1..Len(dpb.picList)
            /\ dpb.pic[o.pic].neededForOutput /\ dpb.pic[o.pic].progress = finished
            /\ o.dpb.pic = [dpb.pic EXCEPT ![o.pic] =
                              [@ EXCEPT !.lockedByApplication = TRUE, !.neededForOutput = FALSE]]
  BY <1>1, OutputShape
<1> HIDE DEF o
<1>3. dpb' = o.dpb
  BY DEF o
<1>4. ASSUME NEW s \in Pictures
      PROVE  Same(Pic(s), dpb'.pic[s]) /\ (~Listed(s) => dpb'.pic[s] = Pic(s))
  <2>1. CASE dpb'.pic[s] = dpb.pic[s]
    BY <2>1, SameIsSame DEF Pic
  <2>2. CASE dpb'.pic[s] # dpb.pic[s]
    <3>1. s = o.pic /\ s \in 1..Len(dpb.picList) /\ dpb.pic[s].progress = finished
      BY <1>1, <1>2, <1>3, <2>2
    <3>2. dpb'.pic[s] = [dpb.pic[s] EXCEPT !.lockedByApplication = TRUE, !.neededForOutput = FALSE]
      BY <1>1, <1>2, <1>3, <2>2
    <3>3. Same(dpb.pic[s], dpb'.pic[s])
      BY <1>1, <3>1, <3>2, OutputSame
    <3> QED BY <3>1, <3>3 DEF Pic, Listed
  <2> QED BY <2>1, <2>2
<1> QED BY <1>2, <1>3, <1>4, SamePictures

LEMMA UnlockSame ==
  ASSUME NEW p \in PictureType
  PROVE  LET q == [p EXCEPT !.lockedByApplication = FALSE] IN q \in PictureType /\ Same(p, q)
BY DEF PictureType, Same, SameLife

LEMMA StayRelease ==
  ASSUME DpbAssumption, TypeInv, Numbered(dpb.picList), NEW s \in Range(dpb.picList),
         dpb' = ReleasePicture(dpb, s)
  PROVE  PicturesStay
<1> DEFINE q == [dpb.pic[s] EXCEPT !.lockedByApplication = FALSE]
           pics == [dpb.pic EXCEPT ![s] = q]
<1>1. dpb \in DpbType /\ dpb.pic \in [Pictures -> PictureType] /\ dpb.picList \in Seq(Pictures)
  BY DpbTypeFields DEF TypeInv
<1>2. s \in Pictures /\ Listed(s)
  <2>1. PICK i \in 1..Len(dpb.picList) : dpb.picList[i] = s
    BY <1>1, RangeEquality
  <2>2. s \in Pictures
    BY <1>1, <2>1, ElementOfSeq
  <2>3. s \in Nat
    BY <2>2 DEF Pictures, DpbAssumption
  <2> QED BY <2>1, <2>2, <2>3 DEF Numbered, Listed
<1>3. q \in PictureType /\ Same(dpb.pic[s], q)
  BY <1>1, <1>2, UnlockSame
<1>4. dpb' = [dpb EXCEPT !.pic = [dpb.pic EXCEPT ![s] = [dpb.pic[s] EXCEPT !.lockedByApplication = FALSE]]]
  BY DEF ReleasePicture
<1> HIDE DEF q
<1>5. pics \in [Pictures -> PictureType] /\ dpb' = [dpb EXCEPT !.pic = pics]
  BY <1>1, <1>3, <1>4 DEF q
<1>6. \A t \in Pictures : pics[t] = IF t = s THEN q ELSE dpb.pic[t]
  BY <1>1
<1> HIDE DEF pics
<1>7. dpb' \in DpbType /\ dpb'.picList = dpb.picList /\ dpb'.pic = pics
  BY <1>1, <1>5, WithPics
<1>8. \A t \in Pictures : Same(Pic(t), dpb'.pic[t]) /\ (~Listed(t) => dpb'.pic[t] = Pic(t))
  BY <1>2, <1>3, <1>6, <1>7, SameIsSame DEF Pic
<1> QED BY <1>7, <1>8, SamePictures

LEMMA StayGoOn ==
  ASSUME TypeInv, ListInv,
         dpb' = [dpb EXCEPT !.pic = [s \in Pictures |-> [Pic(s) EXCEPT !.lockedByApplication = FALSE]]]
  PROVE  PicturesStay
<1> DEFINE pics == [s \in Pictures |-> [Pic(s) EXCEPT !.lockedByApplication = FALSE]]
<1>1. dpb \in DpbType /\ dpb.pic \in [Pictures -> PictureType]
  BY DpbTypeFields DEF TypeInv
<1>2. ASSUME NEW s \in Pictures
      PROVE  pics[s] \in PictureType /\ Same(Pic(s), pics[s]) /\ (~Listed(s) => pics[s] = Pic(s))
  <2>1. Pic(s) \in PictureType
    BY PicType
  <2>2. pics[s] = [Pic(s) EXCEPT !.lockedByApplication = FALSE]
    OBVIOUS
  <2>3. ~Listed(s) => Pic(s) = Fresh
    BY DEF ListInv
  <2>4. [Fresh EXCEPT !.lockedByApplication = FALSE] = Fresh
    <3>1. Fresh.lockedByApplication = FALSE
      BY DEF Fresh
    <3> QED BY <3>1, FreshType DEF PictureType
  <2> HIDE DEF pics
  <2> QED BY <2>1, <2>2, <2>3, <2>4, UnlockSame
<1>3. pics \in [Pictures -> PictureType]
  BY <1>2
<1> HIDE DEF pics
<1>4. dpb' = [dpb EXCEPT !.pic = pics]
  BY DEF pics
<1>5. dpb' \in DpbType /\ dpb'.picList = dpb.picList /\ dpb'.pic = pics
  BY ONLY <1>1, <1>3, <1>4, WithPics
<1> QED BY <1>2, <1>5, SamePictures

Hands == {"sanitize", "wait", "start", "finish"}

QuietStep ==
  /\ PicturesStay
  /\ parseFrameList' = parseFrameList /\ decLibRecon' = decLibRecon
  /\ main.pc \notin Hands \/ (main.pc = "finish" /\ main.done = 0)
  /\ main'.pc \notin Hands

ThrownTyped ==
  /\ \A s \in Pictures : Pic(s).au > 0 => thrown'[Pic(s).au] = thrown[Pic(s).au]
  /\ \A a \in 1..Len(stream') : thrown'[a] \in {0, 1} /\ (a >= nextNal' => thrown'[a] = 0)

LEMMA SameLists ==
  ASSUME parseFrameList' = parseFrameList, decLibRecon' = decLibRecon, dpb'.picList = dpb.picList
  PROVE  /\ \A s : Listed(s)' <=> Listed(s)
         /\ \A s : Queued(s)' <=> Queued(s)
         /\ \A s : InObject(s)' <=> InObject(s)
         /\ \A s : \A t : Before(s, t)' <=> Before(s, t)
BY DEF Listed, Queued, InObject, Before

LEMMA QuietKept ==
  ASSUME TypeInv, RunInv, QuietStep, nextNal' \in Nat, nextNal <= nextNal', ThrownTyped
  PROVE  ListInv' /\ PlaceInv' /\ LifeInv' /\ AuInv' /\ UseInv' /\ RefInv'
<1>1. /\ \A s : Listed(s)' <=> Listed(s)
      /\ \A s : Queued(s)' <=> Queued(s)
      /\ \A s : InObject(s)' <=> InObject(s)
      /\ \A s : \A t : Before(s, t)' <=> Before(s, t)
  BY SameLists DEF QuietStep, PicturesStay, PicturesGoOn
<1>2. \A s \in Pictures : /\ ~InHand(s) /\ ~TakenOut(s) /\ ~Unstarted(s)
                          /\ ~InHand(s)' /\ ~TakenOut(s)' /\ ~Unstarted(s)'
  BY DEF QuietStep, Hands, InHand, TakenOut, Unstarted, Pictures
<1>3. PicturesStay /\ PicturesGoOn
  BY DEF QuietStep, PicturesStay
<1>4. ListInv'
  BY <1>1, <1>3 DEF RunInv, ListInv, QuietStep, PicturesStay, PicturesGoOn, Pic
<1>5. PlaceInv'
  <2>1. main'.pc \notin {"sanitize", "wait", "start"}
    BY DEF QuietStep, Hands
  <2> QED BY <1>1, <1>2, <2>1 DEF RunInv, PlaceInv, Owned
<1>6. LifeInv'
  <2> SUFFICES ASSUME NEW s \in Pictures PROVE PictureInv(s)' /\ LeftInv(s)'
    BY DEF LifeInv
  <2>1. SamePlace(s)
    BY <1>1, <1>2 DEF SamePlace
  <2>2. SameLife(Pic(s), dpb'.pic[s])
    BY <1>3 DEF PicturesStay
  <2> QED BY <2>1, <2>2, LifeKept DEF RunInv, LifeInv, ThrownTyped
<1>7. AuInv'
  BY <1>3, AuKept DEF RunInv, ThrownTyped
<1>8. UseInv'
  BY <1>3, UseKept DEF RunInv
<1>9. RefInv'
  BY <1>1, <1>3, RefsKept DEF RunInv
<1> QED BY <1>4, <1>5, <1>6, <1>7, <1>8, <1>9

-----------------------------------------------------------------------------
(* How calls return, and what they leave of the variables' types.          *)
LEMMA StreamType ==
  ASSUME DecLibAssumption, TypeInv
  PROVE  /\ stream \in Seq(AccessUnit \cup {EndOfSequence}) /\ Len(stream) \in Nat
         /\ nextNal \in Nat /\ nextNal >= 1 /\ nextNal <= Len(stream) + 1
<1>1. PICK input \in Inputs : stream = input.units /\ tryContinue = input.tryContinue
  BY DEF TypeInv
<1>2. input \in [units : Seq(AccessUnit \cup {EndOfSequence}), tryContinue : BOOLEAN]
  BY DEF DecLibAssumption
<1>3. stream \in Seq(AccessUnit \cup {EndOfSequence})
  BY <1>1, <1>2
<1>4. Len(stream) \in Nat
  BY <1>3, LenProperties
<1> QED BY <1>3, <1>4 DEF TypeInv

(* What the assumptions say of the access unit that is parsed.             *)
LEMMA UnitFacts ==
  ASSUME DecLibAssumption, TypeInv, nextNal <= Len(stream), Unit.type # "EOS"
  PROVE  /\ Unit \in AccessUnit /\ Unit.refs \subseteq Unit.keep
         /\ Unit.type \in {"IDR", "CRA"} => Unit.refs = {}
         /\ Unit.isRef \/ Unit.output
         /\ AnyPoc < Unit.poc /\ Unit.poc < NoPoc
<1>1. PICK input \in Inputs : stream = input.units /\ tryContinue = input.tryContinue
  BY DEF TypeInv
<1>2. nextNal \in 1..Len(stream) /\ Unit = input.units[nextNal]
  BY <1>1, StreamType DEF Unit
<1>3. nextNal \in DOMAIN input.units
  BY <1>1, <1>2, StreamType, LenProperties
<1>4. Unit \in AccessUnit \cup {EndOfSequence}
  BY <1>1, <1>2, StreamType, ElementOfSeq
<1>5. Unit \in AccessUnit
  BY <1>4 DEF EndOfSequence
<1> QED BY <1>2, <1>3, <1>5 DEF DecLibAssumption

LEMMA IdleType ==
  ASSUME DpbAssumption, NEW call \in {"decode", "flush"}
  PROVE  /\ Idle(call) \in MainType /\ Idle(call).pc = "app" /\ Idle(call).call = call
         /\ \A pc \in {"refs", "choose", "output"} :
              /\ [Idle(call) EXCEPT !.pc = pc] \in MainType
              /\ [Idle(call) EXCEPT !.pc = pc].pc = pc /\ [Idle(call) EXCEPT !.pc = pc].call = call
<1>1. 0 \in 0..MaxPictures
  BY DEF DpbAssumption
<1>2. Idle(call) \in MainType
  BY <1>1 DEF Idle, MainType
<1>3. Idle(call).pc = "app" /\ Idle(call).call = call
  BY DEF Idle
<1>4. ASSUME NEW pc \in {"refs", "choose", "output"}
      PROVE  /\ [Idle(call) EXCEPT !.pc = pc] \in MainType
             /\ [Idle(call) EXCEPT !.pc = pc].pc = pc /\ [Idle(call) EXCEPT !.pc = pc].call = call
  BY <1>2, <1>3 DEF MainType
<1> QED BY <1>2, <1>3, <1>4

LEMMA GoToType ==
  ASSUME main \in MainType, NEW pc \in {"choose", "output", "flushOutput", "drain", "block", "drained", "last", "finish"},
         GoTo(pc)
  PROVE  /\ main' \in MainType /\ main'.pc = pc /\ main'.call = main.call
         /\ main'.done = main.done /\ main'.pic = main.pic /\ main'.obj = main.obj
BY DEF GoTo, MainType

LEMMA ThrowType ==
  ASSUME DpbAssumption, TypeInv, NEW a, NEW call \in {"decode", "flush"}, ThrowTo(a, call)
  PROVE  /\ main' \in MainType /\ main'.pc = "app" /\ main'.call = call
         /\ app' \in AppType /\ app'.state \in {app.state, "stopped"}
         /\ thrown' \in [1..Len(stream) -> Nat] /\ output' = output
         /\ \A b \in 1..Len(stream) : thrown'[b] = IF b = a /\ a > 0 THEN thrown[b] + 1 ELSE thrown[b]
<1>1. main' = Idle(call) /\ output' = output
  BY DEF ThrowTo
<1>2. app' \in AppType /\ app'.state \in {app.state, "stopped"}
  BY DEF ThrowTo, TypeInv, AppType
<1>3. thrown \in [1..Len(stream) -> Nat]
  BY DEF TypeInv
<1>4. thrown' = IF a > 0 THEN [thrown EXCEPT ![a] = @ + 1] ELSE thrown
  BY DEF ThrowTo
<1>5. \A b \in 1..Len(stream) : thrown'[b] = IF b = a /\ a > 0 THEN thrown[b] + 1 ELSE thrown[b]
  BY <1>3, <1>4
<1>6. thrown' \in [1..Len(stream) -> Nat]
  <2>1. CASE a > 0 /\ a \in 1..Len(stream)
    <3>1. thrown[a] + 1 \in Nat /\ thrown' = [thrown EXCEPT ![a] = thrown[a] + 1]
      BY <1>3, <1>4, <2>1
    <3> QED BY <1>3, <3>1
  <2>2. CASE ~(a > 0 /\ a \in 1..Len(stream))
    <3>1. thrown' = thrown
      BY <1>3, <1>4, <2>2
    <3> QED BY <1>3, <3>1
  <2> QED BY <2>1, <2>2
<1> QED BY <1>1, <1>2, <1>5, <1>6, IdleType

LEMMA FailsType ==
  ASSUME DpbAssumption, TypeInv, NEW c, Fails(c)
  PROVE  /\ main' \in MainType /\ main'.pc = "app"
         /\ app' \in AppType /\ app'.state = "stopped"
         /\ thrown' = thrown /\ output' = output /\ check' = c
<1>1. main.call \in {"decode", "flush"}
  BY DEF TypeInv, MainType
<1>2. main' = Idle(main.call) /\ thrown' = thrown /\ output' = output /\ check' = c
  BY DEF Fails
<1>3. app' \in AppType /\ app'.state = "stopped"
  BY DEF Fails, TypeInv, AppType
<1> QED BY <1>1, <1>2, <1>3, IdleType

LEMMA ReturnType ==
  ASSUME DpbAssumption, TypeInv, NEW out \in 0..MaxPictures, Return(out)
  PROVE  /\ main' \in MainType /\ main'.pc = "app" /\ main'.call = main.call
         /\ app' \in AppType /\ app'.state = app.state
         /\ thrown' = thrown /\ output' \in Seq(Int)
<1>1. main.call \in {"decode", "flush"}
  BY DEF TypeInv, MainType
<1>2. main' = Idle(main.call) /\ thrown' = thrown
  BY DEF Return
<1>3. app' \in AppType /\ app'.state = app.state
  <2> DEFINE b == app.tuningIn /\ out = 0
  <2>1. b \in BOOLEAN /\ app' = [app EXCEPT !.tuningIn = b] /\ app \in AppType
    BY DEF Return, TypeInv
  <2> HIDE DEF b
  <2> QED BY <2>1 DEF AppType
<1>4. output' \in Seq(Int)
  <2>1. CASE out = 0
    BY <2>1 DEF Return, TypeInv
  <2>2. CASE out # 0
    <3>1. out \in Pictures
      BY <2>2 DEF Pictures, DpbAssumption
    <3>2. Pic(out).au \in Int
      BY <3>1, PicType DEF PictureType
    <3>3. output' = Append(output, Pic(out).au) /\ output \in Seq(Int)
      BY <2>2 DEF Return, TypeInv
    <3> QED BY <3>2, <3>3, AppendProperties
  <2> QED BY <2>1, <2>2
<1> QED BY <1>1, <1>2, <1>3, <1>4, IdleType

LEMMA ThrownUnchanged ==
  ASSUME DecLibAssumption, TypeInv, AuInv, thrown' = thrown, stream' = stream, nextNal' \in {nextNal, nextNal + 1}
  PROVE  ThrownTyped /\ nextNal' \in Nat /\ nextNal <= nextNal'
<1>1. nextNal \in Nat
  BY StreamType
<1>2. ASSUME NEW a \in 1..Len(stream'), a >= nextNal' PROVE thrown[a] = 0
  <2>1. a >= nextNal
    BY <1>1, <1>2, StreamType
  <2> QED BY <2>1 DEF AuInv
<1> QED BY <1>1, <1>2 DEF ThrownTyped, AuInv

LEMMA ThrownAtParse ==
  ASSUME DecLibAssumption, TypeInv, AuInv, stream' = stream, nextNal' = nextNal + 1,
         \A b \in 1..Len(stream) : thrown'[b] = IF b = nextNal /\ nextNal > 0 THEN thrown[b] + 1 ELSE thrown[b]
  PROVE  ThrownTyped /\ nextNal' \in Nat /\ nextNal <= nextNal'
<1>1. nextNal \in Nat /\ nextNal >= 1 /\ nextNal <= Len(stream) + 1 /\ Len(stream) \in Nat
  BY StreamType
<1>2. ASSUME NEW s \in Pictures, Pic(s).au > 0 PROVE thrown'[Pic(s).au] = thrown[Pic(s).au]
  <2>1. Pic(s).au \in Int /\ Pic(s).au < nextNal
    BY PicType DEF PictureType, AuInv
  <2>2. Pic(s).au \in 1..Len(stream) /\ Pic(s).au # nextNal
    BY <1>1, <1>2, <2>1
  <2> QED BY <2>2
<1>3. ASSUME NEW a \in 1..Len(stream')
      PROVE  thrown'[a] \in {0, 1} /\ (a >= nextNal' => thrown'[a] = 0)
  <2>1. thrown[a] \in {0, 1} /\ (a >= nextNal => thrown[a] = 0) /\ a \in Int
    BY DEF AuInv
  <2> QED BY <1>1, <2>1
<1> QED BY <1>1, <1>2, <1>3 DEF ThrownTyped

LEMMA QuietRun ==
  ASSUME TypeInv, RunInv, QuietStep, nextNal' \in Nat, nextNal <= nextNal', ThrownTyped,
         dpbReferencePics' = dpbReferencePics, CallInv', DrainInv',
         InSequence' => \A s \in dpbReferencePics : Pic(s).dpbReferenceMark \/ Kept(s)'
  PROVE  RunInv'
<1>1. PicturesGoOn
  BY DEF QuietStep, PicturesStay
<1>2. ASSUME NEW s \in dpbReferencePics PROVE dpb'.pic[s].dpbReferenceMark = Pic(s).dpbReferenceMark
  <2>1. s \in Pictures
    BY DEF TypeInv
  <2> QED BY <1>1, <2>1 DEF PicturesGoOn, Goes
<1>3. DpbInv'
  BY <1>1, <1>2, MarksKept DEF DpbInv, RunInv, Pic
<1> QED BY <1>3, QuietKept DEF RunInv

-----------------------------------------------------------------------------
(* The steps of the application and of the parser that take no buffer.     *)

LEMMA FlushKeeps ==
  ASSUME DpbAssumption, DecLibAssumption, IInv, check = "none", Flush
  PROVE  IInv' /\ PicturesGoOn /\ check' = "none"
<1>1. TypeInv /\ RunInv
  BY DEF IInv
<1>2. main' \in MainType /\ main'.pc = "choose" /\ main'.call = "flush"
  BY IdleType DEF Flush
<1>3. app' \in AppType /\ app'.state = "flush"
  <2>1. app \in AppType
    BY <1>1 DEF TypeInv
  <2>2. CASE app' = app /\ app.state = "flush"
    BY <2>1, <2>2
  <2>3. CASE app' = [app EXCEPT !.state = "flush", !.flushes = IF nextNal > Len(stream) THEN @ ELSE @ + 1]
    <3> DEFINE flushes == IF nextNal > Len(stream) THEN app.flushes ELSE app.flushes + 1
    <3>1. app' = [app EXCEPT !.state = "flush", !.flushes = flushes]
      BY <2>3
    <3>2. flushes \in Nat
      BY <2>1 DEF AppType
    <3> HIDE DEF flushes
    <3> QED BY <2>1, <3>1, <3>2 DEF AppType
  <2>4. \/ app' = app /\ app.state = "flush"
        \/ app' = [app EXCEPT !.state = "flush", !.flushes = IF nextNal > Len(stream) THEN @ ELSE @ + 1]
    BY DEF Flush
  <2> QED BY <2>2, <2>3, <2>4
<1>4. /\ stream' = stream /\ tryContinue' = tryContinue /\ nextNal' = nextNal /\ dpb' = dpb
      /\ pocRandomAccess' = pocRandomAccess /\ dpbReferencePics' = dpbReferencePics
      /\ parseFrameList' = parseFrameList /\ decLibRecon' = decLibRecon
      /\ output' = output /\ thrown' = thrown /\ errors' = errors /\ check' = check
      /\ main.pc = "app"
  BY DEF Flush, MayCall, parseVars
<1>5. PicturesStay
  BY <1>1, <1>4, StayUnchanged
<1>6. QuietStep
  BY <1>2, <1>4, <1>5 DEF QuietStep, Hands
<1>7. ThrownTyped /\ nextNal' \in Nat /\ nextNal <= nextNal'
  BY <1>1, <1>4, ThrownUnchanged DEF RunInv
<1>8. CallInv' /\ DrainInv' /\ ~InSequence'
  BY <1>2, <1>3 DEF CallInv, DrainInv, InSequence
<1>9. RunInv'
  BY <1>1, <1>4, <1>6, <1>7, <1>8, QuietRun
<1>10. TypeInv'
  BY <1>1, <1>2, <1>3, <1>4 DEF TypeInv
<1> QED BY <1>4, <1>5, <1>9, <1>10 DEF IInv, PicturesStay

LEMMA GoOnKeeps ==
  ASSUME DpbAssumption, DecLibAssumption, IInv, check = "none", GoOn
  PROVE  IInv' /\ PicturesGoOn /\ check' = "none"
<1>1. TypeInv /\ RunInv
  BY DEF IInv
<1>2. /\ stream' = stream /\ tryContinue' = tryContinue /\ nextNal' = nextNal
      /\ pocRandomAccess' = pocRandomAccess /\ dpbReferencePics' = dpbReferencePics
      /\ parseFrameList' = parseFrameList /\ decLibRecon' = decLibRecon /\ main' = main
      /\ output' = output /\ thrown' = thrown /\ errors' = errors /\ check' = check
      /\ main.pc = "app" /\ app.state = "eof"
  BY DEF GoOn, parseVars
<1>3. app' \in AppType /\ app'.state = "decode"
  BY <1>1 DEF GoOn, TypeInv, AppType
<1>4. PicturesStay
  BY <1>1, StayGoOn DEF GoOn, RunInv
<1>5. QuietStep
  BY <1>2, <1>4 DEF QuietStep, Hands
<1>6. ThrownTyped /\ nextNal' \in Nat /\ nextNal <= nextNal'
  BY <1>1, <1>2, ThrownUnchanged DEF RunInv
<1>7. CallInv' /\ DrainInv' /\ ~InSequence'
  <2>1. pocRandomAccess = NoPoc
    BY <1>1, <1>2 DEF RunInv, CallInv
  <2> QED BY <1>2, <1>3, <2>1 DEF CallInv, DrainInv, InSequence
<1>8. RunInv'
  BY <1>1, <1>2, <1>5, <1>6, <1>7, QuietRun
<1>9. TypeInv'
  BY <1>1, <1>2, <1>3, <1>4 DEF TypeInv, PicturesStay, PicturesGoOn
<1> QED BY <1>2, <1>4, <1>8, <1>9 DEF IInv, PicturesStay

LEMMA ReleaseStays ==
  ASSUME DpbAssumption, TypeInv, Numbered(dpb.picList), Release
  PROVE  /\ PicturesStay
         /\ \A s \in Pictures : dpb'.pic[s].neededForOutput = Pic(s).neededForOutput
<1>1. PICK s \in Range(dpb.picList) : dpb' = ReleasePicture(dpb, s)
  BY DEF Release
<1>2. PicturesStay
  BY <1>1, StayRelease
<1>3. dpb' = [dpb EXCEPT !.pic = [dpb.pic EXCEPT ![s] = [dpb.pic[s] EXCEPT !.lockedByApplication = FALSE]]]
  BY <1>1 DEF ReleasePicture
<1>4. ASSUME NEW t \in Pictures PROVE dpb'.pic[t].neededForOutput = Pic(t).neededForOutput
  <2>1. dpb \in DpbType /\ dpb.pic \in [Pictures -> PictureType] /\ dpb.pic[t] \in PictureType
    BY DpbTypeFields DEF TypeInv
  <2>2. dpb'.pic = [dpb.pic EXCEPT ![s] = [dpb.pic[s] EXCEPT !.lockedByApplication = FALSE]]
    BY <1>3, <2>1 DEF DpbType
  <2>3. CASE t = s
    <3>1. dpb'.pic[t] = [dpb.pic[t] EXCEPT !.lockedByApplication = FALSE]
      BY <2>1, <2>2, <2>3
    <3> QED BY <2>1, <3>1 DEF PictureType, Pic
  <2>4. CASE t # s
    <3>1. dpb'.pic[t] = dpb.pic[t]
      BY <2>1, <2>2, <2>4
    <3> QED BY <3>1 DEF Pic
  <2> QED BY <2>3, <2>4
<1> QED BY <1>2, <1>4

LEMMA ReleaseKeeps ==
  ASSUME DpbAssumption, DecLibAssumption, IInv, check = "none", Release
  PROVE  IInv' /\ PicturesGoOn /\ check' = "none"
<1>1. TypeInv /\ RunInv
  BY DEF IInv
<1>2. /\ stream' = stream /\ tryContinue' = tryContinue /\ nextNal' = nextNal
      /\ pocRandomAccess' = pocRandomAccess /\ dpbReferencePics' = dpbReferencePics
      /\ parseFrameList' = parseFrameList /\ decLibRecon' = decLibRecon /\ main' = main /\ app' = app
      /\ output' = output /\ thrown' = thrown /\ errors' = errors /\ check' = check
      /\ main.pc = "app"
  BY DEF Release, parseVars, appVars
<1>3. /\ PicturesStay
      /\ \A s \in Pictures : dpb'.pic[s].neededForOutput = Pic(s).neededForOutput
  BY <1>1, ReleaseStays DEF RunInv, ListInv
<1>4. QuietStep
  BY <1>2, <1>3 DEF QuietStep, Hands
<1>5. ThrownTyped /\ nextNal' \in Nat /\ nextNal <= nextNal'
  BY <1>1, <1>2, ThrownUnchanged DEF RunInv
<1>6. CallInv' /\ DrainInv'
  BY <1>1, <1>2 DEF RunInv, CallInv, DrainInv, Unit
<1>7. InSequence' => \A s \in dpbReferencePics : Pic(s).dpbReferenceMark \/ Kept(s)'
  <2> SUFFICES ASSUME InSequence', NEW s \in dpbReferencePics, ~Pic(s).dpbReferenceMark PROVE Kept(s)'
    OBVIOUS
  <2>1. InSequence
    BY <1>2 DEF InSequence
  <2>2. Kept(s) /\ s \in Pictures
    BY <1>1, <2>1 DEF RunInv, DpbInv, TypeInv
  <2> QED BY <1>2, <1>3, <2>2 DEF Kept, Pic
<1>8. RunInv'
  BY <1>1, <1>2, <1>4, <1>5, <1>6, <1>7, QuietRun
<1>9. TypeInv'
  BY <1>1, <1>2, <1>3 DEF TypeInv, PicturesStay, PicturesGoOn
<1> QED BY <1>2, <1>3, <1>8, <1>9 DEF IInv, PicturesStay

LEMMA ParseEOSKeeps ==
  ASSUME DpbAssumption, DecLibAssumption, IInv, check = "none", ParseEOS
  PROVE  IInv' /\ PicturesGoOn /\ check' = "none"
<1>1. TypeInv /\ RunInv
  BY DEF IInv
<1>2. /\ stream' = stream /\ tryContinue' = tryContinue /\ nextNal' = nextNal + 1
      /\ nextNal <= Len(stream) /\ dpb' = Restart(dpb)
      /\ pocRandomAccess' = NoPoc /\ dpbReferencePics' = dpbReferencePics
      /\ parseFrameList' = parseFrameList /\ decLibRecon' = decLibRecon /\ app' = app
      /\ output' = output /\ thrown' = thrown /\ errors' = errors /\ check' = check
      /\ main.pc = "app" /\ app.state = "decode"
  BY DEF ParseEOS, CallsDecode, MayCall, appVars
<1>3. main' \in MainType /\ main'.pc = "output" /\ main'.call = "decode"
  BY IdleType DEF ParseEOS
<1>4. PicturesStay
  BY <1>1, <1>2, StayUnchanged
<1>5. QuietStep
  BY <1>2, <1>3, <1>4 DEF QuietStep, Hands
<1>6. ThrownTyped /\ nextNal' \in Nat /\ nextNal <= nextNal'
  BY <1>1, <1>2, ThrownUnchanged DEF RunInv
<1>7. CallInv' /\ DrainInv' /\ ~InSequence'
  BY <1>2, <1>3 DEF CallInv, DrainInv, InSequence
<1>8. RunInv'
  BY <1>1, <1>2, <1>5, <1>6, <1>7, QuietRun
<1>9. TypeInv'
  <2>1. nextNal' \in 1..(Len(stream') + 1) /\ pocRandomAccess' \in Int
    BY <1>1, <1>2, StreamType DEF NoPoc
  <2> QED BY <1>1, <1>2, <1>3, <1>4, <2>1 DEF TypeInv, PicturesStay, PicturesGoOn
<1> QED BY <1>2, <1>4, <1>8, <1>9 DEF IInv, PicturesStay

LEMMA ParseSkippedKeeps ==
  ASSUME DpbAssumption, DecLibAssumption, IInv, check = "none", ParseSkipped
  PROVE  IInv' /\ PicturesGoOn /\ check' = "none"
<1>1. TypeInv /\ RunInv
  BY DEF IInv
<1>2. /\ stream' = stream /\ tryContinue' = tryContinue /\ nextNal' = nextNal + 1
      /\ nextNal <= Len(stream) /\ dpb' = dpb /\ main' = main
      /\ pocRandomAccess' = pocRandomAccess /\ dpbReferencePics' = dpbReferencePics
      /\ parseFrameList' = parseFrameList /\ decLibRecon' = decLibRecon /\ app' = app
      /\ output' = output /\ thrown' = thrown /\ errors' = errors /\ check' = check
      /\ main.pc = "app" /\ app.state = "decode"
  BY DEF ParseSkipped, CallsDecode, MayCall, appVars
<1>3. PicturesStay
  BY <1>1, <1>2, StayUnchanged
<1>4. QuietStep
  BY <1>2, <1>3 DEF QuietStep, Hands
<1>5. ThrownTyped /\ nextNal' \in Nat /\ nextNal <= nextNal'
  BY <1>1, <1>2, ThrownUnchanged DEF RunInv
<1>6. CallInv' /\ DrainInv'
  BY <1>1, <1>2 DEF RunInv, CallInv, DrainInv
<1>7. InSequence' => \A s \in dpbReferencePics : Pic(s).dpbReferenceMark \/ Kept(s)'
  <2> SUFFICES ASSUME InSequence', NEW s \in dpbReferencePics, ~Pic(s).dpbReferenceMark PROVE Kept(s)'
    OBVIOUS
  <2>1. InSequence
    BY <1>2 DEF InSequence
  <2>2. Kept(s)
    BY <1>1, <2>1 DEF RunInv, DpbInv
  <2> QED BY <1>2, <2>2 DEF Kept, Pic
<1>8. RunInv'
  BY <1>1, <1>2, <1>4, <1>5, <1>6, <1>7, QuietRun
<1>9. TypeInv'
  <2>1. nextNal' \in 1..(Len(stream') + 1)
    BY <1>1, <1>2, StreamType
  <2> QED BY <1>1, <1>2, <2>1 DEF TypeInv
<1> QED BY <1>2, <1>3, <1>8, <1>9 DEF IInv, PicturesStay

LEMMA ParseSliceHeadKeeps ==
  ASSUME DpbAssumption, DecLibAssumption, IInv, check = "none", ParseSliceHead
  PROVE  IInv' /\ PicturesGoOn /\ check' = "none"
<1>1. TypeInv /\ RunInv
  BY DEF IInv
<1>2. /\ stream' = stream /\ tryContinue' = tryContinue /\ nextNal' = nextNal
      /\ nextNal <= Len(stream) /\ dpb' = dpb
      /\ pocRandomAccess' = RandomAccessPoc /\ dpbReferencePics' = dpbReferencePics
      /\ parseFrameList' = parseFrameList /\ decLibRecon' = decLibRecon /\ app' = app
      /\ output' = output /\ thrown' = thrown /\ errors' = errors /\ check' = check
      /\ main.pc = "app" /\ app.state = "decode" /\ Unit.type # "EOS" /\ ~RandomAccessSkip
  BY DEF ParseSliceHead, CallsDecode, MayCall, appVars
<1>3. main' \in MainType /\ main'.pc = "refs" /\ main'.call = "decode"
  BY IdleType DEF ParseSliceHead
<1>4. PicturesStay
  BY <1>1, <1>2, StayUnchanged
<1>5. QuietStep
  BY <1>2, <1>3, <1>4 DEF QuietStep, Hands
<1>6. ThrownTyped /\ nextNal' \in Nat /\ nextNal <= nextNal'
  BY <1>1, <1>2, ThrownUnchanged DEF RunInv
<1>7. /\ Unit \in AccessUnit /\ (Unit.type \in {"IDR", "CRA"} => Unit.refs = {})
      /\ Unit.poc \in Int /\ Unit.poc < NoPoc
  BY <1>1, <1>2, UnitFacts DEF AccessUnit
<1>8. pocRandomAccess' \in Int /\ pocRandomAccess' # NoPoc
  <2>1. pocRandomAccess \in Int
    BY <1>1 DEF TypeInv
  <2>2. CASE Unit.type = "IDR"
    BY <1>2, <2>2 DEF RandomAccessPoc, AnyPoc, NoPoc
  <2>3. CASE Unit.type # "IDR" /\ pocRandomAccess = NoPoc
    BY <1>2, <1>7, <2>3 DEF RandomAccessPoc, NoPoc
  <2>4. CASE Unit.type # "IDR" /\ pocRandomAccess # NoPoc
    BY <1>2, <2>1, <2>4 DEF RandomAccessPoc
  <2> QED BY <2>2, <2>3, <2>4
<1>9. CallInv' /\ DrainInv'
  <2>1. Unit' = Unit
    BY <1>2 DEF Unit
  <2> QED BY <1>2, <1>3, <1>8, <2>1 DEF CallInv, DrainInv
<1>10. InSequence' => \A s \in dpbReferencePics : Pic(s).dpbReferenceMark \/ Kept(s)'
  <2> SUFFICES ASSUME InSequence', NEW s \in dpbReferencePics, ~Pic(s).dpbReferenceMark PROVE Kept(s)'
    OBVIOUS
  <2>1. Unit.type \notin {"IDR", "CRA"}
    BY <1>2, <1>3, <1>7 DEF InSequence, Unit
  <2>2. pocRandomAccess # NoPoc
    BY <1>2, <2>1 DEF RandomAccessSkip
  <2>3. InSequence
    BY <1>2, <2>2 DEF InSequence
  <2>4. Kept(s)
    BY <1>1, <2>3 DEF RunInv, DpbInv
  <2> QED BY <1>2, <1>3, <2>4 DEF Kept, Pic
<1>11. RunInv'
  BY <1>1, <1>2, <1>5, <1>6, <1>9, <1>10, QuietRun
<1>12. TypeInv'
  BY <1>1, <1>2, <1>3, <1>8 DEF TypeInv
<1> QED BY <1>2, <1>4, <1>11, <1>12 DEF IInv, PicturesStay

LEMMA ParseMissingRefKeeps ==
  ASSUME DpbAssumption, DecLibAssumption, IInv, check = "none", ParseMissingRef
  PROVE  IInv' /\ PicturesGoOn /\ check' = "none"
<1>1. TypeInv /\ RunInv
  BY DEF IInv
<1>2. /\ stream' = stream /\ tryContinue' = tryContinue /\ nextNal' = nextNal + 1
      /\ dpb' = dpb /\ pocRandomAccess' = pocRandomAccess /\ dpbReferencePics' = dpbReferencePics
      /\ parseFrameList' = parseFrameList /\ decLibRecon' = decLibRecon
      /\ errors' = errors /\ check' = check
      /\ main.pc = "refs" /\ Missing # {} /\ ThrowTo(nextNal, "decode")
  BY DEF ParseMissingRef
<1>3. nextNal <= Len(stream) /\ main.call = "decode" /\ app.state = "decode" /\ pocRandomAccess # NoPoc
  BY <1>1, <1>2 DEF RunInv, CallInv
<1>4. /\ main' \in MainType /\ main'.pc = "app" /\ main'.call = "decode"
      /\ app' \in AppType /\ app'.state \in {app.state, "stopped"}
      /\ thrown' \in [1..Len(stream) -> Nat] /\ output' = output
      /\ \A b \in 1..Len(stream) :
           thrown'[b] = IF b = nextNal /\ nextNal > 0 THEN thrown[b] + 1 ELSE thrown[b]
  BY <1>1, <1>2, ThrowType
<1>5. PicturesStay
  BY <1>1, <1>2, StayUnchanged
<1>6. QuietStep
  BY <1>2, <1>4, <1>5 DEF QuietStep, Hands
<1>7. ThrownTyped /\ nextNal' \in Nat /\ nextNal <= nextNal'
  BY <1>1, <1>2, <1>4, ThrownAtParse DEF RunInv
<1>8. CallInv' /\ DrainInv'
  BY <1>3, <1>4 DEF CallInv, DrainInv
<1>9. InSequence' => \A s \in dpbReferencePics : Pic(s).dpbReferenceMark \/ Kept(s)'
  <2> SUFFICES ASSUME InSequence', NEW s \in dpbReferencePics, ~Pic(s).dpbReferenceMark PROVE Kept(s)'
    OBVIOUS
  <2>1. InSequence
    BY <1>2, <1>3 DEF InSequence, Missing
  <2>2. Kept(s)
    BY <1>1, <2>1 DEF RunInv, DpbInv
  <2> QED BY <1>2, <1>4, <2>2 DEF Kept, Pic
<1>10. RunInv'
  BY <1>1, <1>2, <1>6, <1>7, <1>8, <1>9, QuietRun
<1>11. TypeInv'
  <2>1. nextNal' \in 1..(Len(stream') + 1)
    BY SMTT(30), <1>1, <1>2, <1>3, StreamType
  <2> QED BY <1>1, <1>2, <1>4, <2>1 DEF TypeInv
<1> QED BY <1>2, <1>5, <1>10, <1>11 DEF IInv, PicturesStay

-----------------------------------------------------------------------------
(* The quiet steps of the end of decode and of flush.                      *)
LEMMA QuietMainStep ==
  ASSUME DpbAssumption, DecLibAssumption, TypeInv, RunInv, QuietStep,
         stream' = stream, tryContinue' = tryContinue, nextNal' = nextNal,
         pocRandomAccess' \in Int, dpbReferencePics' = dpbReferencePics,
         main' \in MainType, app' \in AppType, errors' = errors, output' \in Seq(Int),
         thrown' = thrown, check' = "none", CallInv', DrainInv',
         InSequence' => \A s \in dpbReferencePics : Pic(s).dpbReferenceMark \/ Kept(s)'
  PROVE  IInv' /\ PicturesGoOn /\ check' = "none"
<1>1. ThrownTyped /\ nextNal' \in Nat /\ nextNal <= nextNal'
  BY ThrownUnchanged DEF RunInv
<1>2. RunInv'
  BY <1>1, QuietRun
<1>3. TypeInv'
  BY DEF TypeInv, QuietStep, PicturesStay, PicturesGoOn
<1> QED BY <1>2, <1>3 DEF IInv, QuietStep, PicturesStay

LEMMA ChooseNoneKeeps ==
  ASSUME DpbAssumption, DecLibAssumption, IInv, check = "none", ChooseNone
  PROVE  IInv' /\ PicturesGoOn /\ check' = "none"
<1>1. TypeInv /\ RunInv
  BY DEF IInv
<1>2. /\ stream' = stream /\ tryContinue' = tryContinue /\ nextNal' = nextNal /\ dpb' = dpb
      /\ pocRandomAccess' = pocRandomAccess /\ dpbReferencePics' = dpbReferencePics
      /\ parseFrameList' = parseFrameList /\ decLibRecon' = decLibRecon /\ app' = app
      /\ output' = output /\ thrown' = thrown /\ errors' = errors /\ check' = check
      /\ main.pc = "choose" /\ parseFrameList = <<>>
  BY DEF ChooseNone, parseVars, appVars
<1>3. /\ main' \in MainType /\ main'.call = main.call
      /\ main'.pc = IF main.call = "decode" THEN "output" ELSE "drain"
  BY <1>1, GoToType DEF ChooseNone, TypeInv
<1>4. PicturesStay
  BY <1>1, <1>2, StayUnchanged
<1>5. QuietStep
  BY <1>2, <1>3, <1>4 DEF QuietStep, Hands
<1>6. app.state = main.call /\ main.call \in {"decode", "flush"}
  BY <1>1, <1>2 DEF RunInv, CallInv, TypeInv, MainType
<1>7. CallInv' /\ DrainInv'
  BY <1>2, <1>3, <1>6 DEF CallInv, DrainInv
<1>8. InSequence' => \A s \in dpbReferencePics : Pic(s).dpbReferenceMark \/ Kept(s)'
  <2> SUFFICES ASSUME InSequence', NEW s \in dpbReferencePics PROVE Pic(s).dpbReferenceMark
    OBVIOUS
  <2>1. InSequence
    BY <1>2 DEF InSequence
  <2>2. ~Kept(s)
    BY <1>2 DEF Kept, Queued
  <2> QED BY <1>1, <2>1, <2>2 DEF RunInv, DpbInv
<1> QED BY <1>1, <1>2, <1>3, <1>5, <1>7, <1>8, QuietMainStep DEF TypeInv

(* A picture that comes out, or null.                                      *)
LEMMA OutputStep ==
  ASSUME DpbAssumption, DecLibAssumption, TypeInv, RunInv, main.pc \notin Hands,
         NEW bFlush \in BOOLEAN, Output(bFlush)
  PROVE  /\ QuietStep /\ main' \in MainType /\ main'.pc = "app" /\ main'.call = main.call
         /\ app' \in AppType /\ app'.state = app.state /\ output' \in Seq(Int)
         /\ stream' = stream /\ tryContinue' = tryContinue /\ nextNal' = nextNal
         /\ pocRandomAccess' = pocRandomAccess /\ dpbReferencePics' = dpbReferencePics
         /\ parseFrameList' = parseFrameList /\ decLibRecon' = decLibRecon
         /\ errors' = errors /\ thrown' = thrown /\ check' = check
<1> DEFINE o == GetNextOutputPic(dpb, bFlush)
<1>1. Numbered(dpb.picList) /\ dpb \in DpbType
  BY DEF RunInv, ListInv, TypeInv
<1>2. /\ dpb' = GetNextOutputPic(dpb, bFlush).dpb /\ Return(o.pic)
      /\ stream' = stream /\ tryContinue' = tryContinue /\ nextNal' = nextNal
      /\ pocRandomAccess' = pocRandomAccess /\ dpbReferencePics' = dpbReferencePics
      /\ parseFrameList' = parseFrameList /\ decLibRecon' = decLibRecon
      /\ errors' = errors /\ check' = check
  BY DEF Output, parseVars
<1>3. o.pic \in 0..MaxPictures
  <2>1. o.pic = 0 \/ o.pic \in Pictures
    BY <1>1, OutputShape
  <2> HIDE DEF o
  <2> QED BY <2>1 DEF Pictures, DpbAssumption
<1>4. PicturesStay
  BY <1>1, <1>2, StayOutput
<1> HIDE DEF o
<1>5. /\ main' \in MainType /\ main'.pc = "app" /\ main'.call = main.call
      /\ app' \in AppType /\ app'.state = app.state /\ thrown' = thrown /\ output' \in Seq(Int)
  BY <1>2, <1>3, ReturnType
<1>6. QuietStep
  BY <1>2, <1>4, <1>5 DEF QuietStep, Hands
<1> QED BY <1>2, <1>5, <1>6

LEMMA NoOutputStep ==
  ASSUME DpbAssumption, DecLibAssumption, TypeInv, RunInv, main.pc \notin Hands,
         NEW pc \in {"choose", "block", "last"}, NoOutput(pc)
  PROVE  /\ QuietStep /\ main' \in MainType /\ main'.pc = pc /\ main'.call = main.call /\ main'.obj = 1
         /\ app' = app /\ output' = output
         /\ stream' = stream /\ tryContinue' = tryContinue /\ nextNal' = nextNal
         /\ pocRandomAccess' = pocRandomAccess /\ dpbReferencePics' = dpbReferencePics
         /\ parseFrameList' = parseFrameList /\ decLibRecon' = decLibRecon
         /\ errors' = errors /\ thrown' = thrown /\ check' = check
<1>1. Numbered(dpb.picList) /\ dpb \in DpbType /\ main \in MainType
  BY DEF RunInv, ListInv, TypeInv
<1>2. /\ dpb' = GetNextOutputPic(dpb, FALSE).dpb /\ main' = [main EXCEPT !.pc = pc, !.obj = 1]
      /\ stream' = stream /\ tryContinue' = tryContinue /\ nextNal' = nextNal
      /\ pocRandomAccess' = pocRandomAccess /\ dpbReferencePics' = dpbReferencePics
      /\ parseFrameList' = parseFrameList /\ decLibRecon' = decLibRecon
      /\ app' = app /\ output' = output /\ thrown' = thrown
      /\ errors' = errors /\ check' = check
  BY DEF NoOutput, parseVars, appVars
<1>3. PicturesStay
  BY <1>1, <1>2, StayOutput
<1>4. main' \in MainType /\ main'.pc = pc /\ main'.call = main.call /\ main'.obj = 1
  BY <1>1, <1>2 DEF MainType
<1>5. QuietStep
  BY <1>2, <1>3, <1>4 DEF QuietStep, Hands
<1> QED BY <1>2, <1>4, <1>5

LEMMA DecodeOutputKeeps ==
  ASSUME DpbAssumption, DecLibAssumption, IInv, check = "none", DecodeOutput
  PROVE  IInv' /\ PicturesGoOn /\ check' = "none"
<1>1. TypeInv /\ RunInv
  BY DEF IInv
<1>2. main.pc = "output" /\ Output(FALSE)
  BY DEF DecodeOutput
<1>3. /\ QuietStep /\ main' \in MainType /\ main'.pc = "app" /\ main'.call = main.call
      /\ app' \in AppType /\ app'.state = app.state /\ output' \in Seq(Int)
      /\ stream' = stream /\ tryContinue' = tryContinue /\ nextNal' = nextNal
      /\ pocRandomAccess' = pocRandomAccess /\ dpbReferencePics' = dpbReferencePics
      /\ parseFrameList' = parseFrameList /\ decLibRecon' = decLibRecon
      /\ errors' = errors /\ thrown' = thrown /\ check' = check
  BY <1>1, <1>2, OutputStep DEF Hands
<1>4. main.call = "decode" /\ app.state = "decode"
  BY <1>1, <1>2 DEF RunInv, CallInv
<1>5. CallInv' /\ DrainInv'
  BY <1>3, <1>4 DEF CallInv, DrainInv
<1>6. InSequence' => \A s \in dpbReferencePics : Pic(s).dpbReferenceMark \/ Kept(s)'
  <2> SUFFICES ASSUME InSequence', NEW s \in dpbReferencePics, ~Pic(s).dpbReferenceMark PROVE Kept(s)'
    OBVIOUS
  <2>1. InSequence
    BY <1>2, <1>3 DEF InSequence
  <2>2. s \in Pictures /\ Kept(s)
    BY <1>1, <2>1 DEF RunInv, DpbInv, TypeInv
  <2>3. Pic(s).neededForOutput /\ Owned(s)
    BY <1>2, <2>2 DEF Kept, Owned
  <2>4. OwnedAgrees(Pic(s), thrown[Pic(s).au])
    BY <1>1, <2>2, <2>3 DEF RunInv, LifeInv, PictureInv
  <2>5. Pic(s).progress # finished
    BY <2>4 DEF OwnedAgrees
  <2>6. dpb'.pic[s].neededForOutput = Pic(s).neededForOutput
    BY <1>3, <2>2, <2>5 DEF QuietStep, PicturesStay, PicturesGoOn, Goes
  <2> QED BY <1>3, <2>3, <2>6 DEF Kept, Pic
<1>7. pocRandomAccess' \in Int
  BY <1>1, <1>3 DEF TypeInv
<1> QED BY <1>1, <1>3, <1>5, <1>6, <1>7, QuietMainStep

LEMMA FlushFindsKeeps ==
  ASSUME DpbAssumption, DecLibAssumption, IInv, check = "none", FlushFinds
  PROVE  IInv' /\ PicturesGoOn /\ check' = "none"
<1>1. TypeInv /\ RunInv
  BY DEF IInv
<1>2. main.pc \in {"flushOutput", "drain", "drained"} /\ Output(FALSE)
  BY DEF FlushFinds
<1>3. /\ QuietStep /\ main' \in MainType /\ main'.pc = "app" /\ main'.call = main.call
      /\ app' \in AppType /\ app'.state = app.state /\ output' \in Seq(Int)
      /\ stream' = stream /\ tryContinue' = tryContinue /\ nextNal' = nextNal
      /\ pocRandomAccess' = pocRandomAccess /\ dpbReferencePics' = dpbReferencePics
      /\ parseFrameList' = parseFrameList /\ decLibRecon' = decLibRecon
      /\ errors' = errors /\ thrown' = thrown /\ check' = check
  BY <1>1, <1>2, OutputStep DEF Hands
<1>4. main.call = "flush" /\ app.state = "flush"
  BY <1>1, <1>2 DEF RunInv, CallInv
<1>5. CallInv' /\ DrainInv' /\ ~InSequence'
  BY <1>3, <1>4 DEF CallInv, DrainInv, InSequence
<1>6. pocRandomAccess' \in Int
  BY <1>1, <1>3 DEF TypeInv
<1> QED BY <1>1, <1>3, <1>5, <1>6, QuietMainStep

LEMMA FlushLastKeeps ==
  ASSUME DpbAssumption, DecLibAssumption, IInv, check = "none", FlushLast
  PROVE  IInv' /\ PicturesGoOn /\ check' = "none"
<1>1. TypeInv /\ RunInv
  BY DEF IInv
<1>2. main.pc = "last" /\ Output(TRUE)
  BY DEF FlushLast
<1>3. /\ QuietStep /\ main' \in MainType /\ main'.pc = "app" /\ main'.call = main.call
      /\ app' \in AppType /\ app'.state = app.state /\ output' \in Seq(Int)
      /\ stream' = stream /\ tryContinue' = tryContinue /\ nextNal' = nextNal
      /\ pocRandomAccess' = pocRandomAccess /\ dpbReferencePics' = dpbReferencePics
      /\ parseFrameList' = parseFrameList /\ decLibRecon' = decLibRecon
      /\ errors' = errors /\ thrown' = thrown /\ check' = check
  BY <1>1, <1>2, OutputStep DEF Hands
<1>4. main.call = "flush" /\ app.state = "flush"
  BY <1>1, <1>2 DEF RunInv, CallInv
<1>5. CallInv' /\ DrainInv' /\ ~InSequence'
  BY <1>3, <1>4 DEF CallInv, DrainInv, InSequence
<1>6. pocRandomAccess' \in Int
  BY <1>1, <1>3 DEF TypeInv
<1> QED BY <1>1, <1>3, <1>5, <1>6, QuietMainStep

LEMMA FlushGoesOnKeeps ==
  ASSUME DpbAssumption, DecLibAssumption, IInv, check = "none",
         FlushGoesOn \/ Drain \/ DrainAgain
  PROVE  IInv' /\ PicturesGoOn /\ check' = "none"
<1>1. TypeInv /\ RunInv
  BY DEF IInv
<1>2. PICK pc \in {"choose", "block", "last"} :
        /\ NoOutput(pc)
        /\ \/ main.pc = "flushOutput" /\ pc = "choose"
           \/ main.pc = "drain" /\ pc = "block"
           \/ main.pc = "drained" /\ pc = "last"
  BY DEF FlushGoesOn, Drain, DrainAgain
<1>3. main.pc \notin Hands
  BY <1>2 DEF Hands
<1>4. /\ QuietStep /\ main' \in MainType /\ main'.pc = pc /\ main'.call = main.call /\ main'.obj = 1
      /\ app' = app /\ output' = output
      /\ stream' = stream /\ tryContinue' = tryContinue /\ nextNal' = nextNal
      /\ pocRandomAccess' = pocRandomAccess /\ dpbReferencePics' = dpbReferencePics
      /\ parseFrameList' = parseFrameList /\ decLibRecon' = decLibRecon
      /\ errors' = errors /\ thrown' = thrown /\ check' = check
  BY <1>1, <1>2, <1>3, NoOutputStep
<1>5. main.call = "flush" /\ app.state = "flush"
  BY <1>1, <1>2 DEF RunInv, CallInv
<1>6. CallInv' /\ ~InSequence'
  BY <1>2, <1>4, <1>5 DEF CallInv, InSequence
<1>7. DrainInv'
  <2>1. pc \in {"block", "last"} => parseFrameList = <<>>
    BY <1>1, <1>2 DEF RunInv, DrainInv
  <2>2. pc = "last" => \A i \in 1..DecInstances : decLibRecon[i] = 0
    BY <1>1, <1>2 DEF RunInv, DrainInv
  <2>3. \A i \in 1..DecInstances : ~(i < 1)
    OBVIOUS
  <2> QED BY <1>2, <1>4, <1>5, <2>1, <2>2, <2>3 DEF DrainInv
<1>8. pocRandomAccess' \in Int /\ app' \in AppType /\ output' \in Seq(Int)
  BY <1>1, <1>4 DEF TypeInv
<1> QED BY <1>1, <1>4, <1>6, <1>7, <1>8, QuietMainStep

LEMMA BlockedKeeps ==
  ASSUME DpbAssumption, DecLibAssumption, IInv, check = "none", Blocked
  PROVE  IInv' /\ PicturesGoOn /\ check' = "none"
<1>1. TypeInv /\ RunInv
  BY DEF IInv
<1>2. /\ stream' = stream /\ tryContinue' = tryContinue /\ nextNal' = nextNal /\ dpb' = dpb
      /\ pocRandomAccess' = pocRandomAccess /\ dpbReferencePics' = dpbReferencePics
      /\ parseFrameList' = parseFrameList /\ decLibRecon' = decLibRecon /\ app' = app
      /\ output' = output /\ thrown' = thrown /\ errors' = errors /\ check' = check
      /\ main.pc = "block" /\ main.obj > DecInstances
  BY DEF Blocked, parseVars, appVars
<1>3. main' \in MainType /\ main'.call = main.call /\ main'.pc = "drained"
  BY <1>1, GoToType DEF Blocked, TypeInv
<1>4. PicturesStay
  BY <1>1, <1>2, StayUnchanged
<1>5. QuietStep
  BY <1>2, <1>3, <1>4 DEF QuietStep, Hands
<1>6. main.call = "flush" /\ app.state = "flush"
  BY <1>1, <1>2 DEF RunInv, CallInv
<1>7. CallInv' /\ ~InSequence'
  BY <1>2, <1>3, <1>6 DEF CallInv, InSequence
<1>8. DrainInv'
  <2>1. main.obj \in Nat
    BY <1>1 DEF TypeInv, MainType
  <2>2. \A i \in 1..DecInstances : i < main.obj
    BY <1>2, <2>1 DEF DpbAssumption
  <2>3. parseFrameList = <<>> /\ \A i \in 1..DecInstances : decLibRecon[i] = 0
    BY <1>1, <1>2, <2>2 DEF RunInv, DrainInv
  <2> QED BY <1>2, <1>3, <1>6, <2>3 DEF DrainInv
<1> QED BY <1>1, <1>2, <1>3, <1>5, <1>7, <1>8, QuietMainStep DEF TypeInv

LEMMA FlushEndsKeeps ==
  ASSUME DpbAssumption, DecLibAssumption, IInv, check = "none", FlushEnds
  PROVE  IInv' /\ PicturesGoOn /\ check' = "none"
<1>1. TypeInv /\ RunInv
  BY DEF IInv
<1>2. /\ stream' = stream /\ tryContinue' = tryContinue /\ nextNal' = nextNal /\ dpb' = Restart(dpb)
      /\ pocRandomAccess' = NoPoc /\ dpbReferencePics' = dpbReferencePics
      /\ parseFrameList' = parseFrameList /\ decLibRecon' = decLibRecon
      /\ output' = output /\ thrown' = thrown /\ errors' = errors /\ check' = check
      /\ main.pc = "last"
  BY DEF FlushEnds
<1>3. main' \in MainType /\ main'.call = "flush" /\ main'.pc = "app"
  BY IdleType DEF FlushEnds
<1>4. app' \in AppType /\ app'.state = "eof"
  BY <1>1 DEF FlushEnds, TypeInv, AppType
<1>5. PicturesStay
  BY <1>1, <1>2, StayUnchanged
<1>6. QuietStep
  BY <1>2, <1>3, <1>5 DEF QuietStep, Hands
<1>7. CallInv' /\ ~InSequence'
  BY <1>2, <1>3, <1>4 DEF CallInv, InSequence
<1>8. DrainInv'
  <2>1. parseFrameList = <<>> /\ \A i \in 1..DecInstances : decLibRecon[i] = 0
    BY <1>1, <1>2 DEF RunInv, DrainInv
  <2> QED BY <1>2, <1>3, <2>1 DEF DrainInv
<1>9. pocRandomAccess' \in Int
  BY <1>2 DEF NoPoc
<1> QED BY <1>1, <1>2, <1>3, <1>4, <1>6, <1>7, <1>8, <1>9, QuietMainStep DEF TypeInv

-----------------------------------------------------------------------------
(* Steps that take a buffer s for a new picture p: the reference pictures  *)
(* that are unmarked first make d of the buffer.                           *)
OnlyUnmarked(p, q) ==
  /\ SameLife(p, q)
  /\ q.neededForOutput = p.neededForOutput /\ q.stillReferenced = p.stillReferenced
  /\ q.lockedByApplication = p.lockedByApplication

Takes(d, s, p) ==
  /\ d \in DpbType /\ d.picList = dpb.picList
  /\ \A t \in Pictures : OnlyUnmarked(Pic(t), d.pic[t]) /\ (~Listed(t) => d.pic[t] = Pic(t))
  /\ HasRoom(GetNewPicBuffer(d)) /\ s = Last(GetNewPicBuffer(d).picList)
  /\ p \in PictureType /\ dpb' = [GetNewPicBuffer(d) EXCEPT !.pic[s] = p]

TakesPicture(least) == \E d, s, p : Takes(d, s, p) /\ p.progress >= least

LEMMA TakesShape ==
  ASSUME DpbAssumption, TypeInv, ListInv, NEW d, NEW s, NEW p, Takes(d, s, p)
  PROVE  /\ s \in Pictures /\ dpb' \in DpbType /\ Numbered(dpb'.picList) /\ dpb'.pic[s] = p
         /\ \A t \in Pictures : t # s => dpb'.pic[t] = d.pic[t] /\ OnlyUnmarked(Pic(t), dpb'.pic[t])
         /\ \A t \in Pictures : Listed(t)' <=> Listed(t) \/ t = s
         /\ ~Listed(s) \/ Reusable(d.pic[s])
<1> DEFINE new == GetNewPicBuffer(d)
           pics == [new.pic EXCEPT ![s] = p]
<1>1. /\ d \in DpbType /\ d.picList = dpb.picList /\ HasRoom(new) /\ s = Last(new.picList)
      /\ p \in PictureType /\ dpb' = [new EXCEPT !.pic[s] = p]
      /\ \A t \in Pictures : OnlyUnmarked(Pic(t), d.pic[t])
  BY DEF Takes
<1>2. Numbered(d.picList) /\ d.pic \in [Pictures -> PictureType] /\ Len(d.picList) \in Nat
  BY <1>1, DpbTypeFields DEF ListInv
<1>3. /\ s \in Pictures /\ new \in DpbType /\ new.pic = [d.pic EXCEPT ![s] = Fresh]
      /\ Numbered(new.picList) /\ s \in 1..Len(new.picList)
      /\ \/ s = Len(d.picList) + 1 /\ Len(new.picList) = s
         \/ /\ s \in 1..Len(d.picList) /\ Reusable(d.pic[s])
            /\ Len(new.picList) = Len(d.picList)
  BY SMTT(30), <1>1, <1>2, NewBufferShape
<1> HIDE DEF new
<1>4. new.pic \in [Pictures -> PictureType]
  BY <1>3, DpbTypeFields
<1>5. pics \in [Pictures -> PictureType]
  BY <1>1, <1>4
<1>6. dpb' = [new EXCEPT !.pic = pics]
  BY <1>1
<1>7. \A t \in Pictures : pics[t] = IF t = s THEN p ELSE d.pic[t]
  BY <1>2, <1>3, <1>4
<1> HIDE DEF pics
<1>8. dpb' \in DpbType /\ dpb'.picList = new.picList /\ dpb'.pic = pics
  BY ONLY <1>3, <1>5, <1>6, WithPics
<1>9. \A t \in Pictures : Listed(t)' <=> Listed(t) \/ t = s
  <2> SUFFICES ASSUME NEW t \in Pictures PROVE Listed(t)' <=> Listed(t) \/ t = s
    OBVIOUS
  <2>1. t \in Nat
    BY DEF Pictures, DpbAssumption
  <2> QED BY <1>1, <1>2, <1>3, <1>8, <2>1 DEF Listed
<1>10. ~Listed(s) \/ Reusable(d.pic[s])
  BY <1>1, <1>2, <1>3 DEF Listed
<1> QED BY <1>1, <1>3, <1>7, <1>8, <1>9, <1>10

(* A buffer that is taken is nobody's, and nobody refers to it.            *)
LEMMA TakesFree ==
  ASSUME DpbAssumption, TypeInv, RunInv, NEW d, NEW s, NEW p, Takes(d, s, p)
  PROVE  /\ ~Owned(s)
         /\ Listed(s) => ~Pic(s).stillReferenced /\ ~Pic(s).neededForOutput /\ ~Pic(s).lockedByApplication
         /\ \A t \in Pictures : Pic(t).progress < reconstructed => s \notin Pic(t).refs
<1>1. s \in Pictures /\ (~Listed(s) \/ Reusable(d.pic[s])) /\ OnlyUnmarked(Pic(s), d.pic[s])
  BY TakesShape DEF RunInv, Takes
<1>2. ASSUME Listed(s)
      PROVE  ~Pic(s).stillReferenced /\ ~Pic(s).neededForOutput /\ ~Pic(s).lockedByApplication
  <2>1. Reusable(d.pic[s])
    BY <1>1, <1>2
  <2> QED BY <1>1, <2>1 DEF Reusable, OnlyUnmarked
<1>3. ~Owned(s)
  <2> SUFFICES ASSUME Owned(s) PROVE FALSE
    OBVIOUS
  <2>1. Listed(s) /\ OwnedAgrees(Pic(s), thrown[Pic(s).au])
    BY <1>1 DEF RunInv, PlaceInv, LifeInv, PictureInv
  <2>2. Pic(s).stillReferenced \/ Pic(s).neededForOutput
    BY <1>1, <2>1 DEF RunInv, UseInv, OwnedAgrees
  <2> QED BY <1>2, <2>1, <2>2
<1>4. ASSUME NEW t \in Pictures, Pic(t).progress < reconstructed, s \in Pic(t).refs PROVE FALSE
  <2>1. Listed(s) /\ Pic(s).stillReferenced
    BY <1>1, <1>4 DEF RunInv, RefInv
  <2> QED BY <1>2, <2>1
<1> QED BY <1>2, <1>3, <1>4

(* What the parse list looks like after a picture was added to it, or not. *)
Added(s) == \/ parseFrameList' = parseFrameList
            \/ parseFrameList' = Append(parseFrameList, s)

LEMMA AddedShape ==
  ASSUME TypeInv, NEW s \in Pictures, Added(s)
  PROVE  /\ parseFrameList' \in Seq(Pictures)
         /\ Len(parseFrameList) \in Nat /\ Len(parseFrameList') \in Nat /\ Len(parseFrameList) <= Len(parseFrameList')
         /\ \A i \in 1..Len(parseFrameList) : parseFrameList'[i] = parseFrameList[i]
         /\ \A i \in 1..Len(parseFrameList') : i \in 1..Len(parseFrameList) \/ parseFrameList'[i] = s
         /\ \A t : Queued(t)' <=> Queued(t) \/ (t = s /\ parseFrameList' # parseFrameList)
         /\ parseFrameList' # parseFrameList =>
              /\ Len(parseFrameList') = Len(parseFrameList) + 1
              /\ parseFrameList'[Len(parseFrameList) + 1] = s
<1>1. parseFrameList \in Seq(Pictures) /\ Len(parseFrameList) \in Nat
  BY LenProperties DEF TypeInv
<1>2. CASE parseFrameList' = parseFrameList
  BY <1>1, <1>2 DEF Queued
<1>3. CASE parseFrameList' = Append(parseFrameList, s)
  <2>1. /\ parseFrameList' \in Seq(Pictures) /\ Len(parseFrameList') = Len(parseFrameList) + 1
        /\ \A i \in 1..Len(parseFrameList) : parseFrameList'[i] = parseFrameList[i]
        /\ parseFrameList'[Len(parseFrameList) + 1] = s
    BY <1>1, <1>3, AppendProperties
  <2>2. \A i \in 1..Len(parseFrameList') : i \in 1..Len(parseFrameList) \/ parseFrameList'[i] = s
    BY <1>1, <2>1
  <2>3. Len(parseFrameList) + 1 \in 1..Len(parseFrameList') /\ parseFrameList' # parseFrameList
    BY <1>1, <2>1
  <2>4. \A i \in 1..Len(parseFrameList) : i \in 1..Len(parseFrameList')
    BY <1>1, <2>1
  <2>5. \A t : Queued(t)' <=> Queued(t) \/ t = s
    BY <2>1, <2>2, <2>3, <2>4 DEF Queued
  <2> QED BY <1>1, <2>1, <2>2, <2>3, <2>5
<1> QED BY <1>2, <1>3 DEF Added

LEMMA TakesKeepsPlaces ==
  ASSUME DpbAssumption, TypeInv, RunInv, NEW d, NEW s, NEW p, Takes(d, s, p), Added(s),
         main.pc \notin Hands, main'.pc \notin Hands, decLibRecon' = decLibRecon
  PROVE  /\ ListInv' /\ PlaceInv'
         /\ \A t \in Pictures : t # s => SamePlace(t)
         /\ Listed(s)' /\ ~InHand(s)' /\ ~InObject(s)' /\ ~TakenOut(s)' /\ ~Unstarted(s)'
         /\ (Queued(s)' <=> parseFrameList' # parseFrameList)
<1>1. /\ s \in Pictures /\ dpb' \in DpbType /\ Numbered(dpb'.picList) /\ dpb'.pic[s] = p
      /\ \A t \in Pictures : t # s => dpb'.pic[t] = d.pic[t]
      /\ \A t \in Pictures : Listed(t)' <=> Listed(t) \/ t = s
  BY TakesShape DEF RunInv
<1>2. ~Owned(s)
  BY TakesFree
<1>3. \A t : Queued(t)' <=> Queued(t) \/ (t = s /\ parseFrameList' # parseFrameList)
  BY <1>1, AddedShape
<1>4. /\ \A t : ~InHand(t) /\ ~TakenOut(t) /\ ~Unstarted(t) /\ ~InHand(t)' /\ ~TakenOut(t)' /\ ~Unstarted(t)'
      /\ main'.pc \notin {"sanitize", "wait", "start"}
  BY DEF Hands, InHand, TakenOut, Unstarted
<1>5. \A t : InObject(t)' <=> InObject(t)
  BY DEF InObject
<1>6. ListInv'
  <2>1. ASSUME NEW t \in Pictures, ~Listed(t)' PROVE Pic(t)' = Fresh
    <3>1. t # s /\ ~Listed(t)
      BY <1>1, <2>1
    <3>2. Pic(t) = Fresh /\ d.pic[t] = Pic(t)
      BY <3>1 DEF RunInv, ListInv, Takes
    <3> QED BY <1>1, <3>1, <3>2 DEF Pic
  <2>2. ASSUME NEW i \in 1..Len(parseFrameList'), NEW j \in 1..Len(parseFrameList'),
               parseFrameList'[i] = parseFrameList'[j]
        PROVE  i = j
    <3>1. /\ Len(parseFrameList) \in Nat /\ Len(parseFrameList') \in Nat
          /\ \A k \in 1..Len(parseFrameList) : parseFrameList'[k] = parseFrameList[k]
          /\ \A k \in 1..Len(parseFrameList') : k \in 1..Len(parseFrameList) \/ parseFrameList'[k] = s
          /\ parseFrameList' # parseFrameList => Len(parseFrameList') = Len(parseFrameList) + 1
      BY <1>1, AddedShape
    <3>2. \A k \in 1..Len(parseFrameList) : parseFrameList[k] # s
      BY <1>2 DEF Owned, Queued
    <3>3. CASE i \in 1..Len(parseFrameList) /\ j \in 1..Len(parseFrameList)
      BY <2>2, <3>1, <3>3 DEF RunInv, ListInv
    <3>4. CASE i \notin 1..Len(parseFrameList) /\ j \notin 1..Len(parseFrameList)
      <4>1. parseFrameList' # parseFrameList
        BY <3>4
      <4> QED BY <3>1, <3>4, <4>1
    <3>5. CASE i \in 1..Len(parseFrameList) /\ j \notin 1..Len(parseFrameList)
      BY <2>2, <3>1, <3>2, <3>5
    <3>6. CASE i \notin 1..Len(parseFrameList) /\ j \in 1..Len(parseFrameList)
      BY <2>2, <3>1, <3>2, <3>6
    <3> QED BY <3>3, <3>4, <3>5, <3>6
  <2>3. \A i \in 1..DecInstances : \A j \in 1..DecInstances :
          decLibRecon'[i] = decLibRecon'[j] /\ decLibRecon'[i] # 0 => i = j
    BY DEF RunInv, ListInv
  <2> QED BY <1>1, <2>1, <2>2, <2>3 DEF ListInv
<1>7. PlaceInv'
  <2>1. \A t \in Pictures : Queued(t)' => ~InObject(t)'
    BY <1>2, <1>3, <1>5 DEF RunInv, PlaceInv, Owned
  <2>2. \A t \in Pictures : Owned(t)' => Listed(t)'
    BY <1>1, <1>3, <1>4, <1>5 DEF RunInv, PlaceInv, Owned
  <2> QED BY <1>4, <2>1, <2>2 DEF PlaceInv
<1>8. \A t \in Pictures : t # s => SamePlace(t)
  BY <1>1, <1>3, <1>4, <1>5 DEF SamePlace
<1> QED BY <1>1, <1>2, <1>3, <1>4, <1>5, <1>6, <1>7, <1>8 DEF Owned

(* The new picture: what must be true of it so that the rest is kept.      *)
Joins(s, p) ==
  /\ p.au > 0 => p.au = nextNal /\ nextNal' = nextNal + 1
  /\ p.au < nextNal' /\ (p.wasLost => p.au < 0)
  /\ p.au > 0 => p.stillReferenced \/ p.neededForOutput
  /\ \A r \in p.refs : Listed(r) /\ Pic(r).stillReferenced
  /\ p.refs # {} => parseFrameList' # parseFrameList

LEMMA TakesKeeps ==
  ASSUME DpbAssumption, DecLibAssumption, TypeInv, RunInv, NEW d, NEW s, NEW p, Takes(d, s, p), Added(s),
         main.pc \notin Hands, main'.pc \notin Hands, decLibRecon' = decLibRecon,
         nextNal' \in Nat, nextNal <= nextNal', ThrownTyped, Joins(s, p),
         PictureInv(s)', LeftInv(s)'
  PROVE  ListInv' /\ PlaceInv' /\ LifeInv' /\ AuInv' /\ UseInv' /\ RefInv'
<1>1. /\ s \in Pictures /\ dpb' \in DpbType /\ dpb'.pic[s] = p
      /\ \A t \in Pictures : t # s => OnlyUnmarked(Pic(t), dpb'.pic[t])
      /\ \A t \in Pictures : Listed(t)' <=> Listed(t) \/ t = s
  BY TakesShape DEF RunInv
<1>2. /\ ListInv' /\ PlaceInv'
      /\ \A t \in Pictures : t # s => SamePlace(t)
  BY TakesKeepsPlaces
<1>3. LifeInv'
  <2> SUFFICES ASSUME NEW t \in Pictures PROVE PictureInv(t)' /\ LeftInv(t)'
    BY DEF LifeInv
  <2>1. CASE t # s
    <3>1. SameLife(Pic(t), dpb'.pic[t]) /\ SamePlace(t)
      BY <1>1, <1>2, <2>1 DEF OnlyUnmarked
    <3> QED BY <3>1, LifeKept DEF RunInv, LifeInv, ThrownTyped
  <2> QED BY <2>1
<1>4. AuInv'
  <2>1. ASSUME NEW t \in Pictures
        PROVE  /\ dpb'.pic[t].au < nextNal' /\ (dpb'.pic[t].wasLost => dpb'.pic[t].au < 0)
               /\ t # s /\ dpb'.pic[t].au > 0 => dpb'.pic[t].au < nextNal /\ dpb'.pic[t].au = Pic(t).au
    <3>1. CASE t = s
      BY <1>1, <3>1 DEF Joins
    <3>2. CASE t # s
      <4>1. dpb'.pic[t].au = Pic(t).au /\ dpb'.pic[t].wasLost = Pic(t).wasLost
        BY <1>1, <3>2 DEF OnlyUnmarked, SameLife
      <4>2. Pic(t).au < nextNal /\ (Pic(t).wasLost => Pic(t).au < 0) /\ Pic(t).au \in Int /\ nextNal \in Int
        BY PicType, StreamType DEF RunInv, AuInv, PictureType
      <4> QED BY <4>1, <4>2
    <3> QED BY <3>1, <3>2
  <2>2. ASSUME NEW t \in Pictures, NEW u \in Pictures, dpb'.pic[t].au = dpb'.pic[u].au, dpb'.pic[t].au > 0
        PROVE  t = u
    <3>1. p.au > 0 => p.au = nextNal
      BY DEF Joins
    <3>2. nextNal \in Int
      BY StreamType
    <3>3. CASE t = s \/ u = s
      <4>1. t # s => dpb'.pic[t].au < nextNal
        BY <2>1, <2>2
      <4>2. u # s => dpb'.pic[u].au < nextNal
        BY <2>1, <2>2
      <4>3. p.au = nextNal
        BY <1>1, <2>2, <3>1, <3>3
      <4> QED BY <1>1, <2>2, <3>2, <3>3, <4>1, <4>2, <4>3
    <3>4. CASE t # s /\ u # s
      <4>1. Pic(t).au = Pic(u).au /\ Pic(t).au > 0
        BY <2>1, <2>2, <3>4
      <4> QED BY <4>1 DEF RunInv, AuInv
    <3> QED BY <3>3, <3>4
  <2> QED BY <2>1, <2>2 DEF AuInv, Pic, ThrownTyped
<1>5. UseInv'
  <2> SUFFICES ASSUME NEW t \in Pictures, dpb'.pic[t].au > 0, dpb'.pic[t].progress < finished
               PROVE  dpb'.pic[t].stillReferenced \/ dpb'.pic[t].neededForOutput
    BY DEF UseInv, Pic
  <2>1. CASE t = s
    BY <1>1, <2>1 DEF Joins
  <2>2. CASE t # s
    <3>1. OnlyUnmarked(Pic(t), dpb'.pic[t])
      BY <1>1, <2>2
    <3> QED BY <3>1 DEF RunInv, UseInv, OnlyUnmarked, SameLife
  <2> QED BY <2>1, <2>2
<1>6. ~Owned(s) /\ (Listed(s) => ~Pic(s).stillReferenced)
      /\ \A t \in Pictures : Pic(t).progress < reconstructed => s \notin Pic(t).refs
  BY TakesFree
<1>7. /\ Len(parseFrameList) \in Nat /\ Len(parseFrameList') \in Nat /\ Len(parseFrameList) <= Len(parseFrameList')
      /\ \A i \in 1..Len(parseFrameList) : parseFrameList'[i] = parseFrameList[i]
      /\ \A i \in 1..Len(parseFrameList') : i \in 1..Len(parseFrameList) \/ parseFrameList'[i] = s
      /\ parseFrameList' # parseFrameList =>
           /\ Len(parseFrameList') = Len(parseFrameList) + 1
           /\ parseFrameList'[Len(parseFrameList) + 1] = s
  BY <1>1, AddedShape
<1>8. RefInv'
  <2> SUFFICES ASSUME NEW t \in Pictures, NEW r \in Pictures,
                      dpb'.pic[t].progress < reconstructed, r \in dpb'.pic[t].refs
               PROVE  Listed(r)' /\ r # t /\ dpb'.pic[r].stillReferenced /\ Before(r, t)'
    BY DEF RefInv, Pic
  <2>1. Listed(r) /\ r # s /\ r # t /\ Pic(r).stillReferenced /\ (t = s \/ Before(r, t))
    <3>1. CASE t = s
      <4>1. Listed(r) /\ Pic(r).stillReferenced
        BY <1>1, <3>1 DEF Joins
      <4> QED BY <1>6, <3>1, <4>1
    <3>2. CASE t # s
      <4>1. Pic(t).progress < reconstructed /\ r \in Pic(t).refs
        BY <1>1, <3>2 DEF OnlyUnmarked, SameLife
      <4> QED BY <1>6, <4>1 DEF RunInv, RefInv
    <3> QED BY <3>1, <3>2
  <2>2. Listed(r)' /\ dpb'.pic[r].stillReferenced
    BY <1>1, <2>1 DEF OnlyUnmarked
  <2>3. Before(r, t)'
    <3> SUFFICES ASSUME NEW i \in 1..Len(parseFrameList'), parseFrameList'[i] = r
                 PROVE  \E j \in 1..Len(parseFrameList') : i < j /\ parseFrameList'[j] = t
      BY DEF Before
    <3>1. i \in 1..Len(parseFrameList) /\ parseFrameList[i] = r
      BY <1>7, <2>1
    <3>2. CASE t = s
      <4>1. parseFrameList' # parseFrameList
        BY <1>1, <3>2 DEF Joins
      <4>2. i < Len(parseFrameList) + 1 /\ Len(parseFrameList) + 1 \in 1..Len(parseFrameList')
        BY <1>7, <3>1, <4>1
      <4> QED BY <1>7, <3>2, <4>1, <4>2
    <3>3. CASE t # s
      <4>1. PICK j \in 1..Len(parseFrameList) : i < j /\ parseFrameList[j] = t
        BY <2>1, <3>1, <3>3 DEF Before
      <4>2. j \in 1..Len(parseFrameList') /\ parseFrameList'[j] = t
        BY <1>7, <4>1
      <4> QED BY <4>1, <4>2
    <3> QED BY <3>2, <3>3
  <2> QED BY <2>1, <2>2, <2>3
<1> QED BY <1>2, <1>3, <1>4, <1>5, <1>8

LEMMA MarkedShape ==
  ASSUME TypeInv, ListInv, DpbInv
  PROVE  /\ Marked \in DpbType /\ Marked.picList = dpb.picList
         /\ \A t \in Pictures : OnlyUnmarked(Pic(t), Marked.pic[t]) /\ (~Listed(t) => Marked.pic[t] = Pic(t))
         /\ \A t \in Pictures : Marked.pic[t].dpbReferenceMark =
              IF t \in dpbReferencePics THEN StaysMarked(Pic(t)) ELSE Pic(t).dpbReferenceMark
<1> DEFINE Mark(t) == IF t \in dpbReferencePics THEN StaysMarked(Pic(t)) ELSE Pic(t).dpbReferenceMark
           pics == [t \in Pictures |-> [Pic(t) EXCEPT !.dpbReferenceMark = Mark(t)]]
<1>1. dpb \in DpbType /\ dpb.pic \in [Pictures -> PictureType]
  BY DpbTypeFields DEF TypeInv
<1>2. Marked = [dpb EXCEPT !.pic = pics]
  <2>1. pics = [s \in Pictures |->
     [Pic(s) EXCEPT !.dpbReferenceMark = IF s \in dpbReferencePics THEN StaysMarked(Pic(s)) ELSE @]]
    OBVIOUS
  <2> QED BY <2>1 DEF Marked
<1>3. ASSUME NEW t \in Pictures
      PROVE  /\ pics[t] \in PictureType /\ OnlyUnmarked(Pic(t), pics[t])
             /\ (~Listed(t) => pics[t] = Pic(t)) /\ pics[t].dpbReferenceMark = Mark(t)
  <2>1. Pic(t) \in PictureType
    BY PicType
  <2>2. Mark(t) \in BOOLEAN
    <3>1. Pic(t).dpbReferenceMark \in BOOLEAN
      BY <2>1 DEF PictureType
    <3> QED BY <3>1 DEF StaysMarked
  <2>3. pics[t] = [Pic(t) EXCEPT !.dpbReferenceMark = Mark(t)]
    OBVIOUS
  <2>4. ~Listed(t) => Mark(t) = Pic(t).dpbReferenceMark
    BY DEF DpbInv
  <2> HIDE DEF Mark, pics
  <2>5. pics[t] \in PictureType /\ pics[t].dpbReferenceMark = Mark(t)
    BY <2>1, <2>2, <2>3 DEF PictureType
  <2>6. OnlyUnmarked(Pic(t), pics[t])
    BY <2>1, <2>2, <2>3 DEF PictureType, OnlyUnmarked, SameLife
  <2>7. ~Listed(t) => pics[t] = Pic(t)
    BY <2>1, <2>3, <2>4 DEF PictureType
  <2> QED BY <2>5, <2>6, <2>7
<1>4. pics \in [Pictures -> PictureType]
  BY <1>3
<1> HIDE DEF pics
<1>5. Marked \in DpbType /\ Marked.picList = dpb.picList /\ Marked.pic = pics
  BY ONLY <1>1, <1>2, <1>4, WithPics
<1> QED BY <1>3, <1>5

LEMMA NewPictureShape ==
  ASSUME DecLibAssumption, TypeInv, nextNal <= Len(stream), Unit.type # "EOS"
  PROVE  /\ NewPicture \in PictureType
         /\ NewPicture.au = nextNal /\ NewPicture.refs = {} /\ NewPicture.progress = init
         /\ ~NewPicture.wasLost /\ ~NewPicture.error /\ ~NewPicture.exceptionThrownOut
         /\ NewPicture.parseDone = "locked" /\ NewPicture.reconDone = "locked"
         /\ NewPicture.parseTask = "none" /\ NewPicture.reconTask = "none"
         /\ NewPicture.stillReferenced = NewPicture.dpbReferenceMark
         /\ NewPicture.stillReferenced \/ NewPicture.neededForOutput
<1>1. Unit \in AccessUnit /\ (Unit.isRef \/ Unit.output) /\ nextNal \in Int
  BY UnitFacts, StreamType
<1>2. /\ Unit.type \in {"IDR", "CRA", "RASL", "TRAIL"} /\ Unit.poc \in Int
      /\ Unit.isRef \in BOOLEAN /\ Unit.output \in BOOLEAN
  BY <1>1 DEF AccessUnit
<1> DEFINE ref == Unit.isRef
           out == Unit.output
           type == Unit.type
           poc == Unit.poc
<1>3. NewPicture = [Fresh EXCEPT !.au = nextNal, !.type = type, !.poc = poc,
                !.dpbReferenceMark = ref, !.stillReferenced = ref, !.neededForOutput = out]
  BY DEF NewPicture
<1>4. type \in {"IDR", "CRA", "RASL", "TRAIL"} /\ poc \in Int /\ ref \in BOOLEAN /\ out \in BOOLEAN /\ (ref \/ out)
  BY <1>1, <1>2
<1> HIDE DEF ref, out, type, poc
<1>5. NewPicture \in PictureType
  BY <1>1, <1>3, <1>4, FreshType DEF PictureType
<1>6. /\ NewPicture.au = nextNal /\ NewPicture.refs = {} /\ NewPicture.progress = init
      /\ ~NewPicture.wasLost /\ ~NewPicture.error /\ ~NewPicture.exceptionThrownOut
      /\ NewPicture.parseDone = "locked" /\ NewPicture.reconDone = "locked"
      /\ NewPicture.parseTask = "none" /\ NewPicture.reconTask = "none"
  BY <1>3 DEF Fresh
<1>7. /\ NewPicture.stillReferenced = ref /\ NewPicture.dpbReferenceMark = ref
      /\ NewPicture.neededForOutput = out
  BY <1>3 DEF Fresh
<1> QED BY <1>4, <1>5, <1>6, <1>7

(* The reference pictures that are left are marked, so they are kept.      *)
LEMMA LeftIsKept ==
  ASSUME TypeInv, DpbInv, NEW s \in RefPicsLeft
  PROVE  /\ s \in Pictures /\ s \in dpbReferencePics /\ Listed(s)
         /\ Pic(s).dpbReferenceMark /\ Pic(s).stillReferenced /\ StaysMarked(Pic(s))
<1>1. s \in dpbReferencePics /\ StaysMarked(Pic(s)) /\ Pic(s).dpbReferenceMark
  BY DEF RefPicsLeft, StaysMarked
<1> QED BY <1>1 DEF DpbInv, TypeInv

(* The marks after a new picture p was put into the reference buffer.      *)
LEMMA MarksTaken ==
  ASSUME DpbAssumption, TypeInv, RunInv, NEW s, NEW p, Takes(Marked, s, p),
         dpbReferencePics' = RefPicsLeft \cup {s}, p.stillReferenced = p.dpbReferenceMark,
         p.dpbReferenceMark \/ Kept(s)'
  PROVE  DpbInv'
<1>1. /\ s \in Pictures /\ dpb'.pic[s] = p
      /\ \A t \in Pictures : t # s => dpb'.pic[t] = Marked.pic[t] /\ OnlyUnmarked(Pic(t), dpb'.pic[t])
      /\ \A t \in Pictures : Listed(t)' <=> Listed(t) \/ t = s
  BY TakesShape DEF RunInv
<1>2. \A t \in Pictures : Marked.pic[t].dpbReferenceMark =
              IF t \in dpbReferencePics THEN StaysMarked(Pic(t)) ELSE Pic(t).dpbReferenceMark
  BY MarkedShape DEF RunInv
<1>3. \A t \in RefPicsLeft : t \in Pictures /\ t \in dpbReferencePics /\ Listed(t) /\ StaysMarked(Pic(t))
  BY LeftIsKept DEF RunInv
<1>4. \A t \in dpbReferencePics' : Listed(t)'
  BY <1>1, <1>3
<1>5. ASSUME NEW t \in Pictures, dpb'.pic[t].dpbReferenceMark
      PROVE  t \in dpbReferencePics' /\ dpb'.pic[t].stillReferenced
  <2>1. CASE t = s
    BY <1>1, <1>5, <2>1
  <2>2. CASE t # s
    <3>1. Marked.pic[t].dpbReferenceMark /\ dpb'.pic[t].stillReferenced = Pic(t).stillReferenced
      BY <1>1, <1>5, <2>2 DEF OnlyUnmarked
    <3>2. t \in dpbReferencePics
      BY <1>2, <3>1 DEF RunInv, DpbInv
    <3>3. StaysMarked(Pic(t)) /\ t \in RefPicsLeft
      BY <1>2, <3>1, <3>2 DEF RefPicsLeft
    <3>4. Pic(t).stillReferenced
      BY <3>3, LeftIsKept DEF RunInv
    <3> QED BY <3>1, <3>3, <3>4
  <2> QED BY <2>1, <2>2
<1>6. ASSUME NEW t \in dpbReferencePics' PROVE dpb'.pic[t].dpbReferenceMark \/ Kept(t)'
  <2>1. CASE t = s
    BY <1>1, <2>1
  <2>2. CASE t # s
    <3>1. t \in RefPicsLeft
      BY <2>2
    <3> QED BY <1>1, <1>2, <1>3, <2>2, <3>1
  <2> QED BY <2>1, <2>2
<1> QED BY <1>4, <1>5, <1>6 DEF DpbInv, Pic

LEMMA ParsesPictureFacts ==
  ASSUME DpbAssumption, DecLibAssumption, TypeInv, RunInv, ParsesPicture, NEW p \in PictureType,
         dpb' = [NewBuffer EXCEPT !.pic[NewPic] = p]
  PROVE  /\ Takes(Marked, NewPic, p) /\ NewPic \in Pictures /\ ~ReusedInDpb /\ main.pc \notin Hands
         /\ nextNal' = nextNal + 1 /\ nextNal <= Len(stream) /\ nextNal \in Nat /\ nextNal >= 1
         /\ Unit.type # "EOS" /\ main.call = "decode" /\ app.state = "decode"
         /\ dpbReferencePics' = RefPicsLeft \cup {NewPic}
         /\ dpb' \in DpbType /\ dpbReferencePics' \in SUBSET Pictures
         /\ dpb'.pic[NewPic] = p
<1>1. main.pc = "refs" /\ HasRoom(NewBuffer) /\ nextNal' = nextNal + 1
      /\ dpbReferencePics' = RefPicsLeft \cup {NewPic}
  BY DEF ParsesPicture
<1>2. Takes(Marked, NewPic, p)
  BY <1>1, MarkedShape DEF Takes, RunInv, NewBuffer, NewPic
<1>3. NewPic \in Pictures /\ dpb' \in DpbType /\ dpb'.pic[NewPic] = p
  BY <1>2, TakesShape DEF RunInv
<1>4. ~ReusedInDpb
  <2>1. Listed(NewPic) => ~Pic(NewPic).stillReferenced
    BY <1>2, TakesFree
  <2> QED BY <2>1, LeftIsKept DEF RunInv, ReusedInDpb
<1>5. dpbReferencePics' \in SUBSET Pictures
  BY <1>1, <1>3, LeftIsKept DEF RunInv
<1>6. nextNal <= Len(stream) /\ Unit.type # "EOS" /\ main.call = "decode" /\ app.state = "decode"
  BY <1>1 DEF RunInv, CallInv
<1> QED BY <1>1, <1>2, <1>3, <1>4, <1>5, <1>6, StreamType DEF Hands

(* A picture that was just parsed waits, and its parse task runs.          *)
JustParsed(p) ==
  /\ p.au > 0 /\ ~p.wasLost /\ ~p.exceptionThrownOut /\ ~p.error
  /\ p.progress = parsing /\ p.parseTask = "runs" /\ p.reconTask = "none"
  /\ p.parseDone = "locked" /\ p.reconDone = "locked"

LEMMA JustParsedAgrees ==
  ASSUME NEW s, JustParsed(Pic(s)'), thrown'[Pic(s)'.au] = 0, Queued(s)',
         ~InHand(s)', ~InObject(s)', ~TakenOut(s)', ~Unstarted(s)'
  PROVE  PictureInv(s)' /\ LeftInv(s)'
<1> DEFINE p == Pic(s)'
<1>1. JustParsed(p) /\ thrown'[p.au] = 0
  OBVIOUS
<1>2. Owned(s)'
  BY DEF Owned
<1> HIDE DEF p
<1>3. TasksAgree(p) /\ OwnedAgrees(p, 0) /\ WaitsAgrees(p)
  BY <1>1 DEF JustParsed, TasksAgree, OwnedAgrees, WaitsAgrees
<1>4. TasksAgree(Pic(s)') /\ OwnedAgrees(Pic(s)', thrown'[Pic(s)'.au]) /\ WaitsAgrees(Pic(s)')
  BY <1>1, <1>3 DEF p
<1> QED BY <1>2, <1>4 DEF PictureInv, LeftInv

LEMMA LeftAloneAgrees ==
  ASSUME NEW s, TasksAgree(Pic(s)'), LeftAgrees(Pic(s)', thrown'[Pic(s)'.au]),
         ~Queued(s)', ~InHand(s)', ~InObject(s)', ~TakenOut(s)', ~Unstarted(s)'
  PROVE  PictureInv(s)' /\ LeftInv(s)'
BY DEF PictureInv, LeftInv, Owned

LEMMA ParseKeeps ==
  ASSUME DpbAssumption, DecLibAssumption, IInv, check = "none", Parse
  PROVE  IInv' /\ TakesPicture(parsing) /\ check' = "none"
<1> DEFINE refs == {s \in RefPicsLeft : Pic(s).poc \in Unit.refs}
<1>0. PICK s, p : s = NewPic /\ p = [NewPicture EXCEPT !.refs = refs, !.progress = parsing, !.parseTask = "runs"]
  OBVIOUS
<1>1. TypeInv /\ RunInv
  BY DEF IInv
<1>2. /\ ParsesPicture /\ dpb' = [NewBuffer EXCEPT !.pic[s] = p]
      /\ parseFrameList' = Append(parseFrameList, s)
      /\ stream' = stream /\ tryContinue' = tryContinue /\ pocRandomAccess' = pocRandomAccess
      /\ decLibRecon' = decLibRecon /\ errors' = errors
  BY <1>0 DEF Parse, ParsesPicture
<1>3. nextNal <= Len(stream) /\ Unit.type # "EOS"
  BY <1>1 DEF Parse, ParsesPicture, RunInv, CallInv
<1>4. \A r \in refs : r \in Pictures /\ Listed(r) /\ Pic(r).stillReferenced
  BY <1>1, LeftIsKept DEF RunInv
<1>5. /\ p \in PictureType /\ p.au = nextNal /\ p.refs = refs /\ JustParsed(p)
      /\ p.stillReferenced = p.dpbReferenceMark /\ (p.stillReferenced \/ p.neededForOutput)
  <2>1. refs \in SUBSET Pictures
    BY <1>4
  <2>2. NewPicture \in PictureType
    BY <1>1, <1>3, NewPictureShape
  <2> HIDE DEF refs
  <2>3. p \in PictureType
    BY <1>0, <2>1, <2>2, ProgressValues DEF PictureType
  <2>4. /\ p.au = NewPicture.au /\ p.refs = refs /\ p.progress = parsing /\ p.parseTask = "runs"
        /\ p.wasLost = NewPicture.wasLost /\ p.error = NewPicture.error
        /\ p.exceptionThrownOut = NewPicture.exceptionThrownOut
        /\ p.parseDone = NewPicture.parseDone /\ p.reconDone = NewPicture.reconDone
        /\ p.reconTask = NewPicture.reconTask /\ p.stillReferenced = NewPicture.stillReferenced
        /\ p.dpbReferenceMark = NewPicture.dpbReferenceMark /\ p.neededForOutput = NewPicture.neededForOutput
    BY <1>0, <2>2 DEF PictureType
  <2>5. p.au = nextNal /\ nextNal > 0
    BY SMTT(30), <1>1, <1>3, <2>4, NewPictureShape, StreamType
  <2>6. JustParsed(p)
    BY <1>1, <1>3, <2>4, <2>5, NewPictureShape DEF JustParsed
  <2>7. p.stillReferenced = p.dpbReferenceMark /\ (p.stillReferenced \/ p.neededForOutput)
    BY <1>1, <1>3, <2>4, NewPictureShape
  <2> QED BY <2>3, <2>4, <2>5, <2>6, <2>7
<1> HIDE DEF refs
<1>6. /\ Takes(Marked, s, p) /\ s \in Pictures /\ ~ReusedInDpb /\ main.pc \notin Hands
      /\ nextNal' = nextNal + 1 /\ nextNal \in Nat /\ nextNal >= 1
      /\ main.call = "decode" /\ app.state = "decode"
      /\ dpbReferencePics' = RefPicsLeft \cup {s}
      /\ dpb' \in DpbType /\ dpbReferencePics' \in SUBSET Pictures /\ dpb'.pic[s] = p
  BY <1>1, <1>2, <1>5, <1>0, ParsesPictureFacts
<1>7. /\ main' \in MainType /\ main'.pc \in {"app", "choose"} /\ main'.call = "decode"
      /\ app' = app /\ output' = output /\ thrown' = thrown /\ check' = check
  <2>1. /\ main' = [Idle("decode") EXCEPT !.pc = IF Len(parseFrameList) + 1 > ParseFrameDelay THEN "choose" ELSE @]
        /\ app' = app /\ output' = output /\ thrown' = thrown /\ check' = check
    BY <1>6 DEF Parse, appVars
  <2>2. CASE Len(parseFrameList) + 1 > ParseFrameDelay
    <3>1. main' = [Idle("decode") EXCEPT !.pc = "choose"]
      BY <2>1, <2>2
    <3> QED BY <2>1, <3>1, IdleType
  <2>3. CASE ~(Len(parseFrameList) + 1 > ParseFrameDelay)
    <3>1. main' = Idle("decode")
      BY <2>1, <2>3 DEF Idle
    <3> QED BY <2>1, <3>1, IdleType
  <2> QED BY <2>2, <2>3
<1>8. Added(s) /\ main'.pc \notin Hands
  BY <1>2, <1>7 DEF Added, Hands
<1>9. ThrownTyped /\ nextNal' \in Nat /\ nextNal <= nextNal'
  BY <1>1, <1>2, <1>6, <1>7, ThrownUnchanged DEF RunInv
<1>10. parseFrameList' \in Seq(Pictures) /\ parseFrameList' # parseFrameList
  <2>1. parseFrameList \in Seq(Pictures) /\ Len(parseFrameList) \in Nat
    BY <1>1, LenProperties DEF TypeInv
  <2>2. parseFrameList' \in Seq(Pictures) /\ Len(parseFrameList') = Len(parseFrameList) + 1
    BY <1>2, <1>6, <2>1, AppendProperties
  <2> QED BY <2>1, <2>2
<1>11. Listed(s)' /\ ~InHand(s)' /\ ~InObject(s)' /\ ~TakenOut(s)' /\ ~Unstarted(s)' /\ Queued(s)'
  BY <1>1, <1>2, <1>6, <1>8, <1>10, TakesKeepsPlaces
<1>12. PictureInv(s)' /\ LeftInv(s)'
  <2>1. Pic(s)' = p
    BY <1>6 DEF Pic
  <2>2. thrown'[p.au] = 0
    BY <1>1, <1>3, <1>5, <1>6, <1>7, StreamType DEF RunInv, AuInv
  <2> QED BY <1>5, <1>11, <2>1, <2>2, JustParsedAgrees
<1>13. Joins(s, p)
  BY <1>4, <1>5, <1>6, <1>10 DEF Joins, JustParsed
<1>14. ListInv' /\ PlaceInv' /\ LifeInv' /\ AuInv' /\ UseInv' /\ RefInv'
  BY <1>1, <1>2, <1>6, <1>8, <1>9, <1>12, <1>13, TakesKeeps
<1>15. DpbInv'
  <2>1. p.dpbReferenceMark \/ Kept(s)'
    BY <1>5, <1>6, <1>11 DEF Kept, Pic
  <2> QED BY <1>1, <1>5, <1>6, <2>1, MarksTaken
<1>16. CallInv' /\ DrainInv'
  BY <1>6, <1>7 DEF CallInv, DrainInv
<1>17. TypeInv'
  <2>1. nextNal' \in 1..(Len(stream') + 1)
    BY <1>1, <1>2, <1>3, <1>6, StreamType
  <2> QED BY <1>1, <1>2, <1>6, <1>7, <1>10, <2>1 DEF TypeInv
<1>18. TakesPicture(parsing)
  <2>1. p.progress >= parsing
    BY <1>5 DEF JustParsed
  <2> QED BY <1>6, <2>1 DEF TakesPicture
<1> QED BY <1>7, <1>14, <1>15, <1>16, <1>17, <1>18 DEF IInv, RunInv

LEMMA ParseBrokenKeeps ==
  ASSUME DpbAssumption, DecLibAssumption, IInv, check = "none", ParseBroken
  PROVE  IInv' /\ TakesPicture(init) /\ check' = "none"
<1>0. PICK s, p : s = NewPic /\ p = [NewPicture EXCEPT !.error = TRUE, !.exceptionThrownOut = TRUE]
  OBVIOUS
<1>1. TypeInv /\ RunInv
  BY DEF IInv
<1>2. /\ ParsesPicture /\ dpb' = [NewBuffer EXCEPT !.pic[s] = p]
      /\ parseFrameList' = parseFrameList
      /\ stream' = stream /\ tryContinue' = tryContinue /\ pocRandomAccess' = pocRandomAccess
      /\ decLibRecon' = decLibRecon /\ errors' = errors
  BY <1>0 DEF ParseBroken, ParsesPicture
<1>3. nextNal <= Len(stream) /\ Unit.type # "EOS"
  BY <1>1 DEF ParseBroken, ParsesPicture, RunInv, CallInv
<1>4. /\ p \in PictureType /\ p.au = nextNal /\ nextNal > 0 /\ p.refs = {} /\ p.progress = init
      /\ p.error /\ ~p.wasLost /\ p.parseTask = "none" /\ p.reconTask = "none"
      /\ p.parseDone = "locked" /\ p.reconDone = "locked"
      /\ p.stillReferenced = p.dpbReferenceMark /\ (p.stillReferenced \/ p.neededForOutput)
  <2>1. NewPicture \in PictureType
    BY <1>1, <1>3, NewPictureShape
  <2>2. p \in PictureType
    BY <1>0, <2>1 DEF PictureType
  <2>3. /\ p.au = NewPicture.au /\ p.refs = NewPicture.refs /\ p.progress = NewPicture.progress
        /\ p.error /\ p.wasLost = NewPicture.wasLost
        /\ p.parseTask = NewPicture.parseTask /\ p.reconTask = NewPicture.reconTask
        /\ p.parseDone = NewPicture.parseDone /\ p.reconDone = NewPicture.reconDone
        /\ p.stillReferenced = NewPicture.stillReferenced
        /\ p.dpbReferenceMark = NewPicture.dpbReferenceMark /\ p.neededForOutput = NewPicture.neededForOutput
    BY <1>0, <2>1 DEF PictureType
  <2> QED BY SMTT(30), <1>1, <1>3, <2>2, <2>3, NewPictureShape, StreamType
<1>5. /\ Takes(Marked, s, p) /\ s \in Pictures /\ ~ReusedInDpb /\ main.pc \notin Hands
      /\ nextNal' = nextNal + 1 /\ nextNal \in Nat /\ nextNal >= 1
      /\ main.call = "decode" /\ app.state = "decode"
      /\ dpbReferencePics' = RefPicsLeft \cup {s}
      /\ dpb' \in DpbType /\ dpbReferencePics' \in SUBSET Pictures /\ dpb'.pic[s] = p
  BY <1>1, <1>2, <1>4, <1>0, ParsesPictureFacts
<1>6. ThrowTo(nextNal, "decode") /\ check' = check
  BY <1>5 DEF ParseBroken
<1>7. /\ main' \in MainType /\ main'.pc = "app" /\ main'.call = "decode"
      /\ app' \in AppType /\ app'.state \in {app.state, "stopped"}
      /\ thrown' \in [1..Len(stream) -> Nat] /\ output' = output
      /\ \A b \in 1..Len(stream) :
           thrown'[b] = IF b = nextNal /\ nextNal > 0 THEN thrown[b] + 1 ELSE thrown[b]
  BY <1>1, <1>6, ThrowType
<1>8. Added(s) /\ main'.pc \notin Hands
  BY <1>2, <1>7 DEF Added, Hands
<1>9. ThrownTyped /\ nextNal' \in Nat /\ nextNal <= nextNal'
  BY <1>1, <1>2, <1>5, <1>7, ThrownAtParse DEF RunInv
<1>10. Listed(s)' /\ ~InHand(s)' /\ ~InObject(s)' /\ ~TakenOut(s)' /\ ~Unstarted(s)' /\ ~Queued(s)'
  BY <1>1, <1>2, <1>5, <1>8, TakesKeepsPlaces
<1>11. PictureInv(s)' /\ LeftInv(s)'
  <2>1. Pic(s)' = p
    BY <1>5 DEF Pic
  <2>2. thrown'[nextNal] = 1
    <3>1. nextNal \in 1..Len(stream) /\ thrown[nextNal] = 0
      BY <1>1, <1>3, <1>5, StreamType DEF RunInv, AuInv
    <3> QED BY <1>7, <3>1
  <2>3. TasksAgree(p)
    BY <1>4 DEF TasksAgree
  <2>4. LeftAgrees(p, 1)
    BY <1>4 DEF LeftAgrees, NoHeader
  <2>5. TasksAgree(Pic(s)') /\ LeftAgrees(Pic(s)', thrown'[Pic(s)'.au])
    BY <1>4, <2>1, <2>2, <2>3, <2>4
  <2> QED BY <1>10, <2>5, LeftAloneAgrees
<1>12. Joins(s, p)
  BY <1>4, <1>5 DEF Joins
<1>13. ListInv' /\ PlaceInv' /\ LifeInv' /\ AuInv' /\ UseInv' /\ RefInv'
  BY <1>1, <1>2, <1>5, <1>8, <1>9, <1>11, <1>12, TakesKeeps
<1>14. DpbInv'
  <2>1. p.dpbReferenceMark \/ Kept(s)'
    BY <1>4, <1>5, <1>7 DEF Kept, Pic
  <2> QED BY <1>1, <1>4, <1>5, <2>1, MarksTaken
<1>15. CallInv' /\ DrainInv'
  BY <1>5, <1>7 DEF CallInv, DrainInv
<1>16. TypeInv'
  <2>1. nextNal' \in 1..(Len(stream') + 1)
    BY SMTT(30), <1>1, <1>2, <1>3, <1>5, StreamType
  <2> QED BY <1>1, <1>2, <1>5, <1>7, <2>1 DEF TypeInv
<1>17. TakesPicture(init)
  <2>1. p.progress >= init
    BY <1>4
  <2> QED BY <1>5, <2>1 DEF TakesPicture
<1> QED BY <1>6, <1>13, <1>14, <1>15, <1>16, <1>17 DEF IInv, RunInv

LEMMA GeneratedShape ==
  ASSUME DecLibAssumption, TypeInv, NEW poc \in Int
  PROVE  /\ Generated(poc) \in PictureType /\ Generated(poc).au = -nextNal /\ Generated(poc).refs = {}
         /\ Generated(poc).progress = reconstructed /\ Generated(poc).wasLost /\ ~Generated(poc).error
         /\ ~Generated(poc).neededForOutput /\ Generated(poc).dpbReferenceMark /\ Generated(poc).stillReferenced
         /\ Generated(poc).parseTask = "none" /\ Generated(poc).reconTask = "none"
         /\ Generated(poc).parseDone = "unlocked" /\ Generated(poc).reconDone = "unlocked"
<1>1. -nextNal \in Int
  BY StreamType
<1>2. Generated(poc) \in PictureType
  BY <1>1, FreshType, ProgressValues DEF Generated, PictureType, Barrier
<1> QED BY <1>2 DEF Generated, Fresh

LEMMA GenerateRefKeeps ==
  ASSUME DpbAssumption, DecLibAssumption, IInv, check = "none", GenerateRef
  PROVE  IInv' /\ TakesPicture(parsing) /\ check' = "none"
<1>0. PICK s : s = Last(GetNewPicBuffer(dpb).picList)
  OBVIOUS
<1>1. TypeInv /\ RunInv
  BY DEF IInv
<1>2. PICK poc \in Missing : dpb' = [GetNewPicBuffer(dpb) EXCEPT !.pic[s] = Generated(poc)]
  BY <1>0 DEF GenerateRef
<1>3. /\ stream' = stream /\ tryContinue' = tryContinue /\ nextNal' = nextNal
      /\ pocRandomAccess' = pocRandomAccess /\ parseFrameList' = parseFrameList
      /\ decLibRecon' = decLibRecon /\ errors' = errors
      /\ main.pc = "refs" /\ HasRoom(GetNewPicBuffer(dpb))
      /\ dpbReferencePics' = dpbReferencePics \cup {s}
  BY <1>0 DEF GenerateRef
<1>4. /\ nextNal <= Len(stream) /\ Unit.type # "EOS" /\ pocRandomAccess # NoPoc
      /\ main.call = "decode" /\ app.state = "decode"
  BY <1>1, <1>3 DEF RunInv, CallInv
<1>5. poc \in Int /\ Unit.refs # {}
  <2>1. poc \in Unit.refs
    BY <1>2 DEF Missing
  <2>2. Unit \in AccessUnit
    BY <1>1, <1>4, UnitFacts
  <2> QED BY <2>1, <2>2 DEF AccessUnit
<1>p. PICK p : p = Generated(poc)
  OBVIOUS
<1>6. /\ p \in PictureType /\ p.au = -nextNal /\ p.refs = {} /\ p.progress = reconstructed /\ p.wasLost
      /\ ~p.error /\ ~p.neededForOutput /\ p.dpbReferenceMark /\ p.stillReferenced
      /\ p.parseTask = "none" /\ p.reconTask = "none"
      /\ p.parseDone = "unlocked" /\ p.reconDone = "unlocked"
  BY <1>1, <1>p, <1>5, GeneratedShape
<1>7. -nextNal < 0 /\ nextNal \in Nat /\ -nextNal < nextNal
  BY <1>1, StreamType
<1>8. Takes(dpb, s, p)
  <2>1. \A t \in Pictures : OnlyUnmarked(Pic(t), dpb.pic[t]) /\ (~Listed(t) => dpb.pic[t] = Pic(t))
    BY SameIsSame DEF Same, OnlyUnmarked, Pic
  <2> QED BY <1>0, <1>1, <1>p, <1>2, <1>3, <1>6, <2>1 DEF Takes, TypeInv
<1>9. /\ s \in Pictures /\ dpb' \in DpbType /\ dpb'.pic[s] = p
      /\ \A t \in Pictures : t # s => dpb'.pic[t] = dpb.pic[t]
      /\ \A t \in Pictures : Listed(t)' <=> Listed(t) \/ t = s
  BY <1>1, <1>8, TakesShape DEF RunInv
<1>10. InSequence /\ \A t \in dpbReferencePics : Pic(t).dpbReferenceMark \/ Kept(t)
  <2>1. InSequence
    BY <1>4, <1>5 DEF InSequence
  <2> QED BY <1>1, <2>1 DEF RunInv, DpbInv
<1>11. s \notin dpbReferencePics
  <2> SUFFICES ASSUME s \in dpbReferencePics PROVE FALSE
    OBVIOUS
  <2>1. Listed(s) /\ ~Pic(s).stillReferenced /\ ~Pic(s).neededForOutput
    BY <1>1, <1>8, TakesFree DEF RunInv, DpbInv
  <2>2. Pic(s).dpbReferenceMark \/ Kept(s)
    BY <1>10
  <2> QED BY <1>1, <1>9, <2>1, <2>2 DEF RunInv, DpbInv, Kept
<1>12. main' = main /\ app' = app /\ output' = output /\ thrown' = thrown /\ check' = check
  BY <1>0, <1>11 DEF GenerateRef, appVars
<1>13. Added(s) /\ main.pc \notin Hands /\ main'.pc \notin Hands
  BY <1>3, <1>12 DEF Added, Hands
<1>14. ThrownTyped /\ nextNal' \in Nat /\ nextNal <= nextNal'
  BY <1>1, <1>3, <1>12, ThrownUnchanged DEF RunInv
<1>15. Listed(s)' /\ ~InHand(s)' /\ ~InObject(s)' /\ ~TakenOut(s)' /\ ~Unstarted(s)' /\ ~Queued(s)'
  BY <1>1, <1>3, <1>8, <1>13, TakesKeepsPlaces
<1>16. PictureInv(s)' /\ LeftInv(s)'
  <2>1. Pic(s)' = p
    BY <1>9 DEF Pic
  <2>2. TasksAgree(p)
    BY <1>6 DEF TasksAgree
  <2>3. LeftAgrees(p, thrown'[p.au])
    BY <1>6, <1>7 DEF LeftAgrees, LostOne
  <2> QED BY <1>15, <2>1, <2>2, <2>3, LeftAloneAgrees
<1>17. Joins(s, p)
  BY <1>3, <1>6, <1>7 DEF Joins
<1>18. ListInv' /\ PlaceInv' /\ LifeInv' /\ AuInv' /\ UseInv' /\ RefInv'
  BY <1>1, <1>3, <1>8, <1>13, <1>14, <1>16, <1>17, TakesKeeps
<1>19. DpbInv'
  <2>1. \A t \in dpbReferencePics' : Listed(t)'
    BY <1>1, <1>3, <1>9 DEF RunInv, DpbInv, TypeInv
  <2>2. ASSUME NEW t \in Pictures, dpb'.pic[t].dpbReferenceMark
        PROVE  t \in dpbReferencePics' /\ dpb'.pic[t].stillReferenced
    <3>1. CASE t = s
      BY <1>3, <1>6, <1>9, <3>1
    <3>2. CASE t # s
      BY <1>1, <1>3, <1>9, <2>2, <3>2 DEF RunInv, DpbInv, Pic
    <3> QED BY <3>1, <3>2
  <2>3. ASSUME NEW t \in dpbReferencePics' PROVE dpb'.pic[t].dpbReferenceMark \/ Kept(t)'
    <3>1. CASE t = s
      BY <1>6, <1>9, <3>1
    <3>2. CASE t # s
      <4>1. t \in dpbReferencePics /\ t \in Pictures
        BY <1>1, <1>3, <3>2 DEF TypeInv
      <4>2. dpb'.pic[t] = dpb.pic[t]
        BY <1>9, <3>2, <4>1
      <4>3. Pic(t).dpbReferenceMark \/ Pic(t).neededForOutput
        BY <1>10, <4>1 DEF Kept
      <4> QED BY <1>3, <1>12, <4>2, <4>3 DEF Kept, Pic
    <3> QED BY <3>1, <3>2
  <2> QED BY <2>1, <2>2, <2>3 DEF DpbInv, Pic
<1>20. CallInv' /\ DrainInv'
  BY <1>1, <1>3, <1>4, <1>12 DEF RunInv, CallInv, DrainInv, Unit
<1>21. TypeInv'
  BY <1>1, <1>3, <1>9, <1>12 DEF TypeInv
<1>22. TakesPicture(parsing)
  <2>1. p.progress >= parsing
    BY <1>6
  <2> QED BY <1>8, <2>1 DEF TakesPicture
<1> QED BY <1>12, <1>18, <1>19, <1>20, <1>21, <1>22 DEF IInv, RunInv

-----------------------------------------------------------------------------
(* The tasks: what each does to its picture.                               *)
ParseStep(p, q) ==
  \/ /\ p.parseTask = "runs"
     /\ q = [p EXCEPT !.parseTask = "none", !.parseDone = "unlocked",
                      !.progress = IF p.progress = parsing THEN parsed ELSE p.progress]
  \/ p.parseTask = "runs" /\ q = [p EXCEPT !.parseTask = "throws", !.error = TRUE]
  \/ p.parseTask = "throws" /\ q = [p EXCEPT !.parseTask = "none", !.parseDone = "failed"]

ReconStep(p, q) ==
  \/ /\ p.reconTask = "runs" /\ p.parseDone = "unlocked"
     /\ q = [p EXCEPT !.reconTask = "ends", !.progress = reconstructed]
  \/ p.reconTask = "ends" /\ q = [p EXCEPT !.reconTask = "none", !.reconDone = "unlocked"]
  \/ p.reconTask = "runs" /\ q = [p EXCEPT !.reconTask = "none", !.reconDone = "failed"]

TaskStep(p, q) == ParseStep(p, q) \/ ReconStep(p, q)

LEMMA TaskStepType ==
  ASSUME NEW p \in PictureType, NEW q, TaskStep(p, q)
  PROVE  /\ q \in PictureType
         /\ q.au = p.au /\ q.refs = p.refs /\ q.wasLost = p.wasLost
         /\ q.dpbReferenceMark = p.dpbReferenceMark /\ q.stillReferenced = p.stillReferenced
         /\ q.neededForOutput = p.neededForOutput /\ q.lockedByApplication = p.lockedByApplication
         /\ q.exceptionThrownOut = p.exceptionThrownOut
         /\ p.error => q.error
<1>1. CASE p.parseTask = "runs" /\ q = [p EXCEPT !.parseTask = "none", !.parseDone = "unlocked",
                      !.progress = IF p.progress = parsing THEN parsed ELSE p.progress]
  <2> DEFINE n == IF p.progress = parsing THEN parsed ELSE p.progress
  <2>1. n \in Progress
    BY ProgressValues DEF PictureType
  <2>2. q = [p EXCEPT !.parseTask = "none", !.parseDone = "unlocked", !.progress = n]
    BY <1>1
  <2> HIDE DEF n
  <2> QED BY <2>1, <2>2 DEF PictureType, Barrier
<1>2. CASE q = [p EXCEPT !.parseTask = "throws", !.error = TRUE]
  BY <1>2 DEF PictureType
<1>3. CASE q = [p EXCEPT !.parseTask = "none", !.parseDone = "failed"]
  BY <1>3 DEF PictureType, Barrier
<1>4. CASE q = [p EXCEPT !.reconTask = "ends", !.progress = reconstructed]
  BY <1>4, ProgressValues DEF PictureType
<1>5. CASE q = [p EXCEPT !.reconTask = "none", !.reconDone = "unlocked"]
  BY <1>5 DEF PictureType, Barrier
<1>6. CASE q = [p EXCEPT !.reconTask = "none", !.reconDone = "failed"]
  BY <1>6 DEF PictureType, Barrier
<1> QED BY <1>1, <1>2, <1>3, <1>4, <1>5, <1>6 DEF TaskStep, ParseStep, ReconStep

(* A task of a picture that somebody has leaves it in order.               *)
LEMMA ParseStepAgrees ==
  ASSUME NEW p \in PictureType, NEW q, ParseStep(p, q), NEW times, TasksAgree(p), OwnedAgrees(p, times)
  PROVE  /\ TasksAgree(q) /\ OwnedAgrees(q, times)
         /\ WaitsAgrees(p) => WaitsAgrees(q)
         /\ ObjectAgrees(p) => ObjectAgrees(q)
         /\ ~TakenOutAgrees(p)
         /\ p.parseDone # "failed"
         /\ p.progress <= q.progress /\ (p.progress = reconstructing => q.progress = reconstructing)
         /\ q.reconTask = p.reconTask /\ q.reconDone = p.reconDone
<1>1. p.progress \in Int /\ p.parseDone = "locked" /\ p.progress \in {parsing, reconstructing}
  BY DEF PictureType, Progress, ParseStep, TasksAgree
<1>2. CASE p.parseTask = "runs" /\ q = [p EXCEPT !.parseTask = "none", !.parseDone = "unlocked",
                      !.progress = IF p.progress = parsing THEN parsed ELSE p.progress]
  <2>1. /\ q.parseTask = "none" /\ q.parseDone = "unlocked"
        /\ q.progress = IF p.progress = parsing THEN parsed ELSE p.progress
        /\ q.au = p.au /\ q.wasLost = p.wasLost /\ q.exceptionThrownOut = p.exceptionThrownOut
        /\ q.error = p.error /\ q.reconTask = p.reconTask /\ q.reconDone = p.reconDone
    BY <1>2 DEF PictureType
  <2>2. /\ q.progress \in {parsed, reconstructing} /\ p.progress <= q.progress
        /\ (p.progress = reconstructing => q.progress = reconstructing)
        /\ (p.progress = parsing => q.progress = parsed)
    BY <1>1, <2>1
  <2> QED BY <1>1, <1>2, <2>1, <2>2 DEF TasksAgree, OwnedAgrees, WaitsAgrees, ObjectAgrees, TakenOutAgrees
<1>3. CASE p.parseTask = "runs" /\ q = [p EXCEPT !.parseTask = "throws", !.error = TRUE]
  <2>1. /\ q.parseTask = "throws" /\ q.parseDone = p.parseDone /\ q.progress = p.progress
        /\ q.au = p.au /\ q.wasLost = p.wasLost /\ q.exceptionThrownOut = p.exceptionThrownOut
        /\ q.error /\ q.reconTask = p.reconTask /\ q.reconDone = p.reconDone
    BY <1>3 DEF PictureType
  <2> QED BY <1>1, <1>3, <2>1 DEF TasksAgree, OwnedAgrees, WaitsAgrees, ObjectAgrees, TakenOutAgrees
<1>4. CASE p.parseTask = "throws" /\ q = [p EXCEPT !.parseTask = "none", !.parseDone = "failed"]
  <2>1. /\ q.parseTask = "none" /\ q.parseDone = "failed" /\ q.progress = p.progress
        /\ q.au = p.au /\ q.wasLost = p.wasLost /\ q.exceptionThrownOut = p.exceptionThrownOut
        /\ q.error = p.error /\ q.reconTask = p.reconTask /\ q.reconDone = p.reconDone
    BY <1>4 DEF PictureType
  <2> QED BY <1>1, <1>4, <2>1 DEF TasksAgree, OwnedAgrees, WaitsAgrees, ObjectAgrees, TakenOutAgrees
<1> QED BY <1>2, <1>3, <1>4 DEF ParseStep

LEMMA ReconStepAgrees ==
  ASSUME NEW p \in PictureType, NEW q, ReconStep(p, q), NEW times, TasksAgree(p), OwnedAgrees(p, times)
  PROVE  /\ TasksAgree(q) /\ OwnedAgrees(q, times)
         /\ ObjectAgrees(p) => ObjectAgrees(q)
         /\ ~WaitsAgrees(p) /\ ~TakenOutAgrees(p)
         /\ p.progress <= q.progress
         /\ p.reconTask # "none" /\ ~(q.reconTask = "none" /\ q.reconDone = "locked")
<1>1. p.progress \in Int /\ p.reconDone = "locked" /\ p.progress \in {reconstructing, reconstructed}
  BY DEF PictureType, Progress, ReconStep, TasksAgree
<1>2. CASE p.reconTask = "runs" /\ p.parseDone = "unlocked"
           /\ q = [p EXCEPT !.reconTask = "ends", !.progress = reconstructed]
  <2>1. /\ q.parseTask = p.parseTask /\ q.parseDone = p.parseDone /\ q.progress = reconstructed
        /\ q.au = p.au /\ q.wasLost = p.wasLost /\ q.exceptionThrownOut = p.exceptionThrownOut
        /\ q.error = p.error /\ q.reconTask = "ends" /\ q.reconDone = p.reconDone
    BY <1>2 DEF PictureType
  <2> QED BY <1>1, <1>2, <2>1 DEF TasksAgree, OwnedAgrees, WaitsAgrees, ObjectAgrees, TakenOutAgrees
<1>3. CASE p.reconTask = "ends" /\ q = [p EXCEPT !.reconTask = "none", !.reconDone = "unlocked"]
  <2>1. /\ q.parseTask = p.parseTask /\ q.parseDone = p.parseDone /\ q.progress = p.progress
        /\ q.au = p.au /\ q.wasLost = p.wasLost /\ q.exceptionThrownOut = p.exceptionThrownOut
        /\ q.error = p.error /\ q.reconTask = "none" /\ q.reconDone = "unlocked"
    BY <1>3 DEF PictureType
  <2> QED BY <1>1, <1>3, <2>1 DEF TasksAgree, OwnedAgrees, WaitsAgrees, ObjectAgrees, TakenOutAgrees
<1>4. CASE p.reconTask = "runs" /\ q = [p EXCEPT !.reconTask = "none", !.reconDone = "failed"]
  <2>1. /\ q.parseTask = p.parseTask /\ q.parseDone = p.parseDone /\ q.progress = p.progress
        /\ q.au = p.au /\ q.wasLost = p.wasLost /\ q.exceptionThrownOut = p.exceptionThrownOut
        /\ q.error = p.error /\ q.reconTask = "none" /\ q.reconDone = "failed"
    BY <1>4 DEF PictureType
  <2> QED BY <1>1, <1>4, <2>1 DEF TasksAgree, OwnedAgrees, WaitsAgrees, ObjectAgrees, TakenOutAgrees
<1> QED BY <1>2, <1>3, <1>4 DEF ReconStep

LEMMA TaskShape ==
  ASSUME DecLibAssumption, TypeInv, NEW s \in Pictures, Task(s)
  PROVE  /\ dpb' \in DpbType /\ dpb'.picList = dpb.picList
         /\ TaskStep(Pic(s), dpb'.pic[s])
         /\ \A t \in Pictures : t # s => dpb'.pic[t] = Pic(t)
         /\ errors' \in Nat
         /\ stream' = stream /\ tryContinue' = tryContinue /\ nextNal' = nextNal
         /\ pocRandomAccess' = pocRandomAccess /\ dpbReferencePics' = dpbReferencePics
         /\ parseFrameList' = parseFrameList /\ decLibRecon' = decLibRecon /\ main' = main
         /\ app' = app /\ output' = output /\ thrown' = thrown /\ check' = check
<1> DEFINE p == Pic(s)
<1>1. dpb \in DpbType /\ dpb.pic \in [Pictures -> PictureType] /\ p \in PictureType /\ errors \in Nat
  BY PicType, DpbTypeFields DEF TypeInv
<1>2. errors' \in Nat
  BY <1>1 DEF Task, ParseEnds, ParseThrows, ParseFailed, ReconEnds, ReconDone, ReconFails
<1>3. PICK q : TaskStep(p, q) /\ dpb' = [dpb EXCEPT !.pic = [dpb.pic EXCEPT ![s] = q]]
  <2>1. CASE ParseEnds(s)
    <3> DEFINE q == [p EXCEPT !.parseTask = "none", !.parseDone = "unlocked",
                      !.progress = IF p.progress = parsing THEN parsed ELSE p.progress]
    <3>1. dpb' = [dpb EXCEPT !.pic[s].parseTask = "none", !.pic[s].parseDone = "unlocked",
                        !.pic[s].progress = IF @ = parsing THEN parsed ELSE @]
      BY <2>1 DEF ParseEnds
    <3>2. dpb' = [dpb EXCEPT !.pic = [dpb.pic EXCEPT ![s] = q]]
      BY ZenonT(30), <1>1, <3>1 DEF DpbType, PictureType, Pic
    <3>3. TaskStep(p, q)
      BY <2>1 DEF ParseEnds, TaskStep, ParseStep
    <3> QED BY <3>2, <3>3
  <2>2. CASE ParseThrows(s)
    <3> DEFINE q == [p EXCEPT !.parseTask = "throws", !.error = TRUE]
    <3>1. dpb' = [dpb EXCEPT !.pic[s].parseTask = "throws", !.pic[s].error = TRUE]
      BY <2>2 DEF ParseThrows
    <3>2. dpb' = [dpb EXCEPT !.pic = [dpb.pic EXCEPT ![s] = q]]
      BY <1>1, <3>1 DEF DpbType, PictureType, Pic
    <3>3. TaskStep(p, q)
      BY <2>2 DEF ParseThrows, TaskStep, ParseStep
    <3> QED BY <3>2, <3>3
  <2>3. CASE ParseFailed(s)
    <3> DEFINE q == [p EXCEPT !.parseTask = "none", !.parseDone = "failed"]
    <3>1. dpb' = [dpb EXCEPT !.pic[s].parseTask = "none", !.pic[s].parseDone = "failed"]
      BY <2>3 DEF ParseFailed
    <3>2. dpb' = [dpb EXCEPT !.pic = [dpb.pic EXCEPT ![s] = q]]
      BY <1>1, <3>1 DEF DpbType, PictureType, Pic
    <3>3. TaskStep(p, q)
      BY <2>3 DEF ParseFailed, TaskStep, ParseStep
    <3> QED BY <3>2, <3>3
  <2>4. CASE ReconEnds(s)
    <3> DEFINE q == [p EXCEPT !.reconTask = "ends", !.progress = reconstructed]
    <3>1. dpb' = [dpb EXCEPT !.pic[s].reconTask = "ends", !.pic[s].progress = reconstructed]
      BY <2>4 DEF ReconEnds
    <3>2. dpb' = [dpb EXCEPT !.pic = [dpb.pic EXCEPT ![s] = q]]
      BY <1>1, <3>1 DEF DpbType, PictureType, Pic
    <3>3. TaskStep(p, q)
      BY <2>4 DEF ReconEnds, TaskStep, ReconStep
    <3> QED BY <3>2, <3>3
  <2>5. CASE ReconDone(s)
    <3> DEFINE q == [p EXCEPT !.reconTask = "none", !.reconDone = "unlocked"]
    <3>1. dpb' = [dpb EXCEPT !.pic[s].reconTask = "none", !.pic[s].reconDone = "unlocked"]
      BY <2>5 DEF ReconDone
    <3>2. dpb' = [dpb EXCEPT !.pic = [dpb.pic EXCEPT ![s] = q]]
      BY <1>1, <3>1 DEF DpbType, PictureType, Pic
    <3>3. TaskStep(p, q)
      BY <2>5 DEF ReconDone, TaskStep, ReconStep
    <3> QED BY <3>2, <3>3
  <2>6. CASE ReconFails(s)
    <3> DEFINE q == [p EXCEPT !.reconTask = "none", !.reconDone = "failed"]
    <3>1. dpb' = [dpb EXCEPT !.pic[s].reconTask = "none", !.pic[s].reconDone = "failed"]
      BY <2>6 DEF ReconFails
    <3>2. dpb' = [dpb EXCEPT !.pic = [dpb.pic EXCEPT ![s] = q]]
      BY <1>1, <3>1 DEF DpbType, PictureType, Pic
    <3>3. TaskStep(p, q)
      BY <2>6 DEF ReconFails, TaskStep, ReconStep
    <3> QED BY <3>2, <3>3
  <2> QED BY <2>1, <2>2, <2>3, <2>4, <2>5, <2>6 DEF Task
<1>4. q \in PictureType
  BY <1>1, <1>3, TaskStepType
<1> DEFINE pics == [dpb.pic EXCEPT ![s] = q]
<1> HIDE DEF p
<1>5. pics \in [Pictures -> PictureType] /\ pics[s] = q /\ \A t \in Pictures : t # s => pics[t] = dpb.pic[t]
  BY <1>1, <1>4
<1>6. dpb' = [dpb EXCEPT !.pic = pics]
  BY <1>3
<1> HIDE DEF pics
<1>7. dpb' \in DpbType /\ dpb'.picList = dpb.picList /\ dpb'.pic = pics
  BY ONLY <1>1, <1>5, <1>6, WithPics
<1>8. TaskStep(Pic(s), dpb'.pic[s])
  BY <1>3, <1>5, <1>7 DEF p
<1>9. \A t \in Pictures : t # s => dpb'.pic[t] = Pic(t)
  BY <1>5, <1>7 DEF Pic
<1> QED BY <1>2, <1>7, <1>8, <1>9 DEF Task, parseVars, appVars

(* The picture of a task is one that somebody has.                         *)
LEMMA TaskOwned ==
  ASSUME RunInv, NEW s \in Pictures, NEW q, TaskStep(Pic(s), q)
  PROVE  Listed(s) /\ Owned(s)
<1>1. Pic(s).parseTask # "none" \/ Pic(s).reconTask # "none"
  BY DEF TaskStep, ParseStep, ReconStep
<1>2. Listed(s)
  <2> SUFFICES ASSUME ~Listed(s) PROVE FALSE
    OBVIOUS
  <2>1. Pic(s) = Fresh
    BY DEF RunInv, ListInv
  <2> QED BY <1>1, <2>1 DEF Fresh
<1>3. Owned(s)
  BY <1>1, <1>2 DEF RunInv, LifeInv, LeftInv, LeftAgrees
<1> QED BY <1>2, <1>3

LEMMA TaskKeepsPicture ==
  ASSUME TypeInv, RunInv, NEW s \in Pictures, TaskStep(Pic(s), dpb'.pic[s]), SamePlace(s), thrown' = thrown
  PROVE  PictureInv(s)' /\ LeftInv(s)' /\ Pic(s).progress <= dpb'.pic[s].progress
<1> DEFINE p == Pic(s)
           q == dpb'.pic[s]
           times == thrown[p.au]
<1>1. p \in PictureType /\ TaskStep(p, q) /\ Pic(s)' = q
  BY PicType DEF Pic
<1>2. Owned(s) /\ PictureInv(s) /\ PlaceInv
  BY TaskOwned DEF RunInv, LifeInv
<1>3. q.au = p.au /\ (p.error => q.error)
  BY <1>1, TaskStepType
<1>4. TasksAgree(p) /\ OwnedAgrees(p, times)
  BY <1>2 DEF PictureInv
<1>5. /\ Owned(s)' /\ (Queued(s)' <=> Queued(s)) /\ (InHand(s)' <=> InHand(s))
      /\ (InObject(s)' <=> InObject(s)) /\ (TakenOut(s)' <=> TakenOut(s)) /\ (Unstarted(s)' <=> Unstarted(s))
      /\ (InHand(s) => main'.pc = main.pc /\ main'.exc = main.exc)
  BY <1>2 DEF SamePlace, Owned
<1>6. /\ Queued(s) \/ InHand(s) => WaitsAgrees(p)
      /\ InHand(s) /\ main.pc = "sanitize" => p.error /\ (main.exc => p.parseDone = "failed")
      /\ InObject(s) => ObjectAgrees(p)
      /\ InObject(s) => (p.reconTask = "none" /\ p.reconDone = "locked" <=> Unstarted(s))
      /\ Unstarted(s) => p.progress = reconstructing
      /\ TakenOut(s) => TakenOutAgrees(p)
  BY <1>2 DEF PictureInv
<1>7. Unstarted(s) => InObject(s)
  <2> SUFFICES ASSUME Unstarted(s) PROVE InObject(s)
    OBVIOUS
  <2>1. decLibRecon[DecInstances] = s
    BY <1>2 DEF PlaceInv, Unstarted
  <2>2. DecInstances \in 1..DecInstances \/ ~(DecInstances \in Nat \ {0})
    OBVIOUS
  <2> QED BY <2>1, <2>2, DpbAssumption DEF InObject, DpbAssumption
<1>8. times = thrown'[q.au]
  BY <1>3
<1> HIDE DEF p, q, times
<1>9. ASSUME ParseStep(p, q)
      PROVE  /\ TasksAgree(q) /\ OwnedAgrees(q, times) /\ p.progress <= q.progress
             /\ Queued(s)' \/ InHand(s)' => WaitsAgrees(q)
             /\ InHand(s)' /\ main'.pc = "sanitize" => q.error /\ (main'.exc => q.parseDone = "failed")
             /\ InObject(s)' => ObjectAgrees(q)
             /\ InObject(s)' => (q.reconTask = "none" /\ q.reconDone = "locked" <=> Unstarted(s)')
             /\ Unstarted(s)' => q.progress = reconstructing
             /\ TakenOut(s)' => TakenOutAgrees(q)
  <2>1. /\ TasksAgree(q) /\ OwnedAgrees(q, times)
        /\ WaitsAgrees(p) => WaitsAgrees(q)
        /\ ObjectAgrees(p) => ObjectAgrees(q)
        /\ ~TakenOutAgrees(p)
        /\ p.parseDone # "failed"
        /\ p.progress <= q.progress /\ (p.progress = reconstructing => q.progress = reconstructing)
        /\ q.reconTask = p.reconTask /\ q.reconDone = p.reconDone
    BY <1>1, <1>4, <1>9, ParseStepAgrees
  <2> QED BY <1>3, <1>5, <1>6, <2>1
<1>10. ASSUME ReconStep(p, q)
       PROVE  /\ TasksAgree(q) /\ OwnedAgrees(q, times) /\ p.progress <= q.progress
              /\ ~(Queued(s)' \/ InHand(s)')
              /\ InObject(s)' => ObjectAgrees(q)
              /\ InObject(s)' => (q.reconTask = "none" /\ q.reconDone = "locked" <=> Unstarted(s)')
              /\ ~Unstarted(s)' /\ ~TakenOut(s)'
  <2>1. /\ TasksAgree(q) /\ OwnedAgrees(q, times)
        /\ ObjectAgrees(p) => ObjectAgrees(q)
        /\ ~WaitsAgrees(p) /\ ~TakenOutAgrees(p)
        /\ p.progress <= q.progress
        /\ p.reconTask # "none" /\ ~(q.reconTask = "none" /\ q.reconDone = "locked")
    BY <1>1, <1>4, <1>10, ReconStepAgrees
  <2>2. ~Unstarted(s)
    BY <1>6, <1>7, <2>1
  <2> QED BY <1>5, <1>6, <2>1, <2>2
<1>11. /\ TasksAgree(q) /\ OwnedAgrees(q, times) /\ p.progress <= q.progress
       /\ Queued(s)' \/ InHand(s)' => WaitsAgrees(q)
       /\ InHand(s)' /\ main'.pc = "sanitize" => q.error /\ (main'.exc => q.parseDone = "failed")
       /\ InObject(s)' => ObjectAgrees(q)
       /\ InObject(s)' => (q.reconTask = "none" /\ q.reconDone = "locked" <=> Unstarted(s)')
       /\ Unstarted(s)' => q.progress = reconstructing
       /\ TakenOut(s)' => TakenOutAgrees(q)
  BY <1>1, <1>9, <1>10 DEF TaskStep
<1>12. PictureInv(s)'
  BY <1>1, <1>8, <1>11 DEF PictureInv
<1>13. LeftInv(s)'
  BY <1>5 DEF LeftInv
<1> QED BY <1>11, <1>12, <1>13 DEF p, q

LEMMA TasksKeep ==
  ASSUME DpbAssumption, DecLibAssumption, IInv, Tasks
  PROVE  IInv' /\ check' = check /\ (check = "none" => PicturesGoOn)
<1>1. TypeInv
  BY DEF IInv
<1>2. PICK s \in Pictures : Task(s)
  BY DEF Tasks
<1>3. /\ dpb' \in DpbType /\ dpb'.picList = dpb.picList
      /\ TaskStep(Pic(s), dpb'.pic[s])
      /\ \A t \in Pictures : t # s => dpb'.pic[t] = Pic(t)
      /\ errors' \in Nat
      /\ stream' = stream /\ tryContinue' = tryContinue /\ nextNal' = nextNal
      /\ pocRandomAccess' = pocRandomAccess /\ dpbReferencePics' = dpbReferencePics
      /\ parseFrameList' = parseFrameList /\ decLibRecon' = decLibRecon /\ main' = main
      /\ app' = app /\ output' = output /\ thrown' = thrown /\ check' = check
  BY <1>1, <1>2, TaskShape
<1>4. TypeInv'
  BY <1>1, <1>3 DEF TypeInv
<1>5. ASSUME check = "none" PROVE RunInv' /\ PicturesGoOn
  <2>1. RunInv
    BY <1>5 DEF IInv
  <2>2. /\ \A t : Listed(t)' <=> Listed(t)
        /\ \A t : Queued(t)' <=> Queued(t)
        /\ \A t : InObject(t)' <=> InObject(t)
        /\ \A t : \A u : Before(t, u)' <=> Before(t, u)
    BY <1>3, SameLists
  <2>3. /\ \A t : (InHand(t)' <=> InHand(t)) /\ (TakenOut(t)' <=> TakenOut(t)) /\ (Unstarted(t)' <=> Unstarted(t))
    BY <1>3 DEF InHand, TakenOut, Unstarted
  <2>4. \A t \in Pictures : SamePlace(t)
    BY <1>3, <2>2, <2>3 DEF SamePlace
  <2>5. PictureInv(s)' /\ LeftInv(s)' /\ Pic(s).progress <= dpb'.pic[s].progress
    BY <1>1, <1>3, <2>1, <2>4, TaskKeepsPicture
  <2>6. ASSUME NEW t \in Pictures
        PROVE  /\ Goes(Pic(t), dpb'.pic[t]) /\ dpb'.pic[t].stillReferenced = Pic(t).stillReferenced
               /\ dpb'.pic[t].neededForOutput = Pic(t).neededForOutput
    <3>1. Pic(t) \in PictureType
      BY <1>1, PicType
    <3>2. CASE t = s
      <4>1. /\ dpb'.pic[t].au = Pic(t).au /\ dpb'.pic[t].refs = Pic(t).refs /\ dpb'.pic[t].wasLost = Pic(t).wasLost
            /\ dpb'.pic[t].dpbReferenceMark = Pic(t).dpbReferenceMark
            /\ dpb'.pic[t].stillReferenced = Pic(t).stillReferenced
            /\ dpb'.pic[t].neededForOutput = Pic(t).neededForOutput
        BY <1>3, <3>1, <3>2, TaskStepType
      <4> QED BY <2>5, <3>2, <4>1 DEF Goes
    <3>3. CASE t # s
      <4>1. dpb'.pic[t] = Pic(t) /\ Pic(t).progress \in Int
        BY <1>3, <3>1, <3>3 DEF PictureType, Progress
      <4> QED BY <4>1 DEF Goes
    <3> QED BY <3>2, <3>3
  <2>7. PicturesGoOn
    BY <1>3, <2>6 DEF PicturesGoOn, KeptReferenced
  <2>8. ListInv'
    <3>1. Listed(s)
      BY <1>3, <2>1, TaskOwned
    <3>2. ASSUME NEW t \in Pictures, ~Listed(t)' PROVE Pic(t)' = Fresh
      <4>1. ~Listed(t) /\ t # s
        BY <2>2, <3>1, <3>2
      <4> QED BY <1>3, <2>1, <4>1 DEF RunInv, ListInv, Pic
    <3> QED BY <1>3, <2>1, <3>2 DEF RunInv, ListInv
  <2>9. PlaceInv'
    BY <1>3, <2>1, <2>2, <2>3 DEF RunInv, PlaceInv, Owned
  <2>10. LifeInv'
    <3> SUFFICES ASSUME NEW t \in Pictures PROVE PictureInv(t)' /\ LeftInv(t)'
      BY DEF LifeInv
    <3>1. CASE t = s
      BY <2>5, <3>1
    <3>2. CASE t # s
      <4>1. SameLife(Pic(t), dpb'.pic[t])
        BY <1>3, <3>2, SameIsSame DEF Same
      <4> QED BY <1>3, <2>1, <2>4, <4>1, LifeKept DEF RunInv, LifeInv
    <3> QED BY <3>1, <3>2
  <2>11. AuInv'
    <3>1. nextNal' \in Nat /\ nextNal <= nextNal'
      BY <1>1, <1>3, StreamType
    <3> QED BY <1>1, <1>3, <2>1, <2>7, <3>1, AuKept DEF RunInv, AuInv
  <2>12. UseInv'
    BY <1>1, <2>1, <2>7, UseKept DEF RunInv
  <2>13. RefInv'
    BY <1>1, <2>1, <2>2, <2>7, RefsKept DEF RunInv
  <2>14. DpbInv'
    <3>1. /\ \A t \in dpbReferencePics' : Listed(t)'
          /\ \A t \in Pictures :
               dpb'.pic[t].dpbReferenceMark => t \in dpbReferencePics' /\ dpb'.pic[t].stillReferenced
      BY <1>1, <1>3, <2>1, <2>7, MarksKept DEF RunInv
    <3>2. ASSUME InSequence', NEW t \in dpbReferencePics' PROVE dpb'.pic[t].dpbReferenceMark \/ Kept(t)'
      <4>1. InSequence /\ t \in dpbReferencePics /\ t \in Pictures
        BY <1>1, <1>3, <3>2 DEF InSequence, TypeInv, Unit
      <4>2. Pic(t).dpbReferenceMark \/ Kept(t)
        BY <2>1, <4>1 DEF RunInv, DpbInv
      <4>3. Kept(t)' <=> Kept(t)
        BY <1>3, <2>2, <2>6, <4>1 DEF Kept, Pic
      <4> QED BY <2>6, <4>1, <4>2, <4>3 DEF Goes
    <3> QED BY <3>1, <3>2 DEF DpbInv, Pic
  <2>15. CallInv' /\ DrainInv'
    BY <1>3, <2>1 DEF RunInv, CallInv, DrainInv, Unit
  <2> QED BY <2>7, <2>8, <2>9, <2>10, <2>11, <2>12, <2>13, <2>14, <2>15 DEF RunInv
<1> QED BY <1>3, <1>4, <1>5 DEF IInv

-----------------------------------------------------------------------------
(* getNextDecodablePicture and what is made of the picture it takes.       *)
LEMMA FirstDecodableShape ==
  ASSUME TypeInv, parseFrameList # <<>>
  PROVE  /\ FirstDecodable \in 1..Len(parseFrameList)
         /\ FirstDecodable = 1 \/ Decodable(Pic(parseFrameList[FirstDecodable]))
<1> DEFINE I == {j \in 1..Len(parseFrameList) : Decodable(Pic(parseFrameList[j]))}
           i == IF I # {} THEN Min(I) ELSE 0
<1>1. parseFrameList \in Seq(Pictures) /\ Len(parseFrameList) \in Nat /\ Len(parseFrameList) > 0
  BY LenProperties, EmptySeq DEF TypeInv
<1>2. i \in 0..Len(parseFrameList) /\ (i # 0 => i \in I)
  <2>1. I \in SUBSET (1..Len(parseFrameList))
    OBVIOUS
  <2> HIDE DEF I
  <2> QED BY <1>1, <2>1, FirstPosition
<1>3. FirstDecodable = IF ParseFrameDelay = 0 \/ MustBeNext(Pic(Head(parseFrameList))) \/ i = 0 THEN 1 ELSE i
  BY DEF FirstDecodable, SelectInSeq
<1>4. i # 0 => Decodable(Pic(parseFrameList[i]))
  BY <1>2
<1> HIDE DEF i, I
<1> QED BY <1>1, <1>2, <1>3, <1>4

(* A list whose elements differ, without its k-th element.                 *)
Without(new, seq, k) ==
  /\ \A i \in 1..Len(new) : \A j \in 1..Len(new) : new[i] = new[j] => i = j
  /\ \A t : (\E i \in 1..Len(new) : new[i] = t) <=> (\E i \in 1..Len(seq) : seq[i] = t) /\ t # seq[k]
  /\ \A i \in 1..Len(seq) : \A j \in 1..Len(seq) : i < j /\ i # k /\ j # k =>
       \A m \in 1..Len(new) : new[m] = seq[i] =>
         \E n \in 1..Len(new) : m < n /\ new[n] = seq[j]

LEMMA RemovedFromQueue ==
  ASSUME NEW T, NEW seq \in Seq(T), NEW k \in 1..Len(seq),
         \A i \in 1..Len(seq) : \A j \in 1..Len(seq) : seq[i] = seq[j] => i = j
  PROVE  RemoveAt(seq, k) \in Seq(T) /\ Without(RemoveAt(seq, k), seq, k)
<1>0. PICK new : new = RemoveAt(seq, k)
  OBVIOUS
<1> DEFINE At(j) == IF j < k THEN j ELSE j + 1
           To(i) == IF i < k THEN i ELSE i - 1
<1>1. Len(seq) \in Nat /\ k \in Int /\ 1 <= k /\ k <= Len(seq)
  BY LenProperties
<1>2. new \in Seq(T) /\ Len(new) = Len(seq) - 1
  BY <1>0, Removed
<1>3. \A j \in 1..(Len(seq) - 1) : new[j] = IF j < k THEN seq[j] ELSE seq[j + 1]
  BY <1>0, Removed
<1>4. ASSUME NEW j \in 1..Len(new) PROVE At(j) \in 1..Len(seq) /\ At(j) # k /\ new[j] = seq[At(j)] /\ To(At(j)) = j
  BY <1>1, <1>2, <1>3
<1>5. ASSUME NEW i \in 1..Len(seq), i # k PROVE To(i) \in 1..Len(new) /\ new[To(i)] = seq[i] /\ At(To(i)) = i
  <2>1. CASE i < k
    BY <1>1, <1>2, <1>3, <2>1
  <2>2. CASE k < i
    <3>1. i - 1 \in 1..(Len(seq) - 1) /\ ~(i < k) /\ ~(i - 1 < k) /\ (i - 1) + 1 = i
      BY <1>1, <2>2
    <3> QED BY <1>2, <1>3, <3>1
  <2> QED BY <1>1, <1>5, <2>1, <2>2
<1>6. ASSUME NEW i \in 1..Len(seq), NEW j \in 1..Len(seq), i < j, i # k, j # k PROVE To(i) < To(j)
  BY <1>1, <1>6
<1> HIDE DEF At, To
<1>7. \A i \in 1..Len(new) : \A j \in 1..Len(new) : new[i] = new[j] => i = j
  <2> SUFFICES ASSUME NEW i \in 1..Len(new), NEW j \in 1..Len(new), new[i] = new[j] PROVE i = j
    OBVIOUS
  <2>1. At(i) \in 1..Len(seq) /\ At(j) \in 1..Len(seq) /\ seq[At(i)] = seq[At(j)]
    BY <1>4
  <2>2. At(i) = At(j)
    BY <2>1
  <2> QED BY <1>4, <2>2
<1>8. \A t : (\E i \in 1..Len(new) : new[i] = t) <=> (\E i \in 1..Len(seq) : seq[i] = t) /\ t # seq[k]
  <2> SUFFICES ASSUME NEW t
               PROVE  (\E i \in 1..Len(new) : new[i] = t) <=> (\E i \in 1..Len(seq) : seq[i] = t) /\ t # seq[k]
    OBVIOUS
  <2>1. ASSUME NEW i \in 1..Len(new), new[i] = t PROVE (\E j \in 1..Len(seq) : seq[j] = t) /\ t # seq[k]
    BY <1>4, <2>1
  <2>2. ASSUME NEW i \in 1..Len(seq), seq[i] = t, t # seq[k] PROVE \E j \in 1..Len(new) : new[j] = t
    BY <1>5, <2>2
  <2> QED BY <2>1, <2>2
<1>9. \A i \in 1..Len(seq) : \A j \in 1..Len(seq) : i < j /\ i # k /\ j # k =>
        \A m \in 1..Len(new) : new[m] = seq[i] => \E n \in 1..Len(new) : m < n /\ new[n] = seq[j]
  <2> SUFFICES ASSUME NEW i \in 1..Len(seq), NEW j \in 1..Len(seq), i < j, i # k, j # k,
                      NEW m \in 1..Len(new), new[m] = seq[i]
               PROVE  \E n \in 1..Len(new) : m < n /\ new[n] = seq[j]
    OBVIOUS
  <2>1. m = To(i)
    BY <1>5, <1>7
  <2> QED BY <1>5, <1>6, <2>1
<1>10. Without(new, seq, k)
  BY Zenon, <1>7, <1>8, <1>9 DEF Without
<1> QED BY Zenon, <1>0, <1>2, <1>10

LEMMA ChosenShape ==
  ASSUME DpbAssumption, TypeInv, RunInv, Chosen
  PROVE  LET s == parseFrameList[FirstDecodable] IN
         /\ s \in Pictures /\ Queued(s) /\ PicturesStay
         /\ \A t \in Pictures : dpb'.pic[t].neededForOutput = Pic(t).neededForOutput
         /\ parseFrameList' \in Seq(Pictures)
         /\ \A i \in 1..Len(parseFrameList') : \A j \in 1..Len(parseFrameList') :
              parseFrameList'[i] = parseFrameList'[j] => i = j
         /\ \A t : Queued(t)' <=> Queued(t) /\ t # s
         /\ \A t \in Pictures : \A r \in Pictures :
              r \in Pic(t).refs /\ dpb'.pic[t].progress < reconstructed /\ Before(r, t) => Before(r, t)'
<1> DEFINE k == FirstDecodable
           s == parseFrameList[k]
<1>1. /\ main.pc = "choose" /\ parseFrameList # <<>> /\ parseFrameList' = RemoveAt(parseFrameList, k)
      /\ dpb' = [dpb EXCEPT !.pic = [t \in Pictures |->
           IF \E i \in 1..(k - 1) : parseFrameList[i] = t
           THEN [Pic(t) EXCEPT !.skippedDecCount = @ + 1] ELSE Pic(t)]]
  BY DEF Chosen
<1>2. parseFrameList \in Seq(Pictures) /\ dpb \in DpbType /\ Len(parseFrameList) \in Nat
  BY LenProperties DEF TypeInv
<1>3. k \in 1..Len(parseFrameList) /\ (k = 1 \/ Decodable(Pic(s)))
  BY <1>1, FirstDecodableShape
<1> HIDE DEF k
<1>4. s \in Pictures /\ Queued(s)
  BY <1>2, <1>3, ElementOfSeq DEF Queued
<1>5. \A i \in 1..Len(parseFrameList) : \A j \in 1..Len(parseFrameList) :
        parseFrameList[i] = parseFrameList[j] => i = j
  BY DEF RunInv, ListInv
<1>6. /\ parseFrameList' \in Seq(Pictures)
      /\ \A i \in 1..Len(parseFrameList') : \A j \in 1..Len(parseFrameList') :
           parseFrameList'[i] = parseFrameList'[j] => i = j
      /\ \A t : (\E i \in 1..Len(parseFrameList') : parseFrameList'[i] = t)
                <=> (\E i \in 1..Len(parseFrameList) : parseFrameList[i] = t) /\ t # s
      /\ \A i \in 1..Len(parseFrameList) : \A j \in 1..Len(parseFrameList) : i < j /\ i # k /\ j # k =>
           \A m \in 1..Len(parseFrameList') : parseFrameList'[m] = parseFrameList[i] =>
             \E n \in 1..Len(parseFrameList') : m < n /\ parseFrameList'[n] = parseFrameList[j]
  <2>1. RemoveAt(parseFrameList, k) \in Seq(Pictures)
        /\ Without(RemoveAt(parseFrameList, k), parseFrameList, k)
    BY <1>2, <1>3, <1>5, RemovedFromQueue
  <2> QED BY <1>1, <2>1 DEF Without
<1>7. \A t : Queued(t)' <=> Queued(t) /\ t # s
  BY <1>6 DEF Queued
<1> DEFINE pics == [t \in Pictures |-> IF \E i \in 1..(k - 1) : parseFrameList[i] = t
                      THEN [Pic(t) EXCEPT !.skippedDecCount = @ + 1] ELSE Pic(t)]
<1>8. ASSUME NEW t \in Pictures
      PROVE  /\ pics[t] \in PictureType /\ Same(Pic(t), pics[t]) /\ (~Listed(t) => pics[t] = Pic(t))
             /\ pics[t].neededForOutput = Pic(t).neededForOutput
  <2>1. Pic(t) \in PictureType
    BY PicType
  <2>2. CASE \E i \in 1..(k - 1) : parseFrameList[i] = t
    <3>1. Queued(t)
      BY <1>2, <1>3, <2>2 DEF Queued
    <3>2. Listed(t)
      BY <3>1 DEF RunInv, PlaceInv, Owned
    <3>3. pics[t] = [Pic(t) EXCEPT !.skippedDecCount = Pic(t).skippedDecCount + 1]
      BY <2>2
    <3> HIDE DEF pics
    <3>4. pics[t] \in PictureType
      BY <2>1, <3>3 DEF PictureType
    <3>5. Same(Pic(t), pics[t]) /\ pics[t].neededForOutput = Pic(t).neededForOutput
      BY <2>1, <3>3 DEF PictureType, Same, SameLife
    <3> QED BY <3>2, <3>4, <3>5
  <2>3. CASE ~\E i \in 1..(k - 1) : parseFrameList[i] = t
    <3>1. pics[t] = Pic(t)
      BY <2>3
    <3> HIDE DEF pics
    <3> QED BY <2>1, <3>1, SameIsSame
  <2> QED BY <2>2, <2>3
<1>9. pics \in [Pictures -> PictureType]
  BY <1>8
<1>10. dpb' = [dpb EXCEPT !.pic = pics]
  BY <1>1
<1> HIDE DEF pics, s
<1>11. dpb' \in DpbType /\ dpb'.picList = dpb.picList /\ dpb'.pic = pics
  BY ONLY <1>2, <1>9, <1>10, WithPics
<1>12. PicturesStay
  BY <1>8, <1>11, SamePictures
<1>13. \A t \in Pictures : dpb'.pic[t].neededForOutput = Pic(t).neededForOutput
  BY <1>8, <1>11
<1>14. ASSUME NEW t \in Pictures, NEW r \in Pictures, r \in Pic(t).refs, Before(r, t)
       PROVE  Before(r, t)'
  <2> SUFFICES ASSUME NEW m \in 1..Len(parseFrameList'), parseFrameList'[m] = r
               PROVE  \E n \in 1..Len(parseFrameList') : m < n /\ parseFrameList'[n] = t
    BY DEF Before
  <2>1. PICK i \in 1..Len(parseFrameList) : parseFrameList[i] = r /\ r # s
    BY <1>6
  <2>2. PICK j \in 1..Len(parseFrameList) : i < j /\ parseFrameList[j] = t
    BY <1>14, <2>1 DEF Before
  <2>3. i # k /\ i \in Int /\ j \in Int /\ k \in Int
    BY <1>3, <2>1 DEF s
  <2>4. CASE j = k
    <3>1. t = s /\ k # 1
      BY <2>2, <2>3, <2>4 DEF s
    <3>2. Decodable(Pic(t))
      BY <1>3, <3>1 DEF s
    <3>3. Pic(r).progress >= reconstructed
      BY <1>14, <3>2 DEF Decodable
    <3>4. Queued(r)
      BY <2>1 DEF Queued
    <3>5. WaitsAgrees(Pic(r))
      BY <3>4 DEF RunInv, LifeInv, PictureInv
    <3> QED BY <3>3, <3>5 DEF WaitsAgrees
  <2>5. CASE j # k
    BY SMTT(30), <1>6, <2>1, <2>2, <2>3, <2>5
  <2> QED BY <2>4, <2>5
<1> QED BY <1>4, <1>6, <1>7, <1>12, <1>13, <1>14 DEF s, k

LEMMA Rotated ==
  ASSUME DpbAssumption, TypeInv, ListInv,
         decLibRecon' = Append(Tail(decLibRecon), Head(decLibRecon))
  PROVE  /\ decLibRecon' \in [1..DecInstances -> 0..MaxPictures]
         /\ \A i \in 1..DecInstances : \A j \in 1..DecInstances :
              decLibRecon'[i] = decLibRecon'[j] /\ decLibRecon'[i] # 0 => i = j
         /\ \A t : InObject(t)' <=> InObject(t)
<1> DEFINE n == DecInstances
           seq == decLibRecon
           new == Append(Tail(seq), Head(seq))
           Next1(i) == IF i = n THEN 1 ELSE i + 1
<1>1. n \in Nat /\ n >= 1 /\ 1..n = 1..n
  BY DEF DpbAssumption
<1>2. seq \in [1..n -> 0..MaxPictures] /\ seq \in Seq(0..MaxPictures) /\ Len(seq) = n /\ seq # <<>>
  <2>1. seq \in [1..n -> 0..MaxPictures]
    BY DEF TypeInv
  <2>2. seq \in Seq(0..MaxPictures) /\ Len(seq) = n
    BY <1>1, <2>1
  <2> QED BY <1>1, <2>1, <2>2
<1>3. /\ Tail(seq) \in Seq(0..MaxPictures) /\ Head(seq) = seq[1] /\ Head(seq) \in 0..MaxPictures
      /\ Len(Tail(seq)) = n - 1
      /\ \A i \in 1..(n - 1) : Tail(seq)[i] = seq[i + 1]
  BY <1>1, <1>2, HeadTailProperties
<1>4. /\ new \in Seq(0..MaxPictures) /\ Len(new) = n
      /\ \A i \in 1..(n - 1) : new[i] = Tail(seq)[i]
      /\ new[n] = seq[1]
  BY <1>1, <1>3, AppendProperties
<1>5. decLibRecon' = new
  OBVIOUS
<1> HIDE DEF seq, new
<1>6. new \in [1..n -> 0..MaxPictures]
  BY <1>4, LenProperties
<1>7. \A i \in 1..n : Next1(i) \in 1..n /\ new[i] = seq[Next1(i)]
  BY <1>1, <1>3, <1>4
<1>8. \A i \in 1..n : \A j \in 1..n : Next1(i) = Next1(j) => i = j
  BY <1>1
<1>9. \A i \in 1..n : \E j \in 1..n : Next1(j) = i
  <2> SUFFICES ASSUME NEW i \in 1..n PROVE \E j \in 1..n : Next1(j) = i
    OBVIOUS
  <2>1. CASE i = 1
    BY <1>1, <2>1
  <2>2. CASE i # 1
    <3>1. i - 1 \in 1..n /\ Next1(i - 1) = i
      BY <1>1, <2>2
    <3> QED BY <3>1
  <2> QED BY <2>1, <2>2
<1> HIDE DEF Next1
<1>10. \A i \in 1..n : \A j \in 1..n : seq[i] = seq[j] /\ seq[i] # 0 => i = j
  BY DEF ListInv, seq
<1>11. \A i \in 1..n : \A j \in 1..n : new[i] = new[j] /\ new[i] # 0 => i = j
  <2> SUFFICES ASSUME NEW i \in 1..n, NEW j \in 1..n, new[i] = new[j], new[i] # 0 PROVE i = j
    OBVIOUS
  <2>1. Next1(i) = Next1(j)
    BY <1>7, <1>10
  <2> QED BY <1>8, <2>1
<1>12. \A t : (\E i \in 1..n : new[i] = t) <=> (\E i \in 1..n : seq[i] = t)
  <2> SUFFICES ASSUME NEW t PROVE (\E i \in 1..n : new[i] = t) <=> (\E i \in 1..n : seq[i] = t)
    OBVIOUS
  <2>1. ASSUME NEW i \in 1..n, new[i] = t PROVE \E j \in 1..n : seq[j] = t
    BY <1>7, <2>1
  <2>2. ASSUME NEW i \in 1..n, seq[i] = t PROVE \E j \in 1..n : new[j] = t
    BY <1>7, <1>9, <2>2
  <2> QED BY <2>1, <2>2
<1>13. \A t : InObject(t)' <=> InObject(t)
  BY <1>5, <1>12 DEF InObject, seq
<1> QED BY <1>5, <1>6, <1>11, <1>13

(* The main thread has the picture that was chosen in its hand.            *)
LEMMA ChosenKeeps ==
  ASSUME DpbAssumption, DecLibAssumption, TypeInv, RunInv, Chosen,
         NEW s \in Pictures, s = parseFrameList[FirstDecodable],
         main' \in MainType, main'.pc \in {"sanitize", "wait"}, main'.pic = s, main'.call = main.call,
         main'.pc = "sanitize" => Broken(Pic(s)) /\ (main'.exc => Pic(s).parseDone = "failed"),
         decLibRecon' \in [1..DecInstances -> 0..MaxPictures],
         \A i \in 1..DecInstances : \A j \in 1..DecInstances :
              decLibRecon'[i] = decLibRecon'[j] /\ decLibRecon'[i] # 0 => i = j,
         \A t : InObject(t)' <=> InObject(t),
         app' = app, output' = output, thrown' = thrown, check' = "none"
  PROVE  IInv' /\ PicturesGoOn /\ check' = "none"
<1>1. /\ Queued(s) /\ PicturesStay
      /\ \A t \in Pictures : dpb'.pic[t].neededForOutput = Pic(t).neededForOutput
      /\ parseFrameList' \in Seq(Pictures)
      /\ \A i \in 1..Len(parseFrameList') : \A j \in 1..Len(parseFrameList') :
           parseFrameList'[i] = parseFrameList'[j] => i = j
      /\ \A t : Queued(t)' <=> Queued(t) /\ t # s
      /\ \A t \in Pictures : \A r \in Pictures :
           r \in Pic(t).refs /\ dpb'.pic[t].progress < reconstructed /\ Before(r, t) => Before(r, t)'
  BY ChosenShape
<1>2. /\ main.pc = "choose" /\ stream' = stream /\ tryContinue' = tryContinue /\ nextNal' = nextNal
      /\ pocRandomAccess' = pocRandomAccess /\ dpbReferencePics' = dpbReferencePics /\ errors' = errors
  BY DEF Chosen, parseVars
<1>3. PicturesGoOn
  BY <1>1 DEF PicturesStay
<1>4. \A t : Listed(t)' <=> Listed(t)
  BY <1>3 DEF Listed, PicturesGoOn
<1>5. /\ \A t : ~InHand(t) /\ ~TakenOut(t) /\ ~Unstarted(t) /\ ~TakenOut(t)' /\ ~Unstarted(t)'
      /\ \A t : InHand(t)' <=> t = s
  BY <1>2 DEF InHand, TakenOut, Unstarted
<1>6. ListInv'
  <2>1. \A t \in Pictures : ~Listed(t)' => Pic(t)' = Fresh
    BY <1>1, <1>4 DEF RunInv, ListInv, PicturesStay, Pic
  <2>2. Numbered(dpb'.picList)
    BY <1>3 DEF RunInv, ListInv, PicturesGoOn
  <2> QED BY <1>1, <2>1, <2>2 DEF ListInv
<1>7. ~InObject(s) /\ Listed(s)
  BY <1>1 DEF RunInv, PlaceInv, Owned
<1>8. PlaceInv'
  <2>1. \A t \in Pictures : Owned(t)' => Owned(t)
    BY <1>1, <1>5 DEF Owned
  <2>2. \A t \in Pictures : Owned(t)' => Listed(t)'
    BY <1>4, <2>1 DEF RunInv, PlaceInv
  <2>3. \A t \in Pictures : Queued(t)' => ~InHand(t)' /\ ~InObject(t)' /\ ~TakenOut(t)'
    BY <1>1, <1>5 DEF RunInv, PlaceInv
  <2> QED BY <1>5, <1>7, <2>2, <2>3 DEF PlaceInv
<1>9. LifeInv'
  <2> SUFFICES ASSUME NEW t \in Pictures PROVE PictureInv(t)' /\ LeftInv(t)'
    BY DEF LifeInv
  <2>1. SameLife(Pic(t), dpb'.pic[t]) /\ PictureInv(t) /\ LeftInv(t)
    BY <1>1 DEF PicturesStay, RunInv, LifeInv
  <2>2. CASE t # s
    <3>1. SamePlace(t)
      BY <1>1, <1>4, <1>5, <2>2 DEF SamePlace
    <3> QED BY <2>1, <3>1, LifeKept
  <2>3. CASE t = s
    <3> DEFINE p == Pic(s)
               q == dpb'.pic[s]
    <3>1. SameLife(p, q) /\ Pic(s)' = q
      BY <2>1, <2>3 DEF Pic
    <3>2. TasksAgree(p) /\ OwnedAgrees(p, thrown[p.au]) /\ WaitsAgrees(p)
      BY <1>1, <2>1, <2>3 DEF PictureInv, Owned
    <3>3. main'.pc = "sanitize" => Broken(p) /\ (main'.exc => p.parseDone = "failed")
      OBVIOUS
    <3>4. thrown'[q.au] = thrown[p.au]
      BY <3>1 DEF SameLife
    <3> HIDE DEF p, q
    <3>5. TasksAgree(q) /\ OwnedAgrees(q, thrown[p.au]) /\ WaitsAgrees(q)
      BY <3>1, <3>2 DEF SameLife, TasksAgree, OwnedAgrees, WaitsAgrees
    <3>6. main'.pc = "sanitize" => q.error /\ (main'.exc => q.parseDone = "failed")
      BY <3>1, <3>2, <3>3 DEF SameLife, Broken, TasksAgree, OwnedAgrees
    <3>7. Owned(s)' /\ InHand(s)' /\ ~InObject(s)' /\ ~TakenOut(s)' /\ ~Unstarted(s)'
      BY <1>5, <1>7 DEF Owned
    <3> QED BY <2>3, <3>1, <3>4, <3>5, <3>6, <3>7 DEF PictureInv, LeftInv
  <2> QED BY <2>2, <2>3
<1>10. AuInv'
  <2>1. nextNal' \in Nat /\ nextNal <= nextNal'
    BY <1>2, StreamType
  <2> QED BY <1>2, <1>3, <2>1, AuKept DEF RunInv, AuInv
<1>11. UseInv' /\ RefInv'
  BY <1>1, <1>3, UseKept, RefsKept DEF RunInv
<1>12. DpbInv'
  <2>1. /\ \A t \in dpbReferencePics' : Listed(t)'
        /\ \A t \in Pictures :
             dpb'.pic[t].dpbReferenceMark => t \in dpbReferencePics' /\ dpb'.pic[t].stillReferenced
    BY <1>2, <1>3, MarksKept DEF RunInv
  <2>2. ASSUME InSequence', NEW t \in dpbReferencePics' PROVE dpb'.pic[t].dpbReferenceMark \/ Kept(t)'
    <3>1. InSequence /\ t \in dpbReferencePics /\ t \in Pictures
      BY <1>2, <2>2 DEF InSequence, TypeInv
    <3>2. Pic(t).dpbReferenceMark \/ Kept(t)
      BY <3>1 DEF RunInv, DpbInv
    <3>3. Kept(t) => Kept(t)'
      BY <1>1, <1>2, <3>1 DEF Kept, Pic
    <3> QED BY <1>3, <3>1, <3>2, <3>3 DEF PicturesGoOn, Goes
  <2> QED BY <2>1, <2>2 DEF DpbInv, Pic
<1>13. app.state = main.call /\ main.call \in {"decode", "flush"}
  BY <1>2 DEF RunInv, CallInv, TypeInv, MainType
<1>14. CallInv' /\ DrainInv'
  BY <1>13 DEF CallInv, DrainInv
<1>15. TypeInv'
  BY <1>1, <1>2, <1>3 DEF TypeInv, PicturesGoOn
<1> QED BY <1>3, <1>6, <1>8, <1>9, <1>10, <1>11, <1>12, <1>14, <1>15 DEF IInv, RunInv

LEMMA ChooseBrokenKeeps ==
  ASSUME DpbAssumption, DecLibAssumption, IInv, check = "none", ChooseBroken
  PROVE  IInv' /\ PicturesGoOn /\ check' = "none"
<1>1. TypeInv /\ RunInv /\ Chosen
  BY DEF IInv, ChooseBroken
<1>2. PICK s : s = parseFrameList[FirstDecodable]
  OBVIOUS
<1>3. s \in Pictures /\ Queued(s)
  BY <1>1, <1>2, ChosenShape
<1>4. ~(Pic(s).progress >= reconstructing)
  <2>1. WaitsAgrees(Pic(s))
    BY <1>1, <1>3 DEF RunInv, LifeInv, PictureInv
  <2> QED BY <2>1 DEF WaitsAgrees
<1>5. /\ Broken(Pic(s)) /\ decLibRecon' = decLibRecon
      /\ main' = [main EXCEPT !.pc = "sanitize", !.pic = s, !.exc = Pic(s).parseDone = "failed"]
      /\ app' = app /\ output' = output /\ thrown' = thrown /\ check' = check
  BY <1>2, <1>4 DEF ChooseBroken, appVars
<1>6. /\ main' \in MainType /\ main'.pc = "sanitize" /\ main'.pic = s /\ main'.call = main.call
      /\ main'.exc => Pic(s).parseDone = "failed"
  <2> DEFINE e == Pic(s).parseDone = "failed"
  <2>1. main \in MainType /\ s \in 0..MaxPictures
    BY <1>1, <1>3 DEF TypeInv, Pictures
  <2>2. e \in BOOLEAN /\ main' = [main EXCEPT !.pc = "sanitize", !.pic = s, !.exc = e]
    BY <1>5
  <2> HIDE DEF e
  <2>3. main' \in MainType /\ main'.pc = "sanitize" /\ main'.pic = s /\ main'.call = main.call /\ main'.exc = e
    BY <2>1, <2>2 DEF MainType
  <2> QED BY <2>3 DEF e
<1>7. /\ decLibRecon' \in [1..DecInstances -> 0..MaxPictures]
      /\ \A i \in 1..DecInstances : \A j \in 1..DecInstances :
           decLibRecon'[i] = decLibRecon'[j] /\ decLibRecon'[i] # 0 => i = j
      /\ \A t : InObject(t)' <=> InObject(t)
  BY <1>1, <1>5 DEF TypeInv, RunInv, ListInv, InObject
<1> QED BY <1>1, <1>2, <1>3, <1>5, <1>6, <1>7, ChosenKeeps

LEMMA ChooseToReconKeeps ==
  ASSUME DpbAssumption, DecLibAssumption, IInv, check = "none", ChooseToRecon
  PROVE  IInv' /\ PicturesGoOn /\ check' = "none"
<1>1. TypeInv /\ RunInv /\ Chosen
  BY DEF IInv, ChooseToRecon
<1>2. PICK s : s = parseFrameList[FirstDecodable]
  OBVIOUS
<1>3. s \in Pictures /\ Queued(s)
  BY <1>1, <1>2, ChosenShape
<1>4. s \notin Range(decLibRecon)
  <2>1. ~InObject(s)
    BY <1>1, <1>3 DEF RunInv, PlaceInv
  <2>2. decLibRecon \in [1..DecInstances -> 0..MaxPictures]
    BY <1>1 DEF TypeInv
  <2> QED BY <2>1, <2>2 DEF InObject, Range
<1>5. /\ main' = [main EXCEPT !.pc = "wait", !.pic = s]
      /\ decLibRecon' = Append(Tail(decLibRecon), Head(decLibRecon))
      /\ app' = app /\ output' = output /\ thrown' = thrown /\ check' = check
  BY <1>2, <1>4 DEF ChooseToRecon, appVars
<1>6. main' \in MainType /\ main'.pc = "wait" /\ main'.pic = s /\ main'.call = main.call
  <2>1. main \in MainType /\ s \in 0..MaxPictures
    BY <1>1, <1>3 DEF TypeInv, Pictures
  <2> QED BY <1>5, <2>1 DEF MainType
<1>7. /\ decLibRecon' \in [1..DecInstances -> 0..MaxPictures]
      /\ \A i \in 1..DecInstances : \A j \in 1..DecInstances :
           decLibRecon'[i] = decLibRecon'[j] /\ decLibRecon'[i] # 0 => i = j
      /\ \A t : InObject(t)' <=> InObject(t)
  BY <1>1, <1>5, Rotated DEF RunInv
<1> QED BY <1>1, <1>2, <1>3, <1>5, <1>6, <1>7, ChosenKeeps

-----------------------------------------------------------------------------
(* finishPicture of a picture that was taken out of its object: o has lost *)
(* its tasks, and d is the buffer with what is known of its error.         *)
ErrorOnly(p, q) == q = p \/ q = [p EXCEPT !.error = TRUE]

(* The picture q that it leaves, and whether it throws.                    *)
LeftBehind(p, q, throws) ==
  /\ q.au = p.au /\ q.refs = p.refs /\ q.wasLost = p.wasLost
  /\ q.dpbReferenceMark = p.dpbReferenceMark /\ q.stillReferenced = p.stillReferenced
  /\ q.neededForOutput = p.neededForOutput /\ q.progress \in {reconstructed, finished}
  /\ TasksAgree(q) /\ LeftAgrees(q, IF throws THEN 1 ELSE 0)

LEMMA FinishLeaves ==
  ASSUME DpbAssumption, NEW d \in DpbType, Numbered(d.picList), NEW o \in Pictures, NEW p \in PictureType,
         ErrorOnly(p, d.pic[o]), TasksAgree(d.pic[o]), OwnedAgrees(d.pic[o], 0), TakenOutAgrees(d.pic[o])
  PROVE  LeftBehind(p, FinishPicture(d, o).dpb.pic[o], FinishPicture(d, o).throws)
<1> DEFINE x == d.pic[o]
           f == FinishPicture(d, o)
           q == f.dpb.pic[o]
<1>1. x \in PictureType /\ d.pic \in [Pictures -> PictureType]
  BY DpbTypeFields
<1>2. /\ x.au = p.au /\ x.refs = p.refs /\ x.wasLost = p.wasLost
      /\ x.dpbReferenceMark = p.dpbReferenceMark /\ x.stillReferenced = p.stillReferenced
      /\ x.neededForOutput = p.neededForOutput
  BY DEF ErrorOnly, PictureType
<1>3. TasksAgree(x) /\ OwnedAgrees(x, 0) /\ TakenOutAgrees(x)
  OBVIOUS
<1>4. /\ x.progress \in {reconstructing, reconstructed} /\ x.reconDone \in {"unlocked", "failed"}
      /\ x.parseTask = "none" /\ x.reconTask = "none" /\ x.parseDone \in {"unlocked", "failed"}
      /\ x.au > 0 /\ ~x.wasLost /\ ~x.exceptionThrownOut
  BY <1>1, <1>3 DEF TasksAgree, OwnedAgrees, TakenOutAgrees, PictureType, Barrier
<1>5. CASE x.reconDone = "failed"
  <2>1. f.throws /\ q = [x EXCEPT !.progress = reconstructed]
    BY ZenonT(30), <1>1, <1>5, FinishFailed
  <2>2. x.error
    BY <1>3, <1>5 DEF TakenOutAgrees
  <2> HIDE DEF x, f, q
  <2>3. /\ q.au = x.au /\ q.refs = x.refs /\ q.wasLost = x.wasLost /\ q.parseDone = x.parseDone
        /\ q.dpbReferenceMark = x.dpbReferenceMark /\ q.stillReferenced = x.stillReferenced
        /\ q.neededForOutput = x.neededForOutput /\ q.progress = reconstructed /\ q.error
        /\ q.reconDone = "failed" /\ q.parseTask = "none" /\ q.reconTask = "none"
    BY <1>1, <1>4, <1>5, <2>1, <2>2 DEF PictureType
  <2>4. TasksAgree(q)
    BY <2>3 DEF TasksAgree
  <2>5. LeftAgrees(q, 1)
    BY <1>4, <2>3 DEF LeftAgrees, NotFinished
  <2> QED BY <1>2, <2>1, <2>3, <2>4, <2>5 DEF LeftBehind, f, q
<1>6. CASE x.reconDone # "failed" /\ IsBad(x)
  <2>1. f.throws <=> x.parseDone = "failed"
    BY <1>4, <1>6, FinishOther
  <2>2. q = [x EXCEPT !.progress = finished, !.reconDone = "unlocked",
                 !.error = x.error \/ x.parseDone = "failed",
                 !.exceptionThrownOut = x.exceptionThrownOut \/ x.parseDone = "failed"]
    <3> DEFINE z == [x EXCEPT !.progress = finished, !.reconDone = "unlocked",
                 !.error = x.error \/ x.parseDone = "failed",
                 !.exceptionThrownOut = x.exceptionThrownOut \/ x.parseDone = "failed"]
    <3>1. f.dpb.pic = [d.pic EXCEPT ![o] = z]
      BY <1>6, FinishOther
    <3> HIDE DEF z, f
    <3>2. q = z
      BY <1>1, <3>1
    <3> QED BY <3>2 DEF z
  <2>3. x.parseDone = "failed" /\ x.error
    BY <1>3, <1>4, <1>6 DEF IsBad, OwnedAgrees, TasksAgree
  <2> DEFINE e == x.error \/ x.parseDone = "failed"
             t == x.exceptionThrownOut \/ x.parseDone = "failed"
  <2>4. e = TRUE /\ q = [x EXCEPT !.progress = finished, !.reconDone = "unlocked", !.error = e, !.exceptionThrownOut = t]
    BY <2>2, <2>3
  <2> HIDE DEF x, f, q, e, t
  <2>5. /\ q.au = x.au /\ q.refs = x.refs /\ q.wasLost = x.wasLost /\ q.parseDone = x.parseDone
        /\ q.dpbReferenceMark = x.dpbReferenceMark /\ q.stillReferenced = x.stillReferenced
        /\ q.neededForOutput = x.neededForOutput /\ q.progress = finished /\ q.error
        /\ q.reconDone = "unlocked" /\ q.parseTask = "none" /\ q.reconTask = "none"
    BY <1>1, <1>4, <2>4 DEF PictureType
  <2>6. TasksAgree(q)
    BY <2>3, <2>5 DEF TasksAgree
  <2>7. LeftAgrees(q, 1)
    BY <1>4, <2>5 DEF LeftAgrees, Finished
  <2> QED BY <1>2, <2>1, <2>3, <2>5, <2>6, <2>7 DEF LeftBehind, f, q
<1>7. CASE ~IsBad(x)
  <2>1. ~f.throws
    BY <1>7, FinishGood
  <2>2. PICK y \in PictureType : GivesUp(d, x, y, o) /\ q = [y EXCEPT !.progress = finished]
    BY <1>7, FinishGood
  <2>3. ~GivenUp(d, o)
    BY <1>4 DEF GivenUp
  <2>4. y = x
    BY <2>2, <2>3 DEF GivesUp
  <2>5. ~x.error /\ x.parseDone = "unlocked" /\ x.reconDone = "unlocked"
    BY <1>4, <1>7 DEF IsBad
  <2> HIDE DEF x, f, q
  <2>6. /\ q.au = x.au /\ q.refs = x.refs /\ q.wasLost = x.wasLost /\ q.parseDone = x.parseDone
        /\ q.dpbReferenceMark = x.dpbReferenceMark /\ q.stillReferenced = x.stillReferenced
        /\ q.neededForOutput = x.neededForOutput /\ q.progress = finished /\ q.error = x.error
        /\ q.reconDone = x.reconDone /\ q.parseTask = "none" /\ q.reconTask = "none"
    BY <1>1, <1>4, <2>2, <2>4 DEF PictureType
  <2>7. TasksAgree(q)
    BY <2>5, <2>6 DEF TasksAgree
  <2>8. LeftAgrees(q, 0)
    BY <1>4, <2>5, <2>6 DEF LeftAgrees, Finished
  <2> QED BY <1>2, <2>1, <2>6, <2>7, <2>8 DEF LeftBehind, f, q
<1>8. IsBad(x) \/ ~IsBad(x)
  OBVIOUS
<1> QED BY <1>5, <1>6, <1>7

(* What it does to the others: some are not kept any longer.               *)
LEMMA FinishOthers ==
  ASSUME DpbAssumption, NEW d \in DpbType, Numbered(d.picList), NEW o \in Pictures
  PROVE  /\ FinishPicture(d, o).dpb \in DpbType /\ FinishPicture(d, o).dpb.picList = d.picList
         /\ \A t \in Pictures : t # o => GivesUp(d, d.pic[t], FinishPicture(d, o).dpb.pic[t], t)
<1>1. d.pic \in [Pictures -> PictureType]
  BY DpbTypeFields
<1>2. CASE d.pic[o].reconDone = "failed"
  <2> DEFINE x == [d.pic[o] EXCEPT !.progress = reconstructed]
  <2>1. /\ FinishPicture(d, o).dpb \in DpbType /\ FinishPicture(d, o).dpb.picList = d.picList
        /\ FinishPicture(d, o).dpb.pic = [d.pic EXCEPT ![o] = x]
    BY <1>1, <1>2, FinishFailed
  <2> HIDE DEF x
  <2> QED BY <1>1, <2>1 DEF GivesUp
<1>3. CASE d.pic[o].reconDone # "failed" /\ IsBad(d.pic[o])
  <2> DEFINE x == [d.pic[o] EXCEPT !.progress = finished, !.reconDone = "unlocked",
                     !.error = d.pic[o].error \/ d.pic[o].parseDone = "failed",
                     !.exceptionThrownOut = d.pic[o].exceptionThrownOut \/ d.pic[o].parseDone = "failed"]
  <2>1. /\ FinishPicture(d, o).dpb \in DpbType /\ FinishPicture(d, o).dpb.picList = d.picList
        /\ FinishPicture(d, o).dpb.pic = [d.pic EXCEPT ![o] = x]
    BY <1>3, FinishOther
  <2> HIDE DEF x
  <2> QED BY <1>1, <2>1 DEF GivesUp
<1>4. CASE ~IsBad(d.pic[o])
  BY <1>4, FinishGood
<1> QED BY <1>2, <1>3, <1>4

(* The buffer after the picture o that somebody had is finished.           *)
FinishesPicture(o, times) ==
  /\ dpb' \in DpbType /\ dpb'.picList = dpb.picList
  /\ \A t \in Pictures : t # o =>
       \/ dpb'.pic[t] = Pic(t)
       \/ /\ dpb'.pic[t] = [Pic(t) EXCEPT !.stillReferenced = FALSE]
          /\ Listed(t) /\ ~Pic(t).dpbReferenceMark /\ (Pic(t).progress = finished \/ Pic(t).wasLost)
          /\ \A u \in Pictures \ {o} : Listed(u) /\ Pic(u).progress < reconstructed => t \notin Pic(u).refs
  /\ LeftBehind(Pic(o), dpb'.pic[o], times = 1)

LEMMA FinishPictureShape ==
  ASSUME DpbAssumption, TypeInv, ListInv, NEW o \in Pictures, NEW d \in DpbType, d.picList = dpb.picList,
         \A t \in Pictures : t # o => d.pic[t] = Pic(t),
         ErrorOnly(Pic(o), d.pic[o]), TasksAgree(d.pic[o]), OwnedAgrees(d.pic[o], 0),
         TakenOutAgrees(d.pic[o]), dpb' = FinishPicture(d, o).dpb
  PROVE  FinishesPicture(o, IF FinishPicture(d, o).throws THEN 1 ELSE 0)
<1> DEFINE times == IF FinishPicture(d, o).throws THEN 1 ELSE 0
           throws == FinishPicture(d, o).throws
<1>1. Numbered(d.picList)
  BY DEF ListInv
<1>2. /\ dpb' \in DpbType /\ dpb'.picList = dpb.picList
      /\ \A t \in Pictures : t # o => GivesUp(d, Pic(t), dpb'.pic[t], t)
  BY <1>1, FinishOthers
<1>3. LeftBehind(Pic(o), dpb'.pic[o], throws)
  BY <1>1, PicType, FinishLeaves
<1>4. LeftBehind(Pic(o), dpb'.pic[o], times = 1)
  <2>1. \A p, q : LeftBehind(p, q, throws) => LeftBehind(p, q, times = 1)
    <3> HIDE DEF throws
    <3> DEFINE n == IF throws THEN 1 ELSE 0
    <3>1. (IF n = 1 THEN 1 ELSE 0) = IF throws THEN 1 ELSE 0
      OBVIOUS
    <3>2. n = times
      BY DEF throws
    <3> HIDE DEF n, times
    <3> QED BY <3>1, <3>2 DEF LeftBehind
  <2> QED BY <1>3, <2>1
<1>5. ASSUME NEW t \in Pictures, t # o, dpb'.pic[t] # Pic(t)
      PROVE  /\ dpb'.pic[t] = [Pic(t) EXCEPT !.stillReferenced = FALSE]
             /\ Listed(t) /\ ~Pic(t).dpbReferenceMark /\ (Pic(t).progress = finished \/ Pic(t).wasLost)
             /\ \A u \in Pictures \ {o} : Listed(u) /\ Pic(u).progress < reconstructed => t \notin Pic(u).refs
  <2>1. dpb'.pic[t] = [Pic(t) EXCEPT !.stillReferenced = FALSE] /\ GivenUp(d, t)
    BY <1>2, <1>5 DEF GivesUp
  <2>2. d.pic[t] = Pic(t)
    BY <1>5
  <2>3. Listed(t) /\ ~Pic(t).dpbReferenceMark /\ (Pic(t).progress = finished \/ Pic(t).wasLost)
    BY <2>1, <2>2 DEF GivenUp, Listed
  <2>4. ASSUME NEW u \in Pictures \ {o}, Listed(u), Pic(u).progress < reconstructed PROVE t \notin Pic(u).refs
    BY <2>1, <2>4 DEF GivenUp, Listed
  <2> QED BY <2>1, <2>3, <2>4
<1> QED BY <1>2, <1>4, <1>5 DEF FinishesPicture

LEMMA FinishGoesOn ==
  ASSUME DpbAssumption, TypeInv, RunInv, NEW o \in Pictures, Owned(o), NEW times, FinishesPicture(o, times)
  PROVE  /\ PicturesGoOn
         /\ \A t \in Pictures : t # o => SameLife(Pic(t), dpb'.pic[t])
         /\ \A t \in Pictures : dpb'.pic[t].neededForOutput = Pic(t).neededForOutput
         /\ \A t \in Pictures : ~Listed(t) => dpb'.pic[t] = Pic(t)
<1>1. LeftBehind(Pic(o), dpb'.pic[o], times = 1) /\ Pic(o) \in PictureType /\ Listed(o)
  BY PicType DEF FinishesPicture, RunInv, PlaceInv
<1>2. OwnedAgrees(Pic(o), thrown[Pic(o).au]) /\ Pic(o).progress \in Int
  BY <1>1 DEF RunInv, LifeInv, PictureInv, PictureType, Progress
<1>3. ASSUME NEW t \in Pictures, t # o
      PROVE  /\ Goes(Pic(t), dpb'.pic[t]) /\ SameLife(Pic(t), dpb'.pic[t])
             /\ dpb'.pic[t].neededForOutput = Pic(t).neededForOutput
             /\ ~Listed(t) => dpb'.pic[t] = Pic(t)
  <2>1. Pic(t) \in PictureType /\ Pic(t).progress \in Int
    BY PicType DEF PictureType, Progress
  <2>2. \/ dpb'.pic[t] = Pic(t)
        \/ dpb'.pic[t] = [Pic(t) EXCEPT !.stillReferenced = FALSE] /\ Listed(t)
    BY <1>3 DEF FinishesPicture
  <2>3. /\ dpb'.pic[t].au = Pic(t).au /\ dpb'.pic[t].refs = Pic(t).refs
        /\ dpb'.pic[t].progress = Pic(t).progress /\ dpb'.pic[t].wasLost = Pic(t).wasLost
        /\ dpb'.pic[t].error = Pic(t).error /\ dpb'.pic[t].exceptionThrownOut = Pic(t).exceptionThrownOut
        /\ dpb'.pic[t].parseDone = Pic(t).parseDone /\ dpb'.pic[t].reconDone = Pic(t).reconDone
        /\ dpb'.pic[t].parseTask = Pic(t).parseTask /\ dpb'.pic[t].reconTask = Pic(t).reconTask
        /\ dpb'.pic[t].neededForOutput = Pic(t).neededForOutput
        /\ dpb'.pic[t].dpbReferenceMark = Pic(t).dpbReferenceMark
    BY <2>1, <2>2 DEF PictureType
  <2> QED BY <2>1, <2>2, <2>3 DEF Goes, SameLife
<1>4. Goes(Pic(o), dpb'.pic[o]) /\ dpb'.pic[o].neededForOutput = Pic(o).neededForOutput
  <2>1. Pic(o).progress <= dpb'.pic[o].progress
    <3>1. Pic(o).progress < finished
      BY <1>2 DEF OwnedAgrees
    <3>2. Pic(o).progress <= reconstructed
      BY <1>2, <3>1
    <3> QED BY <1>1, <1>2, <3>2 DEF LeftBehind
  <2> QED BY <1>1, <2>1 DEF Goes, LeftBehind
<1>5. ASSUME NEW t \in Pictures PROVE KeptReferenced(t)
  <2>1. CASE t = o
    BY <1>1, <2>1 DEF KeptReferenced, LeftBehind
  <2>2. CASE t # o /\ dpb'.pic[t] = Pic(t)
    BY <2>2 DEF KeptReferenced
  <2>3. CASE t # o /\ dpb'.pic[t] # Pic(t)
    <3>1. /\ ~Pic(t).dpbReferenceMark /\ (Pic(t).progress = finished \/ Pic(t).wasLost)
          /\ \A u \in Pictures \ {o} : Listed(u) /\ Pic(u).progress < reconstructed => t \notin Pic(u).refs
      BY <2>3 DEF FinishesPicture
    <3>2. ASSUME NEW u \in Pictures, dpb'.pic[u].progress < reconstructed PROVE t \notin Pic(u).refs
      <4>1. u # o
        BY <1>1, <3>2 DEF LeftBehind
      <4>2. Pic(u).progress < reconstructed
        BY <1>3, <3>2, <4>1 DEF SameLife
      <4>3. CASE Listed(u)
        BY <3>1, <4>1, <4>2, <4>3
      <4>4. CASE ~Listed(u)
        BY <4>4 DEF RunInv, ListInv, Fresh
      <4> QED BY <4>3, <4>4
    <3> QED BY <3>1, <3>2 DEF KeptReferenced
  <2> QED BY <2>1, <2>2, <2>3
<1>6. PicturesGoOn
  BY <1>3, <1>4, <1>5 DEF PicturesGoOn, FinishesPicture
<1> QED BY <1>1, <1>3, <1>4, <1>6

(* The exception about the picture o, times is 0 when there is none.       *)
ThrownOnce(o, times) ==
  \A b \in 1..Len(stream) : thrown'[b] = IF b = Pic(o).au THEN times ELSE thrown[b]

LEMMA ThrownAbout ==
  ASSUME DecLibAssumption, TypeInv, AuInv, stream' = stream, nextNal' = nextNal,
         NEW o \in Pictures, Pic(o).au > 0, NEW times \in {0, 1}, ThrownOnce(o, times)
  PROVE  /\ thrown'[Pic(o).au] = times
         /\ \A t \in Pictures : t # o /\ Pic(t).au > 0 => thrown'[Pic(t).au] = thrown[Pic(t).au]
         /\ \A a \in 1..Len(stream') : thrown'[a] \in {0, 1} /\ (a >= nextNal' => thrown'[a] = 0)
<1>1. nextNal \in Nat /\ nextNal >= 1 /\ nextNal <= Len(stream) + 1 /\ Len(stream) \in Nat
  BY StreamType
<1>2. ASSUME NEW t \in Pictures, Pic(t).au > 0
      PROVE  Pic(t).au \in 1..Len(stream) /\ Pic(t).au < nextNal
  <2>1. Pic(t).au \in Int /\ Pic(t).au < nextNal
    BY PicType DEF PictureType, AuInv
  <2> QED BY <1>1, <1>2, <2>1
<1>3. thrown'[Pic(o).au] = times
  BY <1>2 DEF ThrownOnce
<1>4. ASSUME NEW t \in Pictures, t # o, Pic(t).au > 0 PROVE thrown'[Pic(t).au] = thrown[Pic(t).au]
  <2>1. Pic(t).au # Pic(o).au
    BY <1>4 DEF AuInv
  <2> QED BY <1>2, <1>4, <2>1 DEF ThrownOnce
<1>5. ASSUME NEW a \in 1..Len(stream') PROVE thrown'[a] \in {0, 1} /\ (a >= nextNal' => thrown'[a] = 0)
  <2>1. CASE a = Pic(o).au
    <3>1. a < nextNal /\ thrown'[a] = times
      BY <1>2, <1>3, <2>1
    <3> QED BY <1>1, <3>1
  <2>2. CASE a # Pic(o).au
    <3>1. thrown'[a] = thrown[a]
      BY <2>2 DEF ThrownOnce
    <3> QED BY <3>1 DEF AuInv
  <2> QED BY <2>1, <2>2
<1> QED BY <1>3, <1>4, <1>5

(* A step that finishes the picture o, which nobody has any longer.        *)
LEMMA LeavesStep ==
  ASSUME DpbAssumption, DecLibAssumption, TypeInv, RunInv, NEW o \in Pictures, Owned(o),
         NEW times \in {0, 1}, FinishesPicture(o, times), ThrownOnce(o, times), ~Owned(o)',
         stream' = stream, nextNal' = nextNal, dpbReferencePics' = dpbReferencePics,
         parseFrameList' = parseFrameList, main'.pc \notin Hands,
         \A t \in Pictures : t # o => SamePlace(t),
         \A i \in 1..DecInstances : \A j \in 1..DecInstances :
           decLibRecon'[i] = decLibRecon'[j] /\ decLibRecon'[i] # 0 => i = j
  PROVE  /\ ListInv' /\ PlaceInv' /\ LifeInv' /\ AuInv' /\ UseInv' /\ RefInv' /\ PicturesGoOn
         /\ \A t \in dpbReferencePics' : Listed(t)'
         /\ \A t \in Pictures :
              dpb'.pic[t].dpbReferenceMark => t \in dpbReferencePics' /\ dpb'.pic[t].stillReferenced
         /\ \A t \in Pictures : /\ dpb'.pic[t].neededForOutput = Pic(t).neededForOutput
                                /\ dpb'.pic[t].dpbReferenceMark = Pic(t).dpbReferenceMark
<1>1. /\ PicturesGoOn
      /\ \A t \in Pictures : t # o => SameLife(Pic(t), dpb'.pic[t])
      /\ \A t \in Pictures : dpb'.pic[t].neededForOutput = Pic(t).neededForOutput
      /\ \A t \in Pictures : ~Listed(t) => dpb'.pic[t] = Pic(t)
  BY FinishGoesOn
<1>2. LeftBehind(Pic(o), dpb'.pic[o], times = 1) /\ Listed(o)
  BY DEF FinishesPicture, RunInv, PlaceInv
<1>3. OwnedAgrees(Pic(o), thrown[Pic(o).au])
  BY DEF RunInv, LifeInv, PictureInv
<1>4. /\ thrown'[Pic(o).au] = times
      /\ \A t \in Pictures : t # o /\ Pic(t).au > 0 => thrown'[Pic(t).au] = thrown[Pic(t).au]
      /\ \A a \in 1..Len(stream') : thrown'[a] \in {0, 1} /\ (a >= nextNal' => thrown'[a] = 0)
  BY <1>3, ThrownAbout DEF RunInv, OwnedAgrees
<1>5. \A t : Listed(t)' <=> Listed(t)
  BY <1>1 DEF Listed, PicturesGoOn
<1>6. ListInv'
  <2>1. Numbered(dpb'.picList)
    BY <1>1 DEF RunInv, ListInv, PicturesGoOn
  <2>2. \A t \in Pictures : ~Listed(t)' => Pic(t)' = Fresh
    BY <1>1, <1>5 DEF RunInv, ListInv, Pic
  <2> QED BY <2>1, <2>2 DEF RunInv, ListInv
<1>7. ASSUME NEW t \in Pictures
      PROVE  /\ Owned(t)' => Owned(t)
             /\ Queued(t)' => Queued(t) /\ (InObject(t)' <=> InObject(t))
  <2>1. CASE t # o
    <3>1. SamePlace(t)
      BY <2>1
    <3> QED BY <3>1 DEF SamePlace, Owned
  <2>2. CASE t = o
    BY <2>2 DEF Owned
  <2> QED BY <2>1, <2>2
<1>8. PlaceInv'
  <2>1. \A t : ~InHand(t)' /\ ~TakenOut(t)'
    BY DEF InHand, TakenOut, Hands
  <2>2. \A t \in Pictures : Owned(t)' => Listed(t)'
    BY <1>5, <1>7 DEF RunInv, PlaceInv
  <2>3. \A t \in Pictures : Queued(t)' => ~InObject(t)'
    BY <1>7 DEF RunInv, PlaceInv
  <2> QED BY <2>1, <2>2, <2>3 DEF PlaceInv, Hands
<1>9. LifeInv'
  <2> SUFFICES ASSUME NEW t \in Pictures PROVE PictureInv(t)' /\ LeftInv(t)'
    BY DEF LifeInv
  <2>1. CASE t # o
    <3>1. SamePlace(t) /\ SameLife(Pic(t), dpb'.pic[t]) /\ PictureInv(t) /\ LeftInv(t)
      BY <1>1, <2>1 DEF RunInv, LifeInv
    <3> QED BY <1>4, <2>1, <3>1, LifeKept
  <2>2. CASE t = o
    <3>1. Pic(o)' = dpb'.pic[o] /\ TasksAgree(dpb'.pic[o]) /\ dpb'.pic[o].au = Pic(o).au
          /\ LeftAgrees(dpb'.pic[o], IF times = 1 THEN 1 ELSE 0)
      BY <1>2 DEF Pic, LeftBehind
    <3>2. (IF times = 1 THEN 1 ELSE 0) = thrown'[dpb'.pic[o].au]
      BY <1>4, <3>1
    <3>3. LeftInv(o)'
      BY <3>1, <3>2 DEF LeftInv
    <3>4. ~Unstarted(o)' /\ ~Queued(o)' /\ ~InHand(o)' /\ ~InObject(o)' /\ ~TakenOut(o)'
      BY DEF Unstarted, Hands, Owned
    <3>5. PictureInv(o)'
      BY <3>1, <3>4 DEF PictureInv, Owned
    <3> QED BY <2>2, <3>3, <3>5
  <2> QED BY <2>1, <2>2
<1>10. nextNal' \in Nat /\ nextNal <= nextNal'
  BY StreamType
<1>11. AuInv'
  BY <1>1, <1>4, <1>10, AuKept DEF RunInv
<1>12. UseInv'
  BY <1>1, UseKept DEF RunInv
<1>13. RefInv'
  <2>1. \A t, r : Before(r, t) => Before(r, t)'
    BY DEF Before
  <2> QED BY <1>1, <2>1, RefsKept DEF RunInv
<1>14. /\ \A t \in dpbReferencePics' : Listed(t)'
       /\ \A t \in Pictures :
            dpb'.pic[t].dpbReferenceMark => t \in dpbReferencePics' /\ dpb'.pic[t].stillReferenced
  BY <1>1, MarksKept DEF RunInv
<1> QED BY <1>1, <1>6, <1>8, <1>9, <1>11, <1>12, <1>13, <1>14 DEF PicturesGoOn, Goes

LEMMA FinishNoneKeeps ==
  ASSUME DpbAssumption, DecLibAssumption, IInv, check = "none", FinishDone, main.done = 0
  PROVE  IInv' /\ PicturesGoOn /\ check' = "none"
<1>1. TypeInv /\ RunInv
  BY DEF IInv
<1>2. /\ stream' = stream /\ tryContinue' = tryContinue /\ nextNal' = nextNal /\ dpb' = dpb
      /\ pocRandomAccess' = pocRandomAccess /\ dpbReferencePics' = dpbReferencePics
      /\ parseFrameList' = parseFrameList /\ decLibRecon' = decLibRecon /\ app' = app
      /\ output' = output /\ thrown' = thrown /\ errors' = errors /\ check' = check
      /\ main.pc = "finish" /\ GoTo(AfterRecon)
  BY DEF FinishDone, parseVars, appVars
<1>3. main' \in MainType /\ main'.call = main.call /\ main'.pc = AfterRecon
  <2>1. AfterRecon \in {"output", "flushOutput"}
    BY DEF AfterRecon
  <2> HIDE DEF AfterRecon
  <2>2. PICK pc \in {"output", "flushOutput"} : pc = AfterRecon
    BY <2>1
  <2>3. GoTo(pc)
    BY <1>2, <2>2
  <2> QED BY <1>1, <2>2, <2>3, GoToType DEF TypeInv
<1>4. PicturesStay
  BY <1>1, <1>2, StayUnchanged
<1>5. QuietStep
  BY <1>2, <1>3, <1>4 DEF QuietStep, Hands, AfterRecon
<1>6. app.state = main.call /\ main.call \in {"decode", "flush"}
  BY <1>1, <1>2 DEF RunInv, CallInv, TypeInv, MainType
<1>7. CallInv' /\ DrainInv'
  BY <1>2, <1>3, <1>6 DEF CallInv, DrainInv, AfterRecon
<1>8. InSequence' => \A s \in dpbReferencePics : Pic(s).dpbReferenceMark \/ Kept(s)'
  <2> SUFFICES ASSUME InSequence', NEW s \in dpbReferencePics, ~Pic(s).dpbReferenceMark PROVE Kept(s)'
    OBVIOUS
  <2>1. InSequence /\ main'.pc = "output"
    BY <1>2, <1>3, <1>6 DEF InSequence, AfterRecon
  <2>2. Kept(s)
    BY <1>1, <2>1 DEF RunInv, DpbInv
  <2> QED BY <1>2, <2>1, <2>2 DEF Kept, Pic, Queued, InObject
<1> QED BY <1>1, <1>2, <1>3, <1>5, <1>7, <1>8, QuietMainStep DEF TypeInv

(* How finishPicture returns.                                              *)
LEMMA FinishReturns ==
  ASSUME DpbAssumption, TypeInv, RunInv, NEW o \in Pictures, Owned(o), NEW throws \in BOOLEAN,
         NEW times, times = IF throws THEN 1 ELSE 0,
         IF throws THEN ThrowTo(Pic(o).au, main.call) ELSE UNCHANGED appVars
  PROVE  /\ app' \in AppType /\ app'.state \in {app.state, "stopped"} /\ (~throws => app' = app)
         /\ thrown' \in [1..Len(stream) -> Nat] /\ output' = output /\ times \in {0, 1}
         /\ ThrownOnce(o, times)
         /\ throws => main' \in MainType /\ main'.pc = "app" /\ main'.call = main.call
<1>1. Pic(o).au > 0 /\ thrown[Pic(o).au] = 0
  BY DEF RunInv, LifeInv, PictureInv, OwnedAgrees
<1>2. CASE throws
  <2>1. PICK a : a = Pic(o).au
    OBVIOUS
  <2>2. main.call \in {"decode", "flush"} /\ ThrowTo(a, main.call)
    BY <1>2, <2>1 DEF TypeInv, MainType
  <2>3. /\ main' \in MainType /\ main'.pc = "app" /\ main'.call = main.call
        /\ app' \in AppType /\ app'.state \in {app.state, "stopped"}
        /\ thrown' \in [1..Len(stream) -> Nat] /\ output' = output
        /\ \A b \in 1..Len(stream) : thrown'[b] = IF b = a /\ a > 0 THEN thrown[b] + 1 ELSE thrown[b]
    BY <2>2, ThrowType
  <2>4. ThrownOnce(o, times)
    BY <1>1, <1>2, <2>1, <2>3 DEF ThrownOnce
  <2> QED BY <1>2, <2>3, <2>4
<1>3. CASE ~throws
  <2>1. app' = app /\ thrown' = thrown /\ output' = output
    BY <1>3 DEF appVars
  <2>2. ThrownOnce(o, times)
    BY <1>1, <1>3, <2>1 DEF ThrownOnce
  <2> QED BY <1>3, <2>1, <2>2 DEF TypeInv
<1> QED BY <1>2, <1>3

LEMMA FinishDoneKeeps ==
  ASSUME DpbAssumption, DecLibAssumption, IInv, check = "none", FinishDone, main.done # 0
  PROVE  IInv' /\ PicturesGoOn /\ check' = "none"
<1>1. TypeInv /\ RunInv
  BY DEF IInv
<1>2. PICK o : o = main.done
  OBVIOUS
<1>3. o \in Pictures /\ TakenOut(o) /\ Owned(o)
  <2>1. main.done \in 0..MaxPictures /\ main.pc = "finish"
    BY <1>1 DEF TypeInv, MainType, FinishDone
  <2> QED BY <1>2, <2>1 DEF Pictures, TakenOut, Owned, DpbAssumption
<1>4. PICK throws \in BOOLEAN : throws <=> FinishPicture(dpb, o).throws
  OBVIOUS
<1>5. PICK times : times = IF throws THEN 1 ELSE 0
  OBVIOUS
<1>6. /\ stream' = stream /\ tryContinue' = tryContinue /\ nextNal' = nextNal
      /\ pocRandomAccess' = pocRandomAccess /\ dpbReferencePics' = dpbReferencePics
      /\ parseFrameList' = parseFrameList /\ decLibRecon' = decLibRecon
      /\ errors' = errors /\ check' = check /\ main.pc = "finish"
      /\ dpb' = FinishPicture(dpb, o).dpb
  BY <1>2 DEF FinishDone, parseVars
<1>7. IF throws THEN ThrowTo(Pic(o).au, main.call) ELSE GoTo(AfterRecon) /\ UNCHANGED appVars
  BY <1>2, <1>4 DEF FinishDone
<1>8. FinishesPicture(o, times)
  <2>1. TasksAgree(Pic(o)) /\ OwnedAgrees(Pic(o), 0) /\ TakenOutAgrees(Pic(o))
    BY <1>1, <1>3 DEF RunInv, LifeInv, PictureInv, OwnedAgrees
  <2>2. dpb \in DpbType /\ ErrorOnly(Pic(o), dpb.pic[o])
    BY <1>1 DEF TypeInv, ErrorOnly, Pic
  <2>3. FinishesPicture(o, IF FinishPicture(dpb, o).throws THEN 1 ELSE 0)
    BY <1>1, <1>3, <1>6, <2>1, <2>2, FinishPictureShape DEF RunInv, Pic
  <2> QED BY <1>4, <1>5, <2>3
<1>9. /\ app' \in AppType /\ app'.state \in {app.state, "stopped"} /\ (~throws => app' = app)
      /\ thrown' \in [1..Len(stream) -> Nat] /\ output' = output /\ times \in {0, 1}
      /\ ThrownOnce(o, times)
      /\ throws => main' \in MainType /\ main'.pc = "app" /\ main'.call = main.call
  BY <1>1, <1>3, <1>5, <1>7, FinishReturns
<1>10. ~throws => main' \in MainType /\ main'.call = main.call /\ main'.pc = AfterRecon
  <2>1. PICK pc \in {"output", "flushOutput"} : pc = AfterRecon
    BY DEF AfterRecon
  <2>2. ~throws => GoTo(pc)
    BY <1>7, <2>1
  <2> QED BY <1>1, <2>1, <2>2, GoToType DEF TypeInv
<1>11. /\ main' \in MainType /\ main'.call = main.call
       /\ main'.pc = "app" \/ (main'.pc = AfterRecon /\ app' = app)
  BY <1>9, <1>10
<1>12. main'.pc \notin Hands
  BY <1>11 DEF Hands, AfterRecon
<1>13. /\ \A t : Listed(t)' <=> Listed(t)
       /\ \A t : Queued(t)' <=> Queued(t)
       /\ \A t : InObject(t)' <=> InObject(t)
  BY <1>6, <1>8, SameLists DEF FinishesPicture
<1>14. /\ \A t : ~InHand(t) /\ ~InHand(t)' /\ ~TakenOut(t)' /\ ~Unstarted(t) /\ ~Unstarted(t)'
       /\ \A t : TakenOut(t) <=> t = o
  BY <1>2, <1>6, <1>12 DEF InHand, TakenOut, Unstarted, Hands
<1>15. ~Owned(o)'
  BY <1>1, <1>3, <1>13, <1>14 DEF RunInv, PlaceInv, Owned
<1>16. \A t \in Pictures : t # o => SamePlace(t)
  BY <1>13, <1>14 DEF SamePlace
<1>17. \A i \in 1..DecInstances : \A j \in 1..DecInstances :
         decLibRecon'[i] = decLibRecon'[j] /\ decLibRecon'[i] # 0 => i = j
  BY <1>1, <1>6 DEF RunInv, ListInv
<1>18. /\ ListInv' /\ PlaceInv' /\ LifeInv' /\ AuInv' /\ UseInv' /\ RefInv' /\ PicturesGoOn
       /\ \A t \in dpbReferencePics' : Listed(t)'
       /\ \A t \in Pictures :
            dpb'.pic[t].dpbReferenceMark => t \in dpbReferencePics' /\ dpb'.pic[t].stillReferenced
       /\ \A t \in Pictures : /\ dpb'.pic[t].neededForOutput = Pic(t).neededForOutput
                              /\ dpb'.pic[t].dpbReferenceMark = Pic(t).dpbReferenceMark
  BY <1>1, <1>3, <1>6, <1>8, <1>9, <1>12, <1>15, <1>16, <1>17, LeavesStep
<1>19. app.state = main.call /\ main.call \in {"decode", "flush"} /\ app.state # "eof"
  BY <1>1, <1>6 DEF RunInv, CallInv, TypeInv, MainType
<1>20. CallInv' /\ DrainInv'
  BY <1>9, <1>11, <1>19 DEF CallInv, DrainInv, AfterRecon
<1>21. DpbInv'
  <2>1. ASSUME InSequence', NEW s \in dpbReferencePics' PROVE dpb'.pic[s].dpbReferenceMark \/ Kept(s)'
    <3>1. InSequence /\ s \in dpbReferencePics /\ s \in Pictures /\ main'.pc \in {"app", "output"}
      BY <1>1, <1>6, <1>9, <1>11, <1>19, <2>1 DEF InSequence, TypeInv, AfterRecon
    <3>2. Pic(s).dpbReferenceMark \/ Kept(s)
      BY <1>1, <3>1 DEF RunInv, DpbInv
    <3>3. Kept(s) => Kept(s)'
      BY <1>6, <1>13, <1>18, <3>1 DEF Kept, Pic
    <3> QED BY <1>18, <3>1, <3>2, <3>3
  <2> QED BY <1>18, <2>1 DEF DpbInv, Pic
<1>22. TypeInv'
  BY <1>1, <1>6, <1>9, <1>11, <1>18 DEF TypeInv, PicturesGoOn
<1> QED BY <1>6, <1>18, <1>20, <1>21, <1>22 DEF IInv, RunInv

(* sanitizeBrokenPicture finishes the picture and always throws.           *)
LEMMA SanitizeShape ==
  ASSUME DpbAssumption, IInv, check = "none", Sanitize, NEW s, s = main.pic
  PROVE  s \in Pictures /\ Owned(s) /\ FinishesPicture(s, 1) /\ ThrowTo(Pic(s).au, main.call) /\ check' = check
<1>1. TypeInv /\ RunInv /\ main.pc = "sanitize" /\ NoTasks(s)
  BY DEF IInv, Sanitize
<1>2. s \in Pictures /\ InHand(s) /\ Owned(s)
  BY <1>1 DEF RunInv, PlaceInv, InHand, Owned
<1> DEFINE p == Pic(s)
           exc == main.exc
           y == Sanitized(p)
           d == [dpb EXCEPT !.pic[s] = y]
           f == FinishPicture(d, s)
<1>3. p \in PictureType /\ dpb.pic \in [Pictures -> PictureType] /\ dpb \in DpbType /\ exc \in BOOLEAN
  BY <1>1, <1>2, PicType, DpbTypeFields DEF TypeInv, MainType
<1>4. /\ TasksAgree(p) /\ OwnedAgrees(p, thrown[p.au]) /\ WaitsAgrees(p) /\ p.error
      /\ p.parseTask = "none" /\ p.reconTask = "none"
  BY <1>1, <1>2 DEF RunInv, LifeInv, PictureInv, NoTasks
<1>5. p.parseDone = "failed" /\ p.reconDone = "locked" /\ p.au > 0 /\ ~p.wasLost /\ ~p.exceptionThrownOut
  BY <1>4 DEF OwnedAgrees, WaitsAgrees
<1>6. d = [dpb EXCEPT !.pic[s] = Sanitized(@)]
  BY DEF Pic
<1>7. /\ dpb' = IF exc THEN [f.dpb EXCEPT !.pic[s].exceptionThrownOut = TRUE] ELSE f.dpb
      /\ IF exc /\ f.dpb.pic[s].exceptionThrownOut THEN Fails("exception thrown out already")
         ELSE IF exc \/ f.throws THEN ThrowTo(f.dpb.pic[s].au, main.call) /\ UNCHANGED check
         ELSE GoTo("choose") /\ UNCHANGED <<appVars, check>>
  BY <1>6 DEF Sanitize
<1>8. y = [p EXCEPT !.error = TRUE, !.parseDone = IF exc THEN "unlocked" ELSE "failed",
                    !.progress = reconstructed, !.reconDone = "unlocked"]
  <2>1. CASE exc
    <3>1. y = FillGrey([p EXCEPT !.error = TRUE, !.parseDone = "unlocked"])
      BY <2>1 DEF Sanitized
    <3>2. [p EXCEPT !.error = TRUE, !.parseDone = "unlocked"].reconDone = "locked"
      BY <1>3, <1>5 DEF PictureType
    <3>3. y = [[p EXCEPT !.error = TRUE, !.parseDone = "unlocked"] EXCEPT !.progress = reconstructed, !.reconDone = "unlocked"]
      BY <3>1, <3>2 DEF FillGrey
    <3> HIDE DEF y, p
    <3> QED BY <1>3, <2>1, <3>3 DEF PictureType
  <2>2. CASE ~exc
    <3>1. y = FillGrey(p)
      BY <2>2 DEF Sanitized
    <3>2. y = [p EXCEPT !.progress = reconstructed, !.reconDone = "unlocked"]
      BY <1>5, <3>1 DEF FillGrey
    <3> HIDE DEF y, p
    <3> QED BY <1>3, <1>4, <1>5, <2>2, <3>2 DEF PictureType
  <2> QED BY <2>1, <2>2
<1> HIDE DEF y, p, exc
<1>9. /\ y \in PictureType
      /\ y.au = p.au /\ y.refs = p.refs /\ y.wasLost = p.wasLost
      /\ y.dpbReferenceMark = p.dpbReferenceMark /\ y.stillReferenced = p.stillReferenced
      /\ y.neededForOutput = p.neededForOutput /\ y.progress = reconstructed /\ y.error
      /\ y.reconDone = "unlocked" /\ y.parseTask = "none" /\ y.reconTask = "none" /\ ~y.exceptionThrownOut
      /\ y.parseDone = IF exc THEN "unlocked" ELSE "failed"
  <2> DEFINE b == IF exc THEN "unlocked" ELSE "failed"
  <2>1. b \in Barrier /\ y = [p EXCEPT !.error = TRUE, !.parseDone = b,
                    !.progress = reconstructed, !.reconDone = "unlocked"]
    BY <1>8 DEF Barrier
  <2> HIDE DEF b
  <2>2. /\ y \in PictureType
        /\ y.au = p.au /\ y.refs = p.refs /\ y.wasLost = p.wasLost
        /\ y.dpbReferenceMark = p.dpbReferenceMark /\ y.stillReferenced = p.stillReferenced
        /\ y.neededForOutput = p.neededForOutput /\ y.progress = reconstructed /\ y.error
        /\ y.reconDone = "unlocked" /\ y.parseTask = "none" /\ y.reconTask = "none" /\ ~y.exceptionThrownOut
        /\ y.parseDone = b
    BY <1>3, <1>4, <1>5, <2>1, ProgressValues DEF PictureType, Barrier
  <2> QED BY <2>2 DEF b
<1>10. d \in DpbType /\ d.picList = dpb.picList /\ d.pic = [dpb.pic EXCEPT ![s] = y]
  <2> DEFINE pics == [dpb.pic EXCEPT ![s] = y]
  <2>1. pics \in [Pictures -> PictureType]
    BY <1>2, <1>3, <1>9
  <2>2. d = [dpb EXCEPT !.pic = pics]
    OBVIOUS
  <2> HIDE DEF pics, d
  <2>3. d \in DpbType /\ d.picList = dpb.picList /\ d.pic = pics
    BY ONLY <1>3, <2>1, <2>2, WithPics
  <2> QED BY <2>3 DEF pics
<1>11. d.pic[s] = y
  BY <1>2, <1>3, <1>10
<1> HIDE DEF d
<1> DEFINE q == [y EXCEPT !.progress = finished, !.reconDone = "unlocked",
                 !.error = y.error \/ y.parseDone = "failed",
                 !.exceptionThrownOut = y.exceptionThrownOut \/ y.parseDone = "failed"]
<1>12. /\ f.throws <=> ~exc
       /\ f.dpb \in DpbType /\ f.dpb.picList = d.picList /\ f.dpb.pic = [d.pic EXCEPT ![s] = q]
  <2>1. d.pic[s].reconDone # "failed" /\ IsBad(d.pic[s])
    BY <1>9, <1>11 DEF IsBad
  <2>2. f.throws <=> d.pic[s].parseDone = "failed" /\ ~d.pic[s].exceptionThrownOut
    BY <1>2, <1>10, <2>1, FinishOther
  <2>3. f.dpb \in DpbType /\ f.dpb.picList = d.picList
    BY <1>2, <1>10, <2>1, FinishOther
  <2>4. f.dpb.pic = [d.pic EXCEPT ![s] = q]
    <3> DEFINE z == [d.pic[s] EXCEPT !.progress = finished, !.reconDone = "unlocked",
                 !.error = d.pic[s].error \/ d.pic[s].parseDone = "failed",
                 !.exceptionThrownOut = d.pic[s].exceptionThrownOut \/ d.pic[s].parseDone = "failed"]
    <3>1. f.dpb.pic = [d.pic EXCEPT ![s] = z]
      BY ZenonT(30), <1>2, <1>10, <2>1, FinishOther
    <3>2. z = q
      BY <1>11
    <3> HIDE DEF z, q, f
    <3> QED BY <3>1, <3>2
  <2> HIDE DEF f, q
  <2> QED BY <1>9, <1>11, <2>2, <2>3, <2>4
<1> HIDE DEF f
<1>13. /\ q \in PictureType
       /\ q.au = y.au /\ q.refs = y.refs /\ q.wasLost = y.wasLost
       /\ q.dpbReferenceMark = y.dpbReferenceMark /\ q.stillReferenced = y.stillReferenced
       /\ q.neededForOutput = y.neededForOutput /\ q.progress = finished /\ q.error
       /\ q.reconDone = "unlocked" /\ q.parseTask = "none" /\ q.reconTask = "none"
       /\ q.parseDone = y.parseDone /\ (q.exceptionThrownOut <=> ~exc)
  <2> DEFINE e == y.error \/ y.parseDone = "failed"
             x == y.exceptionThrownOut \/ y.parseDone = "failed"
  <2>1. e = TRUE /\ x \in BOOLEAN /\ (x <=> ~exc)
        /\ q = [y EXCEPT !.progress = finished, !.reconDone = "unlocked", !.error = e, !.exceptionThrownOut = x]
    BY <1>9
  <2> HIDE DEF e, x, q
  <2> QED BY <1>9, <2>1, ProgressValues DEF PictureType, Barrier
<1> HIDE DEF q
<1>14. f.dpb.pic[s] = q /\ \A t \in Pictures : t # s => f.dpb.pic[t] = Pic(t)
  BY <1>2, <1>3, <1>10, <1>12 DEF Pic
<1>15. /\ dpb' \in DpbType /\ dpb'.picList = dpb.picList
       /\ \A t \in Pictures : t # s => dpb'.pic[t] = Pic(t)
       /\ \/ dpb'.pic[s] = q \/ dpb'.pic[s] = [q EXCEPT !.exceptionThrownOut = TRUE]
  <2>1. CASE exc
    <3> DEFINE pics == [f.dpb.pic EXCEPT ![s] = [q EXCEPT !.exceptionThrownOut = TRUE]]
    <3>1. [q EXCEPT !.exceptionThrownOut = TRUE] \in PictureType
      BY <1>13 DEF PictureType
    <3>2. pics \in [Pictures -> PictureType]
      BY <1>2, <1>12, <3>1, DpbTypeFields
    <3>3. dpb' = [f.dpb EXCEPT !.pic = [f.dpb.pic EXCEPT ![s] = [f.dpb.pic[s] EXCEPT !.exceptionThrownOut = TRUE]]]
      BY <1>7, <2>1
    <3>4. dpb' = [f.dpb EXCEPT !.pic = pics]
      BY <1>14, <3>3
    <3>5. pics[s] = [q EXCEPT !.exceptionThrownOut = TRUE] /\ \A t \in Pictures : t # s => pics[t] = f.dpb.pic[t]
      BY <1>2, <1>12, DpbTypeFields
    <3> HIDE DEF pics
    <3>6. PICK e : e = f.dpb
      OBVIOUS
    <3>7. dpb' \in DpbType /\ dpb'.picList = e.picList /\ dpb'.pic = pics
      BY ONLY <1>12, <3>2, <3>4, <3>6, WithPics
    <3> QED BY <1>10, <1>12, <1>14, <3>5, <3>6, <3>7
  <2>2. CASE ~exc
    BY <1>7, <1>10, <1>12, <1>14, <2>2
  <2> QED BY <2>1, <2>2
<1>16. /\ dpb'.pic[s].au = q.au /\ dpb'.pic[s].refs = q.refs /\ dpb'.pic[s].wasLost = q.wasLost
       /\ dpb'.pic[s].dpbReferenceMark = q.dpbReferenceMark /\ dpb'.pic[s].stillReferenced = q.stillReferenced
       /\ dpb'.pic[s].neededForOutput = q.neededForOutput /\ dpb'.pic[s].progress = finished /\ dpb'.pic[s].error
       /\ dpb'.pic[s].reconDone = "unlocked" /\ dpb'.pic[s].parseTask = "none" /\ dpb'.pic[s].reconTask = "none"
       /\ dpb'.pic[s].parseDone = q.parseDone
  BY <1>13, <1>15 DEF PictureType
<1>17. LeftBehind(p, dpb'.pic[s], TRUE)
  <2>1. PICK z : z = dpb'.pic[s]
    OBVIOUS
  <2>2. /\ z.au = p.au /\ z.refs = p.refs /\ z.wasLost = p.wasLost
        /\ z.dpbReferenceMark = p.dpbReferenceMark /\ z.stillReferenced = p.stillReferenced
        /\ z.neededForOutput = p.neededForOutput /\ z.progress = finished /\ z.error
        /\ z.reconDone = "unlocked" /\ z.parseTask = "none" /\ z.reconTask = "none"
    BY <1>9, <1>13, <1>16, <2>1
  <2>3. TasksAgree(z)
    BY <2>2 DEF TasksAgree
  <2>4. LeftAgrees(z, 1)
    BY <1>5, <2>2 DEF LeftAgrees, Finished
  <2>5. LeftBehind(p, z, TRUE)
    BY <2>2, <2>3, <2>4 DEF LeftBehind
  <2> QED BY <2>1, <2>5
<1>18. FinishesPicture(s, 1)
  BY <1>15, <1>17 DEF FinishesPicture, p
<1>19. ThrowTo(f.dpb.pic[s].au, main.call) /\ check' = check
  BY <1>7, <1>12, <1>13, <1>14
<1>20. f.dpb.pic[s].au = Pic(s).au
  BY <1>9, <1>13, <1>14 DEF p
<1>21. ThrowTo(Pic(s).au, main.call)
  BY <1>19, <1>20
<1> QED BY <1>2, <1>18, <1>19, <1>21

LEMMA SanitizeKeeps ==
  ASSUME DpbAssumption, DecLibAssumption, IInv, check = "none", Sanitize
  PROVE  IInv' /\ PicturesGoOn /\ check' = "none"
<1>1. TypeInv /\ RunInv /\ main.pc = "sanitize"
  BY DEF IInv, Sanitize
<1>2. PICK o : o = main.pic
  OBVIOUS
<1>3. /\ o \in Pictures /\ Owned(o) /\ FinishesPicture(o, 1)
      /\ ThrowTo(Pic(o).au, main.call) /\ check' = check
  BY <1>2, SanitizeShape
<1>4. /\ stream' = stream /\ tryContinue' = tryContinue /\ nextNal' = nextNal
      /\ pocRandomAccess' = pocRandomAccess /\ dpbReferencePics' = dpbReferencePics
      /\ parseFrameList' = parseFrameList /\ decLibRecon' = decLibRecon /\ errors' = errors
  BY DEF Sanitize, parseVars
<1>5. /\ app' \in AppType /\ app'.state \in {app.state, "stopped"}
      /\ thrown' \in [1..Len(stream) -> Nat] /\ output' = output /\ ThrownOnce(o, 1)
      /\ main' \in MainType /\ main'.pc = "app" /\ main'.call = main.call
  <2>1. PICK throws \in BOOLEAN : throws = TRUE
    OBVIOUS
  <2>2. PICK times : times = 1
    OBVIOUS
  <2>3. IF throws THEN ThrowTo(Pic(o).au, main.call) ELSE UNCHANGED appVars
    BY <1>3, <2>1
  <2>4. /\ app' \in AppType /\ app'.state \in {app.state, "stopped"} /\ (~throws => app' = app)
        /\ thrown' \in [1..Len(stream) -> Nat] /\ output' = output /\ times \in {0, 1}
        /\ ThrownOnce(o, times)
        /\ throws => main' \in MainType /\ main'.pc = "app" /\ main'.call = main.call
    BY <1>1, <1>3, <2>1, <2>2, <2>3, FinishReturns
  <2> QED BY <2>1, <2>2, <2>4
<1>6. main'.pc \notin Hands
  BY <1>5 DEF Hands
<1>7. /\ \A t : Listed(t)' <=> Listed(t)
      /\ \A t : Queued(t)' <=> Queued(t)
      /\ \A t : InObject(t)' <=> InObject(t)
  BY <1>3, <1>4, SameLists DEF FinishesPicture
<1>8. /\ \A t : ~InHand(t)' /\ ~TakenOut(t) /\ ~TakenOut(t)' /\ ~Unstarted(t) /\ ~Unstarted(t)'
      /\ \A t : InHand(t) <=> t = o
  BY <1>1, <1>2, <1>6 DEF InHand, TakenOut, Unstarted, Hands
<1>9. ~Owned(o)'
  BY <1>1, <1>3, <1>7, <1>8 DEF RunInv, PlaceInv, Owned
<1>10. \A t \in Pictures : t # o => SamePlace(t)
  BY <1>7, <1>8 DEF SamePlace
<1>11. \A i \in 1..DecInstances : \A j \in 1..DecInstances :
         decLibRecon'[i] = decLibRecon'[j] /\ decLibRecon'[i] # 0 => i = j
  BY <1>1, <1>4 DEF RunInv, ListInv
<1>12. /\ ListInv' /\ PlaceInv' /\ LifeInv' /\ AuInv' /\ UseInv' /\ RefInv' /\ PicturesGoOn
       /\ \A t \in dpbReferencePics' : Listed(t)'
       /\ \A t \in Pictures :
            dpb'.pic[t].dpbReferenceMark => t \in dpbReferencePics' /\ dpb'.pic[t].stillReferenced
       /\ \A t \in Pictures : /\ dpb'.pic[t].neededForOutput = Pic(t).neededForOutput
                              /\ dpb'.pic[t].dpbReferenceMark = Pic(t).dpbReferenceMark
  BY <1>1, <1>3, <1>4, <1>5, <1>6, <1>9, <1>10, <1>11, LeavesStep
<1>13. app.state = main.call /\ main.call \in {"decode", "flush"} /\ app.state # "eof"
  BY <1>1 DEF RunInv, CallInv, TypeInv, MainType
<1>14. CallInv' /\ DrainInv'
  BY <1>5, <1>13 DEF CallInv, DrainInv
<1>15. DpbInv'
  <2>1. ASSUME InSequence', NEW s \in dpbReferencePics' PROVE dpb'.pic[s].dpbReferenceMark \/ Kept(s)'
    <3>1. InSequence /\ s \in dpbReferencePics /\ s \in Pictures
      BY <1>1, <1>4, <1>5, <2>1 DEF InSequence, TypeInv
    <3>2. Pic(s).dpbReferenceMark \/ Kept(s)
      BY <1>1, <3>1 DEF RunInv, DpbInv
    <3>3. Kept(s) => Kept(s)'
      BY <1>5, <1>12, <3>1 DEF Kept, Pic
    <3> QED BY <1>12, <3>1, <3>2, <3>3
  <2> QED BY <1>12, <2>1 DEF DpbInv, Pic
<1>16. TypeInv'
  BY <1>1, <1>4, <1>5, <1>12 DEF TypeInv, PicturesGoOn
<1> QED BY <1>3, <1>12, <1>14, <1>15, <1>16 DEF IInv, RunInv

(* waitForPrevDecompressedPic: what is known of the picture it releases.   *)
LEMMA ReleasedShape ==
  ASSUME DpbAssumption, TypeInv, RunInv, NEW i \in 1..DecInstances, PrevIsDone(i), NEW o, o = decLibRecon[i],
         o # 0, ~Unstarted(o), NEW d, d = Released(dpb, o)
  PROVE  /\ o \in Pictures /\ InObject(o) /\ d \in DpbType /\ d.picList = dpb.picList
         /\ d.pic = [dpb.pic EXCEPT ![o] = d.pic[o]]
         /\ \A t \in Pictures : t # o => d.pic[t] = Pic(t)
         /\ ErrorOnly(Pic(o), d.pic[o])
         /\ TasksAgree(d.pic[o]) /\ OwnedAgrees(d.pic[o], 0) /\ TakenOutAgrees(d.pic[o])
<1>1. o \in Pictures /\ InObject(o) /\ Owned(o)
  <2>1. o \in 0..MaxPictures
    BY DEF TypeInv
  <2> QED BY <2>1 DEF Pictures, InObject, Owned, DpbAssumption
<1> DEFINE p == Pic(o)
           e == p.error \/ p.reconDone = "failed"
           x == [p EXCEPT !.error = e]
<1>2. p \in PictureType /\ dpb.pic \in [Pictures -> PictureType] /\ dpb \in DpbType /\ e \in BOOLEAN
  BY <1>1, PicType, DpbTypeFields DEF TypeInv
<1>3. d = [dpb EXCEPT !.pic = [dpb.pic EXCEPT ![o] = x]]
  <2>1. d = [dpb EXCEPT !.pic[o].error = @ \/ dpb.pic[o].reconDone = "failed"]
    BY DEF Released
  <2>2. d = [dpb EXCEPT !.pic = [dpb.pic EXCEPT ![o] =
               [dpb.pic[o] EXCEPT !.error = dpb.pic[o].error \/ dpb.pic[o].reconDone = "failed"]]]
    BY <2>1
  <2> QED BY <2>2 DEF Pic
<1>4. /\ TasksAgree(p) /\ OwnedAgrees(p, 0) /\ ObjectAgrees(p)
      /\ ~(p.reconTask = "none" /\ p.reconDone = "locked")
  BY <1>1 DEF RunInv, LifeInv, PictureInv, OwnedAgrees
<1>5. p.reconDone # "locked" /\ (e => p.parseTask = "none" /\ p.reconTask = "none")
  BY DEF PrevIsDone, NoTasks, Pic
<1> HIDE DEF p
<1>6. /\ x \in PictureType /\ x.au = p.au /\ x.refs = p.refs /\ x.progress = p.progress /\ x.wasLost = p.wasLost
      /\ x.exceptionThrownOut = p.exceptionThrownOut /\ x.parseDone = p.parseDone /\ x.reconDone = p.reconDone
      /\ x.parseTask = p.parseTask /\ x.reconTask = p.reconTask /\ x.error = e
  <2> HIDE DEF e
  <2> QED BY <1>2 DEF PictureType
<1>7. ErrorOnly(p, x)
  <2>1. CASE e
    <3>1. e = TRUE
      BY <1>2, <2>1
    <3> QED BY <3>1 DEF ErrorOnly
  <2>2. CASE ~e
    <3>1. e = p.error
      BY <1>2, <2>2 DEF PictureType
    <3> HIDE DEF e
    <3>2. x = p
      BY <1>2, <3>1 DEF PictureType
    <3> QED BY <3>2 DEF ErrorOnly
  <2> QED BY <2>1, <2>2
<1> HIDE DEF x
<1>8. x.parseTask = "none" /\ x.reconTask = "none"
  <2>1. p.reconDone \in {"unlocked", "failed"}
    BY <1>2, <1>5 DEF PictureType, Barrier
  <2>2. p.reconTask = "none"
    BY <1>2, <1>4, <1>5 DEF TasksAgree, PictureType
  <2>3. p.parseTask = "none"
    <3>1. CASE p.reconDone = "failed"
      BY <1>5, <3>1
    <3>2. CASE p.reconDone = "unlocked"
      <4>1. p.progress = reconstructed
        BY <1>4, <3>2 DEF ObjectAgrees, TasksAgree
      <4>2. p.progress \notin {parsing, reconstructing}
        BY <4>1
      <4> QED BY <1>4, <4>2 DEF TasksAgree
    <3> QED BY <2>1, <3>1, <3>2
  <2> QED BY <1>6, <2>2, <2>3
<1>9. TasksAgree(x)
  BY <1>4, <1>6, <1>8 DEF TasksAgree
<1>10. OwnedAgrees(x, 0)
  <2>1. x.error => x.parseDone = "failed" \/ x.reconDone = "failed"
    <3>1. p.error => p.parseDone = "failed" \/ p.reconDone = "failed"
      BY <1>4, <1>6, <1>8 DEF OwnedAgrees
    <3> QED BY <1>6, <3>1
  <2> HIDE DEF e
  <2> QED BY <1>4, <1>6, <1>8, <2>1 DEF OwnedAgrees
<1>11. TakenOutAgrees(x)
  BY <1>4, <1>5, <1>6, <1>8 DEF TakenOutAgrees, ObjectAgrees
<1> HIDE DEF e
<1>12. d \in DpbType /\ d.picList = dpb.picList /\ d.pic = [dpb.pic EXCEPT ![o] = x]
  <2> DEFINE pics == [dpb.pic EXCEPT ![o] = x]
  <2>1. pics \in [Pictures -> PictureType]
    BY <1>1, <1>2, <1>6
  <2>2. d = [dpb EXCEPT !.pic = pics]
    BY <1>3
  <2> HIDE DEF pics
  <2>3. d \in DpbType /\ d.picList = dpb.picList /\ d.pic = pics
    BY ONLY <1>2, <2>1, <2>2, WithPics
  <2> QED BY <2>3 DEF pics
<1>13. d.pic[o] = x /\ \A t \in Pictures : t # o => d.pic[t] = Pic(t)
  BY <1>1, <1>2, <1>12 DEF Pic
<1> QED BY <1>1, <1>7, <1>9, <1>10, <1>11, <1>12, <1>13 DEF p

(* blockAndFinishPictures, one object after the other.                     *)
NextObject == main' = [main EXCEPT !.obj = @ + 1] /\ UNCHANGED appVars

LEMMA NextObjectType ==
  ASSUME TypeInv, main' = [main EXCEPT !.obj = @ + 1]
  PROVE  main' \in MainType /\ main'.pc = main.pc /\ main'.call = main.call /\ main'.obj = main.obj + 1
<1>1. main \in MainType /\ main.obj + 1 \in Nat
  BY DEF TypeInv, MainType
<1>2. main' = [main EXCEPT !.obj = main.obj + 1]
  OBVIOUS
<1> QED BY <1>1, <1>2 DEF MainType

LEMMA BlockNoneKeeps ==
  ASSUME DpbAssumption, DecLibAssumption, IInv, check = "none", Block, decLibRecon[main.obj] = 0
  PROVE  IInv' /\ PicturesGoOn /\ check' = "none"
<1>1. TypeInv /\ RunInv
  BY DEF IInv
<1>2. /\ stream' = stream /\ tryContinue' = tryContinue /\ nextNal' = nextNal /\ dpb' = dpb
      /\ pocRandomAccess' = pocRandomAccess /\ dpbReferencePics' = dpbReferencePics
      /\ parseFrameList' = parseFrameList /\ errors' = errors /\ check' = check
      /\ main.pc = "block" /\ main.obj <= DecInstances
      /\ decLibRecon' = [decLibRecon EXCEPT ![main.obj] = 0]
      /\ main' = [main EXCEPT !.obj = @ + 1] /\ app' = app /\ output' = output /\ thrown' = thrown
  BY DEF Block, parseVars, appVars
<1>3. decLibRecon' = decLibRecon
  <2>1. decLibRecon \in [1..DecInstances -> 0..MaxPictures]
    BY <1>1 DEF TypeInv
  <2> QED BY <1>2, <2>1
<1>4. main' \in MainType /\ main'.pc = "block" /\ main'.call = main.call /\ main'.obj = main.obj + 1
  BY <1>1, <1>2, NextObjectType
<1>5. PicturesStay
  BY <1>1, <1>2, StayUnchanged
<1>6. QuietStep
  BY <1>2, <1>3, <1>4, <1>5 DEF QuietStep, Hands
<1>7. /\ app.state = "flush" /\ main.call = "flush" /\ main.obj > 0 /\ main.obj \in Nat /\ parseFrameList = <<>>
      /\ \A i \in 1..DecInstances : i < main.obj => decLibRecon[i] = 0
  BY <1>1, <1>2 DEF RunInv, CallInv, DrainInv, TypeInv, MainType
<1>8. \A i \in 1..DecInstances : i < main'.obj => decLibRecon'[i] = 0
  <2> SUFFICES ASSUME NEW i \in 1..DecInstances, i < main.obj + 1 PROVE decLibRecon[i] = 0
    BY <1>3, <1>4
  <2>1. i < main.obj \/ i = main.obj
    BY <1>7
  <2> QED BY <1>7, <2>1
<1>9. CallInv' /\ DrainInv' /\ ~InSequence'
  BY <1>2, <1>4, <1>7, <1>8 DEF CallInv, DrainInv, InSequence
<1> QED BY <1>1, <1>2, <1>4, <1>6, <1>9, QuietMainStep DEF TypeInv

LEMMA BlockKeeps ==
  ASSUME DpbAssumption, DecLibAssumption, IInv, check = "none", Block, decLibRecon[main.obj] # 0
  PROVE  IInv' /\ PicturesGoOn /\ check' = "none"
<1>1. TypeInv /\ RunInv /\ main.pc = "block"
  BY DEF IInv, Block
<1>2. PICK k : k = main.obj
  OBVIOUS
<1>3. k \in 1..DecInstances /\ PrevIsDone(k)
  <2>1. k > 0 /\ k \in Nat
    BY <1>1, <1>2 DEF RunInv, DrainInv, TypeInv, MainType
  <2>2. k <= DecInstances /\ PrevIsDone(k)
    BY <1>2 DEF Block
  <2> QED BY <2>1, <2>2 DEF DpbAssumption
<1>4. PICK o : o = decLibRecon[k]
  OBVIOUS
<1>5. PICK d : d = Released(dpb, o)
  OBVIOUS
<1>6. /\ o \in Pictures /\ InObject(o) /\ d \in DpbType /\ d.picList = dpb.picList
      /\ \A t \in Pictures : t # o => d.pic[t] = Pic(t)
      /\ ErrorOnly(Pic(o), d.pic[o])
      /\ TasksAgree(d.pic[o]) /\ OwnedAgrees(d.pic[o], 0) /\ TakenOutAgrees(d.pic[o])
  <2>1. o # 0 /\ ~Unstarted(o)
    BY <1>1, <1>2, <1>4 DEF Unstarted
  <2>2. ASSUME NEW y, y = Released(dpb, o)
        PROVE  /\ o \in Pictures /\ InObject(o) /\ y \in DpbType /\ y.picList = dpb.picList
               /\ y.pic = [dpb.pic EXCEPT ![o] = y.pic[o]]
               /\ \A t \in Pictures : t # o => y.pic[t] = Pic(t)
               /\ ErrorOnly(Pic(o), y.pic[o])
               /\ TasksAgree(y.pic[o]) /\ OwnedAgrees(y.pic[o], 0) /\ TakenOutAgrees(y.pic[o])
    BY <1>1, <1>3, <1>4, <2>1, <2>2, ReleasedShape
  <2> QED BY <1>5, <2>2
<1>7. PICK throws \in BOOLEAN : throws <=> FinishPicture(d, o).throws
  OBVIOUS
<1>8. PICK times : times = IF throws THEN 1 ELSE 0
  OBVIOUS
<1>9. /\ stream' = stream /\ tryContinue' = tryContinue /\ nextNal' = nextNal
      /\ pocRandomAccess' = pocRandomAccess /\ dpbReferencePics' = dpbReferencePics
      /\ parseFrameList' = parseFrameList /\ errors' = errors /\ check' = check
      /\ decLibRecon' = [decLibRecon EXCEPT ![k] = 0]
      /\ dpb' = FinishPicture(d, o).dpb
  BY <1>2, <1>4, <1>5 DEF Block, parseVars
<1>10. IF throws THEN ThrowTo(Pic(o).au, main.call) ELSE NextObject
  BY <1>2, <1>4, <1>5, <1>7 DEF Block, NextObject
<1>11. FinishesPicture(o, times)
  <2>1. FinishesPicture(o, IF FinishPicture(d, o).throws THEN 1 ELSE 0)
    BY <1>1, <1>6, <1>9, FinishPictureShape DEF RunInv
  <2> QED BY <1>7, <1>8, <2>1
<1>12. Owned(o)
  BY <1>6 DEF Owned
<1>13. /\ app' \in AppType /\ app'.state \in {app.state, "stopped"} /\ (~throws => app' = app)
       /\ thrown' \in [1..Len(stream) -> Nat] /\ output' = output /\ times \in {0, 1}
       /\ ThrownOnce(o, times)
       /\ throws => main' \in MainType /\ main'.pc = "app" /\ main'.call = main.call
  <2>1. IF throws THEN ThrowTo(Pic(o).au, main.call) ELSE UNCHANGED appVars
    BY <1>10 DEF NextObject
  <2> QED BY <1>1, <1>6, <1>8, <1>12, <2>1, FinishReturns
<1>14. ~throws => main' \in MainType /\ main'.pc = "block" /\ main'.call = main.call /\ main'.obj = k + 1
  BY <1>1, <1>2, <1>10, NextObjectType DEF NextObject
<1>15. /\ main' \in MainType /\ main'.call = main.call
       /\ main'.pc = "app" \/ (main'.pc = "block" /\ app' = app /\ main'.obj = k + 1)
  BY <1>13, <1>14
<1>16. main'.pc \notin Hands
  BY <1>15 DEF Hands
<1>17. decLibRecon \in [1..DecInstances -> 0..MaxPictures]
  BY <1>1 DEF TypeInv
<1>18. /\ decLibRecon' \in [1..DecInstances -> 0..MaxPictures]
       /\ \A i \in 1..DecInstances : decLibRecon'[i] = IF i = k THEN 0 ELSE decLibRecon[i]
  <2>1. 0 \in 0..MaxPictures
    BY DEF DpbAssumption
  <2> QED BY <1>9, <1>17, <2>1
<1>19. \A t \in Pictures : t # 0
  BY DEF Pictures
<1>20. \A t \in Pictures : InObject(t)' <=> InObject(t) /\ t # o
  <2>1. \A i \in 1..DecInstances : decLibRecon[i] = o => i = k
    BY <1>1, <1>3, <1>4, <1>6, <1>19 DEF RunInv, ListInv
  <2> QED BY <1>3, <1>4, <1>18, <1>19, <2>1 DEF InObject
<1>21. /\ \A t : Listed(t)' <=> Listed(t)
       /\ \A t : Queued(t)' <=> Queued(t)
  BY <1>9, <1>11 DEF FinishesPicture, Listed, Queued
<1>22. \A t : /\ ~InHand(t) /\ ~TakenOut(t) /\ ~Unstarted(t)
              /\ ~InHand(t)' /\ ~TakenOut(t)' /\ ~Unstarted(t)'
  BY <1>1, <1>16 DEF InHand, TakenOut, Unstarted, Hands
<1>23. ~Owned(o)'
  BY <1>1, <1>6, <1>20, <1>21, <1>22 DEF RunInv, PlaceInv, Owned
<1>24. \A t \in Pictures : t # o => SamePlace(t)
  BY <1>20, <1>21, <1>22 DEF SamePlace
<1>25. \A i \in 1..DecInstances : \A j \in 1..DecInstances :
         decLibRecon'[i] = decLibRecon'[j] /\ decLibRecon'[i] # 0 => i = j
  BY <1>1, <1>18 DEF RunInv, ListInv
<1>26. /\ ListInv' /\ PlaceInv' /\ LifeInv' /\ AuInv' /\ UseInv' /\ RefInv' /\ PicturesGoOn
       /\ \A t \in dpbReferencePics' : Listed(t)'
       /\ \A t \in Pictures :
            dpb'.pic[t].dpbReferenceMark => t \in dpbReferencePics' /\ dpb'.pic[t].stillReferenced
  BY <1>1, <1>6, <1>9, <1>11, <1>12, <1>13, <1>16, <1>23, <1>24, <1>25, LeavesStep
<1>27. /\ app.state = "flush" /\ main.call = "flush" /\ parseFrameList = <<>>
       /\ \A i \in 1..DecInstances : i < k => decLibRecon[i] = 0
  BY <1>1, <1>2 DEF RunInv, CallInv, DrainInv
<1>28. main'.pc = "block" => main'.obj > 0 /\ \A i \in 1..DecInstances : i < main'.obj => decLibRecon'[i] = 0
  <2> SUFFICES ASSUME main'.pc = "block"
               PROVE  main'.obj > 0 /\ \A i \in 1..DecInstances : i < main'.obj => decLibRecon'[i] = 0
    OBVIOUS
  <2>1. main'.obj = k + 1 /\ k \in Nat
    BY <1>3, <1>15
  <2>2. ASSUME NEW i \in 1..DecInstances, i < k + 1 PROVE decLibRecon'[i] = 0
    <3>1. i < k \/ i = k
      BY <2>1, <2>2
    <3> QED BY <1>18, <1>27, <3>1
  <2> QED BY <2>1, <2>2
<1>29. CallInv' /\ DrainInv' /\ ~InSequence'
  BY <1>9, <1>13, <1>15, <1>27, <1>28 DEF CallInv, DrainInv, InSequence
<1>30. DpbInv'
  BY <1>26, <1>29 DEF DpbInv, Pic
<1>31. TypeInv'
  BY <1>1, <1>9, <1>13, <1>15, <1>18, <1>26 DEF TypeInv, PicturesGoOn
<1> QED BY <1>9, <1>26, <1>29, <1>30, <1>31 DEF IInv, RunInv

-----------------------------------------------------------------------------
(* A picture comes into an object, and the one before is taken out.        *)
Starts(p, q) ==
  /\ q.au = p.au /\ q.refs = p.refs /\ q.progress = reconstructing /\ q.wasLost = p.wasLost
  /\ q.error = p.error /\ q.exceptionThrownOut = p.exceptionThrownOut
  /\ q.parseDone = p.parseDone /\ q.reconDone = p.reconDone
  /\ q.parseTask = p.parseTask /\ q.reconTask = p.reconTask
  /\ q.neededForOutput = p.neededForOutput /\ q.stillReferenced = p.stillReferenced
  /\ q.dpbReferenceMark = p.dpbReferenceMark

LEMMA WaitForPrevShape ==
  ASSUME DpbAssumption, TypeInv, RunInv, WaitForPrev, NEW o, o = decLibRecon[DecInstances], NEW s, s = main.pic
  PROVE  /\ s \in Pictures /\ s # o /\ InHand(s) /\ o \in 0..MaxPictures
         /\ dpb' \in DpbType /\ dpb'.picList = dpb.picList
         /\ \A t \in Pictures : t # o /\ t # s => dpb'.pic[t] = Pic(t)
         /\ Starts(Pic(s), dpb'.pic[s])
         /\ o # 0 =>
              /\ o \in Pictures /\ InObject(o) /\ ErrorOnly(Pic(o), dpb'.pic[o])
              /\ TasksAgree(dpb'.pic[o]) /\ OwnedAgrees(dpb'.pic[o], 0) /\ TakenOutAgrees(dpb'.pic[o])
<1>1. main.pc = "wait" /\ PrevIsDone(DecInstances) /\ DecInstances \in 1..DecInstances
  BY DEF WaitForPrev, DpbAssumption
<1>2. s \in Pictures /\ InHand(s)
  BY <1>1 DEF RunInv, PlaceInv, InHand
<1>3. o \in 0..MaxPictures /\ ~Unstarted(o) /\ dpb \in DpbType
  BY <1>1 DEF TypeInv, Unstarted
<1>4. ~InObject(s)
  BY <1>2 DEF RunInv, PlaceInv
<1>5. s # o
  BY <1>1, <1>4 DEF InObject
<1>6. PICK d : d = Released(dpb, o)
  OBVIOUS
<1>7. /\ d \in DpbType /\ d.picList = dpb.picList
      /\ \A t \in Pictures : t # o => d.pic[t] = Pic(t)
      /\ o # 0 => /\ o \in Pictures /\ InObject(o) /\ ErrorOnly(Pic(o), d.pic[o])
                  /\ TasksAgree(d.pic[o]) /\ OwnedAgrees(d.pic[o], 0) /\ TakenOutAgrees(d.pic[o])
  <2>1. CASE o = 0
    BY <1>3, <1>6, <2>1 DEF Released, Pic
  <2>2. CASE o # 0
    <3>1. ASSUME NEW y, y = Released(dpb, o)
          PROVE  /\ o \in Pictures /\ InObject(o) /\ y \in DpbType /\ y.picList = dpb.picList
                 /\ y.pic = [dpb.pic EXCEPT ![o] = y.pic[o]]
                 /\ \A t \in Pictures : t # o => y.pic[t] = Pic(t)
                 /\ ErrorOnly(Pic(o), y.pic[o])
                 /\ TasksAgree(y.pic[o]) /\ OwnedAgrees(y.pic[o], 0) /\ TakenOutAgrees(y.pic[o])
      <4>1. PICK i \in 1..DecInstances : i = DecInstances
        BY <1>1
      <4>2. PrevIsDone(i) /\ o = decLibRecon[i]
        BY <1>1, <4>1
      <4> QED BY <1>3, <2>2, <3>1, <4>2, ReleasedShape
    <3> QED BY <1>6, <3>1
  <2> QED BY <2>1, <2>2
<1>8. dpb' = [d EXCEPT !.pic[s].progress = reconstructing]
  BY <1>6 DEF WaitForPrev
<1> DEFINE q == [d.pic[s] EXCEPT !.progress = reconstructing]
           pics == [d.pic EXCEPT ![s] = q]
<1>9. d.pic \in [Pictures -> PictureType] /\ d.pic[s] = Pic(s) /\ d.pic[s] \in PictureType
  BY <1>2, <1>5, <1>7, DpbTypeFields
<1>10. q \in PictureType /\ Starts(d.pic[s], q)
  BY <1>9, ProgressValues DEF PictureType, Starts
<1>11. dpb' = [d EXCEPT !.pic = pics]
  BY <1>8
<1> HIDE DEF q
<1>12. pics \in [Pictures -> PictureType] /\ pics[s] = q /\ \A t \in Pictures : t # s => pics[t] = d.pic[t]
  BY <1>2, <1>9, <1>10
<1> HIDE DEF pics
<1>13. dpb' \in DpbType /\ dpb'.picList = d.picList /\ dpb'.pic = pics
  BY ONLY <1>7, <1>11, <1>12, WithPics
<1> QED BY <1>2, <1>3, <1>5, <1>7, <1>9, <1>10, <1>12, <1>13

LEMMA WaitForPrevKeeps ==
  ASSUME DpbAssumption, DecLibAssumption, IInv, check = "none", WaitForPrev
  PROVE  IInv' /\ PicturesGoOn /\ check' = "none"
<1>1. TypeInv /\ RunInv /\ main.pc = "wait"
  BY DEF IInv, WaitForPrev
<1>2. PICK o : o = decLibRecon[DecInstances]
  OBVIOUS
<1>3. PICK s : s = main.pic
  OBVIOUS
<1>4. /\ s \in Pictures /\ s # o /\ InHand(s) /\ o \in 0..MaxPictures
      /\ dpb' \in DpbType /\ dpb'.picList = dpb.picList
      /\ \A t \in Pictures : t # o /\ t # s => dpb'.pic[t] = Pic(t)
      /\ Starts(Pic(s), dpb'.pic[s])
      /\ o # 0 => /\ o \in Pictures /\ InObject(o) /\ ErrorOnly(Pic(o), dpb'.pic[o])
                  /\ TasksAgree(dpb'.pic[o]) /\ OwnedAgrees(dpb'.pic[o], 0) /\ TakenOutAgrees(dpb'.pic[o])
  BY <1>1, <1>2, <1>3, WaitForPrevShape
<1>5. /\ stream' = stream /\ tryContinue' = tryContinue /\ nextNal' = nextNal
      /\ pocRandomAccess' = pocRandomAccess /\ dpbReferencePics' = dpbReferencePics
      /\ parseFrameList' = parseFrameList /\ app' = app /\ output' = output /\ thrown' = thrown
      /\ errors' = errors /\ check' = check
      /\ main' = [main EXCEPT !.pc = "start", !.done = o]
      /\ decLibRecon' = [decLibRecon EXCEPT ![DecInstances] = s]
  BY <1>2, <1>3 DEF WaitForPrev, parseVars, appVars
<1>6. main' \in MainType /\ main'.pc = "start" /\ main'.done = o /\ main'.pic = s /\ main'.call = main.call
  <2>1. main \in MainType
    BY <1>1 DEF TypeInv
  <2> QED BY <1>3, <1>4, <1>5, <2>1 DEF MainType
<1>7. /\ decLibRecon' \in [1..DecInstances -> 0..MaxPictures]
      /\ \A i \in 1..DecInstances : decLibRecon'[i] = IF i = DecInstances THEN s ELSE decLibRecon[i]
      /\ DecInstances \in 1..DecInstances
  <2>1. decLibRecon \in [1..DecInstances -> 0..MaxPictures] /\ s \in 0..MaxPictures
    BY SMTT(30), <1>1, <1>4 DEF TypeInv, Pictures
  <2> QED BY <1>5, <2>1 DEF DpbAssumption
<1>8. WaitsAgrees(Pic(s)) /\ OwnedAgrees(Pic(s), thrown[Pic(s).au]) /\ TasksAgree(Pic(s)) /\ ~InObject(s) /\ ~Queued(s)
  BY <1>1, <1>4 DEF RunInv, LifeInv, PictureInv, Owned, PlaceInv
<1>9. Pic(s).progress <= reconstructing
  BY <1>8 DEF WaitsAgrees
<1>10. ASSUME NEW t \in Pictures
       PROVE  /\ Goes(Pic(t), dpb'.pic[t]) /\ KeptReferenced(t)
              /\ dpb'.pic[t].neededForOutput = Pic(t).neededForOutput
  <2>1. Pic(t) \in PictureType /\ Pic(t).progress \in Int
    BY <1>1, PicType DEF PictureType, Progress
  <2>2. CASE t = s
    BY <1>4, <1>9, <2>2 DEF Starts, Goes, KeptReferenced
  <2>3. CASE t # s
    <3>1. dpb'.pic[t] = Pic(t) \/ dpb'.pic[t] = [Pic(t) EXCEPT !.error = TRUE]
      <4>1. CASE t = o
        <5>1. o # 0
          BY <4>1 DEF Pictures
        <5> QED BY <1>4, <4>1, <5>1 DEF ErrorOnly
      <4>2. CASE t # o
        BY <1>4, <2>3, <4>2
      <4> QED BY <4>1, <4>2
    <3>2. /\ dpb'.pic[t].au = Pic(t).au /\ dpb'.pic[t].refs = Pic(t).refs
          /\ dpb'.pic[t].wasLost = Pic(t).wasLost /\ dpb'.pic[t].dpbReferenceMark = Pic(t).dpbReferenceMark
          /\ dpb'.pic[t].progress = Pic(t).progress /\ dpb'.pic[t].neededForOutput = Pic(t).neededForOutput
          /\ dpb'.pic[t].stillReferenced = Pic(t).stillReferenced
      BY <2>1, <3>1 DEF PictureType
    <3> QED BY <2>1, <3>2 DEF Goes, KeptReferenced
  <2> QED BY <2>2, <2>3
<1>11. PicturesGoOn
  BY <1>4, <1>10 DEF PicturesGoOn
<1>12. /\ \A t : Listed(t)' <=> Listed(t)
       /\ \A t : Queued(t)' <=> Queued(t)
  BY <1>4, <1>5 DEF Listed, Queued
<1>13. /\ \A t : ~TakenOut(t) /\ ~Unstarted(t) /\ ~InHand(t)'
       /\ \A t : (InHand(t) <=> t = s) /\ (TakenOut(t)' <=> t = o) /\ (Unstarted(t)' <=> t = s)
  BY <1>1, <1>3, <1>6 DEF InHand, TakenOut, Unstarted
<1>14. \A t \in Pictures : InObject(t)' <=> t = s \/ (InObject(t) /\ t # o)
  <2>1. \A i \in 1..DecInstances : decLibRecon[i] = o /\ o # 0 => i = DecInstances
    BY <1>1, <1>2, <1>7 DEF RunInv, ListInv
  <2>2. \A t \in Pictures : t # 0
    BY DEF Pictures
  <2> QED BY <1>2, <1>7, <2>1, <2>2 DEF InObject
<1>15. \A i \in 1..DecInstances : \A j \in 1..DecInstances :
         decLibRecon'[i] = decLibRecon'[j] /\ decLibRecon'[i] # 0 => i = j
  <2>1. \A i \in 1..DecInstances : decLibRecon[i] # s
    BY <1>8 DEF InObject
  <2> QED BY <1>1, <1>7, <2>1 DEF RunInv, ListInv
<1>16. o \in Pictures => o # 0
  BY DEF Pictures
<1>17. ListInv'
  <2>1. Numbered(dpb'.picList)
    BY <1>1, <1>4 DEF RunInv, ListInv
  <2>2. ASSUME NEW t \in Pictures, ~Listed(t)' PROVE Pic(t)' = Fresh
    <3>1. ~Owned(t) /\ ~Listed(t)
      BY <1>1, <1>12, <2>2 DEF RunInv, PlaceInv
    <3>2. t # s /\ t # o
      BY <1>4, <1>16, <3>1 DEF Owned
    <3> QED BY <1>1, <1>4, <3>1, <3>2 DEF RunInv, ListInv, Pic
  <2> QED BY <1>1, <1>5, <1>15, <2>1, <2>2 DEF RunInv, ListInv
<1>18. Listed(s) /\ (o \in Pictures => Listed(o) /\ ~Queued(o))
  BY <1>1, <1>4, <1>16 DEF RunInv, PlaceInv, Owned
<1>19. PlaceInv'
  <2>1. \A t \in Pictures : Owned(t)' => Owned(t)
    BY <1>4, <1>12, <1>13, <1>14, <1>16 DEF Owned
  <2>2. \A t \in Pictures : Owned(t)' => Listed(t)'
    BY <1>1, <1>12, <2>1 DEF RunInv, PlaceInv
  <2>3. \A t \in Pictures : Queued(t)' => ~InHand(t)' /\ ~InObject(t)' /\ ~TakenOut(t)'
    BY <1>1, <1>8, <1>12, <1>13, <1>14, <1>18 DEF RunInv, PlaceInv
  <2>4. \A t \in Pictures : InObject(t)' => ~TakenOut(t)'
    BY <1>4, <1>13, <1>14
  <2>5. main'.pic \in Pictures /\ decLibRecon'[DecInstances] = main'.pic
    BY <1>4, <1>6, <1>7
  <2> QED BY <1>13, <2>2, <2>3, <2>4, <2>5 DEF PlaceInv
<1>20. LifeInv'
  <2> SUFFICES ASSUME NEW t \in Pictures PROVE PictureInv(t)' /\ LeftInv(t)'
    BY DEF LifeInv
  <2>1. CASE t # s /\ t # o
    <3>1. SamePlace(t) /\ PictureInv(t) /\ LeftInv(t)
      BY <1>1, <1>12, <1>13, <1>14, <2>1 DEF SamePlace, RunInv, LifeInv
    <3>2. SameLife(Pic(t), dpb'.pic[t])
      BY <1>4, <2>1 DEF SameLife
    <3> QED BY <1>5, <3>1, <3>2, LifeKept
  <2>2. CASE t = s
    <3>1. PICK p : p = Pic(s)
      OBVIOUS
    <3>2. PICK q : q = dpb'.pic[s]
      OBVIOUS
    <3>3. Starts(p, q) /\ WaitsAgrees(p) /\ OwnedAgrees(p, thrown[p.au]) /\ TasksAgree(p)
      BY <1>4, <1>8, <3>1, <3>2
    <3>4. /\ TasksAgree(q) /\ OwnedAgrees(q, thrown[q.au]) /\ ObjectAgrees(q)
          /\ q.reconTask = "none" /\ q.reconDone = "locked" /\ q.progress = reconstructing
      BY <3>3 DEF Starts, WaitsAgrees, OwnedAgrees, TasksAgree, ObjectAgrees
    <3>5. Pic(s)' = q
      BY <3>2 DEF Pic
    <3>6. InObject(s)' /\ Unstarted(s)' /\ ~Queued(s)' /\ ~InHand(s)' /\ ~TakenOut(s)' /\ Owned(s)'
      BY <1>4, <1>8, <1>12, <1>13, <1>14 DEF Owned
    <3> QED BY <1>5, <2>2, <3>4, <3>5, <3>6 DEF PictureInv, LeftInv
  <2>3. CASE t = o
    <3>1. TasksAgree(dpb'.pic[o]) /\ OwnedAgrees(dpb'.pic[o], 0) /\ TakenOutAgrees(dpb'.pic[o])
      BY <1>4, <1>16, <2>3
    <3>2. PICK q : q = dpb'.pic[o]
      OBVIOUS
    <3>3. Pic(o)' = q /\ TasksAgree(q) /\ OwnedAgrees(q, 0) /\ TakenOutAgrees(q)
      BY <3>1, <3>2 DEF Pic
    <3>4. thrown[q.au] = 0
      <4>1. thrown[Pic(o).au] = 0
        BY <1>1, <1>4, <1>16, <2>3 DEF RunInv, LifeInv, PictureInv, Owned, OwnedAgrees
      <4>2. q.au = Pic(o).au
        BY <1>10, <2>3, <3>2 DEF Goes
      <4> QED BY <4>1, <4>2
    <3>5. TakenOut(o)' /\ ~InObject(o)' /\ ~Unstarted(o)' /\ ~Queued(o)' /\ ~InHand(o)' /\ Owned(o)'
      BY <1>4, <1>12, <1>13, <1>14, <1>18, <2>3 DEF Owned
    <3>6. LeftInv(o)'
      BY <3>5 DEF LeftInv
    <3>7. OwnedAgrees(q, thrown[q.au])
      BY <3>3, <3>4
    <3>8. PictureInv(o)'
      BY <1>5, <3>3, <3>5, <3>7 DEF PictureInv
    <3> QED BY <2>3, <3>6, <3>8
  <2> QED BY <2>1, <2>2, <2>3
<1>21. AuInv'
  <2>1. nextNal' \in Nat /\ nextNal <= nextNal'
    BY <1>1, <1>5, StreamType
  <2> QED BY <1>1, <1>5, <1>11, <2>1, AuKept DEF RunInv, AuInv
<1>22. UseInv' /\ RefInv'
  <2>1. \A t, r : Before(r, t) => Before(r, t)'
    BY <1>5 DEF Before
  <2> QED BY <1>1, <1>11, <2>1, UseKept, RefsKept DEF RunInv
<1>23. DpbInv'
  <2>1. /\ \A t \in dpbReferencePics' : Listed(t)'
        /\ \A t \in Pictures :
             dpb'.pic[t].dpbReferenceMark => t \in dpbReferencePics' /\ dpb'.pic[t].stillReferenced
    BY <1>1, <1>5, <1>11, MarksKept DEF RunInv
  <2>2. ASSUME InSequence', NEW t \in dpbReferencePics' PROVE dpb'.pic[t].dpbReferenceMark \/ Kept(t)'
    <3>1. InSequence /\ t \in dpbReferencePics /\ t \in Pictures
      BY <1>1, <1>5, <2>2 DEF InSequence, TypeInv
    <3>2. Pic(t).dpbReferenceMark \/ Kept(t)
      BY <1>1, <3>1 DEF RunInv, DpbInv
    <3>3. Kept(t) => Kept(t)'
      BY <1>1, <1>3, <1>4, <1>6, <1>10, <1>12, <1>14, <3>1 DEF Kept, Pic
    <3> QED BY <1>10, <3>1, <3>2, <3>3 DEF Goes
  <2> QED BY <2>1, <2>2 DEF DpbInv, Pic
<1>24. app.state = main.call /\ main.call \in {"decode", "flush"}
  BY <1>1 DEF RunInv, CallInv, TypeInv, MainType
<1>25. CallInv' /\ DrainInv'
  BY <1>5, <1>6, <1>24 DEF CallInv, DrainInv
<1>26. TypeInv'
  BY <1>1, <1>4, <1>5, <1>6, <1>7 DEF TypeInv
<1> QED BY <1>5, <1>11, <1>17, <1>19, <1>20, <1>21, <1>22, <1>23, <1>25, <1>26 DEF IInv, RunInv

-----------------------------------------------------------------------------
(* decompressPicture starts the reconstruction, or finds that it cannot.   *)
Begins(p, q) ==
  \/ q = [p EXCEPT !.reconDone = "failed", !.error = TRUE]
  \/ q = [p EXCEPT !.reconTask = "runs"]

LEMMA BeginsType ==
  ASSUME NEW p \in PictureType
  PROVE  /\ [p EXCEPT !.reconDone = "failed", !.error = TRUE] \in PictureType
         /\ [p EXCEPT !.reconTask = "runs"] \in PictureType
         /\ CleanRef(p) \in PictureType
<1>1. [p EXCEPT !.reconDone = "failed", !.error = TRUE] \in PictureType
  BY DEF PictureType, Barrier
<1>2. [p EXCEPT !.reconTask = "runs"] \in PictureType
  BY DEF PictureType
<1>3. [p EXCEPT !.error = TRUE, !.reconDone = "unlocked", !.parseDone = "failed",
                !.progress = reconstructed] \in PictureType
  BY ProgressValues DEF PictureType, Barrier
<1>4. CleanRef(p) \in PictureType
  BY <1>3 DEF CleanRef
<1> QED BY <1>1, <1>2, <1>4

LEMMA DecompressPictureShape ==
  ASSUME DpbAssumption, TypeInv, RunInv, DecompressPicture, NEW s, s = main.pic
  PROVE  /\ s \in Pictures /\ InObject(s) /\ Unstarted(s) /\ s \notin Pic(s).refs
         /\ \A r \in Pic(s).refs : NoTasks(r)
         /\ dpb' \in DpbType /\ dpb'.picList = dpb.picList
         /\ Begins(Pic(s), dpb'.pic[s])
         /\ \A t \in Pictures : t # s =>
              dpb'.pic[t] = IF t \in Pic(s).refs THEN CleanRef(Pic(t)) ELSE Pic(t)
<1>1. main.pc = "start" /\ \A r \in Pic(s).refs : NoTasks(r)
  BY DEF DecompressPicture, RefsOf
<1>2. s \in Pictures /\ Unstarted(s)
  BY <1>1 DEF RunInv, PlaceInv, Unstarted
<1>3. InObject(s)
  <2>1. DecInstances \in 1..DecInstances /\ decLibRecon[DecInstances] = s
    BY <1>1 DEF RunInv, PlaceInv, DpbAssumption
  <2> QED BY <2>1 DEF InObject
<1>4. dpb \in DpbType /\ Pic(s) \in PictureType
  BY <1>2, PicType DEF TypeInv
<1>5. s \notin Pic(s).refs
  <2>1. Pic(s).progress = reconstructing
    BY <1>2 DEF RunInv, LifeInv, PictureInv
  <2>2. Pic(s).progress < reconstructed
    BY <2>1
  <2> QED BY <1>2, <2>2 DEF RunInv, RefInv
<1> DEFINE cpics == [r \in Pictures |-> IF r \in RefsOf(s) THEN CleanRef(Pic(r)) ELSE Pic(r)]
           cleaned == [dpb EXCEPT !.pic = cpics]
           a == [cleaned.pic[s] EXCEPT !.reconDone = "failed", !.error = TRUE]
           b == [cleaned.pic[s] EXCEPT !.reconTask = "runs"]
           x == IF StartFails(s) THEN a ELSE b
<1>6. cpics \in [Pictures -> PictureType]
  <2>1. ASSUME NEW r \in Pictures PROVE Pic(r) \in PictureType /\ CleanRef(Pic(r)) \in PictureType
    <3>1. Pic(r) \in PictureType
      BY PicType
    <3> QED BY <3>1, BeginsType
  <2> QED BY <2>1
<1>7. cleaned \in DpbType /\ cleaned.picList = dpb.picList /\ cleaned.pic = cpics
  <2> HIDE DEF cpics
  <2> QED BY ONLY <1>4, <1>6, WithPics
<1>8. /\ \A t \in Pictures : cpics[t] = IF t \in Pic(s).refs THEN CleanRef(Pic(t)) ELSE Pic(t)
      /\ cpics[s] = Pic(s)
  BY <1>2, <1>5 DEF RefsOf
<1>9. dpb' = IF StartFails(s)
             THEN [cleaned EXCEPT !.pic[s].reconDone = "failed", !.pic[s].error = TRUE]
             ELSE [cleaned EXCEPT !.pic[s].reconTask = "runs"]
  BY ZenonT(30) DEF DecompressPicture
<1> HIDE DEF cpics, cleaned
<1>10. dpb' = [cleaned EXCEPT !.pic = [cleaned.pic EXCEPT ![s] = x]]
  <2>1. CASE StartFails(s)
    <3>1. dpb' = [cleaned EXCEPT !.pic[s].reconDone = "failed", !.pic[s].error = TRUE]
      BY <1>9, <2>1
    <3>2. dpb' = [cleaned EXCEPT !.pic = [cleaned.pic EXCEPT ![s] = a]]
      BY <1>2, <1>6, <1>7, <3>1 DEF DpbType, PictureType
    <3> HIDE DEF a, b
    <3> QED BY <2>1, <3>2
  <2>2. CASE ~StartFails(s)
    <3>1. dpb' = [cleaned EXCEPT !.pic[s].reconTask = "runs"]
      BY <1>9, <2>2
    <3>2. dpb' = [cleaned EXCEPT !.pic = [cleaned.pic EXCEPT ![s] = b]]
      BY <3>1
    <3> HIDE DEF a, b
    <3> QED BY <2>2, <3>2
  <2> QED BY <2>1, <2>2
<1>11. x \in PictureType /\ Begins(Pic(s), x)
  <2>1. a \in PictureType /\ b \in PictureType
    BY <1>4, <1>7, <1>8, BeginsType
  <2>2. Begins(Pic(s), a) /\ Begins(Pic(s), b)
    BY <1>7, <1>8 DEF Begins
  <2> HIDE DEF a, b
  <2> QED BY <2>1, <2>2
<1> DEFINE pics == [cpics EXCEPT ![s] = x]
<1> HIDE DEF x
<1>12. pics \in [Pictures -> PictureType] /\ pics[s] = x /\ \A t \in Pictures : t # s => pics[t] = cpics[t]
  BY <1>2, <1>6, <1>11
<1>13. dpb' = [cleaned EXCEPT !.pic = pics]
  BY <1>7, <1>10
<1> HIDE DEF pics
<1>14. dpb' \in DpbType /\ dpb'.picList = cleaned.picList /\ dpb'.pic = pics
  BY ONLY <1>7, <1>12, <1>13, WithPics
<1>15. Begins(Pic(s), dpb'.pic[s])
  BY <1>11, <1>12, <1>14
<1> QED BY <1>1, <1>2, <1>3, <1>5, <1>7, <1>8, <1>12, <1>14, <1>15

(* A reference picture in progress is in an object or was taken out of     *)
(* one, and its reconstruction has failed.                                 *)
Cleaned(p, q) ==
  /\ q.au = p.au /\ q.refs = p.refs /\ q.wasLost = p.wasLost /\ q.exceptionThrownOut = p.exceptionThrownOut
  /\ q.dpbReferenceMark = p.dpbReferenceMark /\ q.stillReferenced = p.stillReferenced
  /\ q.neededForOutput = p.neededForOutput /\ q.parseTask = p.parseTask /\ q.reconTask = p.reconTask
  /\ q.progress = reconstructed /\ q.error /\ q.parseDone = "failed" /\ q.reconDone = "unlocked"

LEMMA CleanRefShape ==
  ASSUME NEW p \in PictureType
  PROVE  IF p.progress < reconstructed THEN Cleaned(p, CleanRef(p)) ELSE CleanRef(p) = p
<1>1. CASE p.progress < reconstructed
  <2>1. CleanRef(p) = [p EXCEPT !.error = TRUE, !.reconDone = "unlocked", !.parseDone = "failed",
                                !.progress = reconstructed]
    BY <1>1 DEF CleanRef
  <2> QED BY <1>1, <2>1 DEF PictureType, Cleaned
<1>2. CASE ~(p.progress < reconstructed)
  BY <1>2 DEF CleanRef
<1> QED BY <1>1, <1>2

LEMMA FailedReference ==
  ASSUME DpbAssumption, TypeInv, RunInv, main.pc = "start", NEW s, s = main.pic, NEW r \in Pictures,
         r \in Pic(s).refs, NoTasks(r), Pic(r).progress < reconstructed, Pic(r).progress >= parsing
  PROVE  /\ Listed(r) /\ ~Queued(r) /\ ~InHand(r) /\ ~Unstarted(r) /\ (InObject(r) \/ TakenOut(r))
         /\ Pic(r).reconDone = "failed" /\ Pic(r).progress = reconstructing
<1>1. s \in Pictures /\ Unstarted(s)
  BY DEF RunInv, PlaceInv, Unstarted
<1>2. InObject(s)
  <2>1. DecInstances \in 1..DecInstances /\ decLibRecon[DecInstances] = s
    BY DEF RunInv, PlaceInv, DpbAssumption
  <2> QED BY <2>1 DEF InObject
<1>3. Listed(r) /\ r # s /\ Before(r, s)
  <2>1. Pic(s).progress = reconstructing
    BY <1>1 DEF RunInv, LifeInv, PictureInv
  <2>2. Pic(s).progress < reconstructed
    BY <2>1
  <2> QED BY <1>1, <2>2 DEF RunInv, RefInv
<1>4. ~Queued(r)
  <2>1. ~Queued(s)
    BY <1>1, <1>2 DEF RunInv, PlaceInv
  <2> QED BY <1>3, <2>1 DEF Before, Queued
<1>5. ~InHand(r) /\ ~Unstarted(r)
  BY <1>3 DEF InHand, Unstarted
<1>6. Owned(r)
  <2> SUFFICES ASSUME ~Owned(r) PROVE FALSE
    OBVIOUS
  <2>1. LeftAgrees(Pic(r), thrown[Pic(r).au])
    BY <1>3 DEF RunInv, LifeInv, LeftInv
  <2>2. Pic(r).progress \notin {init, reconstructed, finished}
    OBVIOUS
  <2> QED BY <2>1, <2>2 DEF LeftAgrees, Finished, LostOne, NoHeader, NotFinished
<1>7. InObject(r) \/ TakenOut(r)
  BY <1>4, <1>5, <1>6 DEF Owned
<1>8. /\ TasksAgree(Pic(r)) /\ Pic(r).reconTask = "none" /\ Pic(r) \in PictureType
      /\ InObject(r) => ObjectAgrees(Pic(r)) /\ Pic(r).reconDone # "locked"
      /\ TakenOut(r) => TakenOutAgrees(Pic(r))
  BY <1>5, PicType DEF RunInv, LifeInv, PictureInv, NoTasks
<1>9. Pic(r).reconDone # "locked"
  BY <1>7, <1>8 DEF TakenOutAgrees
<1>10. Pic(r).reconDone # "unlocked"
  <2>1. Pic(r).progress \in Int
    BY <1>8 DEF PictureType, Progress
  <2>2. ~(Pic(r).progress >= reconstructed)
    BY <2>1
  <2> QED BY <1>8, <2>2 DEF TasksAgree
<1>11. Pic(r).reconDone = "failed"
  BY <1>8, <1>9, <1>10 DEF PictureType, Barrier
<1>12. Pic(r).progress = reconstructing
  BY <1>7, <1>8, <1>11 DEF ObjectAgrees, TakenOutAgrees
<1> QED BY <1>3, <1>4, <1>5, <1>7, <1>11, <1>12

LEMMA DecompressFails ==
  ASSUME DpbAssumption, DecLibAssumption, IInv, check = "none", DecompressPicture,
         \E r \in RefsOf(main.pic) : Pic(r).progress < parsing
  PROVE  /\ IInv' /\ check' = "slice parsing should have started" /\ stream' = stream /\ thrown' = thrown
         /\ \A t \in Pictures : dpb'.pic[t].au = Pic(t).au
<1>1. TypeInv /\ RunInv
  BY DEF IInv
<1>2. PICK s : s = main.pic
  OBVIOUS
<1>3. /\ s \in Pictures /\ dpb' \in DpbType /\ Begins(Pic(s), dpb'.pic[s])
      /\ \A t \in Pictures : t # s =>
           dpb'.pic[t] = IF t \in Pic(s).refs THEN CleanRef(Pic(t)) ELSE Pic(t)
  BY <1>1, <1>2, DecompressPictureShape
<1>4. /\ Fails("slice parsing should have started")
      /\ stream' = stream /\ tryContinue' = tryContinue /\ nextNal' = nextNal
      /\ pocRandomAccess' = pocRandomAccess /\ dpbReferencePics' = dpbReferencePics
      /\ parseFrameList' = parseFrameList /\ decLibRecon' = decLibRecon /\ errors' = errors
  BY DEF DecompressPicture, parseVars
<1>5. /\ main' \in MainType /\ main'.pc = "app" /\ app' \in AppType /\ app'.state = "stopped"
      /\ thrown' = thrown /\ output' = output /\ check' = "slice parsing should have started"
  BY <1>1, <1>4, FailsType
<1>6. TypeInv'
  BY <1>1, <1>3, <1>4, <1>5 DEF TypeInv
<1>7. ASSUME NEW t \in Pictures PROVE dpb'.pic[t].au = Pic(t).au
  <2>1. Pic(t) \in PictureType
    BY <1>1, PicType
  <2>2. CASE t = s
    BY <1>3, <2>1, <2>2 DEF Begins, PictureType
  <2>3. CASE t # s
    <3>1. CleanRef(Pic(t)).au = Pic(t).au
      BY <2>1, CleanRefShape DEF Cleaned
    <3> QED BY <1>3, <2>3, <3>1
  <2> QED BY <2>2, <2>3
<1> QED BY <1>4, <1>5, <1>6, <1>7 DEF IInv

LEMMA DecompressPictureKeeps ==
  ASSUME DpbAssumption, DecLibAssumption, IInv, check = "none", DecompressPicture,
         ~\E r \in RefsOf(main.pic) : Pic(r).progress < parsing
  PROVE  IInv' /\ PicturesGoOn /\ check' = "none"
<1>1. TypeInv /\ RunInv /\ main.pc = "start"
  BY DEF IInv, DecompressPicture
<1>2. PICK s : s = main.pic
  OBVIOUS
<1>3. /\ s \in Pictures /\ InObject(s) /\ Unstarted(s) /\ s \notin Pic(s).refs
      /\ \A r \in Pic(s).refs : NoTasks(r)
      /\ dpb' \in DpbType /\ dpb'.picList = dpb.picList
      /\ Begins(Pic(s), dpb'.pic[s])
      /\ \A t \in Pictures : t # s =>
           dpb'.pic[t] = IF t \in Pic(s).refs THEN CleanRef(Pic(t)) ELSE Pic(t)
  BY <1>1, <1>2, DecompressPictureShape
<1>4. /\ stream' = stream /\ tryContinue' = tryContinue /\ nextNal' = nextNal
      /\ pocRandomAccess' = pocRandomAccess /\ dpbReferencePics' = dpbReferencePics
      /\ parseFrameList' = parseFrameList /\ decLibRecon' = decLibRecon /\ errors' = errors
      /\ app' = app /\ output' = output /\ thrown' = thrown /\ check' = check
      /\ GoTo("finish")
  BY DEF DecompressPicture, parseVars, appVars
<1>5. /\ main' \in MainType /\ main'.pc = "finish" /\ main'.call = main.call
      /\ main'.done = main.done /\ main'.pic = main.pic
  BY <1>1, <1>4, GoToType DEF TypeInv
<1>6. ASSUME NEW t \in Pictures, t # s, dpb'.pic[t] # Pic(t)
      PROVE  /\ Cleaned(Pic(t), dpb'.pic[t]) /\ Listed(t) /\ ~Queued(t) /\ ~InHand(t) /\ ~Unstarted(t)
             /\ InObject(t) \/ TakenOut(t)
             /\ NoTasks(t) /\ Pic(t).progress = reconstructing
  <2>1. t \in Pic(s).refs /\ dpb'.pic[t] = CleanRef(Pic(t)) /\ NoTasks(t)
    BY <1>3, <1>6
  <2>2. Pic(t) \in PictureType /\ Pic(t).progress \in Int
    BY <1>1, PicType DEF PictureType, Progress
  <2>3. Pic(t).progress < reconstructed /\ Cleaned(Pic(t), dpb'.pic[t])
    BY <1>6, <2>1, <2>2, CleanRefShape
  <2>4. Pic(t).progress >= parsing
    BY <1>2, <2>1, <2>2 DEF RefsOf
  <2> QED BY <1>1, <1>2, <2>1, <2>3, <2>4, FailedReference
<1>7. PICK q : q = dpb'.pic[s]
  OBVIOUS
<1>8. PICK p : p = Pic(s)
  OBVIOUS
<1>9. /\ TasksAgree(p) /\ OwnedAgrees(p, thrown[p.au]) /\ p.progress = reconstructing /\ p \in PictureType
      /\ p.reconTask = "none" /\ p.reconDone = "locked" /\ Begins(p, q)
  BY <1>1, <1>3, <1>7, <1>8, PicType DEF RunInv, LifeInv, PictureInv, Owned
<1>10. /\ q.au = p.au /\ q.refs = p.refs /\ q.wasLost = p.wasLost /\ q.progress = reconstructing
       /\ q.exceptionThrownOut = p.exceptionThrownOut
       /\ q.dpbReferenceMark = p.dpbReferenceMark /\ q.stillReferenced = p.stillReferenced
       /\ q.neededForOutput = p.neededForOutput /\ q.parseTask = p.parseTask /\ q.parseDone = p.parseDone
       /\ \/ q.reconDone = "failed" /\ q.error /\ q.reconTask = "none"
          \/ q.reconDone = "locked" /\ q.error = p.error /\ q.reconTask = "runs"
  BY <1>9 DEF Begins, PictureType
<1>11. ASSUME NEW t \in Pictures
       PROVE  /\ Goes(Pic(t), dpb'.pic[t]) /\ KeptReferenced(t)
              /\ dpb'.pic[t].neededForOutput = Pic(t).neededForOutput
  <2>1. Pic(t) \in PictureType /\ Pic(t).progress \in Int
    BY <1>1, PicType DEF PictureType, Progress
  <2>2. CASE t = s
    BY <1>7, <1>8, <1>9, <1>10, <2>2 DEF Goes, KeptReferenced
  <2>3. CASE t # s /\ dpb'.pic[t] = Pic(t)
    BY <2>1, <2>3 DEF Goes, KeptReferenced
  <2>4. CASE t # s /\ dpb'.pic[t] # Pic(t)
    <3>1. Cleaned(Pic(t), dpb'.pic[t]) /\ Pic(t).progress = reconstructing
      BY <1>6, <2>4
    <3> QED BY <3>1 DEF Cleaned, Goes, KeptReferenced
  <2> QED BY <2>2, <2>3, <2>4
<1>12. PicturesGoOn
  BY <1>3, <1>11 DEF PicturesGoOn
<1>13. /\ \A t : Listed(t)' <=> Listed(t)
       /\ \A t : Queued(t)' <=> Queued(t)
       /\ \A t : InObject(t)' <=> InObject(t)
       /\ \A t : \A u : Before(t, u)' <=> Before(t, u)
  BY <1>3, <1>4, SameLists
<1>14. /\ \A t : ~InHand(t) /\ ~InHand(t)' /\ ~Unstarted(t)'
       /\ \A t : (TakenOut(t)' <=> TakenOut(t)) /\ (Unstarted(t) <=> t = s)
  BY <1>1, <1>2, <1>5 DEF InHand, TakenOut, Unstarted
<1>15. ListInv'
  <2>1. Numbered(dpb'.picList)
    BY <1>1, <1>3 DEF RunInv, ListInv
  <2>2. ASSUME NEW t \in Pictures, ~Listed(t)' PROVE Pic(t)' = Fresh
    <3>1. ~Listed(t) /\ t # s
      BY <1>1, <1>3, <1>13, <2>2 DEF RunInv, PlaceInv, Owned
    <3>2. dpb'.pic[t] = Pic(t)
      BY <1>6, <3>1
    <3> QED BY <1>1, <3>1, <3>2 DEF RunInv, ListInv, Pic
  <2> QED BY <1>1, <1>4, <2>1, <2>2 DEF RunInv, ListInv
<1>16. PlaceInv'
  <2>1. \A t \in Pictures : Owned(t)' <=> Owned(t)
    BY <1>13, <1>14 DEF Owned
  <2> QED BY <1>1, <1>5, <1>13, <1>14, <2>1 DEF RunInv, PlaceInv
<1>17. LifeInv'
  <2> SUFFICES ASSUME NEW t \in Pictures PROVE PictureInv(t)' /\ LeftInv(t)'
    BY DEF LifeInv
  <2>1. CASE t # s /\ dpb'.pic[t] = Pic(t)
    <3>1. SamePlace(t) /\ PictureInv(t) /\ LeftInv(t) /\ SameLife(Pic(t), dpb'.pic[t])
      BY <1>1, <1>13, <1>14, <2>1 DEF SamePlace, RunInv, LifeInv, SameLife
    <3> QED BY <1>4, <3>1, LifeKept
  <2>2. CASE t = s
    <3>1. TasksAgree(q) /\ OwnedAgrees(q, thrown[q.au]) /\ ObjectAgrees(q)
          /\ ~(q.reconTask = "none" /\ q.reconDone = "locked")
      BY <1>9, <1>10 DEF TasksAgree, OwnedAgrees, ObjectAgrees
    <3>2. /\ Pic(s)' = q /\ InObject(s)' /\ ~Unstarted(s)' /\ ~Queued(s)' /\ ~InHand(s)' /\ ~TakenOut(s)'
          /\ Owned(s)'
      BY <1>1, <1>3, <1>7, <1>13, <1>14 DEF RunInv, PlaceInv, Owned, Pic
    <3> QED BY <1>4, <2>2, <3>1, <3>2 DEF PictureInv, LeftInv
  <2>3. CASE t # s /\ dpb'.pic[t] # Pic(t)
    <3>1. PICK x : x = Pic(t)
      OBVIOUS
    <3>2. PICK y : y = dpb'.pic[t]
      OBVIOUS
    <3>3. /\ Cleaned(x, y) /\ Listed(t) /\ ~Queued(t) /\ ~InHand(t) /\ ~Unstarted(t)
          /\ InObject(t) \/ TakenOut(t)
          /\ x.parseTask = "none" /\ x.reconTask = "none"
      BY <1>6, <2>3, <3>1, <3>2 DEF NoTasks
    <3>4. OwnedAgrees(x, thrown[x.au])
      BY <1>1, <3>1, <3>3 DEF RunInv, LifeInv, PictureInv, Owned
    <3>5. TasksAgree(y) /\ OwnedAgrees(y, thrown[y.au]) /\ ObjectAgrees(y) /\ TakenOutAgrees(y)
          /\ y.reconDone # "locked"
      BY <3>3, <3>4 DEF Cleaned, TasksAgree, OwnedAgrees, ObjectAgrees, TakenOutAgrees
    <3>6. Pic(t)' = y /\ ~Unstarted(t)' /\ ~Queued(t)' /\ ~InHand(t)' /\ Owned(t)'
      BY <1>13, <1>14, <3>2, <3>3 DEF Owned, Pic
    <3> QED BY <1>4, <3>5, <3>6 DEF PictureInv, LeftInv
  <2> QED BY <2>1, <2>2, <2>3
<1>18. AuInv'
  <2>1. nextNal' \in Nat /\ nextNal <= nextNal'
    BY <1>1, <1>4, StreamType
  <2> QED BY <1>1, <1>4, <1>12, <2>1, AuKept DEF RunInv, AuInv
<1>19. UseInv' /\ RefInv'
  BY <1>1, <1>12, <1>13, UseKept, RefsKept DEF RunInv
<1>20. DpbInv'
  <2>1. /\ \A t \in dpbReferencePics' : Listed(t)'
        /\ \A t \in Pictures :
             dpb'.pic[t].dpbReferenceMark => t \in dpbReferencePics' /\ dpb'.pic[t].stillReferenced
    BY <1>1, <1>4, <1>12, MarksKept DEF RunInv
  <2>2. ASSUME InSequence', NEW t \in dpbReferencePics' PROVE dpb'.pic[t].dpbReferenceMark \/ Kept(t)'
    <3>1. InSequence /\ t \in dpbReferencePics /\ t \in Pictures
      BY <1>1, <1>4, <2>2 DEF InSequence, TypeInv
    <3>2. Pic(t).dpbReferenceMark \/ Kept(t)
      BY <1>1, <3>1 DEF RunInv, DpbInv
    <3>3. Kept(t) => Kept(t)'
      BY <1>1, <1>5, <1>11, <1>13, <3>1 DEF Kept, Pic
    <3> QED BY <1>11, <3>1, <3>2, <3>3 DEF Goes
  <2> QED BY <2>1, <2>2 DEF DpbInv, Pic
<1>21. app.state = main.call /\ main.call \in {"decode", "flush"}
  BY <1>1 DEF RunInv, CallInv, TypeInv, MainType
<1>22. CallInv' /\ DrainInv'
  BY <1>4, <1>5, <1>21 DEF CallInv, DrainInv
<1>23. TypeInv'
  BY <1>1, <1>3, <1>4, <1>5 DEF TypeInv
<1> QED BY <1>4, <1>12, <1>15, <1>16, <1>17, <1>18, <1>19, <1>20, <1>22, <1>23 DEF IInv, RunInv

-----------------------------------------------------------------------------
(* The invariant holds in the beginning, and every step keeps it.          *)
LEMMA InitInv ==
  ASSUME DpbAssumption, DecLibAssumption, Init
  PROVE  IInv
<1>1. PICK input \in Inputs : stream = input.units /\ tryContinue = input.tryContinue
  BY DEF Init
<1>2. input \in [units : Seq(AccessUnit \cup {EndOfSequence}), tryContinue : BOOLEAN]
  BY DEF DecLibAssumption
<1>3. Len(stream) \in Nat
  BY <1>1, <1>2, LenProperties
<1>4. /\ nextNal = 1 /\ dpb = EmptyDpb /\ pocRandomAccess = NoPoc /\ dpbReferencePics = {}
      /\ parseFrameList = <<>> /\ decLibRecon = [i \in 1..DecInstances |-> 0]
      /\ main = Idle("decode") /\ app = [state |-> "decode", tuningIn |-> TRUE, flushes |-> 0]
      /\ errors = 0 /\ output = <<>> /\ check = "none" /\ thrown = [i \in 1..Len(stream) |-> 0]
  BY DEF Init
<1>5. /\ dpb \in DpbType /\ dpb.picList = <<>> /\ Len(dpb.picList) = 0
      /\ \A s \in Pictures : Pic(s) = Fresh
  <2>1. dpb.picList = <<>> /\ dpb.pic = [s \in Pictures |-> Fresh]
    BY <1>4 DEF EmptyDpb
  <2>2. <<>> \in Seq(Pictures) /\ Len(<<>>) = 0
    BY EmptySeq
  <2>3. dpb \in DpbType
    BY <1>4, <2>2, FreshType DEF EmptyDpb, DpbType
  <2> QED BY <2>1, <2>2, <2>3 DEF Pic
<1>6. main \in MainType /\ main.pc = "app" /\ main.call = "decode"
  BY <1>4, IdleType
<1>7. TypeInv
  <2>1. nextNal \in 1..(Len(stream) + 1)
    BY <1>3, <1>4
  <2>2. decLibRecon \in [1..DecInstances -> 0..MaxPictures]
    BY <1>4 DEF DpbAssumption
  <2>3. app \in AppType /\ thrown \in [1..Len(stream) -> Nat]
    BY <1>4 DEF AppType
  <2>4. parseFrameList \in Seq(Pictures) /\ output \in Seq(Int) /\ pocRandomAccess \in Int
    BY <1>4, EmptySeq DEF NoPoc
  <2>5. dpbReferencePics \in SUBSET Pictures /\ errors \in Nat
    BY <1>4
  <2> QED BY <1>1, <1>5, <1>6, <2>1, <2>2, <2>3, <2>4, <2>5 DEF TypeInv
<1>8. /\ \A s \in Pictures : ~Listed(s) /\ ~Queued(s) /\ ~InHand(s) /\ ~InObject(s) /\ ~TakenOut(s) /\ ~Unstarted(s)
      /\ Len(parseFrameList) = 0
  <2>1. Len(parseFrameList) = 0
    BY <1>4, EmptySeq
  <2>2. \A s \in Pictures : s # 0
    BY DEF Pictures
  <2> QED BY <1>4, <1>5, <1>6, <2>1, <2>2 DEF Listed, Queued, InHand, InObject, TakenOut, Unstarted
<1>9. ListInv
  <2>1. Numbered(dpb.picList)
    BY <1>5 DEF Numbered
  <2> QED BY <1>4, <1>5, <1>8, <2>1 DEF ListInv
<1>10. PlaceInv
  BY <1>6, <1>8 DEF PlaceInv, Owned
<1>11. TasksAgree(Fresh) /\ Fresh.au = 0 /\ ~Fresh.wasLost /\ Fresh.refs = {} /\ ~Fresh.dpbReferenceMark
  BY DEF Fresh, TasksAgree
<1>12. LifeInv
  BY <1>5, <1>8, <1>11 DEF LifeInv, PictureInv, LeftInv, Owned
<1>13. AuInv
  BY <1>4, <1>5, <1>11 DEF AuInv
<1>14. UseInv /\ RefInv
  BY <1>5, <1>11 DEF UseInv, RefInv
<1>15. DpbInv
  BY <1>4, <1>5, <1>11 DEF DpbInv
<1>16. CallInv /\ DrainInv
  BY <1>4, <1>6 DEF CallInv, DrainInv
<1> QED BY <1>4, <1>7, <1>9, <1>10, <1>12, <1>13, <1>14, <1>15, <1>16 DEF IInv, RunInv

(* After a CHECK that failed nothing happens but tasks and the release of  *)
(* pictures.                                                               *)
LEMMA CallsNeedMore ==
  ASSUME main.pc = "app", app.state = "stopped", Next
  PROVE  Release \/ Tasks
<1>1. ~Main
  BY DEF Main, ParseMissingRef, GenerateRef, Parse, ParseBroken, ParsesPicture, ChooseNone, ChooseBroken,
         ChooseToRecon, Chosen, Sanitize, WaitForPrev, DecompressPicture, FinishDone, DecodeOutput, FlushFinds,
         FlushGoesOn, Drain, Block, Blocked, DrainAgain, FlushLast, FlushEnds
<1>2. ~Flush /\ ~GoOn /\ ~ParseEOS /\ ~ParseSkipped /\ ~ParseSliceHead
  BY DEF Flush, GoOn, ParseEOS, ParseSkipped, ParseSliceHead, CallsDecode
<1> QED BY <1>1, <1>2 DEF Next, Call

LEMMA StoppedKeeps ==
  ASSUME DpbAssumption, DecLibAssumption, IInv, check # "none", Next
  PROVE  /\ IInv' /\ check' = check /\ stream' = stream /\ thrown' = thrown
         /\ \A t \in Pictures : dpb'.pic[t].au = Pic(t).au
<1>1. main.pc = "app" /\ app.state = "stopped" /\ TypeInv
  BY DEF IInv
<1>2. CASE Tasks
  <2>1. PICK s \in Pictures : Task(s)
    BY <1>2 DEF Tasks
  <2>2. /\ TaskStep(Pic(s), dpb'.pic[s]) /\ \A t \in Pictures : t # s => dpb'.pic[t] = Pic(t)
        /\ stream' = stream /\ thrown' = thrown
    BY <1>1, <2>1, TaskShape
  <2>3. dpb'.pic[s].au = Pic(s).au
    BY <1>1, <2>2, PicType, TaskStepType
  <2> QED BY <1>2, <2>2, <2>3, TasksKeep
<1>3. CASE Release
  <2>1. PICK s \in Range(dpb.picList) : dpb' = ReleasePicture(dpb, s)
    BY <1>3 DEF Release
  <2>2. s \in Pictures /\ dpb \in DpbType
    <3>1. dpb \in DpbType /\ dpb.picList \in Seq(Pictures)
      BY <1>1, DpbTypeFields DEF TypeInv
    <3>2. PICK i \in 1..Len(dpb.picList) : dpb.picList[i] = s
      BY <2>1, <3>1, RangeEquality
    <3> QED BY <3>1, <3>2, ElementOfSeq
  <2>3. dpb' \in DpbType /\ \A t \in Pictures : dpb'.pic[t].au = Pic(t).au
    <3> DEFINE q == [dpb.pic[s] EXCEPT !.lockedByApplication = FALSE]
               pics == [dpb.pic EXCEPT ![s] = q]
    <3>1. dpb.pic \in [Pictures -> PictureType]
      BY <2>2, DpbTypeFields
    <3>2. q \in PictureType /\ q.au = dpb.pic[s].au
      <4>1. dpb.pic[s] \in PictureType
        BY <2>2, <3>1
      <4> QED BY <4>1 DEF PictureType
    <3>3. dpb' = [dpb EXCEPT !.pic = pics]
      BY <2>1 DEF ReleasePicture
    <3> HIDE DEF q
    <3>4. pics \in [Pictures -> PictureType] /\ \A t \in Pictures : pics[t].au = dpb.pic[t].au
      BY <2>2, <3>1, <3>2
    <3> HIDE DEF pics
    <3>5. dpb' \in DpbType /\ dpb'.pic = pics
      BY ONLY <2>2, <3>3, <3>4, WithPics
    <3> QED BY <3>4, <3>5 DEF Pic
  <2>4. /\ stream' = stream /\ tryContinue' = tryContinue /\ nextNal' = nextNal
        /\ pocRandomAccess' = pocRandomAccess /\ dpbReferencePics' = dpbReferencePics
        /\ parseFrameList' = parseFrameList /\ decLibRecon' = decLibRecon /\ main' = main /\ app' = app
        /\ output' = output /\ thrown' = thrown /\ errors' = errors /\ check' = check
    BY <1>3 DEF Release, parseVars, appVars
  <2> QED BY <1>1, <2>3, <2>4 DEF IInv, TypeInv
<1> QED BY <1>1, <1>2, <1>3, CallsNeedMore

LEMMA StutterKeeps ==
  ASSUME IInv, UNCHANGED vars
  PROVE  IInv'
<1>1. /\ stream' = stream /\ tryContinue' = tryContinue /\ nextNal' = nextNal /\ dpb' = dpb
      /\ pocRandomAccess' = pocRandomAccess /\ dpbReferencePics' = dpbReferencePics
      /\ parseFrameList' = parseFrameList /\ decLibRecon' = decLibRecon /\ main' = main /\ app' = app
      /\ output' = output /\ thrown' = thrown /\ errors' = errors /\ check' = check
  BY DEF vars, parseVars, appVars
<1>2. /\ \A s : (Listed(s)' <=> Listed(s)) /\ (Queued(s)' <=> Queued(s)) /\ (InHand(s)' <=> InHand(s))
      /\ \A s : (InObject(s)' <=> InObject(s)) /\ (TakenOut(s)' <=> TakenOut(s)) /\ (Unstarted(s)' <=> Unstarted(s))
      /\ \A s : (Owned(s)' <=> Owned(s)) /\ Pic(s)' = Pic(s)
      /\ \A s, t : Before(s, t)' <=> Before(s, t)
  BY <1>1 DEF Owned, Listed, Queued, InHand, InObject, TakenOut, Unstarted, Before, Pic
<1>3. ListInv => ListInv'
  BY <1>1, <1>2 DEF ListInv
<1>4. PlaceInv => PlaceInv'
  BY <1>1, <1>2 DEF PlaceInv
<1>5. LifeInv => LifeInv'
  <2>1. \A s : PictureInv(s) => PictureInv(s)'
    BY <1>1, <1>2 DEF PictureInv
  <2>2. \A s : LeftInv(s) => LeftInv(s)'
    BY <1>1, <1>2 DEF LeftInv
  <2> QED BY <2>1, <2>2 DEF LifeInv
<1>6. (AuInv => AuInv') /\ (UseInv => UseInv') /\ (RefInv => RefInv')
  BY <1>1, <1>2 DEF AuInv, UseInv, RefInv
<1>7. DpbInv => DpbInv'
  <2>1. (InSequence' <=> InSequence) /\ \A s : Kept(s) => Kept(s)'
    BY <1>1, <1>2 DEF InSequence, Kept, Unit
  <2> QED BY <1>1, <1>2, <2>1 DEF DpbInv
<1>8. (CallInv => CallInv') /\ (DrainInv => DrainInv')
  BY <1>1 DEF CallInv, DrainInv, Unit
<1>9. TypeInv => TypeInv'
  BY <1>1 DEF TypeInv
<1> QED BY <1>1, <1>3, <1>4, <1>5, <1>6, <1>7, <1>8, <1>9 DEF IInv, RunInv

LEMMA StepKeeps ==
  ASSUME DpbAssumption, DecLibAssumption, IInv, [Next]_vars
  PROVE  IInv'
<1>1. CASE UNCHANGED vars
  BY <1>1, StutterKeeps
<1>2. CASE Next /\ check # "none"
  BY <1>2, StoppedKeeps
<1>3. CASE Next /\ check = "none"
  <2>1. CASE Tasks
    BY <2>1, TasksKeep
  <2>2. CASE Call
    BY <1>3, <2>2, FlushKeeps, ReleaseKeeps, GoOnKeeps, ParseEOSKeeps, ParseSkippedKeeps,
       ParseSliceHeadKeeps DEF Call
  <2>3. CASE DecompressPicture
    BY <1>3, <2>3, DecompressFails, DecompressPictureKeeps
  <2>4. CASE FinishDone
    BY <1>3, <2>4, FinishNoneKeeps, FinishDoneKeeps
  <2>5. CASE Block
    BY <1>3, <2>5, BlockNoneKeeps, BlockKeeps
  <2>6. CASE ParseMissingRef \/ GenerateRef \/ Parse \/ ParseBroken
    BY <1>3, <2>6, ParseMissingRefKeeps, GenerateRefKeeps, ParseKeeps, ParseBrokenKeeps
  <2>7. CASE ChooseNone \/ ChooseBroken \/ ChooseToRecon \/ Sanitize \/ WaitForPrev
    BY <1>3, <2>7, ChooseNoneKeeps, ChooseBrokenKeeps, ChooseToReconKeeps, SanitizeKeeps, WaitForPrevKeeps
  <2>8. CASE DecodeOutput \/ FlushFinds \/ FlushGoesOn \/ Drain \/ DrainAgain \/ Blocked \/ FlushLast \/ FlushEnds
    BY <1>3, <2>8, DecodeOutputKeeps, FlushFindsKeeps, FlushGoesOnKeeps, BlockedKeeps, FlushLastKeeps,
       FlushEndsKeeps
  <2> QED BY <1>3, <2>1, <2>2, <2>3, <2>4, <2>5, <2>6, <2>7, <2>8 DEF Next, Main
<1> QED BY <1>1, <1>2, <1>3

(* The inductive invariant: where a picture is says how far it is, what is *)
(* referred to is kept, and what the parser may refer to is in the buffer. *)
THEOREM Inductive == Spec => []IInv
<1>1. Init => IInv
  BY InitInv, DpbAssumption, DecLibAssumption
<1>2. IInv /\ [Next]_vars => IInv'
  BY StepKeeps, DpbAssumption, DecLibAssumption
<1> QED BY <1>1, <1>2, PTL DEF Spec

(* All variables keep their types.                                         *)
THEOREM TypeCorrect == Spec => []TypeInv
<1>1. IInv => TypeInv
  BY DEF IInv
<1> QED BY <1>1, Inductive, PTL

-----------------------------------------------------------------------------
(* What a step does to the pictures: they go on, one buffer is taken for a *)
(* new picture, or a reference picture turns out to have no slice header.  *)
RefersToNoHeader ==
  /\ DecompressPicture /\ \E r \in RefsOf(main.pic) : Pic(r).progress < parsing
  /\ check' = "slice parsing should have started" /\ stream' = stream /\ thrown' = thrown
  /\ \A t \in Pictures : dpb'.pic[t].au = Pic(t).au

LEMMA StepMoves ==
  ASSUME DpbAssumption, DecLibAssumption, IInv, check = "none", Next
  PROVE  \/ PicturesGoOn /\ check' = "none"
         \/ TakesPicture(parsing) /\ check' = "none"
         \/ ParseBroken /\ TakesPicture(init) /\ check' = "none"
         \/ RefersToNoHeader
<1>1. CASE Tasks
  BY <1>1, TasksKeep
<1>2. CASE Call
  BY <1>2, FlushKeeps, ReleaseKeeps, GoOnKeeps, ParseEOSKeeps, ParseSkippedKeeps, ParseSliceHeadKeeps DEF Call
<1>3. CASE DecompressPicture
  BY <1>3, DecompressFails, DecompressPictureKeeps DEF RefersToNoHeader
<1>4. CASE FinishDone
  BY <1>4, FinishNoneKeeps, FinishDoneKeeps
<1>5. CASE Block
  BY <1>5, BlockNoneKeeps, BlockKeeps
<1>6. CASE ParseMissingRef \/ GenerateRef \/ Parse \/ ParseBroken
  BY <1>6, ParseMissingRefKeeps, GenerateRefKeeps, ParseKeeps, ParseBrokenKeeps
<1>7. CASE ChooseNone \/ ChooseBroken \/ ChooseToRecon \/ Sanitize \/ WaitForPrev
  BY <1>7, ChooseNoneKeeps, ChooseBrokenKeeps, ChooseToReconKeeps, SanitizeKeeps, WaitForPrevKeeps
<1>8. CASE DecodeOutput \/ FlushFinds \/ FlushGoesOn \/ Drain \/ DrainAgain \/ Blocked \/ FlushLast \/ FlushEnds
  BY <1>8, DecodeOutputKeeps, FlushFindsKeeps, FlushGoesOnKeeps, BlockedKeeps, FlushLastKeeps, FlushEndsKeeps
<1> QED BY <1>1, <1>2, <1>3, <1>4, <1>5, <1>6, <1>7, <1>8 DEF Next, Main

-----------------------------------------------------------------------------
(* A buffer that is taken was in the list, if it is not new, and nobody    *)
(* used its picture any more.                                              *)
LEMMA NotInUse ==
  ASSUME DpbAssumption, TypeInv, RunInv, NEW d, NEW s, NEW p, Takes(d, s, p), s \in Pictures, Listed(s)
  PROVE  ~InUse(s)
<1>1. /\ ~Owned(s) /\ ~Pic(s).neededForOutput /\ ~Pic(s).lockedByApplication
      /\ \A t \in Pictures : Pic(t).progress < reconstructed => s \notin Pic(t).refs
  BY TakesFree
<1>2. NoTasks(s)
  BY <1>1 DEF RunInv, LifeInv, LeftInv, LeftAgrees, NoTasks
<1>3. s \notin Range(decLibRecon) \cup Range(parseFrameList)
  <2>1. decLibRecon \in [1..DecInstances -> 0..MaxPictures] /\ parseFrameList \in Seq(Pictures)
    BY DEF TypeInv
  <2>2. s \notin Range(decLibRecon)
    BY <1>1, <2>1 DEF Owned, InObject, Range
  <2>3. s \notin Range(parseFrameList)
    BY <1>1, <2>1, RangeEquality DEF Owned, Queued
  <2> QED BY <2>2, <2>3
<1>4. ASSUME NEW t \in Range(dpb.picList), s \in Pic(t).refs, Reads(t) PROVE FALSE
  <2>1. t \in Pictures
    <3>1. dpb.picList \in Seq(Pictures)
      BY DpbTypeFields DEF TypeInv
    <3>2. PICK i \in 1..Len(dpb.picList) : dpb.picList[i] = t
      BY <3>1, RangeEquality
    <3> QED BY <3>1, <3>2, ElementOfSeq
  <2>2. TasksAgree(Pic(t)) /\ Pic(t).progress \in Int
    BY <2>1, PicType DEF RunInv, LifeInv, PictureInv, PictureType, Progress
  <2>3. Pic(t).progress < reconstructed
    BY <1>4, <2>2 DEF Reads, TasksAgree
  <2> QED BY <1>1, <1>4, <2>1, <2>3
<1> QED BY <1>1, <1>2, <1>3, <1>4 DEF InUse

(* A Picture object gets a new access unit only when nobody works on the   *)
(* old one, refers to it, still has to output it, or shows it              *)
(* (getNewPicBuffer, markUnusedPicturesReusable).                          *)
THEOREM ReuseAlwaysSafe == Spec => ReuseSafe
<1>1. ASSUME IInv, [Next]_vars, NEW s \in Range(dpb.picList), dpb'.pic[s].au # Pic(s).au
      PROVE  ~InUse(s)
  <2>1. TypeInv /\ s \in Pictures
    <3>1. TypeInv /\ dpb.picList \in Seq(Pictures)
      BY <1>1, DpbTypeFields DEF IInv, TypeInv
    <3>2. PICK i \in 1..Len(dpb.picList) : dpb.picList[i] = s
      BY <3>1, RangeEquality
    <3> QED BY <3>1, <3>2, ElementOfSeq
  <2>2. Next
    BY <1>1 DEF vars, Pic
  <2>3. check = "none" /\ RunInv
    BY <1>1, <2>1, <2>2, StoppedKeeps, DpbAssumption, DecLibAssumption DEF IInv
  <2>4. PICK d, t, p : Takes(d, t, p)
    <3>1. \/ PicturesGoOn
          \/ TakesPicture(parsing) \/ TakesPicture(init)
          \/ RefersToNoHeader
      BY <1>1, <2>2, <2>3, StepMoves, DpbAssumption, DecLibAssumption
    <3>2. ~PicturesGoOn
      BY <1>1, <2>1 DEF PicturesGoOn, Goes
    <3>3. ~RefersToNoHeader
      BY <1>1, <2>1 DEF RefersToNoHeader
    <3> QED BY <3>1, <3>2, <3>3 DEF TakesPicture
  <2>5. t = s
    <3>1. t # s => OnlyUnmarked(Pic(s), dpb'.pic[s])
      BY <2>1, <2>3, <2>4, TakesShape, DpbAssumption DEF RunInv
    <3> QED BY <1>1, <3>1 DEF OnlyUnmarked, SameLife
  <2>6. Listed(s)
    <3>1. Numbered(dpb.picList) /\ dpb.picList \in Seq(Pictures) /\ s \in Nat
      BY <2>1, <2>3, DpbTypeFields, DpbAssumption DEF RunInv, ListInv, TypeInv, Pictures, DpbAssumption
    <3>2. \E i \in 1..Len(dpb.picList) : dpb.picList[i] = s
      BY <3>1, RangeEquality
    <3> QED BY <3>1, <3>2 DEF Numbered, Listed
  <2> QED BY <2>1, <2>3, <2>4, <2>5, <2>6, NotInUse, DpbAssumption
<1>2. IInv /\ [Next]_vars => \A s \in Range(dpb.picList) : dpb'.pic[s].au # Pic(s).au => ~InUse(s)
  BY <1>1
<1> QED BY <1>2, Inductive, PTL DEF Spec, ReuseSafe

-----------------------------------------------------------------------------
(* At the end of the stream nobody has a picture.                          *)
LEMMA NobodyHas ==
  ASSUME DpbAssumption, main.pc \notin Hands, parseFrameList = <<>>,
         \A i \in 1..DecInstances : decLibRecon[i] = 0
  PROVE  \A s \in Pictures : ~Owned(s)
<1>1. Len(parseFrameList) = 0 /\ \A s \in Pictures : s # 0
  BY EmptySeq DEF Pictures, DpbAssumption
<1> QED BY <1>1 DEF Owned, Queued, InHand, InObject, TakenOut, Hands

LEMMA NobodyHasAtEof ==
  ASSUME DpbAssumption, TypeInv, RunInv, app.state = "eof"
  PROVE  main.pc = "app" /\ \A s \in Pictures : ~Owned(s)
<1>1. main.pc = "app"
  BY DEF RunInv, CallInv, TypeInv, MainType
<1>2. parseFrameList = <<>> /\ \A i \in 1..DecInstances : decLibRecon[i] = 0
  BY DEF RunInv, DrainInv
<1> QED BY <1>1, <1>2, NobodyHas DEF Hands

LEMMA ListedInRange ==
  ASSUME DpbAssumption, TypeInv, ListInv, NEW i \in DOMAIN dpb.picList
  PROVE  dpb.picList[i] \in Pictures /\ Listed(dpb.picList[i]) /\ i \in 1..Len(dpb.picList)
<1>1. dpb.picList \in Seq(Pictures)
  BY DpbTypeFields DEF TypeInv
<1>2. i \in 1..Len(dpb.picList)
  BY <1>1, LenProperties
<1>3. dpb.picList[i] \in Pictures
  BY <1>1, <1>2, ElementOfSeq
<1>4. dpb.picList[i] \in Nat
  BY <1>3 DEF Pictures, DpbAssumption
<1> QED BY <1>2, <1>3, <1>4 DEF ListInv, Numbered, Listed

(* An exception about an access unit leaves the library at most once:      *)
(* also after a CHECK has failed, since nothing is thrown then any more.   *)
AtMostOnce == \A a \in 1..Len(stream) : thrown[a] \in {0, 1}

LEMMA OnceKept ==
  ASSUME DpbAssumption, DecLibAssumption, IInv, AtMostOnce, [Next]_vars
  PROVE  AtMostOnce'
<1>1. CASE UNCHANGED vars
  BY <1>1 DEF vars, parseVars, appVars, AtMostOnce
<1>2. CASE Next /\ check # "none"
  BY <1>2, StoppedKeeps DEF AtMostOnce
<1>3. CASE Next /\ check = "none"
  <2>1. check' = "none" \/ RefersToNoHeader
    BY <1>3, StepMoves
  <2>2. CASE check' = "none"
    <3>1. IInv'
      BY StepKeeps
    <3> QED BY <2>2, <3>1 DEF IInv, RunInv, AuInv, AtMostOnce
  <2>3. CASE RefersToNoHeader
    BY <2>3 DEF RefersToNoHeader, AtMostOnce
  <2> QED BY <2>1, <2>2, <2>3
<1> QED BY <1>1, <1>2, <1>3

(* An exception about an access unit leaves the library at most once, and  *)
(* at the end of the stream every picture with an error has been reported  *)
(* (finishPicture and sanitizeBrokenPicture, exceptionThrownOut).          *)
THEOREM ErrorsAlwaysReportedOnce == Spec => []ErrorsReportedOnce
<1>1. Init => AtMostOnce
  BY DEF Init, AtMostOnce
<1>2. IInv /\ AtMostOnce /\ [Next]_vars => AtMostOnce'
  BY OnceKept, DpbAssumption, DecLibAssumption
<1>3. ASSUME IInv, AtMostOnce PROVE ErrorsReportedOnce
  <2>1. TypeInv /\ thrown \in [1..Len(stream) -> Nat]
    BY <1>3 DEF IInv, TypeInv
  <2>2. \A a \in DOMAIN thrown : thrown[a] <= 1
    BY <1>3, <2>1 DEF AtMostOnce
  <2>3. ASSUME app.state = "eof", NEW s \in Range(dpb.picList), Pic(s).error
        PROVE  thrown[Pic(s).au] = 1
    <3>1. RunInv
      BY <1>3, <2>3 DEF IInv
    <3>2. PICK i \in DOMAIN dpb.picList : dpb.picList[i] = s
      BY <2>3 DEF Range
    <3>3. s \in Pictures /\ Listed(s) /\ ~Owned(s)
      BY <2>1, <2>3, <3>1, <3>2, ListedInRange, NobodyHasAtEof, DpbAssumption DEF RunInv
    <3> QED BY <2>3, <3>1, <3>3 DEF RunInv, LifeInv, LeftInv, LeftAgrees
  <2> QED BY <2>2, <2>3 DEF ErrorsReportedOnce
<1>4. Spec => [](IInv /\ AtMostOnce)
  BY <1>1, <1>2, Inductive, PTL DEF Spec
<1> QED BY <1>3, <1>4, PTL

-----------------------------------------------------------------------------
(* What is left when flush has nothing to output any more.                 *)
LEMMA RangeEndShape ==
  ASSUME NEW d \in DpbType
  PROVE  /\ RangeEnd(d) \in 0..Len(d.picList)
         /\ RangeEnd(d) # 0 =>
              LET p == d.pic[d.picList[RangeEnd(d)]] IN
              /\ ~Skipped(p)
              /\ \/ p.progress < finished
                 \/ \E j \in 1..(RangeEnd(d) - 1) : d.pic[d.picList[j]].neededForOutput
<1> DEFINE seq == [i \in 1..Len(d.picList) |-> i]
           ends(i) ==
             LET p == d.pic[d.picList[i]]
             IN  /\ ~Skipped(p)
                 /\ \/ p.progress < finished
                    \/ p.type = "IDR" /\ \E j \in 1..(i-1) : d.pic[d.picList[j]].neededForOutput
           I == {i \in 1..Len(seq) : ends(seq[i])}
           k == IF I # {} THEN Min(I) ELSE 0
<1>1. Len(d.picList) \in Nat
  BY DpbTypeFields
<1>2. seq \in Seq(Nat) /\ Len(seq) = Len(d.picList)
  <2>1. seq \in [1..Len(d.picList) -> Nat]
    BY <1>1
  <2> HIDE DEF seq
  <2>2. seq \in Seq(Nat)
    BY <1>1, <2>1, IsASeq
  <2>3. DOMAIN seq = 1..Len(d.picList)
    BY <2>1
  <2> QED BY <1>1, <2>2, <2>3, LenProperties
<1>3. RangeEnd(d) = k
  BY DEF RangeEnd, SelectInSeq
<1>4. I \in SUBSET (1..Len(d.picList))
  BY <1>2
<1>5. k \in 0..Len(d.picList) /\ (k # 0 => k \in I)
  <2> HIDE DEF I
  <2> QED BY <1>1, <1>4, FirstPosition
<1>6. ASSUME k # 0 PROVE ends(k)
  <2>1. k \in I /\ k \in 1..Len(d.picList)
    BY <1>4, <1>5, <1>6
  <2> HIDE DEF k
  <2>2. seq[k] = k
    BY <2>1
  <2>3. ends(seq[k])
    BY <2>1
  <2> QED BY <2>2, <2>3
<1> HIDE DEF k
<1> QED BY <1>3, <1>5, <1>6

LEMMA LeftIsStuck ==
  ASSUME NEW p \in PictureType, NEW times, LeftAgrees(p, times), p.progress < finished, p.neededForOutput
  PROVE  Stuck(p)
BY DEF LeftAgrees, Finished, LostOne, NoHeader, NotFinished, Stuck, PictureType, Progress

LEMMA WithheldAtEnd ==
  ASSUME DpbAssumption, TypeInv, RunInv, \A s \in Pictures : ~Owned(s), Waiting(dpb) = {},
         NEW i \in DOMAIN dpb.picList, Pic(dpb.picList[i]).neededForOutput
  PROVE  \E j \in 1..i : Stuck(Pic(dpb.picList[j]))
<1> DEFINE end == RangeEnd(dpb)
           P(j) == Pic(dpb.picList[j])
<1>1. /\ i \in 1..Len(dpb.picList) /\ Len(dpb.picList) \in Nat /\ dpb \in DpbType
      /\ dpb.picList \in Seq(Pictures)
  BY ListedInRange, DpbTypeFields DEF RunInv, TypeInv
<1>2. ASSUME NEW j \in 1..Len(dpb.picList)
      PROVE  P(j) \in PictureType /\ P(j).progress \in Int /\ \E times : LeftAgrees(P(j), times)
  <2>1. j \in DOMAIN dpb.picList
    BY <1>1, <1>2, LenProperties
  <2>2. PICK s : s = dpb.picList[j]
    OBVIOUS
  <2>3. s \in Pictures /\ Listed(s) /\ ~Owned(s)
    BY <2>1, <2>2, ListedInRange DEF RunInv
  <2>4. LeftAgrees(Pic(s), thrown[Pic(s).au]) /\ Pic(s) \in PictureType
    BY <2>3, PicType DEF RunInv, LifeInv, LeftInv
  <2>5. Pic(s).progress \in Int
    BY <2>4 DEF PictureType, Progress
  <2> QED BY <2>2, <2>4, <2>5
<1>3. ASSUME NEW j \in 1..Len(dpb.picList), P(j).neededForOutput, P(j).progress < finished
      PROVE  Stuck(P(j))
  BY <1>2, <1>3, LeftIsStuck
<1>4. CASE P(i).progress < finished
  <2>1. i \in 1..i
    BY <1>1
  <2> QED BY <1>1, <1>3, <1>4, <2>1
<1>5. CASE ~(P(i).progress < finished)
  <2>1. P(i).progress >= finished
    BY <1>1, <1>2, <1>5
  <2>2. end # 0 /\ ~(i < end) /\ end \in 1..Len(dpb.picList) /\ end <= i
    <3>1. end # 0 /\ ~(i < end)
      BY <1>1, <2>1 DEF Waiting, Pic
    <3>2. end \in 0..Len(dpb.picList)
      BY <1>1, RangeEndShape
    <3> HIDE DEF end
    <3> QED BY <1>1, <3>1, <3>2
  <2>3. /\ ~Skipped(P(end))
        /\ P(end).progress < finished \/ \E j \in 1..(end - 1) : P(j).neededForOutput
    BY <1>1, <2>2, RangeEndShape DEF Pic
  <2>4. CASE P(end).progress < finished
    <3>1. PICK times : LeftAgrees(P(end), times)
      BY <1>2, <2>2
    <3>2. P(end) \in PictureType
      BY <1>2, <2>2
    <3>3. Stuck(P(end))
      BY <2>3, <2>4, <3>1, <3>2
         DEF LeftAgrees, Finished, LostOne, NoHeader, NotFinished, Stuck, Skipped, PictureType, Progress
    <3>4. end \in 1..i
      BY <1>1, <2>2
    <3> QED BY <3>3, <3>4
  <2>5. CASE ~(P(end).progress < finished)
    <3>1. PICK j \in 1..(end - 1) : P(j).neededForOutput
      BY <2>3, <2>5
    <3> HIDE DEF end
    <3>2. j \in 1..Len(dpb.picList) /\ j < end /\ j \in 1..i
      BY <1>1, <2>2, <3>1
    <3>3. ~(P(j).progress >= finished)
      BY <2>2, <3>1, <3>2 DEF Waiting, Pic, end
    <3>4. P(j).progress < finished
      BY <1>2, <3>2, <3>3
    <3> QED BY <1>3, <3>1, <3>2, <3>4
  <2> QED BY <2>4, <2>5
<1> QED BY <1>4, <1>5

(* Only FlushEnds reports the end of the stream.                           *)
LEMMA EndsOnlyByFlush ==
  ASSUME DpbAssumption, DecLibAssumption, TypeInv, RunInv, Next, app'.state = "eof", app.state # "eof"
  PROVE  FlushEnds
<1>1. app \in AppType /\ main.call \in {"decode", "flush"}
  BY DEF TypeInv, MainType
<1>2. ASSUME NEW a, NEW call, ThrowTo(a, call) PROVE FALSE
  BY <1>1, <1>2 DEF ThrowTo, AppType
<1>3. ASSUME NEW c, Fails(c) PROVE FALSE
  BY <1>1, <1>3 DEF Fails, AppType
<1>4. ASSUME NEW out, Return(out) PROVE FALSE
  BY <1>1, <1>4 DEF Return, AppType
<1>5. app' # app
  OBVIOUS
<1>6. ~Tasks
  BY <1>5 DEF Tasks, Task, appVars
<1>7. ~Call
  BY <1>1, <1>5 DEF Call, Flush, Release, GoOn, ParseEOS, ParseSkipped, ParseSliceHead, appVars, AppType
<1>8. ~ParseMissingRef /\ ~GenerateRef /\ ~Parse /\ ~ParseBroken
  BY <1>2, <1>3, <1>5 DEF ParseMissingRef, GenerateRef, Parse, ParseBroken, appVars
<1>9. ~ChooseNone /\ ~ChooseBroken /\ ~ChooseToRecon /\ ~Sanitize
  BY <1>2, <1>3, <1>5 DEF ChooseNone, ChooseBroken, ChooseToRecon, Sanitize, appVars
<1>10. ~WaitForPrev /\ ~DecompressPicture /\ ~FinishDone /\ ~Block /\ ~Blocked
  BY <1>2, <1>3, <1>5 DEF WaitForPrev, DecompressPicture, FinishDone, Block, Blocked, appVars
<1>11. ~DecodeOutput /\ ~FlushFinds /\ ~FlushGoesOn /\ ~Drain /\ ~DrainAgain /\ ~FlushLast
  BY <1>4, <1>5 DEF DecodeOutput, FlushFinds, FlushGoesOn, Drain, DrainAgain, FlushLast, Output, NoOutput, appVars
<1> QED BY <1>6, <1>7, <1>8, <1>9, <1>10, <1>11 DEF Next, Main

(* After the end of the stream pictures are only released.                 *)
LEMMA OnlyReleasedAtEof ==
  ASSUME DpbAssumption, DecLibAssumption, TypeInv, RunInv, Next, app'.state = "eof", app.state = "eof"
  PROVE  /\ dpb'.picList = dpb.picList
         /\ \A s \in Pictures : /\ dpb'.pic[s].neededForOutput = Pic(s).neededForOutput
                                /\ Stuck(Pic(s)) => Stuck(dpb'.pic[s])
<1>1. main.pc = "app" /\ \A s \in Pictures : ~Owned(s)
  BY NobodyHasAtEof
<1>2. ~Tasks
  <2> SUFFICES ASSUME NEW s \in Pictures, Task(s) PROVE FALSE
    BY DEF Tasks
  <2>1. TaskStep(Pic(s), dpb'.pic[s])
    BY TaskShape
  <2> QED BY <1>1, <2>1, TaskOwned
<1>3. ~Main
  BY <1>1 DEF Main, ParseMissingRef, GenerateRef, Parse, ParseBroken, ParsesPicture, ChooseNone, ChooseBroken,
         ChooseToRecon, Chosen, Sanitize, WaitForPrev, DecompressPicture, FinishDone, DecodeOutput, FlushFinds,
         FlushGoesOn, Drain, Block, Blocked, DrainAgain, FlushLast, FlushEnds
<1>4. ~Flush /\ ~ParseEOS /\ ~ParseSkipped /\ ~ParseSliceHead
  BY DEF Flush, ParseEOS, ParseSkipped, ParseSliceHead, CallsDecode
<1>5. ~GoOn
  <2> SUFFICES ASSUME GoOn PROVE FALSE
    OBVIOUS
  <2>1. app'.state = "decode"
    BY DEF GoOn, TypeInv, AppType
  <2> QED BY <2>1
<1>6. Release
  BY <1>2, <1>3, <1>4, <1>5 DEF Next, Call
<1>7. PICK s \in Range(dpb.picList) : dpb' = ReleasePicture(dpb, s)
  BY <1>6 DEF Release
<1>8. s \in Pictures /\ dpb \in DpbType /\ dpb.pic \in [Pictures -> PictureType]
  <2>1. PICK i \in DOMAIN dpb.picList : dpb.picList[i] = s
    BY <1>7 DEF Range
  <2> QED BY <2>1, ListedInRange, DpbTypeFields DEF RunInv, TypeInv
<1> DEFINE q == [dpb.pic[s] EXCEPT !.lockedByApplication = FALSE]
           pics == [dpb.pic EXCEPT ![s] = q]
<1>9. /\ q \in PictureType /\ q.neededForOutput = dpb.pic[s].neededForOutput
      /\ Stuck(dpb.pic[s]) => Stuck(q)
  <2>1. dpb.pic[s] \in PictureType
    BY <1>8
  <2> QED BY <2>1 DEF PictureType, Stuck
<1>10. dpb' = [dpb EXCEPT !.pic = pics]
  BY <1>7 DEF ReleasePicture
<1> HIDE DEF q
<1>11. /\ pics \in [Pictures -> PictureType]
       /\ \A t \in Pictures : pics[t] = IF t = s THEN q ELSE dpb.pic[t]
  BY <1>8, <1>9
<1> HIDE DEF pics
<1>12. dpb'.picList = dpb.picList /\ dpb'.pic = pics
  BY ONLY <1>8, <1>10, <1>11, WithPics
<1> QED BY <1>9, <1>11, <1>12 DEF Pic

(* What is not output at the end of the stream waits behind a picture that *)
(* never was finished: one whose slice header failed, or whose             *)
(* reconstruction failed (getNextOutputPic, finishPicture).                *)
THEOREM WithheldOnlyThen == Spec => []WithheldOnlyBehindStuck
<1>1. Init => WithheldOnlyBehindStuck
  BY DEF Init, WithheldOnlyBehindStuck
<1>2. ASSUME IInv, WithheldOnlyBehindStuck, [Next]_vars, (IInv)' PROVE WithheldOnlyBehindStuck'
  <2>1. CASE UNCHANGED vars
    BY <1>2, <2>1 DEF vars, appVars, WithheldOnlyBehindStuck, Pic
  <2> SUFFICES ASSUME Next, app'.state = "eof" PROVE WithheldOnlyBehindStuck'
    BY <1>2, <2>1 DEF WithheldOnlyBehindStuck
  <2>2. TypeInv
    BY <1>2 DEF IInv
  <2>3. check = "none" /\ RunInv
    <3>1. ASSUME check # "none" PROVE FALSE
      <4>1. check' # "none"
        BY <1>2, <3>1, StoppedKeeps, DpbAssumption, DecLibAssumption
      <4> QED BY <1>2, <4>1 DEF IInv
    <3> QED BY <1>2, <3>1 DEF IInv
  <2>4. CASE app.state = "eof"
    <3>1. /\ dpb'.picList = dpb.picList
          /\ \A s \in Pictures : /\ dpb'.pic[s].neededForOutput = Pic(s).neededForOutput
                                 /\ Stuck(Pic(s)) => Stuck(dpb'.pic[s])
      BY <2>2, <2>3, <2>4, OnlyReleasedAtEof, DpbAssumption, DecLibAssumption
    <3>2. ASSUME NEW i \in DOMAIN dpb.picList, dpb'.pic[dpb.picList[i]].neededForOutput
          PROVE  \E j \in 1..i : Stuck(dpb'.pic[dpb.picList[j]])
      <4>1. dpb.picList[i] \in Pictures /\ i \in 1..Len(dpb.picList)
        BY <2>2, <2>3, ListedInRange, DpbAssumption DEF RunInv
      <4>2. Pic(dpb.picList[i]).neededForOutput
        BY <3>1, <3>2, <4>1
      <4>3. PICK j \in 1..i : Stuck(Pic(dpb.picList[j]))
        BY <1>2, <2>4, <4>2 DEF WithheldOnlyBehindStuck
      <4>4. j \in DOMAIN dpb.picList
        <5>1. dpb.picList \in Seq(Pictures) /\ Len(dpb.picList) \in Nat
          BY <2>2, DpbTypeFields DEF TypeInv
        <5>2. j \in 1..Len(dpb.picList)
          BY <4>1, <4>3, <5>1
        <5> QED BY <5>1, <5>2, LenProperties
      <4>5. dpb.picList[j] \in Pictures
        BY <2>2, <2>3, <4>4, ListedInRange, DpbAssumption DEF RunInv
      <4> QED BY <3>1, <4>3, <4>5
    <3> QED BY <3>1, <3>2 DEF WithheldOnlyBehindStuck, Pic
  <2>5. CASE app.state # "eof"
    <3>1. FlushEnds
      BY <2>2, <2>3, <2>5, EndsOnlyByFlush, DpbAssumption, DecLibAssumption
    <3>2. main.pc = "last" /\ dpb' = Restart(dpb) /\ GetNextOutputPic(dpb, TRUE).pic = 0
      BY <3>1 DEF FlushEnds
    <3>3. dpb'.picList = dpb.picList /\ dpb'.pic = dpb.pic
      BY <2>2, <3>2 DEF Restart, TypeInv, DpbType
    <3>4. Waiting(dpb) = {}
      <4>1. PICK o : o = GetNextOutputPic(dpb, TRUE)
        OBVIOUS
      <4> QED BY <2>2, <2>3, <3>2, <4>1, OutputShape, DpbAssumption DEF TypeInv, RunInv, ListInv
    <3>5. \A s \in Pictures : ~Owned(s)
      BY <2>3, <3>2, NobodyHas, DpbAssumption DEF RunInv, DrainInv, Hands
    <3>6. \A i \in DOMAIN dpb.picList :
            Pic(dpb.picList[i]).neededForOutput => \E j \in 1..i : Stuck(Pic(dpb.picList[j]))
      BY <2>2, <2>3, <3>4, <3>5, WithheldAtEnd, DpbAssumption
    <3> QED BY <3>3, <3>6 DEF WithheldOnlyBehindStuck, Pic
  <2> QED BY <2>4, <2>5
<1>3. IInv /\ WithheldOnlyBehindStuck /\ [Next]_vars /\ IInv' => WithheldOnlyBehindStuck'
  BY <1>2
<1> QED BY <1>1, <1>3, Inductive, PTL DEF Spec

-----------------------------------------------------------------------------
(* A picture is started after the pictures it refers to have left the      *)
(* parse list, and they have been begun unless their slice header failed   *)
(* (getNextDecodablePicture, borderExtPic).                                *)
THEOREM AlwaysStartsAfterReferences == Spec => []StartsAfterReferences
<1>1. IInv => StartsAfterReferences
  <2> SUFFICES ASSUME IInv, main.pc = "start", NEW r \in RefsOf(main.pic)
               PROVE  /\ r \notin Range(parseFrameList)
                      /\ Pic(r).progress < parsing => Pic(r).progress = init /\ Pic(r).error
    BY DEF StartsAfterReferences
  <2>1. TypeInv /\ RunInv
    BY DEF IInv
  <2>2. PICK s : s = main.pic
    OBVIOUS
  <2>3. s \in Pictures /\ Unstarted(s) /\ InObject(s)
    <3>1. s \in Pictures /\ Unstarted(s)
      BY <2>1, <2>2 DEF RunInv, PlaceInv, Unstarted
    <3>2. DecInstances \in 1..DecInstances /\ decLibRecon[DecInstances] = s
      BY <2>1, <2>2, DpbAssumption DEF RunInv, PlaceInv, DpbAssumption
    <3> QED BY <3>1, <3>2 DEF InObject
  <2>4. Pic(s) \in PictureType /\ Pic(s).progress = reconstructing
    BY <2>1, <2>3, PicType DEF RunInv, LifeInv, PictureInv
  <2>5. r \in Pictures /\ r \in Pic(s).refs /\ Pic(s).progress < reconstructed
    BY <2>2, <2>4 DEF RefsOf, PictureType
  <2>6. Listed(r) /\ Before(r, s)
    BY <2>1, <2>3, <2>5 DEF RunInv, RefInv
  <2>7. parseFrameList \in Seq(Pictures) /\ Len(parseFrameList) \in Nat
    BY <2>1, LenProperties DEF TypeInv
  <2>8. r \notin Range(parseFrameList)
    <3> SUFFICES ASSUME r \in Range(parseFrameList) PROVE FALSE
      OBVIOUS
    <3>1. PICK i \in 1..Len(parseFrameList) : parseFrameList[i] = r
      BY <2>7, RangeEquality
    <3>2. PICK j \in 1..Len(parseFrameList) : parseFrameList[j] = s
      BY <2>6, <3>1 DEF Before
    <3>3. Queued(s)
      BY <3>2 DEF Queued
    <3> QED BY <2>1, <2>3, <3>3 DEF RunInv, PlaceInv
  <2>9. ASSUME Pic(r).progress < parsing PROVE Pic(r).progress = init /\ Pic(r).error
    <3>1. ~Queued(r) /\ ~InHand(r) /\ ~InObject(r) /\ ~TakenOut(r)
      <4>1. PictureInv(r)
        BY <2>1, <2>5 DEF RunInv, LifeInv
      <4>2. ~Queued(r) /\ ~InHand(r)
        BY <2>9, <4>1 DEF PictureInv, WaitsAgrees
      <4>3. ~InObject(r) /\ ~TakenOut(r)
        BY <2>9, <4>1 DEF PictureInv, ObjectAgrees, TakenOutAgrees
      <4> QED BY <4>2, <4>3
    <3>2. LeftAgrees(Pic(r), thrown[Pic(r).au])
      BY <2>1, <2>5, <2>6, <3>1 DEF RunInv, LifeInv, LeftInv, Owned
    <3> QED BY <2>9, <3>2 DEF LeftAgrees, Finished, LostOne, NoHeader, NotFinished
  <2> QED BY <2>8, <2>9
<1> QED BY <1>1, Inductive, PTL

-----------------------------------------------------------------------------
(* The CHECKs about the buffers never fail, whatever the input; the one    *)
(* about the slice header of a reference picture is the next theorem's.    *)
THEOREM BufferChecksAlwaysHold == Spec => []BufferChecksHold
<1> DEFINE OnlyThatOne == check \in {"none", "slice parsing should have started"}
<1>1. Init => OnlyThatOne
  BY DEF Init
<1>2. ASSUME IInv, OnlyThatOne, [Next]_vars PROVE OnlyThatOne'
  <2>1. CASE UNCHANGED vars
    BY <1>2, <2>1 DEF vars
  <2>2. CASE Next /\ check # "none"
    BY <1>2, <2>2, StoppedKeeps, DpbAssumption, DecLibAssumption
  <2>3. CASE Next /\ check = "none"
    <3>1. check' = "none" \/ RefersToNoHeader
      BY <1>2, <2>3, StepMoves, DpbAssumption, DecLibAssumption
    <3> QED BY <3>1 DEF RefersToNoHeader
  <2> QED BY <1>2, <2>1, <2>2, <2>3
<1>3. IInv /\ OnlyThatOne /\ [Next]_vars => OnlyThatOne'
  BY <1>2
<1>4. StartsAfterReferences /\ OnlyThatOne => BufferChecksHold
  BY DEF BufferChecksHold
<1> QED BY <1>1, <1>3, <1>4, Inductive, AlwaysStartsAfterReferences, PTL DEF Spec

(* As long as no slice header fails between getNewPicBuffer and the parse  *)
(* list, every picture in the buffer has at least begun to be parsed ...   *)
Headed == check = "none" /\ \A s \in Pictures : Listed(s) => Pic(s).progress >= parsing

LEMMA HeadedKept ==
  ASSUME DpbAssumption, DecLibAssumption, IInv, Headed, Next, ~ParseBroken
  PROVE  Headed'
<1>1. check = "none" /\ TypeInv /\ RunInv
  BY DEF IInv, Headed
<1>2. ~RefersToNoHeader
  <2> SUFFICES ASSUME RefersToNoHeader PROVE FALSE
    OBVIOUS
  <2>1. DecompressPicture /\ \E r \in RefsOf(main.pic) : Pic(r).progress < parsing
    BY Zenon DEF RefersToNoHeader
  <2>2. PICK r \in RefsOf(main.pic) : Pic(r).progress < parsing
    BY <2>1
  <2>3. PICK s : s = main.pic
    OBVIOUS
  <2>4. s \in Pictures /\ InObject(s) /\ Unstarted(s) /\ r \in Pic(s).refs
    BY <1>1, <2>1, <2>2, <2>3, DecompressPictureShape DEF RefsOf
  <2>5. Pic(s) \in PictureType /\ Pic(s).progress < reconstructed
    BY <1>1, <2>4, PicType DEF RunInv, LifeInv, PictureInv
  <2>6. r \in Pictures
    BY <2>4, <2>5 DEF PictureType
  <2>7. Listed(r)
    BY <1>1, <2>4, <2>5, <2>6 DEF RunInv, RefInv
  <2>8. Pic(r).progress >= parsing /\ Pic(r).progress \in Int
    BY <1>1, <2>6, <2>7, PicType DEF Headed, PictureType, Progress
  <2> QED BY <2>2, <2>8
<1>3. CASE PicturesGoOn /\ check' = "none"
  <2>1. ASSUME NEW s \in Pictures, Listed(s)' PROVE dpb'.pic[s].progress >= parsing
    <3>1. Listed(s) /\ Goes(Pic(s), dpb'.pic[s])
      BY <1>3, <2>1 DEF PicturesGoOn, Listed
    <3> DEFINE p == Pic(s)
               q == dpb'.pic[s]
    <3>2. p \in PictureType /\ q \in PictureType
      BY <1>1, <1>3, PicType, PicTypePrimed DEF PicturesGoOn
    <3>3. Goes(p, q) /\ p.progress >= parsing
      BY <1>1, <3>1 DEF Headed
    <3>4. q.progress >= parsing
      <4> HIDE DEF p, q
      <4>1. p.progress \in Int /\ q.progress \in Int
        BY <3>2 DEF PictureType, Progress
      <4> QED BY <3>3, <4>1 DEF Goes
    <3> QED BY <3>4
  <2> QED BY <1>3, <2>1 DEF Headed, Pic
<1>4. CASE TakesPicture(parsing) /\ check' = "none"
  <2>1. PICK d, s, p : Takes(d, s, p) /\ p.progress >= parsing
    BY <1>4 DEF TakesPicture
  <2>2. /\ s \in Pictures /\ dpb'.pic[s] = p
        /\ \A t \in Pictures : t # s => OnlyUnmarked(Pic(t), dpb'.pic[t])
        /\ \A t \in Pictures : Listed(t)' <=> Listed(t) \/ t = s
    BY <1>1, <2>1, TakesShape DEF RunInv
  <2>3. ASSUME NEW t \in Pictures, Listed(t)' PROVE dpb'.pic[t].progress >= parsing
    <3>1. CASE t = s
      BY <2>1, <2>2, <3>1
    <3>2. CASE t # s
      BY <2>2, <2>3, <3>2 DEF OnlyUnmarked, SameLife, Headed
    <3> QED BY <3>1, <3>2
  <2> QED BY <1>4, <2>3 DEF Headed, Pic
<1> QED BY <1>1, <1>2, <1>3, <1>4, StepMoves

(* ... and all the CHECKs hold with which the code guards the life of its  *)
(* Picture objects.                                                        *)
THEOREM ChecksHoldWithHeaders == Spec /\ [][~ParseBroken]_vars => []ChecksHold
<1>1. Init => Headed
  BY InitInv, DpbAssumption, DecLibAssumption DEF Init, EmptyDpb, Headed, Listed
<1>2. IInv /\ Headed /\ [Next]_vars /\ [~ParseBroken]_vars => Headed'
  <2> SUFFICES ASSUME IInv, Headed, [Next]_vars, [~ParseBroken]_vars PROVE Headed'
    OBVIOUS
  <2>1. CASE UNCHANGED vars
    BY <2>1 DEF vars, Headed, Listed, Pic
  <2>2. CASE ~UNCHANGED vars
    BY <2>2, HeadedKept, DpbAssumption, DecLibAssumption
  <2> QED BY <2>1, <2>2
<1>3. Headed => ChecksHold
  BY DEF Headed, ChecksHold
<1> QED BY <1>1, <1>2, <1>3, Inductive, PTL DEF Spec
=============================================================================
