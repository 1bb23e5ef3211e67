------------------------- MODULE PictureParse_proofs -------------------------
(***************************************************************************)
(* Proofs about PictureParse, for pictures of any size, any layout of      *)
(* slices, any number of pictures and any faults: what the parse tasks of  *)
(* a picture find in the data of their neighbours, what parseDone says of  *)
(* the picture, and that broken pictures are reported.                     *)
(***************************************************************************)
EXTENDS PictureParse, SequenceTheorems, WellFoundedInduction, TLAPS

-----------------------------------------------------------------------------
(* Lines and columns.                                                      *)
LEMMA Division ==
  ASSUME NEW n \in Nat, NEW k \in Nat, k > 0
  PROVE  /\ n \div k \in Nat /\ n % k \in Nat
         /\ n = k * (n \div k) + (n % k) /\ n % k < k
  BY SMT

LEMMA DivisionUnique ==
  ASSUME NEW q \in Nat, NEW r \in Nat, NEW k \in Nat, k > 0, r < k,
         NEW n \in Nat, n = k * q + r
  PROVE  n \div k = q /\ n % k = r
<1> DEFINE a == n \div k  b == n % k
<1>1. a \in Nat /\ b \in Nat /\ n = k * a + b /\ b < k
  BY Division
<1> HIDE DEF a, b
<1>2. a = q
  <2>1. CASE a > q
    <3>1. k * (a - q) = k * a - k * q
      BY <1>1
    <3>2. k * (a - q) >= k
      <4>1. a - q - 1 >= 0 /\ k * (a - q - 1) >= 0
        BY <1>1, <2>1
      <4>2. k * (a - q - 1) = k * (a - q) - k
        BY <1>1
      <4> QED BY <1>1, <4>1, <4>2
    <3> QED BY <1>1, <3>1, <3>2
  <2>2. CASE a < q
    <3>1. k * (q - a) = k * q - k * a
      BY <1>1
    <3>2. k * (q - a) >= k
      <4>1. q - a - 1 >= 0 /\ k * (q - a - 1) >= 0
        BY <1>1, <2>2
      <4>2. k * (q - a - 1) = k * (q - a) - k
        BY <1>1
      <4> QED BY <1>1, <4>1, <4>2
    <3> QED BY <1>1, <3>1, <3>2
  <2> QED BY <1>1, <2>1, <2>2
<1>3. b = r
  BY <1>1, <1>2
<1> QED BY <1>2, <1>3 DEF a, b

LEMMA Sizes ==
  ASSUME ParseAssumption
  PROVE  /\ WidthInCtus \in Nat /\ WidthInCtus > 0
         /\ HeightInCtus \in Nat /\ HeightInCtus > 0
         /\ NumCtus \in Nat /\ NumCtus > 0
         /\ Ctus \subseteq Nat /\ NumCtus - 1 \in Ctus
<1>1. WidthInCtus \in Nat /\ WidthInCtus > 0 /\ HeightInCtus \in Nat /\ HeightInCtus > 0
  BY DEF ParseAssumption
<1>2. NumCtus \in Nat /\ NumCtus > 0
  BY <1>1 DEF NumCtus
<1> QED BY <1>1, <1>2 DEF Ctus

(* The CTUs above and to the left of c, c among them.                      *)
Col(c) == c % WidthInCtus
Row(c) == c \div WidthInCtus
UpTo(n, c) == Col(n) <= Col(c) /\ Row(n) <= Row(c)

LEMMA Coordinates ==
  ASSUME ParseAssumption, NEW c \in Ctus
  PROVE  /\ c \in Nat /\ Col(c) \in Nat /\ Row(c) \in Nat /\ Col(c) < WidthInCtus
         /\ c = WidthInCtus * Row(c) + Col(c)
BY Sizes, Division DEF Col, Row

(* Every CTU of the rectangle but c is in that of a neighbour of c.        *)
LEMMA Rectangle ==
  ASSUME ParseAssumption, NEW c \in Ctus, NEW n \in Ctus, UpTo(n, c), n # c
  PROVE  \E m \in Neighbours(c) : UpTo(n, m)
<1> DEFINE W == WidthInCtus
<1>0. W \in Nat /\ W > 0
  BY Sizes
<1>1. /\ c \in Nat /\ Col(c) \in Nat /\ Row(c) \in Nat /\ Col(c) < W
      /\ c = W * Row(c) + Col(c)
  BY Coordinates
<1>2. /\ n \in Nat /\ Col(n) \in Nat /\ Row(n) \in Nat /\ Col(n) < W
      /\ n = W * Row(n) + Col(n)
  BY Coordinates
<1>3. CASE Col(n) < Col(c)
  <2> DEFINE m == c - 1
  <2>1. Col(c) - 1 \in Nat /\ m \in Nat /\ m = W * Row(c) + (Col(c) - 1) /\ Col(c) - 1 < W
    BY <1>1, <1>2, <1>3, <1>0
  <2>2. Row(m) = Row(c) /\ Col(m) = Col(c) - 1
    BY <1>0, <1>1, <2>1, DivisionUnique DEF Row, Col
  <2>3. m \in Neighbours(c)
    <3>1. m \in Ctus
      BY <1>1, <2>1, Sizes, SMTT(30) DEF Ctus
    <3>2. Col(c) > 0
      BY <1>1, <1>2, <1>3
    <3> QED BY <3>1, <3>2 DEF Neighbours, Col
  <2>4. UpTo(n, m)
    BY <1>1, <1>2, <1>3, <2>2 DEF UpTo
  <2> QED BY <2>3, <2>4
<1>4. CASE Col(n) = Col(c)
  <2>1. Row(n) < Row(c)
    BY <1>1, <1>2, <1>4 DEF UpTo
  <2> DEFINE m == c - W
  <2>2. Row(c) - 1 \in Nat /\ W * (Row(c) - 1) \in Nat /\ W * (Row(c) - 1) = W * Row(c) - W
    BY <1>0, <1>1, <1>2, <2>1
  <2>3. m \in Nat /\ m = W * (Row(c) - 1) + Col(c)
    BY <1>0, <1>1, <2>2
  <2>4. Row(m) = Row(c) - 1 /\ Col(m) = Col(c)
    BY <1>0, <1>1, <2>2, <2>3, DivisionUnique DEF Row, Col
  <2>5. m \in Neighbours(c)
    BY <1>0, <1>1, <2>3, Sizes, SMTT(30) DEF Neighbours, Ctus
  <2>6. UpTo(n, m)
    BY <1>1, <1>2, <1>4, <2>1, <2>4 DEF UpTo
  <2> QED BY <2>5, <2>6
<1> QED BY <1>1, <1>2, <1>3, <1>4 DEF UpTo

(* Everything is before the last CTU of the picture.                       *)
LEMMA LastCtu ==
  ASSUME ParseAssumption, NEW c \in Ctus
  PROVE  UpTo(c, NumCtus - 1)
<1> DEFINE W == WidthInCtus  H == HeightInCtus
<1>0. W \in Nat /\ W > 0 /\ H \in Nat /\ H > 0 /\ NumCtus = W * H
  BY Sizes DEF NumCtus
<1>1. /\ c \in Nat /\ Col(c) \in Nat /\ Row(c) \in Nat /\ Col(c) < W
      /\ c = W * Row(c) + Col(c)
  BY Coordinates
<1>2. W * (H - 1) = W * H - W /\ H - 1 \in Nat /\ W - 1 \in Nat
  BY <1>0
<1>3. NumCtus - 1 \in Nat /\ NumCtus - 1 = W * (H - 1) + (W - 1)
  BY <1>0, <1>2, Sizes
<1>4. Row(NumCtus - 1) = H - 1 /\ Col(NumCtus - 1) = W - 1
  BY <1>0, <1>2, <1>3, DivisionUnique DEF Row, Col
<1>5. Row(c) <= H - 1
  <2> SUFFICES ASSUME Row(c) >= H PROVE FALSE
    BY <1>0, <1>1
  <2>1. W * (Row(c) - H) = W * Row(c) - W * H /\ W * (Row(c) - H) >= 0
    BY <1>0, <1>1
  <2>2. c < W * H
    BY <1>0, <1>1 DEF Ctus
  <2> QED BY <1>0, <1>1, <2>1, <2>2
<1> QED BY <1>0, <1>1, <1>4, <1>5 DEF UpTo

-----------------------------------------------------------------------------
(* Types.                                                                  *)
Barrier == {"locked", "unlocked", "error"}

SliceT ==
  [poc : Nat, id : Nat, task : {"none", "waiting", "running", "throwing", "thrown", "gone"},
   parseDone : Barrier, ctuIdx : Nat, inCtu : BOOLEAN]

PicT == [error : BOOLEAN, exceptionThrownOut : BOOLEAN, failed : BOOLEAN,
         place : {"none", "list", "recon", "done"}]

TypeInv ==
  /\ sliceMap \in SliceMaps
  /\ nal \in [pic : Nat \ {0}, slice : 1..Len(sliceMap)]
  /\ parsePic \in 0..NumPictures
  /\ segment \in Nat
  /\ slices \in [Pics -> Seq(SliceT)]
  /\ ctuData \in [Pics -> [Ctus -> {"old", "none", "parsing", "parsed"}]]
  /\ ctuParsed \in [Pics -> [Ctus -> Barrier]]
  /\ parseDone \in [Pics -> Barrier]
  /\ pic \in [Pics -> PicT]

(* A map of slices begins with CTU 0, and only there.                      *)
LEMMA MapShape ==
  ASSUME ParseAssumption, TypeInv
  PROVE  /\ Len(sliceMap) \in Nat /\ Len(sliceMap) > 0
         /\ \A k \in 1..Len(sliceMap) :
              /\ sliceMap[k] \in Seq(Ctus) /\ Len(sliceMap[k]) \in Nat /\ Len(sliceMap[k]) > 0
              /\ sliceMap[k][1] \in Ctus
              /\ sliceMap[k][1] = 0 <=> k = 1
<1>1. sliceMap \in Seq(Seq(Ctus)) /\ Len(sliceMap) > 0
  BY DEF ParseAssumption, TypeInv
<1>2. ASSUME NEW k \in 1..Len(sliceMap)
      PROVE  /\ Len(sliceMap[k]) > 0
             /\ \A n \in 1..Len(sliceMap[k]) : sliceMap[k][n] = 0 <=> k = 1 /\ n = 1
  BY DEF ParseAssumption, TypeInv
<1>3. ASSUME NEW k \in 1..Len(sliceMap)
      PROVE  sliceMap[k] \in Seq(Ctus) /\ Len(sliceMap[k]) \in Nat /\ 1 \in 1..Len(sliceMap[k])
  BY <1>1, <1>2
<1>4. ASSUME NEW k \in 1..Len(sliceMap)
      PROVE  sliceMap[k][1] \in Ctus
  BY <1>3
<1> QED BY <1>1, <1>2, <1>3, <1>4

(* What a step does to the slices: it adds one to a picture, or it is a    *)
(* step of the parse task of one of them.                                  *)
New(t) == [NewSlice EXCEPT !.task = t]

Starts(p, t) ==
  /\ IsFirst /\ p = nal.pic
  /\ slices' = [slices EXCEPT ![p] = <<New(t)>>]

Continues(p, t) ==
  /\ ~IsFirst /\ slices[p] # <<>>
  /\ slices' = [slices EXCEPT ![p] = Append(slices[p], New(t))]

LEMMA AllocateShape ==
  ASSUME ParseAssumption, TypeInv, Allocates
  PROVE  /\ Target \in Pics
         /\ ~IsFirst => slices[Target] # <<>>
         /\ NewSlice \in SliceT /\ NewSlice.task = "none"
         /\ IsFirst => Segment = 0 /\ ~InvalidNumberOfSlices
         /\ Segment \in Nat /\ Target \in 0..NumPictures
<1>1. NumPictures \in Nat /\ nal.pic \in Nat /\ nal.pic > 0 /\ nal.slice \in Nat
  BY MapShape DEF TypeInv, ParseAssumption
<1>2. NewSlice \in SliceT /\ NewSlice.task = "none"
  BY <1>1 DEF NewSlice, SliceT, Barrier
<1>3. ParsePic \in 0..NumPictures
  BY <1>1 DEF ParsePic, TypeInv
<1>4. Segment \in Nat
  BY DEF Segment, TypeInv
<1>5. CASE IsFirst
  <2>1. Target \in Pics
    BY <1>1, <1>5 DEF Target, Pics, Allocates, Arrives
  <2>2. Segment = 0
    BY <1>5 DEF Segment
  <2>3. Len(Allocated) = 1
    BY <1>5 DEF Allocated
  <2> QED BY <1>1, <1>2, <1>5, <2>1, <2>2, <2>3 DEF InvalidNumberOfSlices, Pics
<1>6. CASE ~IsFirst
  <2>1. ParsePic # 0 /\ ~(Len(slices[ParsePic]) <= Segment - 1)
    BY <1>6 DEF Allocates, NoPreviousSlice
  <2>2. Target = ParsePic /\ Target \in Pics
    BY <1>1, <1>3, <1>6, <2>1 DEF Target, Pics
  <2>3. Segment - 1 \in Nat
    BY <1>6 DEF Segment, TypeInv
  <2>4. slices[Target] # <<>>
    <3> SUFFICES ASSUME slices[Target] = <<>> PROVE FALSE
      OBVIOUS
    <3>1. Len(slices[ParsePic]) = 0
      BY <2>2
    <3> QED BY <2>1, <2>3, <3>1
  <2> QED BY <1>2, <1>3, <1>4, <1>6, <2>2, <2>4
<1> QED BY <1>5, <1>6

LEMMA LastReplaced ==
  ASSUME NEW T, NEW seq \in Seq(T), NEW x \in T, NEW y \in T
  PROVE  [Append(seq, x) EXCEPT ![Len(seq) + 1] = y] = Append(seq, y)
<1> DEFINE n == Len(seq) + 1  g == Append(seq, x)  f == [g EXCEPT ![n] = y]
<1>1. n \in Nat /\ g \in Seq(T) /\ Len(g) = n /\ n \in 1..Len(g)
  BY AppendProperties, LenProperties
<1>2. \A j \in 1..n : g[j] = IF j = n THEN x ELSE seq[j]
  BY <1>1, AppendProperties, LenProperties
<1> HIDE DEF g, n
<1>3. f \in Seq(T) /\ Len(f) = Len(g) /\ \A j \in 1..Len(g) : f[j] = IF j = n THEN y ELSE g[j]
  BY <1>1, ExceptSeq
<1>4. Append(seq, y) \in Seq(T) /\ Len(Append(seq, y)) = n
  BY AppendProperties DEF n
<1>5. ASSUME NEW j \in 1..n PROVE f[j] = Append(seq, y)[j]
  <2>1. CASE j = n
    BY <1>1, <1>3, <2>1, AppendProperties DEF n
  <2>2. CASE j # n
    <3>1. j \in 1..Len(seq)
      BY <2>2, LenProperties DEF n
    <3> QED BY <1>1, <1>2, <1>3, <2>2, <3>1, AppendProperties
  <2> QED BY <2>1, <2>2
<1> HIDE DEF f
<1>6. f = Append(seq, y)
  BY <1>1, <1>3, <1>4, <1>5, SeqEqual
<1> QED BY <1>6 DEF f, g, n

LEMMA AddShape ==
  ASSUME ParseAssumption, TypeInv, TooManySlices \/ SliceWithoutTask \/ AddSlice
  PROVE  \E t \in {"none", "waiting"} : Starts(Target, t) \/ Continues(Target, t)
<1>1. Allocates
  BY DEF TooManySlices, SliceWithoutTask, AddSlice
<1> DEFINE p == Target
<1>2. /\ p \in Pics /\ (~IsFirst => slices[p] # <<>>)
      /\ NewSlice \in SliceT /\ NewSlice.task = "none" /\ Segment \in Nat
  BY <1>1, AllocateShape
<1>3. New("none") = NewSlice /\ New("waiting") \in SliceT
  BY <1>2 DEF New, SliceT
<1>4. IsFirst => p = nal.pic
  BY DEF Target
<1>5. CASE TooManySlices \/ SliceWithoutTask
  <2>1. slices' = [slices EXCEPT ![p] = Allocated]
    BY <1>5 DEF TooManySlices, SliceWithoutTask
  <2>2. Starts(p, "none") \/ Continues(p, "none")
    BY <1>2, <1>3, <1>4, <2>1 DEF Allocated, Starts, Continues
  <2> QED BY <2>2
<1>6. CASE AddSlice
  <2> DEFINE n == Segment + 1  a == [Allocated EXCEPT ![n].task = "waiting"]
  <2>1. slices' = [slices EXCEPT ![p] = a] /\ Len(Allocated) = n
    BY <1>6 DEF AddSlice, InvalidNumberOfSlices
  <2>2. CASE IsFirst
    <3>1. Allocated = <<NewSlice>> /\ n = 1
      BY <1>1, <1>2, <2>2, AllocateShape DEF Allocated
    <3>2. a = <<New("waiting")>>
      BY <1>2, <3>1 DEF New
    <3> QED BY <1>4, <2>1, <2>2, <3>2 DEF Starts
  <2>3. CASE ~IsFirst
    <3>1. slices[p] \in Seq(SliceT)
      BY <1>2 DEF TypeInv
    <3>2. Allocated = Append(slices[p], NewSlice)
      BY <2>3 DEF Allocated
    <3>3. n = Len(slices[p]) + 1 /\ Len(slices[p]) \in Nat
      BY <1>2, <2>1, <3>1, <3>2
    <3>4. Allocated[n] = NewSlice
      BY <1>2, <3>1, <3>2, <3>3
    <3>5. a = [Allocated EXCEPT ![n] = New("waiting")]
      BY <3>4 DEF New
    <3>6. a = Append(slices[p], New("waiting"))
      <4> HIDE DEF a, p
      <4> DEFINE seq == slices[p]  x == NewSlice  y == New("waiting")
      <4>1. seq \in Seq(SliceT) /\ x \in SliceT /\ y \in SliceT
        BY <1>2, <1>3, <3>1
      <4> HIDE DEF seq, x, y
      <4>2. [Append(seq, x) EXCEPT ![Len(seq) + 1] = y] = Append(seq, y)
        BY <4>1, LastReplaced
      <4> QED BY <3>2, <3>3, <3>5, <4>2 DEF seq, x, y
    <3> QED BY <1>2, <2>1, <2>3, <3>6 DEF Continues
  <2> QED BY <2>2, <2>3
<1> QED BY <1>5, <1>6
(* The slices after a step, in terms of what they were.                    *)
Others(p) == \A q \in Pics : q # p => slices'[q] = slices[q]

Changed(p, i, s) ==
  /\ Others(p) /\ Len(slices'[p]) = Len(slices[p]) /\ slices'[p] # <<>>
  /\ slices'[p][i] = s
  /\ \A j \in 1..Len(slices[p]) : j # i => slices'[p][j] = slices[p][j]

Added(p, s) ==
  /\ Others(p) /\ Len(slices'[p]) = Len(slices[p]) + 1 /\ slices'[p] # <<>>
  /\ slices'[p][Len(slices[p]) + 1] = s
  /\ \A j \in 1..Len(slices[p]) : slices'[p][j] = slices[p][j]

Fresh(p, s) ==
  Others(p) /\ Len(slices'[p]) = 1 /\ slices'[p] # <<>> /\ slices'[p][1] = s

LEMMA SetShape ==
  ASSUME TypeInv, NEW p \in Pics, NEW i \in 1..Len(slices[p]), NEW s \in SliceT, SetSlice(p, i, s)
  PROVE  slices' \in [Pics -> Seq(SliceT)] /\ Changed(p, i, s)
<1> DEFINE seq == slices[p]  new == [seq EXCEPT ![i] = s]
<1>1. seq \in Seq(SliceT) /\ slices \in [Pics -> Seq(SliceT)]
  BY DEF TypeInv
<1>2. slices' = [slices EXCEPT ![p] = new]
  BY DEF SetSlice
<1> HIDE DEF seq
<1>3. i \in 1..Len(seq)
  BY DEF seq
<1>4. new \in Seq(SliceT) /\ Len(new) = Len(seq) /\ \A j \in 1..Len(seq) : new[j] = IF j = i THEN s ELSE seq[j]
  BY <1>1, <1>3, ExceptSeq
<1>5. new # <<>>
  BY <1>3, <1>4
<1> HIDE DEF new
<1> QED BY <1>1, <1>2, <1>3, <1>4, <1>5 DEF Changed, Others, seq

LEMMA SlicesAdded ==
  ASSUME TypeInv, NEW p \in Pics, NEW t \in {"none", "waiting"}, Starts(p, t) \/ Continues(p, t),
         NewSlice \in SliceT
  PROVE  /\ slices' \in [Pics -> Seq(SliceT)] /\ New(t) \in SliceT
         /\ Starts(p, t) => Fresh(p, New(t))
         /\ Continues(p, t) => Added(p, New(t))
<1>1. slices[p] \in Seq(SliceT) /\ slices \in [Pics -> Seq(SliceT)]
  BY DEF TypeInv
<1>2. New(t) \in SliceT
  BY DEF New, SliceT
<1>3. CASE Starts(p, t)
  <2>1. <<New(t)>> \in Seq(SliceT) /\ Len(<<New(t)>>) = 1 /\ <<New(t)>>[1] = New(t) /\ <<New(t)>> # <<>>
    BY <1>2
  <2>2. slices' = [slices EXCEPT ![p] = <<New(t)>>]
    BY <1>3 DEF Starts
  <2>3. ~Continues(p, t)
    BY <1>3 DEF Starts, Continues
  <2> QED BY <1>1, <1>2, <1>3, <2>1, <2>2, <2>3 DEF Fresh, Others
<1>4. CASE Continues(p, t)
  <2> DEFINE seq == slices[p]  x == New(t)  new == Append(seq, x)
  <2>1. slices' = [slices EXCEPT ![p] = new]
    BY <1>4 DEF Continues
  <2>2. seq \in Seq(SliceT) /\ x \in SliceT
    BY <1>1, <1>2
  <2> HIDE DEF seq, x
  <2>3. /\ new \in Seq(SliceT) /\ Len(new) = Len(seq) + 1 /\ new # <<>> /\ new[Len(seq) + 1] = x
        /\ \A j \in 1..Len(seq) : new[j] = seq[j]
    BY <2>2, AppendProperties
  <2> HIDE DEF new
  <2>4. ~Starts(p, t)
    BY <1>4 DEF Starts, Continues
  <2> QED BY <1>1, <1>2, <2>1, <2>3, <2>4 DEF Added, Others, seq, x
<1> QED BY <1>3, <1>4

LEMMA SliceTyped ==
  ASSUME TypeInv, NEW p \in Pics, NEW i \in 1..Len(slices[p])
  PROVE  Slice(p, i) \in SliceT
BY ElementOfSeq DEF TypeInv, Slice

-----------------------------------------------------------------------------
LEMMA InitTypes == ASSUME ParseAssumption, Init PROVE TypeInv
<1>1. sliceMap \in SliceMaps /\ 1 \in 1..Len(sliceMap)
  <2>1. sliceMap \in SliceMaps
    BY DEF Init
  <2>2. sliceMap \in Seq(Seq(Ctus)) /\ Len(sliceMap) > 0
    BY <2>1 DEF ParseAssumption
  <2> QED BY <2>1, <2>2
<1>2. NewPic \in PicT
  BY DEF NewPic, PicT
<1>3. <<>> \in Seq(SliceT)
  OBVIOUS
<1>4. NumPictures \in Nat
  BY DEF ParseAssumption
<1> QED BY <1>1, <1>2, <1>3, <1>4 DEF Init, TypeInv, Barrier

LEMMA ArrivesTypes ==
  ASSUME ParseAssumption, TypeInv, Arrives
  PROVE  /\ sliceMap' = sliceMap /\ ctuData' = ctuData
         /\ nal' \in [pic : Nat \ {0}, slice : 1..Len(sliceMap)]
         /\ ParsePic \in 0..NumPictures /\ Segment \in Nat
<1>1. /\ nal.pic \in Nat \ {0} /\ nal.slice \in 1..Len(sliceMap) /\ Len(sliceMap) \in Nat /\ Len(sliceMap) > 0
      /\ nal = [pic |-> nal.pic, slice |-> nal.slice]
  BY MapShape DEF TypeInv
<1>2. CASE nal.slice < Len(sliceMap)
  <2>1. nal' = [pic |-> nal.pic, slice |-> nal.slice + 1]
    BY <1>1, <1>2 DEF Arrives
  <2>2. nal.slice + 1 \in 1..Len(sliceMap)
    BY <1>1, <1>2
  <2>3. nal' \in [pic : Nat \ {0}, slice : 1..Len(sliceMap)]
    BY <1>1, <2>1, <2>2
  <2> QED BY <2>3 DEF Arrives, ParsePic, Segment, TypeInv, ParseAssumption
<1>3. CASE ~(nal.slice < Len(sliceMap))
  <2>1. nal' = [pic |-> nal.pic + 1, slice |-> 1]
    BY <1>3 DEF Arrives
  <2>2. nal' \in [pic : Nat \ {0}, slice : 1..Len(sliceMap)]
    BY <1>1, <2>1
  <2> QED BY <2>2 DEF Arrives, ParsePic, Segment, TypeInv, ParseAssumption
<1> QED BY <1>2, <1>3

LEMMA CaughtTypes ==
  ASSUME ParseAssumption, TypeInv, NEW q \in 0..NumPictures, CaughtIn(q)
  PROVE  pic' \in [Pics -> PicT] /\ parseDone' \in [Pics -> Barrier]
<1>1. CASE q = 0
  BY <1>1 DEF CaughtIn, TypeInv
<1>2. CASE q # 0
  <2>0. q \in Pics
    BY <1>2 DEF Pics, ParseAssumption
  <2>1. q \in Pics /\ pic[q] \in PicT
    BY <2>0 DEF TypeInv
  <2>2. [pic[q] EXCEPT !.error = TRUE, !.exceptionThrownOut = TRUE] \in PicT
    BY <2>1 DEF PicT
  <2>3. pic' = [pic EXCEPT ![q] = [pic[q] EXCEPT !.error = TRUE, !.exceptionThrownOut = TRUE]]
    BY <1>2 DEF CaughtIn
  <2>4. parseDone' \in [Pics -> Barrier]
    BY <2>1 DEF CaughtIn, TypeInv, Barrier
  <2> QED BY <2>2, <2>3, <2>4 DEF TypeInv
<1> QED BY <1>1, <1>2

LEMMA AddTypes ==
  ASSUME ParseAssumption, TypeInv, TooManySlices \/ SliceWithoutTask \/ AddSlice
  PROVE  TypeInv'
<1>1. Allocates /\ Arrives
  BY DEF TooManySlices, SliceWithoutTask, AddSlice, Allocates
<1>2. /\ Target \in Pics /\ Target \in 0..NumPictures /\ NewSlice \in SliceT
      /\ (IsFirst => ~InvalidNumberOfSlices)
  BY <1>1, AllocateShape
<1>3. slices' \in [Pics -> Seq(SliceT)]
  BY <1>2, AddShape, SlicesAdded
<1>4. parsePic' \in 0..NumPictures /\ segment' \in Nat
  BY <1>1, <1>2, ArrivesTypes DEF Allocates
<1>5. NewPic \in PicT /\ NewPic.place = "none"
  BY DEF NewPic, PicT
<1>5a. ctuParsed' \in [Pics -> [Ctus -> Barrier]]
  <2>1. Locked(Target) \in [Ctus -> Barrier]
    BY DEF Locked, Barrier
  <2>2. ctuParsed' = ctuParsed \/ ctuParsed' = [ctuParsed EXCEPT ![Target] = Locked(Target)]
    BY DEF TooManySlices, SliceWithoutTask, AddSlice, CaughtIn
  <2> QED BY <2>1, <2>2, ZenonT(30) DEF TypeInv
<1>6. pic' \in [Pics -> PicT] /\ parseDone' \in [Pics -> Barrier]
  <2>1. CASE TooManySlices
    BY <2>1 DEF TooManySlices, TypeInv
  <2>2. CASE SliceWithoutTask /\ IsFirst
    <3>1. [NewPic EXCEPT !.error = TRUE, !.exceptionThrownOut = TRUE] \in PicT
      BY DEF NewPic, PicT
    <3>2. /\ pic' = [pic EXCEPT ![Target] = [NewPic EXCEPT !.error = TRUE, !.exceptionThrownOut = TRUE]]
          /\ parseDone' = [parseDone EXCEPT ![Target] = "locked"]
      BY <2>2 DEF SliceWithoutTask
    <3> QED BY <3>1, <3>2 DEF TypeInv, Barrier
  <2>3. CASE SliceWithoutTask /\ ~IsFirst
    BY <1>2, <2>3, CaughtTypes DEF SliceWithoutTask
  <2>4. CASE AddSlice /\ IsFirst
    <3>1. [NewPic EXCEPT !.place = "list"] \in PicT
      BY DEF NewPic, PicT
    <3>2. /\ pic' = [pic EXCEPT ![Target] = [NewPic EXCEPT !.place = "list"]]
          /\ parseDone' = [parseDone EXCEPT ![Target] = "locked"]
      BY <2>4 DEF AddSlice
    <3> QED BY <3>1, <3>2 DEF TypeInv, Barrier
  <2>5. CASE AddSlice /\ ~IsFirst
    BY <2>5 DEF AddSlice, TypeInv
  <2> QED BY <2>1, <2>2, <2>3, <2>4, <2>5
<1> QED BY <1>1, <1>3, <1>4, <1>5a, <1>6, ArrivesTypes DEF TypeInv

LEMMA AddressTyped ==
  ASSUME ParseAssumption, TypeInv, NEW p \in Pics, NEW i \in 1..Len(slices[p]),
         Slice(p, i).id \in 1..Len(sliceMap), Slice(p, i).ctuIdx < Len(sliceMap[Slice(p, i).id])
  PROVE  Address(p, i) \in Ctus
<1>1. sliceMap[Slice(p, i).id] \in Seq(Ctus) /\ Len(sliceMap[Slice(p, i).id]) \in Nat
  BY MapShape
<1>2. Slice(p, i).ctuIdx \in Nat
  BY SliceTyped DEF SliceT
<1>3. Slice(p, i).ctuIdx + 1 \in 1..Len(sliceMap[Slice(p, i).id])
  BY <1>1, <1>2
<1> QED BY <1>1, <1>3, ElementOfSeq DEF Address
(* What a step of a parse task does to its slice.                          *)
TaskChange(p, i, s, t) ==
  /\ Changed(p, i, t) /\ t \in SliceT /\ t.id = s.id /\ t.poc = s.poc
  /\ \/ TaskStarts(p, i) /\ s.task = "waiting" /\ t = [s EXCEPT !.task = "running"]
     \/ TaskPoisoned(p, i) /\ s.task = "waiting" /\ t = [s EXCEPT !.task = "gone", !.parseDone = "error"]
     \/ BeginCtu(p, i) /\ s.task = "running" /\ t = [s EXCEPT !.inCtu = TRUE]
     \/ EndCtu(p, i) /\ s.task = "running" /\ s.inCtu /\ t = [s EXCEPT !.inCtu = FALSE, !.ctuIdx = s.ctuIdx + 1]
     \/ TaskEnds(p, i) /\ s.task = "running" /\ ~s.inCtu /\ t = [s EXCEPT !.task = "gone", !.parseDone = "unlocked"]
     \/ TaskThrows(p, i) /\ s.task = "running" /\ t = [s EXCEPT !.task = "throwing"]
     \/ ExceptionSet(p, i) /\ s.task = "throwing" /\ t = [s EXCEPT !.task = "thrown"]
     \/ TaskFails(p, i) /\ s.task = "thrown" /\ t = [s EXCEPT !.task = "gone", !.parseDone = "error"]

LEMMA TaskShape ==
  ASSUME TypeInv, NEW p \in Pics, NEW i \in 1..Len(slices[p]), Task(p, i)
  PROVE  /\ slices' \in [Pics -> Seq(SliceT)]
         /\ TaskChange(p, i, Slice(p, i), Slice(p, i)')
         /\ TaskOnly
<1> DEFINE s == Slice(p, i)
<1>1. s \in SliceT
  BY SliceTyped
<1>2. ASSUME NEW t \in SliceT, SetSlice(p, i, t)
      PROVE  slices' \in [Pics -> Seq(SliceT)] /\ Changed(p, i, t) /\ Slice(p, i)' = t
  BY <1>2, SetShape DEF Changed, Slice
<1>3. CASE TaskStarts(p, i)
  <2> DEFINE t == [s EXCEPT !.task = "running"]
  <2>1. t \in SliceT /\ t.id = s.id /\ t.poc = s.poc
    BY <1>1 DEF SliceT
  <2>2. SetSlice(p, i, t) /\ s.task = "waiting" /\ TaskOnly
    BY <1>3 DEF TaskStarts
  <2> HIDE DEF s
  <2>3. slices' \in [Pics -> Seq(SliceT)] /\ Changed(p, i, t) /\ Slice(p, i)' = t
    BY <1>2, <2>1, <2>2
  <2> QED BY <1>3, <2>1, <2>2, <2>3 DEF TaskChange, s
<1>4. CASE TaskPoisoned(p, i)
  <2> DEFINE t == [s EXCEPT !.task = "gone", !.parseDone = "error"]
  <2>1. t \in SliceT /\ t.id = s.id /\ t.poc = s.poc
    BY <1>1 DEF SliceT, Barrier
  <2>2. SetSlice(p, i, t) /\ s.task = "waiting" /\ TaskOnly
    BY <1>4 DEF TaskPoisoned, Gone
  <2> HIDE DEF s
  <2>3. slices' \in [Pics -> Seq(SliceT)] /\ Changed(p, i, t) /\ Slice(p, i)' = t
    BY <1>2, <2>1, <2>2
  <2> QED BY <1>4, <2>1, <2>2, <2>3 DEF TaskChange, s
<1>5. CASE BeginCtu(p, i)
  <2> DEFINE t == [s EXCEPT !.inCtu = TRUE]
  <2>1. t \in SliceT /\ t.id = s.id /\ t.poc = s.poc
    BY <1>1 DEF SliceT
  <2>2. SetSlice(p, i, t) /\ s.task = "running" /\ TaskOnly
    BY <1>5 DEF BeginCtu, AtCtu
  <2> HIDE DEF s
  <2>3. slices' \in [Pics -> Seq(SliceT)] /\ Changed(p, i, t) /\ Slice(p, i)' = t
    BY <1>2, <2>1, <2>2
  <2> QED BY <1>5, <2>1, <2>2, <2>3 DEF TaskChange, s
<1>6. CASE EndCtu(p, i)
  <2> DEFINE n == s.ctuIdx + 1  t == [s EXCEPT !.inCtu = FALSE, !.ctuIdx = n]
  <2>0. SetSlice(p, i, t) /\ s.task = "running" /\ s.inCtu /\ TaskOnly
    BY <1>6 DEF EndCtu
  <2> HIDE DEF s
  <2>1. n \in Nat
    BY <1>1 DEF SliceT
  <2> HIDE DEF n
  <2>2. t \in SliceT /\ t.id = s.id /\ t.poc = s.poc
    BY <1>1, <2>1 DEF SliceT
  <2>3. slices' \in [Pics -> Seq(SliceT)] /\ Changed(p, i, t) /\ Slice(p, i)' = t
    BY <1>2, <2>0, <2>2
  <2> QED BY <1>6, <2>0, <2>2, <2>3 DEF TaskChange, s, n
<1>7. CASE TaskEnds(p, i)
  <2> DEFINE t == [s EXCEPT !.task = "gone", !.parseDone = "unlocked"]
  <2>1. t \in SliceT /\ t.id = s.id /\ t.poc = s.poc
    BY <1>1 DEF SliceT, Barrier
  <2>2. SetSlice(p, i, t) /\ s.task = "running" /\ ~s.inCtu /\ TaskOnly
    BY <1>7 DEF TaskEnds
  <2> HIDE DEF s
  <2>3. slices' \in [Pics -> Seq(SliceT)] /\ Changed(p, i, t) /\ Slice(p, i)' = t
    BY <1>2, <2>1, <2>2
  <2> QED BY <1>7, <2>1, <2>2, <2>3 DEF TaskChange, s
<1>8. CASE TaskThrows(p, i)
  <2> DEFINE t == [s EXCEPT !.task = "throwing"]
  <2>1. t \in SliceT /\ t.id = s.id /\ t.poc = s.poc
    BY <1>1 DEF SliceT
  <2>2. SetSlice(p, i, t) /\ s.task = "running" /\ TaskOnly
    BY <1>8 DEF TaskThrows, AtCtu
  <2> HIDE DEF s
  <2>3. slices' \in [Pics -> Seq(SliceT)] /\ Changed(p, i, t) /\ Slice(p, i)' = t
    BY <1>2, <2>1, <2>2
  <2> QED BY <1>8, <2>1, <2>2, <2>3 DEF TaskChange, s
<1>9. CASE ExceptionSet(p, i)
  <2> DEFINE t == [s EXCEPT !.task = "thrown"]
  <2>1. t \in SliceT /\ t.id = s.id /\ t.poc = s.poc
    BY <1>1 DEF SliceT
  <2>2. SetSlice(p, i, t) /\ s.task = "throwing" /\ TaskOnly
    BY <1>9 DEF ExceptionSet
  <2> HIDE DEF s
  <2>3. slices' \in [Pics -> Seq(SliceT)] /\ Changed(p, i, t) /\ Slice(p, i)' = t
    BY <1>2, <2>1, <2>2
  <2> QED BY <1>9, <2>1, <2>2, <2>3 DEF TaskChange, s
<1>10. CASE TaskFails(p, i)
  <2> DEFINE t == [s EXCEPT !.task = "gone", !.parseDone = "error"]
  <2>1. t \in SliceT /\ t.id = s.id /\ t.poc = s.poc
    BY <1>1 DEF SliceT, Barrier
  <2>2. SetSlice(p, i, t) /\ s.task = "thrown" /\ TaskOnly
    BY <1>10 DEF TaskFails, Gone
  <2> HIDE DEF s
  <2>3. slices' \in [Pics -> Seq(SliceT)] /\ Changed(p, i, t) /\ Slice(p, i)' = t
    BY <1>2, <2>1, <2>2
  <2> QED BY <1>10, <2>1, <2>2, <2>3 DEF TaskChange, s
<1> QED BY <1>3, <1>4, <1>5, <1>6, <1>7, <1>8, <1>9, <1>10 DEF Task

LEMMA TaskTypes ==
  ASSUME TypeInv, NEW p \in Pics, NEW i \in 1..Len(slices[p]), Task(p, i)
  PROVE  TypeInv'
<1>1. slices' \in [Pics -> Seq(SliceT)] /\ TaskOnly
  BY TaskShape
<1>2. ctuData' \in [Pics -> [Ctus -> {"old", "none", "parsing", "parsed"}]]
  <2>1. ctuData \in [Pics -> [Ctus -> {"old", "none", "parsing", "parsed"}]]
    BY DEF TypeInv
  <2>2. CASE TaskStarts(p, i)
    BY <2>1, <2>2 DEF TaskStarts
  <2>3. CASE BeginCtu(p, i)
    BY <2>1, <2>3 DEF BeginCtu
  <2>4. CASE EndCtu(p, i)
    BY <2>1, <2>4 DEF EndCtu
  <2>5. CASE ctuData' = ctuData
    BY <2>1, <2>5
  <2> QED BY <2>2, <2>3, <2>4, <2>5 DEF Task, TaskPoisoned, TaskEnds, TaskThrows, ExceptionSet, TaskFails, Gone
<1>3. parseDone' \in [Pics -> Barrier]
  BY DEF TypeInv, Task, TaskStarts, TaskPoisoned, BeginCtu, EndCtu, TaskEnds, TaskThrows, ExceptionSet,
         TaskFails, Gone, Barrier
<1>4. pic' \in [Pics -> PicT]
  <2>1. pic[p] \in PicT
    BY DEF TypeInv
  <2>2. [pic[p] EXCEPT !.failed = TRUE] \in PicT /\ [pic[p] EXCEPT !.error = TRUE] \in PicT
    BY <2>1 DEF PicT
  <2>3. \/ pic' = pic \/ pic' = [pic EXCEPT ![p] = [pic[p] EXCEPT !.failed = TRUE]]
        \/ pic' = [pic EXCEPT ![p] = [pic[p] EXCEPT !.error = TRUE]]
    BY DEF Task, TaskStarts, TaskPoisoned, BeginCtu, EndCtu, TaskEnds, TaskThrows, ExceptionSet, TaskFails, Gone
  <2> QED BY <2>2, <2>3 DEF TypeInv
<1>5. ctuParsed' \in [Pics -> [Ctus -> Barrier]]
  <2>1. CASE ctuParsed' = ctuParsed
    BY <2>1 DEF TypeInv
  <2>2. CASE EndCtu(p, i)
    BY <2>2 DEF EndCtu, TypeInv, Barrier
  <2>3. CASE ExceptionSet(p, i)
    BY <2>3 DEF ExceptionSet, TypeInv, Barrier
  <2> QED BY <2>1, <2>2, <2>3 DEF Task, TaskStarts, TaskPoisoned, BeginCtu, TaskEnds, TaskThrows, TaskFails, Gone
<1> QED BY <1>1, <1>2, <1>3, <1>4, <1>5 DEF TypeInv, TaskOnly, parserVars

LEMMA MainTypes ==
  ASSUME TypeInv, DecLib
  PROVE  TypeInv'
<1>1. CASE Flush \/ ChooseNone
  BY <1>1 DEF Flush, ChooseNone, TypeInv, parserVars, taskVars
<1>2. CASE Choose
  <2>1. pic' \in [Pics -> PicT]
    <3> DEFINE p == parseFrameList[NextDecodable]
    <3>1. \/ pic' = pic \/ pic' = [pic EXCEPT ![p] = [pic[p] EXCEPT !.place = "recon"]]
      BY <1>2 DEF Choose
    <3>2. ASSUME p \in Pics PROVE [pic[p] EXCEPT !.place = "recon"] \in PicT
      BY <3>2, ZenonT(30) DEF TypeInv, PicT
    <3> HIDE DEF p
    <3> QED BY <3>1, <3>2 DEF TypeInv
  <2> QED BY <1>2, <2>1 DEF Choose, TypeInv, parserVars, taskVars
<1>3. CASE Sanitize
  <2> DEFINE p == main.pic  late == ~main.exc /\ parseDone[p] = "error"
             x == [pic[p] EXCEPT !.error = TRUE, !.place = "done",
                                 !.exceptionThrownOut = pic[p].exceptionThrownOut \/ main.exc \/ late]
  <2>1. pic' = [pic EXCEPT ![p] = x]
    BY <1>3 DEF Sanitize
  <2>2. ASSUME p \in Pics PROVE x \in PicT
    <3>1. (pic[p].exceptionThrownOut \/ main.exc \/ late) \in BOOLEAN
      OBVIOUS
    <3> QED BY <2>2, <3>1, ZenonT(30) DEF TypeInv, PicT
  <2>3. parseDone' \in [Pics -> Barrier]
    BY <1>3 DEF Sanitize, TypeInv, Barrier
  <2> HIDE DEF p, x
  <2>4. pic' \in [Pics -> PicT]
    BY <2>1, <2>2 DEF TypeInv
  <2> QED BY <1>3, <2>3, <2>4 DEF Sanitize, TypeInv, parserVars
<1> QED BY <1>1, <1>2, <1>3 DEF DecLib

LEMMA TypesStep ==
  ASSUME ParseAssumption, TypeInv, [Next]_vars
  PROVE  TypeInv'
<1>1. CASE UNCHANGED vars
  BY <1>1 DEF vars, parserVars, taskVars, TypeInv
<1>2. CASE SliceLost
  BY <1>2, ArrivesTypes DEF SliceLost, TypeInv
<1>3. CASE HeaderUnreadable \/ HeaderRejected \/ HeaderFails
  <2>1. Arrives /\ CaughtIn(ParsePic) /\ parsePic' = ParsePic /\ segment' \in {segment, Segment} /\ slices' = slices
    BY <1>3 DEF HeaderUnreadable, HeaderRejected, HeaderFails
  <2>2. ParsePic \in 0..NumPictures /\ Segment \in Nat
    BY <2>1, ArrivesTypes
  <2>3. ctuParsed' = ctuParsed
    BY <2>1 DEF CaughtIn
  <2> QED BY <2>1, <2>2, <2>3, ArrivesTypes, CaughtTypes DEF TypeInv
<1>4. CASE TooManySlices \/ SliceWithoutTask \/ AddSlice
  BY <1>4, AddTypes
<1>5. CASE DecLib
  BY <1>5, MainTypes
<1>6. CASE \E p \in Pics : \E i \in 1..Len(slices[p]) : Task(p, i)
  BY <1>6, TaskTypes
<1> QED BY <1>1, <1>2, <1>3, <1>4, <1>5, <1>6 DEF Next
-----------------------------------------------------------------------------
(* The slices of a picture: what the state of its task says of a slice,    *)
(* and that they are parsed one after the other.                           *)
Indices(p) == 1..Len(slices[p])

SliceInv(p) ==
  \A i \in Indices(p) :
    /\ Slice(p, i).id = 1 <=> i = 1
    /\ Slice(p, i).id \in 1..Len(sliceMap)
    /\ Slice(p, i).task # "gone" => Slice(p, i).parseDone = "locked"
    /\ Slice(p, i).task = "gone" => Slice(p, i).parseDone # "locked"
    /\ Slice(p, i).task \in {"none", "waiting"} => ~Slice(p, i).inCtu
    /\ Slice(p, i).parseDone = "unlocked" => ~Slice(p, i).inCtu
    /\ Slice(p, i).inCtu => Slice(p, i).ctuIdx < Len(sliceMap[Slice(p, i).id])

Begun(s) == s.task \in {"running", "throwing", "thrown"} \/ s.inCtu \/ s.parseDone = "unlocked"

OrderInv(p) ==
  \A i \in Indices(p) : \A j \in Indices(p) : j < i =>
    /\ Begun(Slice(p, i)) => Slice(p, j).parseDone = "unlocked"
    /\ Slice(p, i).parseDone = "error" => Slice(p, j).parseDone # "locked"

SlicesInv == \A p \in Pics : SliceInv(p) /\ OrderInv(p)

LEMMA SameSlices ==
  ASSUME NEW p \in Pics, SliceInv(p), OrderInv(p), slices'[p] = slices[p], sliceMap' = sliceMap
  PROVE  SliceInv(p)' /\ OrderInv(p)'
BY DEF SliceInv, OrderInv, Indices, Slice

LEMMA IndicesNat ==
  ASSUME TypeInv, NEW p \in Pics
  PROVE  Len(slices[p]) \in Nat /\ Indices(p) \subseteq Nat
BY DEF TypeInv, Indices

LEMMA FreshSlices ==
  ASSUME ParseAssumption, TypeInv, NEW p \in Pics, NEW t \in {"none", "waiting"},
         IsFirst, Fresh(p, New(t)), sliceMap' = sliceMap
  PROVE  SliceInv(p)' /\ OrderInv(p)'
<1>1. Indices(p)' = {1} /\ Slice(p, 1)' = New(t)
  BY DEF Fresh, Indices, Slice
<1>2. New(t).id = 1 /\ New(t).task = t /\ New(t).parseDone = "locked" /\ ~New(t).inCtu
  BY DEF New, NewSlice, IsFirst
<1>3. 1 \in 1..Len(sliceMap)
  BY MapShape
<1> QED BY <1>1, <1>2, <1>3 DEF SliceInv, OrderInv

LEMMA AddedSlices ==
  ASSUME ParseAssumption, TypeInv, NEW p \in Pics, NEW t \in {"none", "waiting"},
         SliceInv(p), OrderInv(p), ~IsFirst, slices[p] # <<>>, Added(p, New(t)), sliceMap' = sliceMap
  PROVE  SliceInv(p)' /\ OrderInv(p)'
<1> DEFINE n == Len(slices[p]) + 1
<1>1. Len(slices[p]) \in Nat /\ n \in Nat /\ n > 1
  BY EmptySeq DEF TypeInv
<1>2. /\ Indices(p)' = Indices(p) \cup {n} /\ slices'[p][n] = New(t)
      /\ \A j \in Indices(p) : j \in Nat /\ j < n /\ Slice(p, j)' = Slice(p, j)
  BY <1>1 DEF Added, Indices, Slice
<1>3. New(t).id = nal.slice /\ New(t).task = t /\ New(t).parseDone = "locked" /\ ~New(t).inCtu
  BY DEF New, NewSlice
<1>4. nal.slice \in 1..Len(sliceMap) /\ nal.slice # 1
  BY DEF TypeInv, IsFirst
<1> HIDE DEF n
<1>5. SliceInv(p)'
  <2> SUFFICES ASSUME NEW i \in Indices(p)'
               PROVE  /\ (Slice(p, i).id)' = 1 <=> i = 1
                      /\ (Slice(p, i).id)' \in 1..Len(sliceMap)
                      /\ (Slice(p, i).task)' # "gone" => (Slice(p, i).parseDone)' = "locked"
                      /\ (Slice(p, i).task)' = "gone" => (Slice(p, i).parseDone)' # "locked"
                      /\ (Slice(p, i).task)' \in {"none", "waiting"} => ~(Slice(p, i).inCtu)'
                      /\ (Slice(p, i).parseDone)' = "unlocked" => ~(Slice(p, i).inCtu)'
                      /\ (Slice(p, i).inCtu)' => (Slice(p, i).ctuIdx)' < Len(sliceMap[(Slice(p, i).id)'])
    BY DEF SliceInv
  <2>1. CASE i = n
    <3>1. Slice(p, i)' = New(t)
      BY <1>2, <2>1 DEF Slice
    <3> QED BY <1>1, <1>3, <1>4, <2>1, <3>1
  <2>2. CASE i \in Indices(p)
    BY <1>2, <2>2 DEF SliceInv
  <2> QED BY <1>2, <2>1, <2>2
<1>6. OrderInv(p)'
  <2> SUFFICES ASSUME NEW i \in Indices(p)', NEW j \in Indices(p)', j < i
               PROVE  /\ Begun(Slice(p, i)') => (Slice(p, j).parseDone)' = "unlocked"
                      /\ (Slice(p, i).parseDone)' = "error" => (Slice(p, j).parseDone)' # "locked"
    BY DEF OrderInv, Begun
  <2>1. CASE i = n
    <3>1. Slice(p, i)' = New(t)
      BY <1>2, <2>1 DEF Slice
    <3> QED BY <1>3, <3>1 DEF Begun
  <2>2. CASE i \in Indices(p)
    <3>1. j \in Indices(p)
      BY <1>1, <1>2, <2>2
    <3> QED BY <1>2, <2>2, <3>1 DEF OrderInv
  <2> QED BY <1>2, <2>1, <2>2
<1> QED BY <1>5, <1>6

LEMMA TaskSlices ==
  ASSUME ParseAssumption, TypeInv, NEW p \in Pics, NEW i \in Indices(p),
         SliceInv(p), OrderInv(p), Task(p, i)
  PROVE  SliceInv(p)' /\ OrderInv(p)'
<1> DEFINE s == Slice(p, i)  t == Slice(p, i)'
<1>1. TaskChange(p, i, s, t) /\ TaskOnly /\ s \in SliceT
  BY TaskShape, SliceTyped DEF Indices
<1>2. sliceMap' = sliceMap
  BY <1>1 DEF TaskOnly, parserVars
<1>3. Indices(p)' = Indices(p) /\ \A j \in Indices(p) : j # i => Slice(p, j)' = Slice(p, j)
  BY <1>1 DEF TaskChange, Changed, Indices, Slice
<1>4. i \in Nat /\ Indices(p) \subseteq Nat
  BY IndicesNat
<1>5. /\ s.id = 1 <=> i = 1
      /\ s.id \in 1..Len(sliceMap)
      /\ s.task # "gone" => s.parseDone = "locked"
      /\ s.task \in {"none", "waiting"} => ~s.inCtu
      /\ s.inCtu => s.ctuIdx < Len(sliceMap[s.id])
  BY DEF SliceInv
<1> HIDE DEF s, t
<1>6. /\ t.id = s.id
      /\ t.task # "gone" => t.parseDone = "locked"
      /\ t.task = "gone" => t.parseDone # "locked"
      /\ t.task \in {"none", "waiting"} => ~t.inCtu
      /\ t.parseDone = "unlocked" => ~t.inCtu
      /\ t.inCtu => t.ctuIdx < Len(sliceMap[t.id])
  <2>1. CASE BeginCtu(p, i) /\ t = [s EXCEPT !.inCtu = TRUE]
    <3>1. s.task = "running" /\ s.ctuIdx < Len(sliceMap[s.id])
      BY <2>1 DEF BeginCtu, AtCtu, s
    <3>2. t.id = s.id /\ t.task = "running" /\ t.parseDone = s.parseDone /\ t.ctuIdx = s.ctuIdx
      BY <1>1, <2>1, <3>1 DEF SliceT
    <3> QED BY <1>5, <3>1, <3>2
  <2>2. CASE s.task = "running" /\ s.inCtu /\ t = [s EXCEPT !.inCtu = FALSE, !.ctuIdx = s.ctuIdx + 1]
    <3>1. t.id = s.id /\ t.task = "running" /\ t.parseDone = s.parseDone /\ t.inCtu = FALSE
      BY <1>1, <2>2 DEF SliceT
    <3> QED BY <1>5, <2>2, <3>1
  <2>3. CASE s.task = "running" /\ ~s.inCtu /\ t = [s EXCEPT !.task = "gone", !.parseDone = "unlocked"]
    <3>1. t.id = s.id /\ t.task = "gone" /\ t.parseDone = "unlocked" /\ t.inCtu = s.inCtu
      BY <1>1, <2>3 DEF SliceT
    <3> QED BY <1>5, <2>3, <3>1
  <2>4. CASE t = [s EXCEPT !.task = "gone", !.parseDone = "error"]
    <3>1. t.id = s.id /\ t.task = "gone" /\ t.parseDone = "error" /\ t.inCtu = s.inCtu /\ t.ctuIdx = s.ctuIdx
      BY <1>1, <2>4 DEF SliceT
    <3> QED BY <1>5, <3>1
  <2>5. CASE \E next \in {"running", "throwing", "thrown"} : t = [s EXCEPT !.task = next] /\ s.task # "gone"
    <3>1. /\ t.id = s.id /\ t.task \in {"running", "throwing", "thrown"} /\ t.parseDone = s.parseDone
          /\ t.inCtu = s.inCtu /\ t.ctuIdx = s.ctuIdx
      BY <1>1, <2>5 DEF SliceT
    <3> QED BY <1>5, <2>5, <3>1
  <2> QED BY <1>1, <2>1, <2>2, <2>3, <2>4, <2>5 DEF TaskChange
<1>7. SliceInv(p)'
  <2>1. t = Slice(p, i)'
    BY DEF t
  <2> QED BY <1>2, <1>3, <1>5, <1>6, <2>1 DEF SliceInv
<1>8. /\ Begun(t) /\ ~Begun(s) => \A j \in Indices(p) : j < i => Slice(p, j).parseDone = "unlocked"
      /\ t.parseDone = "error" /\ s.parseDone # "error" =>
           \A j \in Indices(p) : j < i => Slice(p, j).parseDone # "locked"
      /\ s.parseDone = "unlocked" => t.parseDone = "unlocked"
      /\ s.parseDone # "locked" => t.parseDone # "locked"
  <2>1. CASE s.task = "waiting" /\ TaskStarts(p, i) /\ t = [s EXCEPT !.task = "running"]
    <3>1. t.parseDone = s.parseDone
      BY <1>1, <2>1 DEF SliceT
    <3>2. ASSUME NEW j \in Indices(p), j < i PROVE Slice(p, j).parseDone = "unlocked"
      <4>1. i # 1 /\ i - 1 \in Indices(p)
        BY <1>4, <3>2 DEF Indices
      <4>2. Slice(p, i - 1).parseDone = "unlocked"
        BY <2>1, <4>1 DEF TaskStarts, Before
      <4>3. j < i - 1 \/ j = i - 1
        BY <1>4, <3>2
      <4> QED BY <4>1, <4>2, <4>3 DEF OrderInv, Begun
    <3> QED BY <3>1, <3>2
  <2>2. CASE s.task = "waiting" /\ TaskPoisoned(p, i) /\ t = [s EXCEPT !.task = "gone", !.parseDone = "error"]
    <3>1. t.parseDone = "error" /\ t.task = "gone" /\ t.inCtu = s.inCtu
      BY <1>1, <2>2 DEF SliceT
    <3>2. ASSUME NEW j \in Indices(p), j < i PROVE Slice(p, j).parseDone # "locked"
      <4>1. i # 1 /\ i - 1 \in Indices(p)
        BY <1>4, <3>2 DEF Indices
      <4>2. Slice(p, i - 1).parseDone = "error"
        BY <2>2, <4>1 DEF TaskPoisoned, Before
      <4>3. j < i - 1 \/ j = i - 1
        BY <1>4, <3>2
      <4> QED BY <4>1, <4>2, <4>3 DEF OrderInv
    <3> QED BY <1>5, <2>2, <3>1, <3>2 DEF Begun
  <2>3. CASE s.task = "thrown" /\ t = [s EXCEPT !.task = "gone", !.parseDone = "error"]
    <3>1. t.parseDone = "error" /\ t.task = "gone" /\ t.inCtu = s.inCtu
      BY <1>1, <2>3 DEF SliceT
    <3>2. ASSUME NEW j \in Indices(p), j < i PROVE Slice(p, j).parseDone = "unlocked"
      BY <2>3, <3>2 DEF OrderInv, Begun, s
    <3> QED BY <1>5, <2>3, <3>1, <3>2 DEF Begun
  <2>4. CASE s.task = "running" /\ t = [s EXCEPT !.inCtu = TRUE]
    BY <1>1, <1>5, <2>4 DEF Begun, SliceT
  <2>5. CASE s.task = "running" /\ t = [s EXCEPT !.inCtu = FALSE, !.ctuIdx = s.ctuIdx + 1]
    BY <1>1, <1>5, <2>5 DEF Begun, SliceT
  <2>6. CASE s.task = "running" /\ t = [s EXCEPT !.task = "gone", !.parseDone = "unlocked"]
    BY <1>1, <1>5, <2>6 DEF Begun, SliceT
  <2>7. CASE s.task \in {"running", "throwing"} /\ \E next \in {"throwing", "thrown"} : t = [s EXCEPT !.task = next]
    BY <1>1, <1>5, <2>7 DEF Begun, SliceT
  <2> QED BY <1>1, <2>1, <2>2, <2>3, <2>4, <2>5, <2>6, <2>7 DEF TaskChange
<1>9. OrderInv(p)'
  <2> SUFFICES ASSUME NEW k \in Indices(p), NEW j \in Indices(p), j < k
               PROVE  /\ Begun(Slice(p, k)') => (Slice(p, j)').parseDone = "unlocked"
                      /\ (Slice(p, k)').parseDone = "error" => (Slice(p, j)').parseDone # "locked"
    BY <1>3 DEF OrderInv, Begun
  <2>1. CASE k = i
    <3>1. Slice(p, j)' = Slice(p, j)
      BY <1>3, <1>4, <2>1
    <3> QED BY <1>8, <2>1, <3>1 DEF OrderInv, s, t
  <2>2. CASE j = i
    <3>1. Slice(p, k)' = Slice(p, k)
      BY <1>3, <1>4, <2>2
    <3> QED BY <1>8, <2>2, <3>1 DEF OrderInv, s, t
  <2>3. CASE k # i /\ j # i
    BY <1>3, <2>3 DEF OrderInv
  <2> QED BY <2>1, <2>2, <2>3
<1> QED BY <1>7, <1>9
LEMMA StepShape ==
  ASSUME ParseAssumption, TypeInv, [Next]_vars
  PROVE  /\ sliceMap' = sliceMap
         /\ \/ slices' = slices /\ ctuData' = ctuData
            \/ TooManySlices \/ SliceWithoutTask \/ AddSlice
            \/ \E p \in Pics : \E i \in Indices(p) : Task(p, i)
<1>1. CASE \E p \in Pics : \E i \in 1..Len(slices[p]) : Task(p, i)
  BY <1>1, TaskShape DEF Indices, TaskOnly, parserVars
<1>2. CASE TooManySlices \/ SliceWithoutTask \/ AddSlice
  BY <1>2, ArrivesTypes DEF TooManySlices, SliceWithoutTask, AddSlice, Allocates
<1>3. CASE UNCHANGED vars \/ DecLib
  BY <1>3 DEF vars, DecLib, Flush, ChooseNone, Choose, Sanitize, parserVars, taskVars
<1>4. CASE SliceLost \/ HeaderUnreadable \/ HeaderRejected \/ HeaderFails
  BY <1>4, ArrivesTypes DEF SliceLost, HeaderUnreadable, HeaderRejected, HeaderFails
<1> QED BY <1>1, <1>2, <1>3, <1>4 DEF Next

(* A slice that is added is the first of its picture or comes after the    *)
(* others.                                                                 *)
LEMMA AddedWhere ==
  ASSUME ParseAssumption, TypeInv, TooManySlices \/ SliceWithoutTask \/ AddSlice
  PROVE  /\ Target \in Pics /\ ctuData' = ctuData /\ sliceMap' = sliceMap
         /\ \E t \in {"none", "waiting"} :
              \/ IsFirst /\ Fresh(Target, New(t)) /\ ~TooManySlices
              \/ ~IsFirst /\ slices[Target] # <<>> /\ Added(Target, New(t))
<1>1. Allocates
  BY DEF TooManySlices, SliceWithoutTask, AddSlice
<1>2. Target \in Pics /\ NewSlice \in SliceT /\ (IsFirst => ~InvalidNumberOfSlices)
  BY <1>1, AllocateShape
<1>3. IsFirst => ~TooManySlices
  BY <1>2 DEF TooManySlices
<1>4. PICK t \in {"none", "waiting"} : Starts(Target, t) \/ Continues(Target, t)
  BY AddShape
<1>5. \/ IsFirst /\ Fresh(Target, New(t))
      \/ ~IsFirst /\ slices[Target] # <<>> /\ Added(Target, New(t))
  BY <1>2, <1>4, SlicesAdded DEF Starts, Continues
<1> QED BY <1>1, <1>2, <1>3, <1>5, ArrivesTypes DEF Allocates

LEMMA SlicesStep ==
  ASSUME ParseAssumption, TypeInv, SlicesInv, [Next]_vars
  PROVE  SlicesInv'
<1> SUFFICES ASSUME NEW q \in Pics PROVE SliceInv(q)' /\ OrderInv(q)'
  BY DEF SlicesInv, Pics
<1>0. SliceInv(q) /\ OrderInv(q) /\ sliceMap' = sliceMap
  BY StepShape DEF SlicesInv
<1>1. CASE slices'[q] = slices[q]
  BY <1>0, <1>1, SameSlices
<1>2. CASE TooManySlices \/ SliceWithoutTask \/ AddSlice
  <2>1. CASE q = Target
    BY <1>0, <1>2, <2>1, AddedWhere, FreshSlices, AddedSlices
  <2>2. CASE q # Target
    BY <1>1, <1>2, <2>2, AddedWhere DEF Fresh, Added, Others
  <2> QED BY <2>1, <2>2
<1>3. ASSUME NEW p \in Pics, NEW i \in Indices(p), Task(p, i)
      PROVE  SliceInv(q)' /\ OrderInv(q)'
  <2>1. CASE q = p
    BY <1>0, <1>3, <2>1, TaskSlices
  <2>2. CASE q # p
    BY <1>1, <1>3, <2>2, TaskShape, ZenonT(30) DEF TaskChange, Changed, Others, Indices
  <2> QED BY <2>1, <2>2
<1> QED BY <1>1, <1>2, <1>3, StepShape

-----------------------------------------------------------------------------
(* The data of the CTUs.  The first slice of a picture clears what an      *)
(* earlier picture has left; from then on only the CTU that is being       *)
(* parsed is marked so, and there is data for everything above and to the  *)
(* left of a CTU that has data.                                            *)
Started(p) == slices[p] # <<>> /\ Slice(p, 1).task \notin {"none", "waiting"}

HasData(p, c) == ctuData[p][c] \in {"parsing", "parsed"}

DataInv(p) ==
  Started(p) =>
    /\ \A c \in Ctus : ctuData[p][c] # "old"
    /\ \A c \in Ctus : ctuData[p][c] = "parsing" =>
         \E k \in Indices(p) : Slice(p, k).inCtu /\ Address(p, k) = c
    /\ \A k \in Indices(p) : Slice(p, k).inCtu => HasData(p, Address(p, k))
    /\ \A c \in Ctus : \A n \in Ctus : HasData(p, c) /\ UpTo(n, c) => HasData(p, n)

DoneInv(p) ==
  parseDone[p] = "unlocked" /\ slices[p] # <<>> => Started(p) /\ HasData(p, NumCtus - 1)

AllDataInv == \A p \in Pics : DataInv(p) /\ DoneInv(p)

LEMMA FirstIndex ==
  ASSUME TypeInv, NEW p \in Pics
  PROVE  slices[p] # <<>> <=> 1 \in Indices(p)
<1>1. slices[p] \in Seq(SliceT) /\ Len(slices[p]) \in Nat
  BY LenProperties DEF TypeInv
<1>2. slices[p] # <<>> => Len(slices[p]) > 0
  BY <1>1, EmptySeq
<1>3. slices[p] = <<>> => Len(slices[p]) = 0
  OBVIOUS
<1> QED BY <1>1, <1>2, <1>3 DEF Indices

LEMMA BegunIsStarted ==
  ASSUME TypeInv, NEW p \in Pics, SliceInv(p), OrderInv(p), NEW i \in Indices(p), Begun(Slice(p, i))
  PROVE  Started(p) /\ (i # 1 => Slice(p, 1).parseDone = "unlocked")
<1>1. i \in Nat /\ i >= 1 /\ 1 \in Indices(p) /\ slices[p] # <<>>
  BY IndicesNat, FirstIndex DEF Indices
<1>2. CASE i = 1
  BY <1>1, <1>2 DEF SliceInv, Begun, Started
<1>3. CASE i # 1
  <2>1. Slice(p, 1).parseDone = "unlocked"
    BY <1>1, <1>3 DEF OrderInv
  <2> QED BY <1>1, <2>1 DEF SliceInv, Started
<1> QED BY <1>2, <1>3

(* Only one slice of a picture is inside a CTU.                            *)
LEMMA Alone ==
  ASSUME TypeInv, NEW p \in Pics, SliceInv(p), OrderInv(p), NEW i \in Indices(p),
         Slice(p, i).task = "running"
  PROVE  \A k \in Indices(p) : k # i => ~Slice(p, k).inCtu
<1> SUFFICES ASSUME NEW k \in Indices(p), k # i, Slice(p, k).inCtu PROVE FALSE
  OBVIOUS
<1>1. k < i \/ i < k
  BY IndicesNat
<1>2. Begun(Slice(p, k)) /\ Begun(Slice(p, i))
  BY DEF Begun
<1>3. CASE k < i
  BY <1>2, <1>3 DEF OrderInv, SliceInv
<1>4. CASE i < k
  BY <1>2, <1>4 DEF OrderInv, SliceInv
<1> QED BY <1>1, <1>3, <1>4

LEMMA DataSame ==
  ASSUME NEW p \in Pics, DataInv(p), DoneInv(p), slices'[p] = slices[p], ctuData'[p] = ctuData[p],
         sliceMap' = sliceMap, parseDone'[p] = "unlocked" => parseDone[p] = "unlocked"
  PROVE  DataInv(p)' /\ DoneInv(p)'
<1>1. /\ Started(p)' = Started(p) /\ Indices(p)' = Indices(p)
      /\ \A k \in Indices(p) : Slice(p, k)' = Slice(p, k) /\ Address(p, k)' = Address(p, k)
      /\ \A c \in Ctus : HasData(p, c)' = HasData(p, c)
  BY DEF Started, Indices, Slice, Address, HasData
<1>2. \A c : HasData(p, c)' = HasData(p, c)
  BY DEF HasData
<1>3. DataInv(p)'
  BY <1>1, <1>2 DEF DataInv
<1>4. DoneInv(p)'
  BY <1>1, <1>2 DEF DoneInv
<1> QED BY <1>3, <1>4

LEMMA DataFresh ==
  ASSUME NEW p \in Pics, NEW t \in {"none", "waiting"}, Fresh(p, New(t)), parseDone'[p] = "locked"
  PROVE  DataInv(p)' /\ DoneInv(p)'
<1>1. New(t).task = t
  BY DEF New, NewSlice
<1>2. ~Started(p)'
  BY <1>1 DEF Fresh, Started, Slice
<1> QED BY <1>2 DEF DataInv, DoneInv

LEMMA DataAdded ==
  ASSUME TypeInv, NEW p \in Pics, NEW t \in {"none", "waiting"}, Added(p, New(t)), slices[p] # <<>>,
         DataInv(p), DoneInv(p), ctuData' = ctuData, sliceMap' = sliceMap,
         parseDone'[p] = "unlocked" => parseDone[p] = "unlocked"
  PROVE  DataInv(p)' /\ DoneInv(p)'
<1> DEFINE m == Len(slices[p]) + 1
<1>0. ~New(t).inCtu
  BY DEF New, NewSlice
<1>1. Len(slices[p]) \in Nat /\ 1 \in Indices(p)
  BY IndicesNat, FirstIndex
<1>2. Indices(p)' = Indices(p) \cup {m} /\ slices'[p][m] = New(t)
  BY <1>1 DEF Added, Indices
<1>3. \A k \in Indices(p) : Slice(p, k)' = Slice(p, k) /\ Address(p, k)' = Address(p, k)
  BY DEF Added, Indices, Slice, Address
<1>4. Started(p)' = Started(p) /\ \A c : HasData(p, c)' = HasData(p, c)
  BY <1>1, <1>3 DEF Started, Added, HasData
<1> HIDE DEF m
<1>5. ASSUME NEW k \in Indices(p)', (Slice(p, k).inCtu)'
      PROVE  k \in Indices(p)
  BY <1>0, <1>2, <1>5 DEF Slice
<1>6. DataInv(p)'
  <2> SUFFICES ASSUME Started(p)' PROVE DataInv(p)'
    BY DEF DataInv
  <2>1. \A c \in Ctus : (ctuData[p][c])' # "old"
    BY <1>4 DEF DataInv
  <2>2. ASSUME NEW c \in Ctus, (ctuData[p][c])' = "parsing"
        PROVE  \E k \in Indices(p)' : (Slice(p, k).inCtu)' /\ Address(p, k)' = c
    <3>1. PICK k \in Indices(p) : Slice(p, k).inCtu /\ Address(p, k) = c
      BY <1>4, <2>2 DEF DataInv
    <3> QED BY <1>2, <1>3, <3>1
  <2>3. ASSUME NEW k \in Indices(p)', (Slice(p, k).inCtu)' PROVE HasData(p, Address(p, k))'
    <3>1. k \in Indices(p) /\ Slice(p, k).inCtu
      BY <1>3, <1>5, <2>3
    <3>2. HasData(p, Address(p, k)) /\ Address(p, k)' = Address(p, k)
      BY <1>3, <1>4, <3>1 DEF DataInv
    <3> QED BY <1>4, <3>2 DEF HasData
  <2>4. \A c \in Ctus : \A n \in Ctus : HasData(p, c)' /\ UpTo(n, c) => HasData(p, n)'
    BY <1>4 DEF DataInv
  <2> QED BY <2>1, <2>2, <2>3, <2>4 DEF DataInv
<1>7. DoneInv(p)'
  BY <1>4 DEF DoneInv
<1> QED BY <1>6, <1>7
(* Steps of a parse task that leave the data alone.                        *)
LEMMA DataKept ==
  ASSUME NEW p \in Pics, NEW i \in Indices(p), DataInv(p), DoneInv(p),
         Changed(p, i, Slice(p, i)'), sliceMap' = sliceMap, ctuData'[p] = ctuData[p],
         Slice(p, i)'.id = Slice(p, i).id, Slice(p, i)'.inCtu = Slice(p, i).inCtu,
         Slice(p, i)'.ctuIdx = Slice(p, i).ctuIdx, Started(p)' = Started(p),
         parseDone'[p] = "unlocked" => parseDone[p] = "unlocked"
  PROVE  DataInv(p)' /\ DoneInv(p)'
<1>1. Indices(p)' = Indices(p)
  BY DEF Changed, Indices
<1>2. ASSUME NEW k \in Indices(p)
      PROVE  (Slice(p, k).inCtu)' = Slice(p, k).inCtu /\ Address(p, k)' = Address(p, k)
  <2>1. CASE k = i
    <3>1. (Slice(p, i).inCtu)' = Slice(p, i).inCtu
      OBVIOUS
    <3>2. (sliceMap[Slice(p, i).id][Slice(p, i).ctuIdx + 1])' = sliceMap[Slice(p, i).id][Slice(p, i).ctuIdx + 1]
      OBVIOUS
    <3> QED BY <2>1, <3>1, <3>2 DEF Address
  <2>2. CASE k # i
    <3>1. Slice(p, k)' = Slice(p, k)
      BY <2>2 DEF Changed, Indices, Slice
    <3> QED BY <3>1 DEF Address
  <2> QED BY <2>1, <2>2
<1>3. \A c : HasData(p, c)' = HasData(p, c)
  BY DEF HasData
<1>4. DataInv(p)'
  BY <1>1, <1>2, <1>3 DEF DataInv, HasData
<1>5. DoneInv(p)'
  BY <1>3 DEF DoneInv, Changed, Indices
<1> QED BY <1>4, <1>5

(* The first slice of the picture starts.                                  *)
LEMMA DataCleared ==
  ASSUME ParseAssumption, TypeInv, NEW p \in Pics, SliceInv(p), OrderInv(p), DataInv(p), DoneInv(p),
         1 \in Indices(p), TaskStarts(p, 1)
  PROVE  DataInv(p)' /\ DoneInv(p)'
<1>1. /\ sliceMap' = sliceMap /\ parseDone' = parseDone
      /\ Slice(p, 1).task = "waiting" /\ ~Started(p)
  BY DEF TaskStarts, TaskOnly, parserVars, Started
<1>2. Changed(p, 1, Slice(p, 1)') /\ Slice(p, 1)' = [Slice(p, 1) EXCEPT !.task = "running"]
  <2>1. Task(p, 1) /\ 1 \in 1..Len(slices[p])
    BY DEF Task, Indices
  <2>2. [Slice(p, 1) EXCEPT !.task = "running"] \in SliceT
    BY <2>1, SliceTyped DEF SliceT
  <2>3. Changed(p, 1, [Slice(p, 1) EXCEPT !.task = "running"])
    BY <2>1, <2>2, SetShape DEF TaskStarts
  <2> QED BY <2>3 DEF Changed, Slice
<1>3. \A c \in Ctus : ctuData'[p][c] = "none"
  <2>1. sliceMap[Slice(p, 1).id][1] = 0
    BY MapShape DEF SliceInv
  <2> QED BY <2>1 DEF TaskStarts, TypeInv
<1>4. Indices(p)' = Indices(p)
  BY <1>2 DEF Changed, Indices
<1>5. ASSUME NEW k \in Indices(p) PROVE ~(Slice(p, k).inCtu)'
  <2>1. ~Slice(p, k).inCtu
    <3>1. Slice(p, k).inCtu => Begun(Slice(p, k))
      BY DEF Begun
    <3> QED BY <1>1, <3>1, BegunIsStarted
  <2>2. CASE k = 1
    <3>1. (Slice(p, 1)').inCtu = Slice(p, 1).inCtu
      BY <1>2, SliceTyped DEF SliceT, Indices
    <3> QED BY <2>1, <2>2, <3>1
  <2>3. CASE k # 1
    <3>1. Slice(p, k)' = Slice(p, k)
      BY <1>2, <2>3 DEF Changed, Indices, Slice
    <3> QED BY <2>1, <3>1
  <2> QED BY <2>2, <2>3
<1>6. DataInv(p)'
  BY <1>3, <1>4, <1>5 DEF DataInv, HasData
<1>7. DoneInv(p)'
  <2>1. slices[p] # <<>>
    BY FirstIndex
  <2> QED BY <1>1, <2>1 DEF DoneInv
<1> QED BY <1>6, <1>7

(* A CTU begins: its neighbours have data.                                 *)
LEMMA DataBegins ==
  ASSUME ParseAssumption, TypeInv, NEW p \in Pics, NEW i \in Indices(p),
         SliceInv(p), OrderInv(p), DataInv(p), DoneInv(p), BeginCtu(p, i)
  PROVE  DataInv(p)' /\ DoneInv(p)'
<1> DEFINE a == Address(p, i)
<1>1. /\ Slice(p, i).task = "running" /\ Slice(p, i).ctuIdx < Len(sliceMap[Slice(p, i).id])
      /\ sliceMap' = sliceMap /\ parseDone' = parseDone /\ Missing(p, a) = {}
      /\ ctuData' = [ctuData EXCEPT ![p][a] = "parsing"]
  BY DEF BeginCtu, AtCtu, TaskOnly, parserVars
<1>2. Changed(p, i, Slice(p, i)') /\ Slice(p, i)' = [Slice(p, i) EXCEPT !.inCtu = TRUE]
  <2>1. i \in 1..Len(slices[p])
    BY DEF Indices
  <2>2. [Slice(p, i) EXCEPT !.inCtu = TRUE] \in SliceT
    <3> DEFINE s == Slice(p, i)
    <3>1. s \in SliceT
      BY <2>1, SliceTyped
    <3> HIDE DEF s
    <3>2. [s EXCEPT !.inCtu = TRUE] \in SliceT
      BY <3>1 DEF SliceT
    <3> QED BY <3>2 DEF s
  <2>3. Changed(p, i, [Slice(p, i) EXCEPT !.inCtu = TRUE])
    BY <2>1, <2>2, SetShape DEF BeginCtu
  <2> QED BY <2>3 DEF Changed, Slice
<1>3. a \in Ctus
  BY <1>1, AddressTyped DEF SliceInv, Indices
<1>4. Indices(p)' = Indices(p) /\ Started(p)
  BY <1>1, <1>2, BegunIsStarted DEF Changed, Indices, Begun
<1>5. /\ (Slice(p, i)').inCtu /\ (Slice(p, i)').id = Slice(p, i).id /\ (Slice(p, i)').ctuIdx = Slice(p, i).ctuIdx
      /\ (Slice(p, i)').task = "running"
  BY <1>1, <1>2, SliceTyped DEF SliceT, Indices
<1>6. Address(p, i)' = a
  BY <1>1, <1>5 DEF Address
<1>7. ASSUME NEW k \in Indices(p), k # i PROVE Slice(p, k)' = Slice(p, k) /\ Address(p, k)' = Address(p, k)
  <2>1. Slice(p, k)' = Slice(p, k)
    BY <1>2, <1>7 DEF Changed, Indices, Slice
  <2> QED BY <1>1, <2>1 DEF Address
<1> HIDE DEF a
<1>8. /\ ctuData'[p][a] = "parsing"
      /\ \A c \in Ctus : c # a => ctuData'[p][c] = ctuData[p][c]
  BY <1>1, <1>3 DEF TypeInv
<1>9. DataInv(p)'
  <2>1. \A c \in Ctus : ctuData'[p][c] # "old"
    BY <1>4, <1>8 DEF DataInv
  <2>2. ASSUME NEW c \in Ctus, ctuData'[p][c] = "parsing"
        PROVE  \E k \in Indices(p)' : (Slice(p, k).inCtu)' /\ Address(p, k)' = c
    <3>1. CASE c = a
      BY <1>4, <1>5, <1>6, <3>1
    <3>2. CASE c # a
      <4>1. PICK k \in Indices(p) : Slice(p, k).inCtu /\ Address(p, k) = c
        BY <1>4, <1>8, <2>2, <3>2 DEF DataInv
      <4>2. k # i
        BY <4>1 DEF BeginCtu, AtCtu
      <4> QED BY <1>4, <1>7, <4>1, <4>2
    <3> QED BY <3>1, <3>2
  <2>3. ASSUME NEW k \in Indices(p), (Slice(p, k).inCtu)' PROVE HasData(p, Address(p, k))'
    <3>1. k = i
      <4> SUFFICES ASSUME k # i PROVE FALSE
        OBVIOUS
      <4> QED BY <1>1, <1>7, <2>3, Alone
    <3> QED BY <1>6, <1>8, <3>1 DEF HasData
  <2>4. ASSUME NEW c \in Ctus, NEW n \in Ctus, HasData(p, c)', UpTo(n, c) PROVE HasData(p, n)'
    <3>1. ASSUME NEW m \in Ctus, HasData(p, m), UpTo(n, m) PROVE HasData(p, n)'
      BY <1>4, <1>8, <3>1 DEF DataInv, HasData
    <3>2. CASE c # a
      BY <1>8, <2>4, <3>1, <3>2 DEF HasData
    <3>3. CASE c = a /\ n # c
      <4>1. PICK m \in Neighbours(c) : UpTo(n, m)
        BY <2>4, <3>3, Rectangle
      <4>2. m \in Ctus /\ ctuData[p][m] # "none"
        BY <1>1, <3>3, <4>1 DEF Missing, Neighbours
      <4>3. HasData(p, m)
        BY <1>4, <4>2 DEF DataInv, HasData, TypeInv
      <4> QED BY <3>1, <4>1, <4>2, <4>3
    <3>4. CASE c = a /\ n = c
      BY <2>4, <3>4
    <3> QED BY <3>2, <3>3, <3>4
  <2> QED BY <1>4, <2>1, <2>2, <2>3, <2>4 DEF DataInv
<1>10. DoneInv(p)'
  <2>1. Started(p)'
    <3>1. CASE i = 1
      BY <1>2, <1>5, <3>1 DEF Started, Changed
    <3>2. CASE i # 1
      <4>1. Slice(p, 1)' = Slice(p, 1)
        BY <1>4, <1>7, <3>2, FirstIndex DEF Started
      <4> QED BY <1>2, <1>4, <4>1 DEF Started, Changed
    <3> QED BY <3>1, <3>2
  <2>2. NumCtus - 1 \in Ctus
    BY Sizes
  <2>3. parseDone'[p] = "unlocked" => HasData(p, NumCtus - 1)
    BY <1>1, <1>4 DEF DoneInv, Started
  <2> QED BY <1>8, <2>1, <2>2, <2>3 DEF DoneInv, HasData
<1> QED BY <1>9, <1>10
(* A CTU is parsed.                                                        *)
LEMMA DataEnds ==
  ASSUME ParseAssumption, TypeInv, NEW p \in Pics, NEW i \in Indices(p),
         SliceInv(p), OrderInv(p), DataInv(p), DoneInv(p), EndCtu(p, i),
         Changed(p, i, Slice(p, i)'), ~(Slice(p, i)').inCtu, (Slice(p, i)').task = "running"
  PROVE  DataInv(p)' /\ DoneInv(p)'
<1> DEFINE a == Address(p, i)
<1>1. /\ Slice(p, i).task = "running" /\ Slice(p, i).inCtu /\ sliceMap' = sliceMap
      /\ ctuData' = [ctuData EXCEPT ![p][a] = "parsed"]
      /\ parseDone' = IF a = NumCtus - 1 THEN [parseDone EXCEPT ![p] = "unlocked"] ELSE parseDone
  BY DEF EndCtu, TaskOnly, parserVars
<1>2. a \in Ctus
  BY <1>1, AddressTyped DEF SliceInv, Indices
<1>3. Indices(p)' = Indices(p) /\ Started(p)
  BY <1>1, BegunIsStarted DEF Changed, Indices, Begun
<1>4. HasData(p, a)
  BY <1>1, <1>3 DEF DataInv
<1> HIDE DEF a
<1>5. /\ ctuData'[p][a] = "parsed"
      /\ \A c \in Ctus : c # a => ctuData'[p][c] = ctuData[p][c]
  BY <1>1, <1>2 DEF TypeInv
<1>6. \A c \in Ctus : HasData(p, c)' <=> HasData(p, c)
  BY <1>4, <1>5 DEF HasData
<1>7. ASSUME NEW k \in Indices(p) PROVE ~(Slice(p, k).inCtu)'
  <2>1. CASE k = i
    BY <2>1
  <2>2. CASE k # i
    <3>1. Slice(p, k)' = Slice(p, k)
      BY <2>2 DEF Changed, Indices, Slice
    <3> QED BY <1>1, <2>2, <3>1, Alone
  <2> QED BY <2>1, <2>2
<1>8. \A c \in Ctus : ctuData'[p][c] # "parsing"
  <2> SUFFICES ASSUME NEW c \in Ctus, c # a, ctuData[p][c] = "parsing" PROVE FALSE
    BY <1>5
  <2>1. PICK k \in Indices(p) : Slice(p, k).inCtu /\ Address(p, k) = c
    BY <1>3 DEF DataInv
  <2>2. k = i
    BY <1>1, <2>1, Alone
  <2> QED BY <2>1, <2>2 DEF a
<1>9. DataInv(p)'
  <2>1. \A c \in Ctus : ctuData'[p][c] # "old"
    BY <1>3, <1>5 DEF DataInv
  <2>2. \A c \in Ctus : \A n \in Ctus : HasData(p, c)' /\ UpTo(n, c) => HasData(p, n)'
    BY <1>3, <1>6 DEF DataInv
  <2> QED BY <1>3, <1>7, <1>8, <2>1, <2>2 DEF DataInv
<1>10. DoneInv(p)'
  <2>1. Started(p)'
    <3>1. CASE i = 1
      BY <3>1 DEF Started, Changed
    <3>2. CASE i # 1
      <4>1. 1 \in Indices(p)
        BY <1>3, FirstIndex DEF Started
      <4>2. Slice(p, 1)' = Slice(p, 1)
        BY <3>2, <4>1 DEF Changed, Indices, Slice
      <4> QED BY <1>3, <4>2 DEF Started, Changed
    <3> QED BY <3>1, <3>2
  <2>2. NumCtus - 1 \in Ctus
    BY Sizes
  <2>3. a # NumCtus - 1 /\ parseDone'[p] = "unlocked" => HasData(p, NumCtus - 1)
    BY <1>1, <1>3 DEF DoneInv, Started
  <2>4. parseDone'[p] = "unlocked" => HasData(p, NumCtus - 1)'
    BY <1>4, <1>6, <2>2, <2>3 DEF HasData
  <2> QED BY <2>1, <2>4 DEF DoneInv
<1> QED BY <1>9, <1>10

(* The other steps of a parse task leave the data alone and open nothing.  *)
Quiet(p, i) ==
  /\ Changed(p, i, Slice(p, i)') /\ sliceMap' = sliceMap /\ ctuData'[p] = ctuData[p]
  /\ Slice(p, i)'.id = Slice(p, i).id /\ Slice(p, i)'.poc = Slice(p, i).poc
  /\ Slice(p, i)'.inCtu = Slice(p, i).inCtu /\ Slice(p, i)'.ctuIdx = Slice(p, i).ctuIdx
  /\ Started(p)' = Started(p)
  /\ parseDone'[p] = "unlocked" => parseDone[p] = "unlocked"
  /\ \A c \in Ctus : ctuParsed'[p][c] = "unlocked" => ctuParsed[p][c] = "unlocked"

LEMMA TaskKinds ==
  ASSUME ParseAssumption, TypeInv, NEW p \in Pics, NEW i \in Indices(p),
         SliceInv(p), Task(p, i)
  PROVE  \/ i = 1 /\ TaskStarts(p, i)
         \/ BeginCtu(p, i)
         \/ /\ EndCtu(p, i) /\ Changed(p, i, Slice(p, i)') /\ ~(Slice(p, i)').inCtu
            /\ (Slice(p, i)').task = "running" /\ (Slice(p, i)').ctuIdx = Slice(p, i).ctuIdx + 1
            /\ Slice(p, i)'.id = Slice(p, i).id /\ Slice(p, i)'.poc = Slice(p, i).poc
         \/ Quiet(p, i)
<1> DEFINE s == Slice(p, i)  t == Slice(p, i)'
<1>1. TaskChange(p, i, s, t) /\ TaskOnly /\ s \in SliceT
  BY TaskShape, SliceTyped DEF Indices
<1>2. Changed(p, i, t) /\ t.id = s.id /\ t.poc = s.poc /\ sliceMap' = sliceMap
  BY <1>1 DEF TaskChange, TaskOnly, parserVars
<1>3. ASSUME t.inCtu = s.inCtu, t.ctuIdx = s.ctuIdx, ctuData'[p] = ctuData[p],
             s.task \in {"none", "waiting"} => i # 1, t.task \notin {"none", "waiting"},
             parseDone'[p] = "unlocked" => parseDone[p] = "unlocked",
             \A c \in Ctus : ctuParsed'[p][c] = "unlocked" => ctuParsed[p][c] = "unlocked"
      PROVE  Quiet(p, i)
  <2>1. slices'[p] # <<>> /\ slices[p] # <<>> /\ 1 \in Indices(p)
    <3>1. slices[p] # <<>>
      <4>1. Len(<<>>) = 0 /\ i \in 1..Len(slices[p])
        BY DEF Indices
      <4> QED BY <4>1
    <3> QED BY <1>2, <3>1, FirstIndex DEF Changed
  <2>2. Started(p)' = Started(p)
    <3>1. CASE i = 1
      <4>1. Started(p)' = TRUE /\ Started(p) = TRUE
        BY <1>3, <2>1, <3>1 DEF Started
      <4> QED BY <4>1
    <3>2. CASE i # 1
      <4>1. Slice(p, 1)' = Slice(p, 1)
        BY <1>2, <2>1, <3>2 DEF Changed, Indices, Slice
      <4> QED BY <2>1, <4>1 DEF Started
    <3> QED BY <3>1, <3>2
  <2> QED BY <1>2, <1>3, <2>2 DEF Quiet
<1>4. CASE TaskStarts(p, i) /\ t = [s EXCEPT !.task = "running"]
  <2>1. t.inCtu = s.inCtu /\ t.ctuIdx = s.ctuIdx /\ t.task = "running"
    <3> HIDE DEF s, t
    <3> QED BY <1>1, <1>4 DEF SliceT
  <2>2. CASE i = 1
    BY <1>4, <2>2
  <2>3. CASE i # 1
    <3>1. sliceMap[s.id][1] # 0
      BY <2>3, MapShape DEF SliceInv
    <3>2. ctuData' = ctuData /\ parseDone' = parseDone /\ ctuParsed' = ctuParsed
      BY <1>4, <3>1 DEF TaskStarts
    <3> QED BY <1>3, <2>1, <2>3, <3>2
  <2> QED BY <2>2, <2>3
<1>5. CASE BeginCtu(p, i)
  BY <1>5
<1>6. CASE EndCtu(p, i) /\ t = [s EXCEPT !.inCtu = FALSE, !.ctuIdx = s.ctuIdx + 1]
  <2>1. ~t.inCtu /\ t.task = s.task /\ t.ctuIdx = s.ctuIdx + 1
    <3> HIDE DEF s, t
    <3> QED BY <1>1, <1>6 DEF SliceT
  <2>2. s.task = "running"
    BY <1>6 DEF EndCtu
  <2> QED BY <1>2, <1>6, <2>1, <2>2
<1>7. CASE \/ TaskPoisoned(p, i) /\ t = [s EXCEPT !.task = "gone", !.parseDone = "error"]
           \/ TaskFails(p, i) /\ s.task = "thrown" /\ t = [s EXCEPT !.task = "gone", !.parseDone = "error"]
  <2>1. t.inCtu = s.inCtu /\ t.ctuIdx = s.ctuIdx /\ t.task = "gone"
    <3> HIDE DEF s, t
    <3>1. t = [s EXCEPT !.task = "gone", !.parseDone = "error"]
      BY <1>7
    <3> QED BY <1>1, <3>1 DEF SliceT
  <2>2. ctuData' = ctuData /\ parseDone' = parseDone /\ ctuParsed' = ctuParsed
    BY <1>7 DEF TaskPoisoned, TaskFails, Gone
  <2>3. s.task \in {"none", "waiting"} => i # 1
    BY <1>7 DEF TaskPoisoned, Before
  <2> QED BY <1>3, <2>1, <2>2, <2>3
<1>8. CASE TaskEnds(p, i) /\ s.task = "running" /\ t = [s EXCEPT !.task = "gone", !.parseDone = "unlocked"]
  <2>1. t.inCtu = s.inCtu /\ t.ctuIdx = s.ctuIdx /\ t.task = "gone"
    <3> HIDE DEF s, t
    <3> QED BY <1>1, <1>8 DEF SliceT
  <2>2. ctuData' = ctuData /\ parseDone' = parseDone /\ ctuParsed' = ctuParsed
    BY <1>8 DEF TaskEnds
  <2> QED BY <1>3, <1>8, <2>1, <2>2
<1>9. CASE TaskThrows(p, i) /\ s.task = "running" /\ t = [s EXCEPT !.task = "throwing"]
  <2>1. t.inCtu = s.inCtu /\ t.ctuIdx = s.ctuIdx /\ t.task = "throwing"
    <3> HIDE DEF s, t
    <3> QED BY <1>1, <1>9 DEF SliceT
  <2>2. ctuData' = ctuData /\ parseDone' = parseDone /\ ctuParsed' = ctuParsed
    BY <1>9 DEF TaskThrows
  <2> QED BY <1>3, <1>9, <2>1, <2>2
<1>10. CASE ExceptionSet(p, i) /\ s.task = "throwing" /\ t = [s EXCEPT !.task = "thrown"]
  <2>1. t.inCtu = s.inCtu /\ t.ctuIdx = s.ctuIdx /\ t.task = "thrown"
    <3> HIDE DEF s, t
    <3> QED BY <1>1, <1>10 DEF SliceT
  <2>2. ctuData' = ctuData /\ parseDone'[p] # "unlocked"
    BY <1>10 DEF ExceptionSet, TypeInv
  <2>3. \A c \in Ctus : ctuParsed'[p][c] # "unlocked"
    BY <1>10 DEF ExceptionSet, TypeInv
  <2> QED BY <1>3, <1>10, <2>1, <2>2, <2>3
<1> QED BY <1>1, <1>4, <1>5, <1>6, <1>7, <1>8, <1>9, <1>10 DEF TaskChange

LEMMA DataTask ==
  ASSUME ParseAssumption, TypeInv, NEW p \in Pics, NEW i \in Indices(p),
         SliceInv(p), OrderInv(p), DataInv(p), DoneInv(p), Task(p, i)
  PROVE  DataInv(p)' /\ DoneInv(p)'
<1>1. CASE i = 1 /\ TaskStarts(p, i)
  BY <1>1, DataCleared
<1>2. CASE BeginCtu(p, i)
  BY <1>2, DataBegins
<1>3. CASE /\ EndCtu(p, i) /\ Changed(p, i, Slice(p, i)') /\ ~(Slice(p, i)').inCtu
           /\ (Slice(p, i)').task = "running"
  BY <1>3, DataEnds
<1>4. CASE Quiet(p, i)
  BY <1>4, DataKept DEF Quiet
<1> QED BY <1>1, <1>2, <1>3, <1>4, TaskKinds

(* A caught exception does not open parseDone.                             *)
LEMMA CaughtDone ==
  ASSUME TypeInv, NEW r, CaughtIn(r), NEW q \in Pics
  PROVE  parseDone'[q] = "unlocked" => parseDone[q] = "unlocked"
BY DEF CaughtIn, TypeInv

LEMMA OtherDone ==
  ASSUME TypeInv, NEW p \in Pics, NEW i \in Indices(p), Task(p, i), NEW q \in Pics, q # p
  PROVE  parseDone'[q] = parseDone[q] /\ ctuData'[q] = ctuData[q] /\ pic'[q] = pic[q]
BY DEF Task, TaskStarts, TaskPoisoned, BeginCtu, EndCtu, TaskEnds, TaskThrows, ExceptionSet, TaskFails,
       Gone, TypeInv

LEMMA DataStep ==
  ASSUME ParseAssumption, TypeInv, SlicesInv, AllDataInv, [Next]_vars
  PROVE  AllDataInv'
<1> SUFFICES ASSUME NEW q \in Pics PROVE DataInv(q)' /\ DoneInv(q)'
  BY DEF AllDataInv, Pics
<1>0. SliceInv(q) /\ OrderInv(q) /\ DataInv(q) /\ DoneInv(q) /\ sliceMap' = sliceMap
  BY StepShape DEF SlicesInv, AllDataInv
<1>1. ASSUME slices'[q] = slices[q], ctuData'[q] = ctuData[q],
             parseDone'[q] = "unlocked" => parseDone[q] = "unlocked"
      PROVE  DataInv(q)' /\ DoneInv(q)'
  BY <1>0, <1>1, DataSame
<1>2. CASE TooManySlices \/ SliceWithoutTask \/ AddSlice
  <2>1. Target \in Pics /\ ctuData' = ctuData /\ Others(Target)
    BY <1>2, AddedWhere DEF Fresh, Added
  <2>2. IsFirst /\ ~TooManySlices => parseDone' = [parseDone EXCEPT ![Target] = "locked"]
    BY <1>2 DEF SliceWithoutTask, AddSlice
  <2>3. ~IsFirst => (parseDone'[q] = "unlocked" => parseDone[q] = "unlocked")
    BY <1>2, CaughtDone DEF TooManySlices, SliceWithoutTask, AddSlice
  <2>4. CASE q # Target
    <3>1. TooManySlices => ~IsFirst
      BY <1>2, AddedWhere
    <3>2. parseDone'[q] = "unlocked" => parseDone[q] = "unlocked"
      BY <2>2, <2>3, <2>4, <3>1 DEF TypeInv
    <3> QED BY <1>1, <2>1, <2>4, <3>2 DEF Others
  <2>5. CASE q = Target
    <3>1. PICK t \in {"none", "waiting"} :
             \/ IsFirst /\ Fresh(q, New(t)) /\ ~TooManySlices
             \/ ~IsFirst /\ slices[q] # <<>> /\ Added(q, New(t))
      BY <1>2, <2>5, AddedWhere
    <3>2. CASE IsFirst /\ Fresh(q, New(t)) /\ ~TooManySlices
      <4>1. parseDone'[q] = "locked"
        BY <2>2, <2>5, <3>2 DEF TypeInv
      <4> QED BY <3>2, <4>1, DataFresh
    <3>3. CASE ~IsFirst /\ slices[q] # <<>> /\ Added(q, New(t))
      BY <1>0, <2>1, <2>3, <3>3, DataAdded
    <3> QED BY <3>1, <3>2, <3>3
  <2> QED BY <2>4, <2>5
<1>3. ASSUME NEW p \in Pics, NEW i \in Indices(p), Task(p, i)
      PROVE  DataInv(q)' /\ DoneInv(q)'
  <2>1. CASE q = p
    BY <1>0, <1>3, <2>1, DataTask
  <2>2. CASE q # p
    <3>1. slices'[q] = slices[q]
      BY <1>3, <2>2, TaskShape, ZenonT(30) DEF TaskChange, Changed, Others, Indices
    <3>2. parseDone'[q] = parseDone[q] /\ ctuData'[q] = ctuData[q]
      BY <1>3, <2>2, OtherDone
    <3> QED BY <1>1, <3>1, <3>2
  <2> QED BY <2>1, <2>2
<1>4. CASE UNCHANGED vars \/ SliceLost \/ Flush \/ ChooseNone \/ Choose
  BY <1>1, <1>4 DEF vars, SliceLost, Arrives, Flush, ChooseNone, Choose, taskVars
<1>5. CASE HeaderUnreadable \/ HeaderRejected \/ HeaderFails
  <2>1. slices' = slices /\ ctuData' = ctuData /\ CaughtIn(ParsePic)
    BY <1>5 DEF HeaderUnreadable, HeaderRejected, HeaderFails, Arrives
  <2> QED BY <1>1, <2>1, CaughtDone
<1>6. CASE Sanitize
  <2>1. slices' = slices /\ ctuData' = ctuData
    BY <1>6 DEF Sanitize
  <2>2. parseDone'[q] = "unlocked" => parseDone[q] = "unlocked"
    BY <1>6, ZenonT(30) DEF Sanitize, TypeInv
  <2> QED BY <1>1, <2>1, <2>2
<1> QED BY <1>2, <1>3, <1>4, <1>5, <1>6 DEF Next, DecLib, Indices

LEMMA InitInvs == ASSUME ParseAssumption, Init PROVE SlicesInv /\ AllDataInv
<1>1. \A p \in Pics : slices[p] = <<>> /\ Indices(p) = {}
  <2>1. Len(<<>>) = 0 /\ 1..0 = {}
    OBVIOUS
  <2> QED BY <2>1 DEF Init, Indices
<1> QED BY <1>1 DEF SlicesInv, AllDataInv, SliceInv, OrderInv, DataInv, DoneInv, Started

(* The invariant of all theorems here.                                     *)
BaseInv == TypeInv /\ SlicesInv /\ AllDataInv

LEMMA BaseInvariant == Spec => []BaseInv
<1> USE ParseAssumption
<1>1. Init => BaseInv
  BY InitTypes, InitInvs DEF BaseInv
<1>2. BaseInv /\ [Next]_vars => BaseInv'
  BY TypesStep, SlicesStep, DataStep DEF BaseInv
<1> QED BY <1>1, <1>2, PTL DEF Spec

-----------------------------------------------------------------------------
(* For every size of the pictures, every layout of slices and any faults,  *)
(* what the checks of a parse task find in the data of its neighbours is   *)
(* nothing or the result of an earlier CTU of the picture, because a slice *)
(* waits for the one before it (DecSlice::parseSlice).                     *)
THEOREM ChecksAlwaysWork == Spec => []ChecksWork
<1>1. BaseInv => ChecksWork
  <2> SUFFICES ASSUME BaseInv, NEW p \in Pics, NEW i \in Indices(p), AtCtu(p, i),
                      NEW n \in Neighbours(Address(p, i))
               PROVE  ctuData[p][n] \in {"none", "parsed"}
    BY DEF ChecksWork, Indices
  <2>1. /\ TypeInv /\ SliceInv(p) /\ OrderInv(p) /\ DataInv(p) /\ n \in Ctus
        /\ Slice(p, i).task = "running" /\ ~Slice(p, i).inCtu
    BY DEF BaseInv, SlicesInv, AllDataInv, Neighbours, AtCtu
  <2>2. Started(p)
    BY <2>1, BegunIsStarted DEF Begun
  <2>3. ctuData[p][n] # "parsing"
    <3> SUFFICES ASSUME ctuData[p][n] = "parsing" PROVE FALSE
      OBVIOUS
    <3>1. PICK k \in Indices(p) : Slice(p, k).inCtu
      BY <2>1, <2>2 DEF DataInv
    <3>2. k # i
      BY <2>1, <3>1
    <3> QED BY <2>1, <3>1, <3>2, Alone
  <2> QED BY <2>1, <2>2, <2>3 DEF DataInv, TypeInv
<1> QED BY <1>1, BaseInvariant, PTL

(* For every size and layout and any faults: when the parseDone barrier of *)
(* a picture is open, there is data for all of its CTUs, although only the *)
(* last one opens it and slices may be lost on the way.                    *)
THEOREM NeverHoles == Spec => []NoHoles
<1> USE ParseAssumption
<1>1. BaseInv => NoHoles
  <2> SUFFICES ASSUME BaseInv, NEW p \in Pics, slices[p] # <<>>, parseDone[p] = "unlocked", NEW c \in Ctus
               PROVE  HasData(p, c)
    BY DEF NoHoles, HasData
  <2>1. DataInv(p) /\ DoneInv(p)
    BY DEF BaseInv, AllDataInv
  <2>2. Started(p) /\ HasData(p, NumCtus - 1)
    BY <2>1 DEF DoneInv
  <2>3. NumCtus - 1 \in Ctus /\ UpTo(c, NumCtus - 1)
    BY Sizes, LastCtu
  <2> QED BY <2>1, <2>2, <2>3 DEF DataInv
<1> QED BY <1>1, BaseInvariant, PTL
-----------------------------------------------------------------------------
(* Errors.  The exception of a parse task lies on parseDone or is about to *)
(* be put there until somebody throws it out; EndCtu does not overwrite it *)
(* because a slice that failed keeps all later ones from being parsed.     *)
Failed(s) == s.task = "thrown" \/ s.parseDone = "error"

BarrierInv(p) == parseDone[p] = "error" => \E i \in Indices(p) : Failed(Slice(p, i))

PendingInv(p) ==
  pic[p].error /\ ~pic[p].exceptionThrownOut =>
    parseDone[p] = "error" \/ \E i \in Indices(p) : Slice(p, i).task = "throwing"

ReportedInv(p) == pic[p].place = "done" => pic[p].exceptionThrownOut

ErrorInv(p) == BarrierInv(p) /\ PendingInv(p) /\ ReportedInv(p)

SanitizeInv ==
  main.pc = "sanitize" /\ main.pic \in Pics => pic[main.pic].error \/ main.exc

AllErrorInv == SanitizeInv /\ \A p \in Pics : ErrorInv(p)

(* The fields of a picture that matter here.                               *)
Flags(p) == <<pic[p].error, pic[p].exceptionThrownOut, pic[p].place = "done">>

LEMMA ErrorKept ==
  ASSUME NEW p \in Pics, ErrorInv(p), parseDone'[p] = parseDone[p], Flags(p)' = Flags(p),
         \A i \in Indices(p) : i \in Indices(p)' /\ Slice(p, i)' = Slice(p, i)
  PROVE  ErrorInv(p)'
<1>1. /\ pic'[p].error = pic[p].error /\ pic'[p].exceptionThrownOut = pic[p].exceptionThrownOut
      /\ (pic'[p].place = "done") = (pic[p].place = "done")
  BY DEF Flags
<1>2. BarrierInv(p)'
  BY DEF ErrorInv, BarrierInv, Failed
<1>3. PendingInv(p)'
  BY <1>1 DEF ErrorInv, PendingInv
<1>4. ReportedInv(p)'
  BY <1>1 DEF ErrorInv, ReportedInv
<1> QED BY <1>2, <1>3, <1>4 DEF ErrorInv

(* While a slice is parsed no other one of its picture has failed.         *)
LEMMA NoneFailed ==
  ASSUME TypeInv, NEW p \in Pics, SliceInv(p), OrderInv(p), NEW i \in Indices(p),
         Slice(p, i).task = "running"
  PROVE  \A k \in Indices(p) : ~Failed(Slice(p, k))
<1> SUFFICES ASSUME NEW k \in Indices(p), Failed(Slice(p, k)) PROVE FALSE
  OBVIOUS
<1>0. Slice(p, i).parseDone = "locked" /\ Begun(Slice(p, i))
  BY DEF SliceInv, Begun
<1>1. k < i \/ k = i \/ i < k
  BY IndicesNat
<1>2. CASE k = i
  BY <1>0, <1>2 DEF Failed
<1>3. CASE k < i
  BY <1>0, <1>3 DEF OrderInv, SliceInv, Failed
<1>4. CASE i < k
  BY <1>0, <1>4 DEF OrderInv, Failed, Begun
<1> QED BY <1>1, <1>2, <1>3, <1>4

LEMMA ErrorTask ==
  ASSUME TypeInv, NEW p \in Pics, NEW i \in Indices(p), SliceInv(p), OrderInv(p), ErrorInv(p), Task(p, i)
  PROVE  ErrorInv(p)'
<1> DEFINE s == Slice(p, i)  t == Slice(p, i)'
<1>1. TaskChange(p, i, s, t) /\ s \in SliceT /\ t \in SliceT
  BY TaskShape, SliceTyped DEF Indices, TaskChange
<1>2. Indices(p)' = Indices(p) /\ \A k \in Indices(p) : k # i => Slice(p, k)' = Slice(p, k)
  BY <1>1 DEF TaskChange, Changed, Indices, Slice
<1>3. s.task # "gone" => s.parseDone = "locked"
  BY DEF SliceInv
<1>4. pic[p] \in PicT
  BY DEF TypeInv
<1>5. ASSUME ~Failed(s), s.task # "throwing", parseDone'[p] = parseDone[p], Flags(p)' = Flags(p)
      PROVE  ErrorInv(p)'
  <2>1. /\ pic'[p].error = pic[p].error /\ pic'[p].exceptionThrownOut = pic[p].exceptionThrownOut
        /\ (pic'[p].place = "done") = (pic[p].place = "done")
    BY <1>5 DEF Flags
  <2>2. BarrierInv(p)'
    BY <1>2, <1>5 DEF ErrorInv, BarrierInv
  <2>3. PendingInv(p)'
    BY <1>2, <1>5, <2>1 DEF ErrorInv, PendingInv
  <2>4. ReportedInv(p)'
    BY <2>1 DEF ErrorInv, ReportedInv
  <2> QED BY <2>2, <2>3, <2>4 DEF ErrorInv
<1>6. CASE TaskStarts(p, i) \/ BeginCtu(p, i) \/ TaskEnds(p, i)
  <2>1. s.task \in {"waiting", "running"}
    BY <1>6 DEF TaskStarts, BeginCtu, AtCtu, TaskEnds
  <2>2. parseDone' = parseDone /\ pic' = pic
    BY <1>6 DEF TaskStarts, BeginCtu, TaskEnds
  <2> QED BY <1>3, <1>5, <2>1, <2>2 DEF Failed, Flags
<1>7. CASE EndCtu(p, i)
  <2>1. s.task = "running" /\ pic' = pic /\ parseDone'[p] \in {parseDone[p], "unlocked"}
    BY <1>7 DEF EndCtu, TypeInv
  <2>2. parseDone[p] # "error"
    BY <2>1, NoneFailed DEF ErrorInv, BarrierInv
  <2>3. BarrierInv(p)'
    BY <2>1, <2>2 DEF BarrierInv
  <2>4. PendingInv(p)'
    BY <1>2, <2>1, <2>2 DEF ErrorInv, PendingInv
  <2>5. ReportedInv(p)'
    BY <2>1 DEF ErrorInv, ReportedInv
  <2> QED BY <2>3, <2>4, <2>5 DEF ErrorInv
<1>8. CASE TaskThrows(p, i) /\ s.task = "running" /\ t = [s EXCEPT !.task = "throwing"]
  <2>1. t.task = "throwing"
    <3> HIDE DEF s, t
    <3> QED BY <1>1, <1>8 DEF SliceT
  <2>2. parseDone' = parseDone /\ pic' = [pic EXCEPT ![p].error = TRUE]
    BY <1>8 DEF TaskThrows
  <2>3. pic'[p].place = pic[p].place /\ pic'[p].exceptionThrownOut = pic[p].exceptionThrownOut
    BY <1>4, <2>2 DEF TypeInv, PicT
  <2>4. BarrierInv(p)'
    BY <1>2, <1>8, <2>2, NoneFailed DEF ErrorInv, BarrierInv
  <2>5. PendingInv(p)'
    BY <1>2, <2>1 DEF PendingInv
  <2>6. ReportedInv(p)'
    BY <2>3 DEF ErrorInv, ReportedInv
  <2> QED BY <2>4, <2>5, <2>6 DEF ErrorInv
<1>9. CASE ExceptionSet(p, i) /\ t = [s EXCEPT !.task = "thrown"]
  <2>1. t.task = "thrown"
    <3> HIDE DEF s, t
    <3> QED BY <1>1, <1>9 DEF SliceT
  <2>2. parseDone'[p] = "error" /\ pic' = pic
    BY <1>9 DEF ExceptionSet, TypeInv
  <2>3. BarrierInv(p)'
    BY <1>2, <2>1 DEF BarrierInv, Failed
  <2>4. PendingInv(p)' /\ ReportedInv(p)'
    BY <2>2 DEF ErrorInv, PendingInv, ReportedInv
  <2> QED BY <2>3, <2>4 DEF ErrorInv
<1>10. CASE /\ \/ TaskPoisoned(p, i) /\ s.task = "waiting"
               \/ TaskFails(p, i) /\ s.task = "thrown"
            /\ t = [s EXCEPT !.task = "gone", !.parseDone = "error"]
  <2>1. t.parseDone = "error" /\ s.task # "throwing"
    <3>1. s.task # "throwing"
      BY <1>10
    <3>2. t.parseDone = "error"
      <4> HIDE DEF s, t
      <4> QED BY <1>1, <1>10 DEF SliceT
    <3> QED BY <3>1, <3>2
  <2>2. parseDone' = parseDone /\ pic' = [pic EXCEPT ![p].failed = TRUE]
    BY <1>10 DEF TaskPoisoned, TaskFails, Gone
  <2>3. /\ pic'[p].error = pic[p].error /\ pic'[p].exceptionThrownOut = pic[p].exceptionThrownOut
        /\ pic'[p].place = pic[p].place
    BY <1>4, <2>2 DEF TypeInv, PicT
  <2>4. BarrierInv(p)'
    BY <1>2, <2>1 DEF BarrierInv, Failed
  <2>5. PendingInv(p)'
    BY <1>2, <2>1, <2>2, <2>3 DEF ErrorInv, PendingInv
  <2>6. ReportedInv(p)'
    BY <2>3 DEF ErrorInv, ReportedInv
  <2> QED BY <2>4, <2>5, <2>6 DEF ErrorInv
<1> QED BY <1>1, <1>6, <1>7, <1>8, <1>9, <1>10 DEF TaskChange

(* A caught exception is thrown out.                                       *)
LEMMA ErrorCaught ==
  ASSUME ParseAssumption, TypeInv, NEW r \in 0..NumPictures, CaughtIn(r), NEW q \in Pics, ErrorInv(q),
         \A i \in Indices(q) : i \in Indices(q)' /\ Slice(q, i)' = Slice(q, i)
  PROVE  ErrorInv(q)'
<1>1. CASE q = r
  <2>1. r # 0 /\ pic[q] \in PicT
    BY <1>1 DEF Pics, TypeInv, ParseAssumption
  <2>2. pic'[q].exceptionThrownOut
    BY <1>1, <2>1 DEF CaughtIn, TypeInv, PicT
  <2>3. parseDone'[q] # "error"
    BY <1>1, <2>1 DEF CaughtIn, TypeInv
  <2> QED BY <2>2, <2>3 DEF ErrorInv, BarrierInv, PendingInv, ReportedInv
<1>2. CASE q # r
  <2>1. pic'[q] = pic[q] /\ parseDone'[q] = parseDone[q]
    BY <1>2 DEF CaughtIn, TypeInv
  <2> QED BY <2>1, ErrorKept DEF Flags
<1> QED BY <1>1, <1>2

LEMMA ErrorAdd ==
  ASSUME ParseAssumption, TypeInv, TooManySlices \/ SliceWithoutTask \/ AddSlice,
         NEW q \in Pics, ErrorInv(q)
  PROVE  ErrorInv(q)'
<1>1. PICK t \in {"none", "waiting"} :
         \/ IsFirst /\ Fresh(Target, New(t)) /\ ~TooManySlices
         \/ ~IsFirst /\ slices[Target] # <<>> /\ Added(Target, New(t))
  BY AddedWhere
<1>2. Target \in Pics /\ Target \in 0..NumPictures
  BY AllocateShape DEF TooManySlices, SliceWithoutTask, AddSlice
<1>3. CASE ~IsFirst /\ Added(Target, New(t))
  <2>1. \A i \in Indices(q) : i \in Indices(q)' /\ Slice(q, i)' = Slice(q, i)
    <3>1. CASE q = Target
      <4>1. Len(slices[q]) \in Nat /\ Indices(q)' = 1..(Len(slices[q]) + 1)
        BY <1>3, <3>1, IndicesNat DEF Added, Indices
      <4> QED BY <1>3, <3>1, <4>1 DEF Added, Indices, Slice
    <3>2. CASE q # Target
      BY <1>3, <3>2 DEF Added, Others, Indices, Slice
    <3> QED BY <3>1, <3>2
  <2>2. CASE SliceWithoutTask
    BY <1>2, <1>3, <2>1, <2>2, ErrorCaught DEF SliceWithoutTask
  <2>3. CASE TooManySlices \/ AddSlice
    <3>1. pic' = pic /\ parseDone' = parseDone
      BY <1>3, <2>3 DEF TooManySlices, AddSlice
    <3> QED BY <2>1, <3>1, ErrorKept DEF Flags
  <2> QED BY <2>2, <2>3
<1>4. CASE IsFirst /\ Fresh(Target, New(t)) /\ ~TooManySlices
  <2>1. CASE q # Target
    <3>1. pic'[q] = pic[q] /\ parseDone'[q] = parseDone[q]
      BY <1>4, <2>1 DEF SliceWithoutTask, AddSlice, TypeInv
    <3>2. slices'[q] = slices[q]
      BY <1>4, <2>1 DEF Fresh, Others
    <3> QED BY <3>1, <3>2, ErrorKept DEF Flags, Indices, Slice
  <2>2. CASE q = Target
    <3>1. parseDone'[q] = "locked"
      BY <1>4, <2>2 DEF SliceWithoutTask, AddSlice, TypeInv
    <3>2. pic'[q].place # "done" /\ (pic'[q].error => pic'[q].exceptionThrownOut)
      <4>1. CASE SliceWithoutTask
        <5>1. pic'[q] = [NewPic EXCEPT !.error = TRUE, !.exceptionThrownOut = TRUE]
          BY <1>4, <2>2, <4>1 DEF SliceWithoutTask, TypeInv
        <5> QED BY <5>1 DEF NewPic
      <4>2. CASE AddSlice
        <5>1. pic'[q] = [NewPic EXCEPT !.place = "list"]
          BY <1>4, <2>2, <4>2 DEF AddSlice, TypeInv
        <5> QED BY <5>1 DEF NewPic
      <4> QED BY <1>4, <4>1, <4>2
    <3> QED BY <3>1, <3>2 DEF ErrorInv, BarrierInv, PendingInv, ReportedInv
  <2> QED BY <2>1, <2>2
<1> QED BY <1>1, <1>3, <1>4

LEMMA ErrorSanitize ==
  ASSUME TypeInv, SanitizeInv, Sanitize, NEW q \in Pics, ErrorInv(q)
  PROVE  ErrorInv(q)'
<1>0. /\ slices' = slices /\ main.pc = "sanitize"
      /\ parseDone' = IF main.exc THEN [parseDone EXCEPT ![main.pic] = "locked"] ELSE parseDone
  BY DEF Sanitize
<1>1. CASE q # main.pic
  <2>1. pic'[q] = pic[q] /\ parseDone'[q] = parseDone[q]
    BY <1>0, <1>1 DEF Sanitize, TypeInv
  <2> QED BY <1>0, <2>1, ErrorKept DEF Flags, Indices, Slice
<1>2. CASE q = main.pic
  <2> DEFINE out == pic[q].exceptionThrownOut \/ main.exc \/ (~main.exc /\ parseDone[q] = "error")
  <2>1. pic[q] \in PicT
    BY DEF TypeInv
  <2>2. pic' = [pic EXCEPT ![q].error = TRUE, ![q].place = "done", ![q].exceptionThrownOut = out]
    BY <1>2 DEF Sanitize
  <2>3. out
    <3> SUFFICES ASSUME ~main.exc, ~pic[q].exceptionThrownOut PROVE parseDone[q] = "error"
      OBVIOUS
    <3>1. pic[q].error
      BY <1>0, <1>2 DEF SanitizeInv
    <3>2. \A i \in Indices(q) : Slice(q, i).task # "throwing"
      BY <1>2 DEF Sanitize, InPool, Indices
    <3> QED BY <3>1, <3>2 DEF ErrorInv, PendingInv
  <2> HIDE DEF out
  <2>4. pic'[q].exceptionThrownOut
    BY <2>1, <2>2, <2>3 DEF TypeInv, PicT
  <2>5. parseDone'[q] = "error" => parseDone[q] = "error"
    BY <1>0, <1>2 DEF TypeInv
  <2>6. BarrierInv(q)'
    BY <1>0, <2>5 DEF ErrorInv, BarrierInv, Indices, Slice, Failed
  <2> QED BY <2>4, <2>6 DEF ErrorInv, PendingInv, ReportedInv
<1> QED BY <1>1, <1>2

LEMMA SanitizeStep ==
  ASSUME ParseAssumption, TypeInv, SanitizeInv, [Next]_vars
  PROVE  SanitizeInv'
<1>0. \A pc : In(pc).pc = pc
  BY DEF In
<1>1. CASE \/ SliceLost \/ HeaderUnreadable \/ HeaderRejected \/ HeaderFails
           \/ TooManySlices \/ SliceWithoutTask \/ AddSlice
  <2>1. main' = main \/ main' = In("choose") \/ main' = In("stopped")
    BY <1>1 DEF CaughtIn, SliceLost, HeaderUnreadable, HeaderRejected, HeaderFails, TooManySlices,
                SliceWithoutTask, AddSlice
  <2>2. Arrives
    BY <1>1 DEF SliceLost, HeaderUnreadable, HeaderRejected, HeaderFails, TooManySlices, SliceWithoutTask,
                AddSlice, Allocates
  <2>3. main.pc = "app"
    BY <2>2 DEF Arrives
  <2> QED BY <1>0, <2>1, <2>3 DEF SanitizeInv
<1>2. CASE UNCHANGED vars \/ Flush \/ ChooseNone
  BY <1>0, <1>2 DEF SanitizeInv, vars, Flush, ChooseNone
<1>3. CASE Choose
  <2> DEFINE p == parseFrameList[NextDecodable]
  <2>1. CASE pic[p].error \/ parseDone[p] = "error"
    <3>1. main' = [pc |-> "sanitize", pic |-> p, exc |-> parseDone[p] = "error"] /\ pic' = pic
      BY <1>3, <2>1 DEF Choose
    <3> HIDE DEF p
    <3>2. main'.pic = p /\ main'.exc = (parseDone[p] = "error")
      BY <3>1
    <3> QED BY <2>1, <3>1, <3>2 DEF SanitizeInv
  <2>2. CASE ~(pic[p].error \/ parseDone[p] = "error")
    <3>1. main' = In("app")
      BY <1>3, <2>2 DEF Choose
    <3> QED BY <1>0, <3>1 DEF SanitizeInv
  <2> QED BY <2>1, <2>2
<1>4. CASE Sanitize
  <2>1. main' = In("stopped") \/ main' = In("app") \/ main' = In("choose")
    BY <1>4 DEF Sanitize
  <2> QED BY <1>0, <2>1 DEF SanitizeInv
<1>5. ASSUME NEW p \in Pics, NEW i \in 1..Len(slices[p]), Task(p, i)
      PROVE  SanitizeInv'
  <2>1. main' = main
    BY <1>5, TaskShape DEF TaskOnly
  <2>2. ASSUME NEW q \in Pics, pic[q].error PROVE pic'[q].error
    <3>1. pic[q] \in PicT
      BY DEF TypeInv
    <3>2. \/ pic' = pic \/ pic' = [pic EXCEPT ![p].failed = TRUE] \/ pic' = [pic EXCEPT ![p].error = TRUE]
      BY <1>5 DEF Task, TaskStarts, TaskPoisoned, BeginCtu, EndCtu, TaskEnds, TaskThrows, ExceptionSet,
                  TaskFails, Gone
    <3>3. CASE q # p
      BY <2>2, <3>2, <3>3 DEF TypeInv
    <3>4. CASE q = p
      <4>1. \/ pic'[q] = pic[q] \/ pic'[q] = [pic[q] EXCEPT !.failed = TRUE]
            \/ pic'[q] = [pic[q] EXCEPT !.error = TRUE]
        BY <3>2, <3>4, ZenonT(30) DEF TypeInv
      <4> DEFINE old == pic[q]  new == pic'[q]
      <4>2. /\ old \in PicT /\ old.error
            /\ new = old \/ new = [old EXCEPT !.failed = TRUE] \/ new = [old EXCEPT !.error = TRUE]
        BY <2>2, <3>1, <4>1
      <4> HIDE DEF old, new
      <4>3. new.error
        BY <4>2, ZenonT(30) DEF PicT
      <4> QED BY <4>3 DEF new
    <3> QED BY <3>3, <3>4
  <2> QED BY <2>1, <2>2 DEF SanitizeInv
<1> QED BY <1>1, <1>2, <1>3, <1>4, <1>5 DEF Next, DecLib

LEMMA ErrorStep ==
  ASSUME ParseAssumption, BaseInv, AllErrorInv, [Next]_vars
  PROVE  AllErrorInv'
<1>0. TypeInv /\ SlicesInv /\ SanitizeInv /\ SanitizeInv'
  BY SanitizeStep DEF BaseInv, AllErrorInv
<1> SUFFICES ASSUME NEW q \in Pics PROVE ErrorInv(q)'
  BY <1>0 DEF AllErrorInv, Pics
<1>1. ErrorInv(q)
  BY DEF AllErrorInv
<1>2. ASSUME slices'[q] = slices[q] PROVE \A i \in Indices(q) : i \in Indices(q)' /\ Slice(q, i)' = Slice(q, i)
  BY <1>2 DEF Indices, Slice
<1>3. CASE TooManySlices \/ SliceWithoutTask \/ AddSlice
  BY <1>0, <1>1, <1>3, ErrorAdd
<1>4. CASE HeaderUnreadable \/ HeaderRejected \/ HeaderFails
  <2>1. slices' = slices /\ CaughtIn(ParsePic) /\ Arrives
    BY <1>4 DEF HeaderUnreadable, HeaderRejected, HeaderFails
  <2>2. ParsePic \in 0..NumPictures
    BY <1>0, <2>1, ArrivesTypes
  <2> QED BY <1>0, <1>1, <1>2, <2>1, <2>2, ErrorCaught
<1>5. CASE UNCHANGED vars \/ SliceLost \/ Flush \/ ChooseNone
  <2>1. slices' = slices /\ parseDone' = parseDone /\ pic' = pic
    BY <1>5 DEF vars, SliceLost, Flush, ChooseNone, taskVars
  <2> QED BY <1>1, <1>2, <2>1, ErrorKept DEF Flags
<1>6. CASE Choose
  <2> DEFINE p == parseFrameList[NextDecodable]
  <2>1. slices' = slices /\ parseDone' = parseDone
    BY <1>6 DEF Choose, taskVars
  <2>2. pic' = pic \/ pic' = [pic EXCEPT ![p].place = "recon"]
    BY <1>6 DEF Choose
  <2> HIDE DEF p
  <2>3. pic[q] \in PicT
    BY <1>0 DEF TypeInv
  <2>4. CASE pic'[q] = pic[q]
    BY <1>1, <1>2, <2>1, <2>4, ErrorKept DEF Flags
  <2>5. CASE pic'[q] # pic[q]
    <3>1. pic'[q] = [pic[q] EXCEPT !.place = "recon"]
      <4>1. pic' = [pic EXCEPT ![p].place = "recon"]
        BY <2>2, <2>5
      <4>2. p = q
        BY <1>0, <2>5, <4>1 DEF TypeInv
      <4> QED BY <1>0, <4>1, <4>2 DEF TypeInv
    <3>2. pic'[q].error = pic[q].error /\ pic'[q].exceptionThrownOut = pic[q].exceptionThrownOut /\ pic'[q].place = "recon"
      BY <2>3, <3>1 DEF PicT
    <3> QED BY <1>1, <1>2, <2>1, <3>2 DEF ErrorInv, BarrierInv, PendingInv, ReportedInv
  <2> QED BY <2>4, <2>5
<1>7. CASE Sanitize
  BY <1>0, <1>1, <1>7, ErrorSanitize
<1>8. ASSUME NEW p \in Pics, NEW i \in Indices(p), Task(p, i)
      PROVE  ErrorInv(q)'
  <2>1. CASE q = p
    BY <1>0, <1>1, <1>8, <2>1, ErrorTask DEF SlicesInv
  <2>2. CASE q # p
    <3>1. slices'[q] = slices[q]
      BY <1>0, <1>8, <2>2, TaskShape, ZenonT(30) DEF TaskChange, Changed, Others, Indices
    <3>2. parseDone'[q] = parseDone[q] /\ pic'[q] = pic[q]
      BY <1>0, <1>8, <2>2, OtherDone
    <3> QED BY <1>1, <1>2, <3>1, <3>2, ErrorKept DEF Flags
  <2> QED BY <2>1, <2>2
<1> QED BY <1>3, <1>4, <1>5, <1>6, <1>7, <1>8 DEF Next, DecLib, Indices

(* For every size and layout and any faults: a broken picture that has     *)
(* left the parse list has told the application, whenever its parse task   *)
(* threw (DecLib::sanitizeBrokenPicture and finishPicture).                *)
THEOREM ErrorsAlwaysReported == Spec => []ErrorsReported
<1> USE ParseAssumption
<1>1. Init => AllErrorInv
  <2> SUFFICES ASSUME Init PROVE AllErrorInv
    OBVIOUS
  <2>1. \A p \in Pics : ~pic[p].error /\ pic[p].place = "none" /\ parseDone[p] = "unlocked"
    BY DEF Init, NewPic
  <2>2. main.pc = "app"
    BY DEF Init, In
  <2> QED BY <2>1, <2>2 DEF AllErrorInv, SanitizeInv, ErrorInv, BarrierInv, PendingInv, ReportedInv
<1>2. BaseInv /\ AllErrorInv /\ [Next]_vars => AllErrorInv'
  BY ErrorStep
<1>3. BaseInv /\ AllErrorInv => ErrorsReported
  BY DEF AllErrorInv, ErrorInv, ReportedInv, ErrorsReported
<1> QED BY <1>1, <1>2, <1>3, BaseInvariant, PTL DEF Spec
-----------------------------------------------------------------------------
(* NAL units come in order, so the slices of one picture have growing      *)
(* numbers.                                                                *)
NumberInv(p) ==
  \A i \in Indices(p) :
    /\ Slice(p, i).poc < nal.pic \/ (Slice(p, i).poc = nal.pic /\ Slice(p, i).id < nal.slice)
    /\ \A j \in Indices(p) : j < i /\ Slice(p, j).poc = Slice(p, i).poc => Slice(p, j).id < Slice(p, i).id

NumbersInv == \A p \in Pics : NumberInv(p)

LEMMA NalGrows ==
  ASSUME ParseAssumption, TypeInv, Arrives
  PROVE  /\ nal.pic \in Nat /\ nal.slice \in Nat /\ nal.pic > 0 /\ nal.slice > 0
         /\ \/ nal'.pic = nal.pic /\ nal'.slice = nal.slice + 1
            \/ nal'.pic = nal.pic + 1 /\ nal'.slice = 1
<1>1. /\ nal.pic \in Nat \ {0} /\ nal.slice \in 1..Len(sliceMap) /\ Len(sliceMap) \in Nat
      /\ nal = [pic |-> nal.pic, slice |-> nal.slice]
  BY MapShape DEF TypeInv
<1>2. CASE nal.slice < Len(sliceMap)
  <2>1. nal' = [pic |-> nal.pic, slice |-> nal.slice + 1]
    BY <1>1, <1>2 DEF Arrives
  <2> QED BY <1>1, <2>1
<1>3. CASE ~(nal.slice < Len(sliceMap))
  <2>1. nal' = [pic |-> nal.pic + 1, slice |-> 1]
    BY <1>3 DEF Arrives
  <2> QED BY <1>1, <2>1
<1> QED BY <1>2, <1>3

LEMMA NumbersKept ==
  ASSUME ParseAssumption, TypeInv, NEW p \in Pics, NumberInv(p), Indices(p)' = Indices(p),
         \A i \in Indices(p) : (Slice(p, i).poc)' = Slice(p, i).poc /\ (Slice(p, i).id)' = Slice(p, i).id,
         nal' = nal \/ Arrives
  PROVE  NumberInv(p)'
<1>1. ASSUME NEW i \in Indices(p)
      PROVE  \/ Slice(p, i).poc < nal'.pic
             \/ Slice(p, i).poc = nal'.pic /\ Slice(p, i).id < nal'.slice
  <2>1. Slice(p, i).poc \in Nat /\ Slice(p, i).id \in Nat
    BY SliceTyped DEF SliceT, Indices
  <2>2. Slice(p, i).poc < nal.pic \/ (Slice(p, i).poc = nal.pic /\ Slice(p, i).id < nal.slice)
    BY DEF NumberInv
  <2> QED BY <2>1, <2>2, NalGrows
<1> QED BY <1>1 DEF NumberInv

LEMMA NumbersAdded ==
  ASSUME ParseAssumption, TypeInv, NEW p \in Pics, NEW t \in {"none", "waiting"}, NumberInv(p), Arrives,
         Fresh(p, New(t)) \/ Added(p, New(t))
  PROVE  NumberInv(p)'
<1>1. New(t).poc = nal.pic /\ New(t).id = nal.slice
  BY DEF New, NewSlice
<1>2. /\ nal.pic \in Nat /\ nal.slice \in Nat /\ nal'.pic \in Nat /\ nal'.slice \in Nat
      /\ nal.pic < nal'.pic \/ (nal.pic = nal'.pic /\ nal.slice < nal'.slice)
  BY NalGrows
<1>3. CASE Fresh(p, New(t))
  <2>1. Indices(p)' = {1} /\ Slice(p, 1)' = New(t)
    BY <1>3 DEF Fresh, Indices, Slice
  <2> QED BY <1>1, <1>2, <2>1 DEF NumberInv
<1>4. CASE Added(p, New(t))
  <2> DEFINE n == Len(slices[p]) + 1
  <2>1. Len(slices[p]) \in Nat /\ n \in Nat
    BY IndicesNat
  <2>2. /\ Indices(p)' = Indices(p) \cup {n} /\ slices'[p][n] = New(t)
        /\ \A j \in Indices(p) : j \in Nat /\ j < n /\ slices'[p][j] = slices[p][j]
    BY <1>4, <2>1 DEF Added, Indices
  <2> HIDE DEF n
  <2>3. ASSUME NEW i \in Indices(p)
        PROVE  /\ Slice(p, i).poc \in Nat /\ Slice(p, i).id \in Nat
               /\ Slice(p, i).poc < nal.pic \/ (Slice(p, i).poc = nal.pic /\ Slice(p, i).id < nal.slice)
    BY SliceTyped DEF SliceT, NumberInv, Indices
  <2>4. ASSUME NEW i \in Indices(p)'
        PROVE  /\ \/ slices'[p][i].poc < nal'.pic
                  \/ slices'[p][i].poc = nal'.pic /\ slices'[p][i].id < nal'.slice
               /\ \A j \in Indices(p)' :
                    j < i /\ slices'[p][j].poc = slices'[p][i].poc => slices'[p][j].id < slices'[p][i].id
    <3>1. CASE i = n
      <4>1. ASSUME NEW j \in Indices(p)', j < n, slices'[p][j].poc = nal.pic
            PROVE  slices'[p][j].id < nal.slice
        <5>1. j \in Indices(p)
          BY <2>1, <2>2, <4>1
        <5> QED BY <1>2, <2>2, <2>3, <4>1, <5>1 DEF Slice
      <4> QED BY <1>1, <1>2, <2>2, <3>1, <4>1
    <3>2. CASE i \in Indices(p)
      <4>1. slices'[p][i] = Slice(p, i)
        BY <2>2, <3>2 DEF Slice
      <4>2. ASSUME NEW j \in Indices(p)', j < i PROVE j \in Indices(p) /\ slices'[p][j] = Slice(p, j)
        BY <2>1, <2>2, <3>2, <4>2 DEF Slice
      <4>3. \/ Slice(p, i).poc < nal'.pic
            \/ Slice(p, i).poc = nal'.pic /\ Slice(p, i).id < nal'.slice
        BY <1>2, <2>3, <3>2
      <4>4. \A j \in Indices(p) : j < i /\ Slice(p, j).poc = Slice(p, i).poc => Slice(p, j).id < Slice(p, i).id
        BY <3>2 DEF NumberInv
      <4> QED BY <4>1, <4>2, <4>3, <4>4
    <3> QED BY <2>2, <3>1, <3>2
  <2> QED BY <2>4 DEF NumberInv, Slice
<1> QED BY <1>3, <1>4

LEMMA NalShape ==
  ASSUME [Next]_vars
  PROVE  /\ nal' = nal \/ Arrives
         /\ TooManySlices \/ SliceWithoutTask \/ AddSlice => Arrives
<1>1. CASE UNCHANGED vars \/ DecLib
  BY <1>1 DEF vars, DecLib, Flush, ChooseNone, Choose, Sanitize, parserVars, TooManySlices, SliceWithoutTask,
              AddSlice, Allocates
<1>2. CASE SliceLost \/ HeaderUnreadable \/ HeaderRejected \/ HeaderFails
  BY <1>2 DEF SliceLost, HeaderUnreadable, HeaderRejected, HeaderFails
<1>3. CASE TooManySlices \/ SliceWithoutTask \/ AddSlice
  BY <1>3 DEF TooManySlices, SliceWithoutTask, AddSlice, Allocates
<1>4. ASSUME NEW p \in Pics, NEW i \in 1..Len(slices[p]), Task(p, i) PROVE nal' = nal
  BY <1>4 DEF Task, TaskStarts, TaskPoisoned, BeginCtu, EndCtu, TaskEnds, TaskThrows, ExceptionSet, TaskFails,
              Gone, TaskOnly, parserVars
<1> QED BY <1>1, <1>2, <1>3, <1>4
        DEF Next, TooManySlices, SliceWithoutTask, AddSlice, Allocates

LEMMA NumbersStep ==
  ASSUME ParseAssumption, TypeInv, NumbersInv, [Next]_vars
  PROVE  NumbersInv'
<1> SUFFICES ASSUME NEW q \in Pics PROVE NumberInv(q)'
  BY DEF NumbersInv, Pics
<1>0. NumberInv(q) /\ (nal' = nal \/ Arrives)
  BY NalShape DEF NumbersInv
<1>1. ASSUME slices'[q] = slices[q] PROVE NumberInv(q)'
  <2>1. /\ Indices(q)' = Indices(q)
        /\ \A i \in Indices(q) : (Slice(q, i).poc)' = Slice(q, i).poc /\ (Slice(q, i).id)' = Slice(q, i).id
    BY <1>1 DEF Indices, Slice
  <2> QED BY <1>0, <2>1, NumbersKept
<1>2. CASE TooManySlices \/ SliceWithoutTask \/ AddSlice
  <2>1. CASE q = Target
    <3>1. Arrives
      BY <1>2, NalShape
    <3>2. \E t \in {"none", "waiting"} : Fresh(q, New(t)) \/ Added(q, New(t))
      BY <1>2, <2>1, AddedWhere
    <3> QED BY <1>0, <3>1, <3>2, NumbersAdded
  <2>2. CASE q # Target
    <3>1. slices'[q] = slices[q]
      BY <1>2, <2>2, AddedWhere DEF Fresh, Added, Others
    <3> QED BY <1>1, <3>1
  <2> QED BY <2>1, <2>2
<1>3. ASSUME NEW p \in Pics, NEW i \in Indices(p), Task(p, i)
      PROVE  NumberInv(q)'
  <2>1. TaskChange(p, i, Slice(p, i), Slice(p, i)')
    BY <1>3, TaskShape DEF Indices
  <2>2. CASE q = p
    <3>1. Indices(p)' = Indices(p)
      BY <2>1 DEF TaskChange, Changed, Indices
    <3>2. ASSUME NEW k \in Indices(p)
          PROVE  (Slice(p, k).poc)' = Slice(p, k).poc /\ (Slice(p, k).id)' = Slice(p, k).id
      BY <2>1 DEF TaskChange, Changed, Indices, Slice
    <3> QED BY <1>0, <2>2, <3>1, <3>2, NumbersKept
  <2>3. CASE q # p
    <3>1. slices'[q] = slices[q]
      BY <2>1, <2>3 DEF TaskChange, Changed, Others
    <3> QED BY <1>1, <3>1
  <2> QED BY <2>2, <2>3
<1> QED BY <1>1, <1>2, <1>3, StepShape
-----------------------------------------------------------------------------
(* The parse list holds pictures that were put there, and DecLib takes one *)
(* of them.                                                                *)
Taken == {p \in Pics : pic[p].place # "none"}

PlaceInv ==
  /\ \A p \in Taken : p < nal.pic \/ (p = nal.pic /\ nal.slice > 1)
  /\ parseFrameList \in Seq(Taken)
  /\ main.pc = "sanitize" => main.pic \in Taken

LEMMA LeastElement ==
  ASSUME NEW T \in SUBSET Nat, T # {}
  PROVE  Min(T) \in T
<1> DEFINE R == OpToRel(<, Nat)
<1>1. IsWellFoundedOn(R, Nat)
  BY NatLessThanWellFounded
<1>2. \A x, y \in Nat : <<y, x>> \in R <=> y < x
  BY DEF OpToRel
<1> HIDE DEF R
<1>3. PICK x \in T : \A y \in T : ~(<<y, x>> \in R)
  BY <1>1, WFMin
<1>4. ASSUME NEW y \in T PROVE x =< y
  <2>1. x \in Nat /\ y \in Nat /\ ~(<<y, x>> \in R)
    BY <1>3
  <2>2. ~(y < x)
    BY <1>2, <2>1
  <2> QED BY <2>1, <2>2
<1> QED BY <1>3, <1>4 DEF Min

LEMMA NextInList ==
  ASSUME NEW T, parseFrameList \in Seq(T), parseFrameList # <<>>
  PROVE  NextDecodable \in 1..Len(parseFrameList)
<1> DEFINE I == {i \in 1..Len(parseFrameList) : Decodable(parseFrameList[i])}
           k == SelectInSeq(parseFrameList, Decodable)
<1>1. Len(parseFrameList) \in Nat /\ Len(parseFrameList) > 0
  BY EmptySeq
<1>2. k = IF I # {} THEN Min(I) ELSE 0
  BY DEF SelectInSeq
<1>3. I \in SUBSET Nat /\ I \subseteq 1..Len(parseFrameList)
  BY <1>1
<1> HIDE DEF I
<1>4. k = 0 \/ k \in 1..Len(parseFrameList)
  BY <1>2, <1>3, LeastElement
<1>5. NextDecodable = 1 \/ (k # 0 /\ NextDecodable = k)
  BY DEF NextDecodable
<1> HIDE DEF k
<1> QED BY <1>1, <1>4, <1>5

LEMMA RemovedShape ==
  ASSUME NEW T, NEW seq \in Seq(T), NEW i \in 1..Len(seq)
  PROVE  RemoveAt(seq, i) \in Seq(T)
<1>1. Len(seq) \in Nat /\ i \in Int /\ i - 1 \in Int /\ i + 1 \in Int /\ 1 \in Int
  BY LenProperties
<1>2. \A j \in 1..(i - 1) : seq[j] \in T
  BY <1>1, ElementOfSeq
<1>3. \A j \in (i + 1)..Len(seq) : seq[j] \in T
  BY <1>1, ElementOfSeq
<1>4. SubSeq(seq, 1, i - 1) \in Seq(T)
  BY <1>1, <1>2, SubSeqProperties
<1>5. SubSeq(seq, i + 1, Len(seq)) \in Seq(T)
  BY <1>1, <1>3, SubSeqProperties
<1> QED BY <1>4, <1>5, ConcatProperties DEF RemoveAt

(* Steps that keep the place of every picture.                             *)
LEMMA PlaceKept ==
  ASSUME ParseAssumption, TypeInv, PlaceInv, Taken' = Taken, nal' = nal \/ Arrives,
         parseFrameList' \in Seq(Taken), main'.pc = "sanitize" => main'.pic \in Taken
  PROVE  PlaceInv'
<1>1. ASSUME NEW p \in Taken PROVE p < nal'.pic \/ (p = nal'.pic /\ nal'.slice > 1)
  <2>1. p \in Nat /\ (p < nal.pic \/ (p = nal.pic /\ nal.slice > 1))
    BY DEF PlaceInv, Taken, Pics, ParseAssumption
  <2> QED BY <2>1, NalGrows
<1> QED BY <1>1 DEF PlaceInv

LEMMA CaughtPlaces ==
  ASSUME TypeInv, NEW r, CaughtIn(r)
  PROVE  Taken' = Taken
<1>1. ASSUME NEW q \in Pics PROVE pic'[q].place = pic[q].place
  <2>1. pic[q] \in PicT
    BY DEF TypeInv
  <2>2. CASE q # r \/ r = 0
    BY <2>2 DEF CaughtIn, TypeInv
  <2>3. CASE q = r /\ r # 0
    <3>1. pic'[q] = [pic[q] EXCEPT !.error = TRUE, !.exceptionThrownOut = TRUE]
      BY <2>3 DEF CaughtIn, TypeInv
    <3> QED BY <2>1, <3>1 DEF PicT
  <2> QED BY <2>2, <2>3
<1> QED BY <1>1 DEF Taken, Pics

LEMMA TaskPlaces ==
  ASSUME TypeInv, NEW p \in Pics, NEW i \in Indices(p), Task(p, i)
  PROVE  Taken' = Taken /\ \A q \in Pics : pic'[q].place = pic[q].place
<1>1. ASSUME NEW q \in Pics PROVE pic'[q].place = pic[q].place
  <2>1. pic[q] \in PicT
    BY DEF TypeInv
  <2>2. \/ pic' = pic \/ pic' = [pic EXCEPT ![p].failed = TRUE] \/ pic' = [pic EXCEPT ![p].error = TRUE]
    BY DEF Task, TaskStarts, TaskPoisoned, BeginCtu, EndCtu, TaskEnds, TaskThrows, ExceptionSet, TaskFails, Gone
  <2>3. CASE q # p
    BY <2>2, <2>3 DEF TypeInv
  <2>4. CASE q = p
    <3> DEFINE old == pic[q]  new == pic'[q]
    <3>1. /\ old \in PicT
          /\ new = old \/ new = [old EXCEPT !.failed = TRUE] \/ new = [old EXCEPT !.error = TRUE]
      BY <2>1, <2>2, <2>4 DEF TypeInv
    <3> HIDE DEF old, new
    <3>2. new.place = old.place
      BY <3>1 DEF PicT
    <3> QED BY <3>2 DEF old, new
  <2> QED BY <2>3, <2>4
<1> QED BY <1>1 DEF Taken, Pics

LEMMA AddTaken ==
  ASSUME ParseAssumption, TypeInv, PlaceInv, TooManySlices \/ SliceWithoutTask
  PROVE  Taken' = Taken
<1>0. Target \in Pics /\ (IsFirst => Target \notin Taken)
  <2>1. Allocates
    BY DEF TooManySlices, SliceWithoutTask
  <2>2. Target \in Pics /\ (IsFirst => Target = nal.pic /\ nal.slice = 1)
    BY <2>1, AllocateShape DEF Target, IsFirst
  <2> QED BY <2>2 DEF PlaceInv, Pics, ParseAssumption
<1>1. CASE TooManySlices
  BY <1>1 DEF TooManySlices, Taken, Pics
<1>2. CASE SliceWithoutTask /\ ~IsFirst
  BY <1>2, CaughtPlaces DEF SliceWithoutTask
<1>3. CASE SliceWithoutTask /\ IsFirst
  <2>1. pic' = [pic EXCEPT ![Target] = [NewPic EXCEPT !.error = TRUE, !.exceptionThrownOut = TRUE]]
    BY <1>3 DEF SliceWithoutTask
  <2>2. [NewPic EXCEPT !.error = TRUE, !.exceptionThrownOut = TRUE].place = "none"
    BY DEF NewPic
  <2>3. \A q \in Pics : pic'[q].place # "none" <=> pic[q].place # "none"
    BY <1>0, <1>3, <2>1, <2>2 DEF TypeInv, Taken
  <2> QED BY <2>3 DEF Taken, Pics
<1> QED BY <1>1, <1>2, <1>3

LEMMA AddPlaces ==
  ASSUME ParseAssumption, TypeInv, PlaceInv, TooManySlices \/ SliceWithoutTask \/ AddSlice
  PROVE  PlaceInv'
<1>1. Arrives /\ Allocates
  BY DEF TooManySlices, SliceWithoutTask, AddSlice, Allocates
<1>2. Target \in Pics /\ (IsFirst => Target = nal.pic /\ nal.slice = 1)
  BY <1>1, AllocateShape DEF Target, IsFirst
<1>3. main'.pc # "sanitize"
  <2>1. main' = main \/ main' = In("choose") \/ main' = In("stopped")
    BY DEF TooManySlices, SliceWithoutTask, AddSlice, CaughtIn
  <2> QED BY <1>1, <2>1 DEF Arrives, In
<1>4. IsFirst => Target \notin Taken
  BY <1>2 DEF PlaceInv, Pics, ParseAssumption
<1>5. CASE TooManySlices \/ SliceWithoutTask
  <2>1. Taken' = Taken
    BY <1>5, AddTaken
  <2>2. parseFrameList' = parseFrameList
    BY <1>5 DEF TooManySlices, SliceWithoutTask, CaughtIn
  <2> QED BY <1>1, <1>3, <2>1, <2>2, PlaceKept DEF PlaceInv
<1>6. CASE AddSlice /\ ~IsFirst
  <2>1. pic' = pic /\ parseFrameList' = parseFrameList
    BY <1>6 DEF AddSlice
  <2>2. Taken' = Taken
    BY <2>1 DEF Taken, Pics
  <2> QED BY <1>1, <1>3, <2>1, <2>2, PlaceKept DEF PlaceInv
<1>7. CASE AddSlice /\ IsFirst
  <2>1. /\ pic' = [pic EXCEPT ![Target] = [NewPic EXCEPT !.place = "list"]]
        /\ parseFrameList' = Append(parseFrameList, Target)
    BY <1>7 DEF AddSlice
  <2>2. [NewPic EXCEPT !.place = "list"].place = "list"
    BY DEF NewPic
  <2>3. Taken' = Taken \cup {Target}
    <3>1. \A q \in Pics : pic'[q].place # "none" <=> pic[q].place # "none" \/ q = Target
      BY <1>2, <2>1, <2>2 DEF TypeInv
    <3> QED BY <1>2, <3>1 DEF Taken, Pics
  <2>4. parseFrameList' \in Seq(Taken')
    <3>1. parseFrameList \in Seq(Taken')
      BY <2>3, SeqMonotonic DEF PlaceInv
    <3> QED BY <2>1, <2>3, <3>1, AppendProperties
  <2>5. ASSUME NEW p \in Taken' PROVE p < nal'.pic \/ (p = nal'.pic /\ nal'.slice > 1)
    <3>1. p \in Nat /\ (p < nal.pic \/ p = nal.pic)
      BY <1>2, <1>7, <2>3 DEF PlaceInv, Taken, Pics, ParseAssumption
    <3> QED BY <1>1, <3>1, NalGrows
  <2> QED BY <1>3, <2>4, <2>5 DEF PlaceInv
<1> QED BY <1>5, <1>6, <1>7

LEMMA MainTaken ==
  ASSUME ParseAssumption, TypeInv, PlaceInv, DecLib
  PROVE  Taken' = Taken
<1>1. CASE Flush \/ ChooseNone
  BY <1>1 DEF Flush, ChooseNone, Taken, Pics
<1>2. CASE Choose
  <2> DEFINE k == NextDecodable  p == parseFrameList[k]
  <2>1. parseFrameList # <<>> /\ parseFrameList \in Seq(Taken)
    BY <1>2 DEF Choose, PlaceInv
  <2>2. p \in Taken
    BY <2>1, NextInList, ElementOfSeq
  <2>3. pic' = pic \/ pic' = [pic EXCEPT ![p].place = "recon"]
    BY <1>2 DEF Choose
  <2> HIDE DEF k, p
  <2>4. ASSUME NEW q \in Pics PROVE pic'[q].place # "none" <=> pic[q].place # "none"
    <3>1. pic[q] \in PicT
      BY DEF TypeInv
    <3>2. CASE pic'[q] = pic[q]
      BY <3>2
    <3>3. CASE q = p /\ pic' = [pic EXCEPT ![p].place = "recon"]
      <4>1. pic'[q] = [pic[q] EXCEPT !.place = "recon"]
        BY <3>3 DEF TypeInv
      <4>2. pic'[q].place = "recon"
        BY <3>1, <4>1 DEF PicT
      <4> QED BY <2>2, <3>3, <4>2 DEF Taken
    <3> QED BY <2>3, <3>2, <3>3 DEF TypeInv
  <2> QED BY <2>4 DEF Taken, Pics
<1>3. CASE Sanitize
  <2> DEFINE p == main.pic
             out == pic[p].exceptionThrownOut \/ main.exc \/ (~main.exc /\ parseDone[p] = "error")
  <2>1. /\ main.pc = "sanitize"
        /\ pic' = [pic EXCEPT ![p].error = TRUE, ![p].place = "done", ![p].exceptionThrownOut = out]
    BY <1>3 DEF Sanitize
  <2>2. p \in Taken
    BY <2>1 DEF PlaceInv
  <2> HIDE DEF p, out
  <2>3. ASSUME NEW q \in Pics PROVE pic'[q].place # "none" <=> pic[q].place # "none"
    <3>1. pic[q] \in PicT
      BY DEF TypeInv
    <3>2. CASE q # p
      BY <2>1, <3>2 DEF TypeInv
    <3>3. CASE q = p
      <4>1. pic'[q] = [pic[q] EXCEPT !.error = TRUE, !.place = "done", !.exceptionThrownOut = out]
        BY <2>1, <3>3 DEF TypeInv
      <4>2. pic'[q].place = "done"
        BY <3>1, <4>1 DEF PicT
      <4> QED BY <2>2, <3>3, <4>2 DEF Taken
    <3> QED BY <3>2, <3>3
  <2> QED BY <2>3 DEF Taken, Pics
<1> QED BY <1>1, <1>2, <1>3 DEF DecLib

LEMMA MainPlaces ==
  ASSUME ParseAssumption, TypeInv, PlaceInv, DecLib
  PROVE  PlaceInv'
<1>0. nal' = nal /\ Taken' = Taken /\ \A pc : In(pc).pc = pc
  BY MainTaken DEF DecLib, Flush, ChooseNone, Choose, Sanitize, parserVars, In
<1>1. CASE Flush \/ ChooseNone
  <2>1. parseFrameList' = parseFrameList /\ main'.pc # "sanitize"
    BY <1>0, <1>1 DEF Flush, ChooseNone
  <2> QED BY <1>0, <2>1, PlaceKept DEF PlaceInv
<1>2. CASE Choose
  <2> DEFINE k == NextDecodable  p == parseFrameList[k]
  <2>1. parseFrameList # <<>> /\ parseFrameList \in Seq(Taken)
    BY <1>2 DEF Choose, PlaceInv
  <2>2. k \in 1..Len(parseFrameList) /\ p \in Taken
    BY <2>1, NextInList, ElementOfSeq
  <2>3. parseFrameList' = RemoveAt(parseFrameList, k)
    BY <1>2 DEF Choose
  <2>4. main' = In("app") \/ main' = [pc |-> "sanitize", pic |-> p, exc |-> parseDone[p] = "error"]
    BY <1>2 DEF Choose
  <2> HIDE DEF k, p
  <2>5. parseFrameList' \in Seq(Taken)
    BY <2>1, <2>2, <2>3, RemovedShape
  <2>6. main'.pc = "sanitize" => main'.pic \in Taken
    BY <1>0, <2>2, <2>4
  <2> QED BY <1>0, <2>5, <2>6, PlaceKept
<1>3. CASE Sanitize
  <2>1. /\ parseFrameList' = parseFrameList
        /\ main' = In("stopped") \/ main' = In("app") \/ main' = In("choose")
    BY <1>3 DEF Sanitize
  <2> QED BY <1>0, <2>1, PlaceKept DEF PlaceInv
<1> QED BY <1>1, <1>2, <1>3 DEF DecLib

LEMMA PlaceStep ==
  ASSUME ParseAssumption, TypeInv, PlaceInv, [Next]_vars
  PROVE  PlaceInv'
<1>1. CASE UNCHANGED vars
  BY <1>1 DEF vars, parserVars, PlaceInv, Taken, Pics
<1>2. CASE SliceLost \/ HeaderUnreadable \/ HeaderRejected \/ HeaderFails
  <2>1. Arrives /\ parseFrameList' = parseFrameList /\ main' = main
    BY <1>2 DEF SliceLost, HeaderUnreadable, HeaderRejected, HeaderFails, CaughtIn
  <2>2. Taken' = Taken
    BY <1>2, CaughtPlaces DEF SliceLost, HeaderUnreadable, HeaderRejected, HeaderFails, Taken, Pics
  <2> QED BY <2>1, <2>2, PlaceKept DEF PlaceInv
<1>3. CASE TooManySlices \/ SliceWithoutTask \/ AddSlice
  BY <1>3, AddPlaces
<1>4. CASE DecLib
  BY <1>4, MainPlaces
<1>5. ASSUME NEW p \in Pics, NEW i \in Indices(p), Task(p, i) PROVE PlaceInv'
  <2>1. nal' = nal /\ parseFrameList' = parseFrameList /\ main' = main
    BY <1>5, TaskShape DEF TaskOnly, parserVars, Indices
  <2>2. Taken' = Taken
    BY <1>5, TaskPlaces
  <2> QED BY <2>1, <2>2, PlaceKept DEF PlaceInv
<1> QED BY <1>1, <1>2, <1>3, <1>4, <1>5 DEF Next, Indices
-----------------------------------------------------------------------------
(* The barriers of the CTUs.  They are locked when the first slice of a    *)
(* picture comes; a CTU is parsed once, by the slice that has it, so that  *)
(* an open barrier means that the CTU is parsed and stays so.              *)
Disjoint ==
  \A map \in SliceMaps :
    \A k \in 1..Len(map) : \A j \in 1..Len(map) : \A n \in 1..Len(map[k]) : \A m \in 1..Len(map[j]) :
      map[k][n] = map[j][m] => k = j /\ n = m

Guarded(p) == pic[p].place # "none" /\ OnePicture(p)

Position(p, k, m) ==
  /\ m \in 1..Len(sliceMap[Slice(p, k).id])
  /\ m <= Slice(p, k).ctuIdx \/ (m = Slice(p, k).ctuIdx + 1 /\ Slice(p, k).inCtu)

Touched(p, c) ==
  \E k \in Indices(p) : \E m \in Nat : Position(p, k, m) /\ sliceMap[Slice(p, k).id][m] = c

OpenInv(p) ==
  \A c \in Ctus : ctuParsed[p][c] = "unlocked" => Started(p) /\ ctuData[p][c] = "parsed"

UpInv(p) ==
  Started(p) => \A c \in Ctus : \A n \in Ctus :
                  ctuData[p][c] = "parsed" /\ UpTo(n, c) => ctuData[p][n] = "parsed"

TouchedInv(p) == Started(p) => \A c \in Ctus : HasData(p, c) => Touched(p, c)

ParsedInv(p) == Guarded(p) => OpenInv(p) /\ UpInv(p) /\ TouchedInv(p)

AllParsedInv == \A p \in Pics : ParsedInv(p)

(* A step that keeps the data and opens nothing.                           *)
LEMMA ParsedKept ==
  ASSUME TypeInv, NEW p \in Pics, ParsedInv(p), Guarded(p)' => Guarded(p), Started(p)' = Started(p),
         ctuData'[p] = ctuData[p],
         \A c \in Ctus : ctuParsed'[p][c] = "unlocked" => ctuParsed[p][c] = "unlocked",
         \A c \in Ctus : Touched(p, c) => Touched(p, c)'
  PROVE  ParsedInv(p)'
<1> SUFFICES ASSUME Guarded(p)' PROVE OpenInv(p)' /\ UpInv(p)' /\ TouchedInv(p)'
  BY DEF ParsedInv
<1>1. OpenInv(p) /\ UpInv(p) /\ TouchedInv(p)
  BY DEF ParsedInv
<1>2. OpenInv(p)'
  BY <1>1 DEF OpenInv
<1>3. UpInv(p)'
  BY <1>1 DEF UpInv
<1>4. \A c \in Ctus : HasData(p, c)' <=> HasData(p, c)
  BY DEF HasData
<1>5. TouchedInv(p)'
  BY <1>1, <1>4 DEF TouchedInv
<1> QED BY <1>2, <1>3, <1>5

LEMMA ParsedAdded ==
  ASSUME ParseAssumption, TypeInv, NEW p \in Pics, NEW t \in {"none", "waiting"}, slices[p] # <<>>,
         Added(p, New(t)), ParsedInv(p), sliceMap' = sliceMap, ctuData' = ctuData, ctuParsed' = ctuParsed,
         pic'[p].place # "none" => pic[p].place # "none"
  PROVE  ParsedInv(p)'
<1>1. Len(slices[p]) \in Nat /\ 1 \in Indices(p)
  BY IndicesNat, FirstIndex
<1>2. \A k \in Indices(p) : k \in Indices(p)' /\ Slice(p, k)' = Slice(p, k)
  BY <1>1 DEF Added, Indices, Slice
<1>3. Started(p)' = Started(p)
  BY <1>1, <1>2 DEF Started, Added
<1>4. Guarded(p)' => Guarded(p)
  BY <1>2 DEF Guarded, OnePicture, Indices
<1>5. ASSUME NEW c \in Ctus, Touched(p, c) PROVE Touched(p, c)'
  <2>1. PICK k \in Indices(p) : \E m \in Nat : Position(p, k, m) /\ sliceMap[Slice(p, k).id][m] = c
    BY <1>5 DEF Touched
  <2>2. PICK m \in Nat : Position(p, k, m) /\ sliceMap[Slice(p, k).id][m] = c
    BY <2>1
  <2>3. Slice(p, k)' = Slice(p, k) /\ k \in Indices(p)'
    BY <1>2
  <2>4. Position(p, k, m)' /\ (sliceMap[Slice(p, k).id][m])' = c
    BY <2>2, <2>3 DEF Position
  <2> QED BY <2>3, <2>4 DEF Touched
<1> QED BY <1>3, <1>4, <1>5, ParsedKept

LEMMA GuardedTask ==
  ASSUME ParseAssumption, TypeInv, NEW p \in Pics, NEW i \in Indices(p), Task(p, i)
  PROVE  Guarded(p)' => Guarded(p)
<1>1. TaskChange(p, i, Slice(p, i), Slice(p, i)')
  BY TaskShape DEF Indices
<1>2. \A k \in Indices(p) : (Slice(p, k).poc)' = Slice(p, k).poc
  BY <1>1 DEF TaskChange, Changed, Indices, Slice
<1>3. Indices(p)' = Indices(p)
  BY <1>1 DEF TaskChange, Changed, Indices
<1> QED BY <1>2, <1>3, TaskPlaces DEF Guarded, OnePicture, Indices

(* What was touched stays so, whatever the slice does.                     *)
LEMMA TouchedKept ==
  ASSUME ParseAssumption, TypeInv, NEW p \in Pics, NEW i \in Indices(p),
         Changed(p, i, Slice(p, i)'), sliceMap' = sliceMap, Slice(p, i)'.id = Slice(p, i).id,
         \A m \in Nat : Position(p, i, m) => Position(p, i, m)',
         NEW c \in Ctus, Touched(p, c)
  PROVE  Touched(p, c)'
<1>1. PICK k \in Indices(p) : \E m \in Nat : Position(p, k, m) /\ sliceMap[Slice(p, k).id][m] = c
  BY DEF Touched
<1>2. PICK m \in Nat : Position(p, k, m) /\ sliceMap[Slice(p, k).id][m] = c
  BY <1>1
<1>3. k \in Indices(p)'
  BY DEF Changed, Indices
<1>4. CASE k = i
  <2>1. Position(p, k, m)'
    BY <1>2, <1>4
  <2>2. (sliceMap[Slice(p, k).id][m])' = c
    BY <1>2, <1>4
  <2> QED BY <1>3, <2>1, <2>2 DEF Touched
<1>5. CASE k # i
  <2>1. Slice(p, k)' = Slice(p, k)
    BY <1>5 DEF Changed, Indices, Slice
  <2>2. Position(p, k, m)' /\ (sliceMap[Slice(p, k).id][m])' = c
    BY <1>2, <2>1 DEF Position
  <2> QED BY <1>3, <2>2 DEF Touched
<1> QED BY <1>4, <1>5

LEMMA ParsedQuiet ==
  ASSUME ParseAssumption, TypeInv, NEW p \in Pics, NEW i \in Indices(p), Task(p, i), Quiet(p, i), ParsedInv(p)
  PROVE  ParsedInv(p)'
<1>1. \A m \in Nat : Position(p, i, m) => Position(p, i, m)'
  BY DEF Quiet, Position
<1>2. \A c \in Ctus : Touched(p, c) => Touched(p, c)'
  BY <1>1, TouchedKept DEF Quiet
<1> QED BY <1>2, GuardedTask, ParsedKept DEF Quiet

LEMMA ParsedCleared ==
  ASSUME ParseAssumption, TypeInv, NEW p \in Pics, 1 \in Indices(p), SliceInv(p), TaskStarts(p, 1), ParsedInv(p)
  PROVE  ParsedInv(p)'
<1> SUFFICES ASSUME Guarded(p)' PROVE OpenInv(p)' /\ UpInv(p)' /\ TouchedInv(p)'
  BY DEF ParsedInv
<1>1. Guarded(p)
  BY GuardedTask DEF Task
<1>2. ~Started(p) /\ ctuParsed' = ctuParsed
  BY DEF TaskStarts, Started
<1>3. \A c \in Ctus : ctuParsed[p][c] # "unlocked"
  BY <1>1, <1>2 DEF ParsedInv, OpenInv
<1>4. \A c \in Ctus : ctuData'[p][c] = "none"
  <2>1. sliceMap[Slice(p, 1).id][1] = 0
    BY MapShape DEF SliceInv
  <2> QED BY <2>1 DEF TaskStarts, TypeInv
<1> QED BY <1>2, <1>3, <1>4 DEF OpenInv, UpInv, TouchedInv, HasData

(* A CTU that begins has not been touched before.                          *)
LEMMA NotTouched ==
  ASSUME ParseAssumption, Disjoint, TypeInv, NEW p \in Pics, NEW i \in Indices(p), SliceInv(p), NumberInv(p),
         OnePicture(p), AtCtu(p, i)
  PROVE  ~Touched(p, Address(p, i))
<1> SUFFICES ASSUME NEW k \in Indices(p), NEW m \in Nat, Position(p, k, m),
                    sliceMap[Slice(p, k).id][m] = Address(p, i)
             PROVE  FALSE
  BY DEF Touched
<1>1. /\ Slice(p, i).id \in 1..Len(sliceMap) /\ Slice(p, k).id \in 1..Len(sliceMap)
      /\ Slice(p, i).ctuIdx < Len(sliceMap[Slice(p, i).id]) /\ ~Slice(p, i).inCtu
      /\ Slice(p, i).ctuIdx \in Nat /\ Slice(p, k).ctuIdx \in Nat
  BY SliceTyped DEF SliceInv, AtCtu, SliceT, Indices
<1> DEFINE n == Slice(p, i).ctuIdx + 1
<1>2. n \in 1..Len(sliceMap[Slice(p, i).id]) /\ m \in 1..Len(sliceMap[Slice(p, k).id])
  BY <1>1, MapShape, SMTT(30) DEF Position
<1>3. Slice(p, k).id = Slice(p, i).id /\ m = n
  <2>1. sliceMap[Slice(p, k).id][m] = sliceMap[Slice(p, i).id][n]
    BY DEF Address
  <2>2. sliceMap \in SliceMaps
    BY DEF TypeInv
  <2> HIDE DEF n
  <2> DEFINE x == Slice(p, k).id  y == Slice(p, i).id
  <2>3. x \in 1..Len(sliceMap) /\ y \in 1..Len(sliceMap)
    BY <1>1
  <2>4. m \in 1..Len(sliceMap[x]) /\ n \in 1..Len(sliceMap[y]) /\ sliceMap[x][m] = sliceMap[y][n]
    BY <1>2, <2>1
  <2> HIDE DEF x, y
  <2>5. x = y /\ m = n
    BY <2>2, <2>3, <2>4 DEF Disjoint
  <2> QED BY <2>5 DEF x, y
<1>4. k = i
  <2>1. Slice(p, k).poc = Slice(p, i).poc
    BY DEF OnePicture, Indices
  <2>2. Slice(p, k).id \in Nat /\ Slice(p, i).id \in Nat
    BY SliceTyped DEF SliceT, Indices
  <2>3. k < i \/ k = i \/ i < k
    BY IndicesNat
  <2>4. ~(k < i)
    BY <1>3, <2>1, <2>2 DEF NumberInv
  <2>5. ~(i < k)
    BY <1>3, <2>1, <2>2 DEF NumberInv
  <2> QED BY <2>3, <2>4, <2>5
<1> QED BY <1>1, <1>3, <1>4 DEF Position

LEMMA ParsedBegins ==
  ASSUME ParseAssumption, Disjoint, TypeInv, NEW p \in Pics, NEW i \in Indices(p), SliceInv(p), OrderInv(p),
         NumberInv(p), BeginCtu(p, i), ParsedInv(p)
  PROVE  ParsedInv(p)'
<1> SUFFICES ASSUME Guarded(p)' PROVE OpenInv(p)' /\ UpInv(p)' /\ TouchedInv(p)'
  BY DEF ParsedInv
<1> DEFINE a == Address(p, i)
<1>0. Task(p, i)
  BY DEF Task
<1>1. Guarded(p) /\ OpenInv(p) /\ UpInv(p) /\ TouchedInv(p)
  BY <1>0, GuardedTask DEF ParsedInv
<1>2. /\ AtCtu(p, i) /\ Slice(p, i).task = "running"
      /\ ctuData' = [ctuData EXCEPT ![p][a] = "parsing"]
      /\ sliceMap' = sliceMap /\ ctuParsed' = ctuParsed
  BY DEF BeginCtu, AtCtu, TaskOnly, parserVars
<1>3. Started(p) /\ a \in Ctus
  BY <1>2, BegunIsStarted, AddressTyped DEF Begun, AtCtu, SliceInv, Indices
<1>4. ~HasData(p, a)
  BY <1>1, <1>2, <1>3, NotTouched DEF TouchedInv, Guarded
<1>5. /\ Changed(p, i, Slice(p, i)') /\ (Slice(p, i)').inCtu /\ (Slice(p, i)').id = Slice(p, i).id
      /\ (Slice(p, i)').ctuIdx = Slice(p, i).ctuIdx /\ (Slice(p, i)').task = "running"
  <2> DEFINE s == Slice(p, i)  t == [s EXCEPT !.inCtu = TRUE]
  <2>1. s \in SliceT /\ s.task = "running" /\ SetSlice(p, i, t)
    BY <1>2, SliceTyped DEF BeginCtu, Indices
  <2> HIDE DEF s
  <2>2. t \in SliceT /\ t.inCtu /\ t.id = s.id /\ t.ctuIdx = s.ctuIdx /\ t.task = "running"
    BY <2>1 DEF SliceT
  <2>3. Changed(p, i, t) /\ Slice(p, i)' = t
    BY <2>1, <2>2, SetShape DEF Changed, Slice, Indices
  <2> QED BY <2>2, <2>3 DEF s
<1>6. Touched(p, a)'
  <2>1. Slice(p, i).ctuIdx \in Nat /\ Len(sliceMap[Slice(p, i).id]) \in Nat
    BY MapShape, SliceTyped DEF SliceT, Indices, SliceInv
  <2> DEFINE m == Slice(p, i).ctuIdx + 1
  <2>2. m \in Nat /\ m \in 1..Len(sliceMap[Slice(p, i).id]) /\ sliceMap[Slice(p, i).id][m] = a
    BY <1>2, <2>1 DEF AtCtu, Address
  <2> SUFFICES \E k \in Indices(p)' : \E j \in Nat : Position(p, k, j)' /\ (sliceMap[Slice(p, k).id])'[j] = a'
    BY DEF Touched
  <2>3. a' = a
    BY <1>2, <1>5 DEF Address
  <2>4. i \in Indices(p)'
    BY <1>5 DEF Changed, Indices
  <2>5. (sliceMap[Slice(p, i).id])' = sliceMap[Slice(p, i).id]
    BY <1>2, <1>5
  <2>6. ASSUME NEW j \in Nat, j = m PROVE Position(p, i, j)'
    BY <1>2, <1>5, <2>2, <2>6 DEF Position
  <2>7. PICK j \in Nat : j = m
    BY <2>2
  <2> QED BY <2>2, <2>3, <2>4, <2>5, <2>6, <2>7
<1> HIDE DEF a
<1>7. /\ ctuData'[p][a] = "parsing"
      /\ \A c \in Ctus : c # a => ctuData'[p][c] = ctuData[p][c]
  BY <1>2, <1>3 DEF TypeInv
<1>8. Started(p)'
  BY <1>2, <1>3, <1>5, FirstIndex DEF Started, Changed, Indices, Slice
<1>9. OpenInv(p)'
  BY <1>1, <1>2, <1>4, <1>7, <1>8 DEF OpenInv, HasData
<1>10. UpInv(p)'
  BY <1>1, <1>3, <1>4, <1>7 DEF UpInv, HasData
<1>11. \A m \in Nat : Position(p, i, m) => Position(p, i, m)'
  BY <1>2, <1>5 DEF Position
<1>12. \A c \in Ctus : Touched(p, c) => Touched(p, c)'
  BY <1>2, <1>5, <1>11, TouchedKept
<1>13. TouchedInv(p)'
  <2>1. a' = a
    BY <1>2, <1>5 DEF Address, a
  <2>2. ASSUME NEW c \in Ctus, HasData(p, c)' PROVE Touched(p, c)'
    <3>1. CASE c = a
      BY <1>6, <2>1, <3>1 DEF Touched
    <3>2. CASE c # a
      BY <1>1, <1>3, <1>7, <1>12, <2>2, <3>2 DEF HasData, TouchedInv
    <3> QED BY <3>1, <3>2
  <2> QED BY <2>2 DEF TouchedInv
<1> QED BY <1>9, <1>10, <1>13

LEMMA ParsedEnds ==
  ASSUME ParseAssumption, TypeInv, NEW p \in Pics, NEW i \in Indices(p), SliceInv(p), OrderInv(p), DataInv(p),
         DoneInv(p), ParsedInv(p), EndCtu(p, i),
         Changed(p, i, Slice(p, i)'), ~(Slice(p, i)').inCtu, (Slice(p, i)').task = "running",
         (Slice(p, i)').ctuIdx = Slice(p, i).ctuIdx + 1, (Slice(p, i)').id = Slice(p, i).id
  PROVE  ParsedInv(p)'
<1> SUFFICES ASSUME Guarded(p)' PROVE OpenInv(p)' /\ UpInv(p)' /\ TouchedInv(p)'
  BY DEF ParsedInv
<1> DEFINE a == Address(p, i)
<1>0. Task(p, i)
  BY DEF Task
<1>1. Guarded(p) /\ OpenInv(p) /\ UpInv(p) /\ TouchedInv(p)
  BY <1>0, GuardedTask DEF ParsedInv
<1>2. /\ Slice(p, i).task = "running" /\ Slice(p, i).inCtu /\ sliceMap' = sliceMap
      /\ ctuData' = [ctuData EXCEPT ![p][a] = "parsed"]
      /\ ctuParsed' = [ctuParsed EXCEPT ![p][a] = "unlocked"]
  BY DEF EndCtu, TaskOnly, parserVars
<1>3. Started(p) /\ a \in Ctus
  BY <1>2, BegunIsStarted, AddressTyped DEF Begun, SliceInv, Indices
<1>4. HasData(p, a)
  BY <1>2, <1>3 DEF DataInv
<1>5. ASSUME NEW c \in Ctus, ctuData[p][c] = "parsing" PROVE c = a
  <2>1. PICK k \in Indices(p) : Slice(p, k).inCtu /\ Address(p, k) = c
    BY <1>3, <1>5 DEF DataInv
  <2>2. k = i
    BY <1>2, <2>1, Alone
  <2> QED BY <2>1, <2>2
<1> HIDE DEF a
<1>6. /\ ctuData'[p][a] = "parsed"
      /\ \A c \in Ctus : c # a => ctuData'[p][c] = ctuData[p][c]
      /\ \A c \in Ctus : c # a => ctuParsed'[p][c] = ctuParsed[p][c]
  BY <1>2, <1>3 DEF TypeInv
<1>7. Started(p)'
  BY <1>2, <1>3, FirstIndex DEF Started, Changed, Indices, Slice
<1>8. OpenInv(p)'
  BY <1>1, <1>6, <1>7 DEF OpenInv
<1>9. UpInv(p)'
  <2>1. ASSUME NEW c \in Ctus, NEW n \in Ctus, ctuData'[p][c] = "parsed", UpTo(n, c), n # a
        PROVE  ctuData[p][n] = "parsed"
    <3>1. HasData(p, c)
      BY <1>4, <1>6, <2>1 DEF HasData
    <3>2. HasData(p, n)
      BY <1>3, <2>1, <3>1 DEF DataInv
    <3> QED BY <1>5, <2>1, <3>2 DEF HasData
  <2> QED BY <1>6, <2>1 DEF UpInv
<1>10. \A m \in Nat : Position(p, i, m) => Position(p, i, m)'
  <2>1. Slice(p, i).ctuIdx \in Nat
    BY SliceTyped DEF SliceT, Indices
  <2> QED BY <1>2, <2>1 DEF Position
<1>11. \A c \in Ctus : Touched(p, c) => Touched(p, c)'
  BY <1>2, <1>10, TouchedKept
<1>12. \A c \in Ctus : HasData(p, c)' <=> HasData(p, c)
  BY <1>4, <1>6 DEF HasData
<1>13. TouchedInv(p)'
  BY <1>1, <1>3, <1>11, <1>12 DEF TouchedInv
<1> QED BY <1>8, <1>9, <1>13

LEMMA ParsedTask ==
  ASSUME ParseAssumption, Disjoint, TypeInv, NEW p \in Pics, NEW i \in Indices(p), SliceInv(p), OrderInv(p),
         DataInv(p), DoneInv(p), NumberInv(p), ParsedInv(p), Task(p, i)
  PROVE  ParsedInv(p)'
<1>1. CASE i = 1 /\ TaskStarts(p, i)
  BY <1>1, ParsedCleared
<1>2. CASE BeginCtu(p, i)
  BY <1>2, ParsedBegins
<1>3. CASE /\ EndCtu(p, i) /\ Changed(p, i, Slice(p, i)') /\ ~(Slice(p, i)').inCtu
           /\ (Slice(p, i)').task = "running" /\ (Slice(p, i)').ctuIdx = Slice(p, i).ctuIdx + 1
           /\ Slice(p, i)'.id = Slice(p, i).id
  BY <1>3, ParsedEnds
<1>4. CASE Quiet(p, i)
  BY <1>4, ParsedQuiet
<1> QED BY <1>1, <1>2, <1>3, <1>4, TaskKinds

(* A step that has nothing to do with the slices of a picture.             *)
LEMMA ParsedSame ==
  ASSUME TypeInv, NEW p \in Pics, ParsedInv(p), pic'[p].place # "none" => pic[p].place # "none",
         slices'[p] = slices[p], sliceMap' = sliceMap, ctuData'[p] = ctuData[p], ctuParsed'[p] = ctuParsed[p]
  PROVE  ParsedInv(p)'
<1>1. /\ Started(p)' = Started(p) /\ Indices(p)' = Indices(p)
      /\ \A k \in Indices(p) : Slice(p, k)' = Slice(p, k)
  BY DEF Started, Indices, Slice
<1>2. Guarded(p)' => Guarded(p)
  BY DEF Guarded, OnePicture, Slice
<1>3. ASSUME NEW c \in Ctus, Touched(p, c) PROVE Touched(p, c)'
  <2>1. PICK k \in Indices(p) : \E m \in Nat : Position(p, k, m) /\ sliceMap[Slice(p, k).id][m] = c
    BY <1>3 DEF Touched
  <2>2. PICK m \in Nat : Position(p, k, m) /\ sliceMap[Slice(p, k).id][m] = c
    BY <2>1
  <2>3. Position(p, k, m)' /\ (sliceMap[Slice(p, k).id][m])' = c
    BY <1>1, <2>2 DEF Position
  <2> QED BY <1>1, <2>3 DEF Touched
<1> QED BY <1>1, <1>2, <1>3, ParsedKept

(* The first slice of a picture locks the barriers or leaves it out of the *)
(* parse list.                                                             *)
LEMMA ParsedFresh ==
  ASSUME TypeInv, NEW p \in Pics, NEW t \in {"none", "waiting"}, Fresh(p, New(t)),
         pic'[p].place = "none" \/ ctuParsed'[p] = Locked(p)
  PROVE  ParsedInv(p)'
<1>1. ~Started(p)'
  BY DEF Fresh, New, NewSlice, Started, Slice
<1>2. pic'[p].place # "none" => \A c \in Ctus : ctuParsed'[p][c] # "unlocked"
  BY DEF Locked
<1> QED BY <1>1, <1>2 DEF ParsedInv, Guarded, OpenInv, UpInv, TouchedInv

LEMMA ParsedStep ==
  ASSUME ParseAssumption, Disjoint, BaseInv, NumbersInv, PlaceInv, AllParsedInv, [Next]_vars
  PROVE  AllParsedInv'
<1> SUFFICES ASSUME NEW q \in Pics PROVE ParsedInv(q)'
  BY DEF AllParsedInv, Pics
<1>0. /\ TypeInv /\ SliceInv(q) /\ OrderInv(q) /\ DataInv(q) /\ DoneInv(q) /\ NumberInv(q) /\ ParsedInv(q)
      /\ sliceMap' = sliceMap
  BY StepShape DEF BaseInv, SlicesInv, AllDataInv, NumbersInv, AllParsedInv
<1>1. ASSUME Taken' = Taken PROVE pic'[q].place # "none" => pic[q].place # "none"
  BY <1>1 DEF Taken, Pics
<1>2. ASSUME slices' = slices, ctuData' = ctuData, ctuParsed' = ctuParsed, Taken' = Taken
      PROVE  ParsedInv(q)'
  BY <1>0, <1>1, <1>2, ParsedSame
<1>3. CASE UNCHANGED vars
  BY <1>2, <1>3 DEF vars, taskVars, Taken, Pics
<1>4. CASE SliceLost
  BY <1>2, <1>4 DEF SliceLost, Arrives, Taken, Pics
<1>5. CASE HeaderUnreadable \/ HeaderRejected \/ HeaderFails
  <2>1. slices' = slices /\ ctuData' = ctuData /\ CaughtIn(ParsePic)
    BY <1>5 DEF HeaderUnreadable, HeaderRejected, HeaderFails, Arrives
  <2> QED BY <1>0, <1>2, <2>1, CaughtPlaces DEF CaughtIn
<1>6. CASE DecLib
  <2>1. slices' = slices /\ ctuData' = ctuData /\ ctuParsed' = ctuParsed
    BY <1>6 DEF DecLib, Flush, ChooseNone, Choose, Sanitize, taskVars
  <2> QED BY <1>0, <1>2, <1>6, <2>1, MainTaken
<1>7. CASE TooManySlices \/ SliceWithoutTask \/ AddSlice
  <2>1. Target \in Pics /\ ctuData' = ctuData /\ Others(Target)
    BY <1>0, <1>7, AddedWhere DEF Fresh, Added
  <2>2. /\ q # Target \/ ~IsFirst => ctuParsed'[q] = ctuParsed[q]
        /\ IsFirst /\ AddSlice /\ q = Target => ctuParsed'[q] = Locked(q)
    <3>1. ctuParsed' = ctuParsed \/ (IsFirst /\ ctuParsed' = [ctuParsed EXCEPT ![Target] = Locked(Target)])
      BY <1>7 DEF TooManySlices, SliceWithoutTask, AddSlice, CaughtIn
    <3>2. IsFirst /\ AddSlice => ctuParsed' = [ctuParsed EXCEPT ![Target] = Locked(Target)]
      BY DEF AddSlice
    <3>3. q \in DOMAIN ctuParsed
      BY <1>0 DEF TypeInv
    <3> QED BY <3>1, <3>2, <3>3
  <2>3. q # Target \/ ~IsFirst => (pic'[q].place # "none" => pic[q].place # "none")
    <3>1. CASE TooManySlices \/ SliceWithoutTask
      BY <1>0, <1>1, <3>1, AddTaken
    <3>2. CASE AddSlice
      BY <1>0, <2>1, <3>2 DEF AddSlice, TypeInv
    <3> QED BY <1>7, <3>1, <3>2
  <2>4. CASE q # Target
    <3>1. slices'[q] = slices[q]
      BY <2>1, <2>4 DEF Others
    <3> QED BY <1>0, <2>1, <2>2, <2>3, <2>4, <3>1, ParsedSame
  <2>5. CASE q = Target
    <3>1. PICK t \in {"none", "waiting"} :
             \/ IsFirst /\ Fresh(q, New(t)) /\ ~TooManySlices
             \/ ~IsFirst /\ slices[q] # <<>> /\ Added(q, New(t))
      BY <1>0, <1>7, <2>5, AddedWhere
    <3>2. CASE IsFirst /\ Fresh(q, New(t)) /\ ~TooManySlices
      <4>1. SliceWithoutTask => pic'[q].place = "none"
        <5>1. [NewPic EXCEPT !.error = TRUE, !.exceptionThrownOut = TRUE].place = "none"
          BY DEF NewPic
        <5> QED BY <1>0, <2>1, <2>5, <3>2, <5>1 DEF SliceWithoutTask, TypeInv
      <4> QED BY <1>0, <1>7, <2>2, <2>5, <3>2, <4>1, ParsedFresh
    <3>3. CASE ~IsFirst /\ slices[q] # <<>> /\ Added(q, New(t))
      <4>1. ctuParsed' = ctuParsed
        BY <1>7, <3>3 DEF TooManySlices, SliceWithoutTask, AddSlice, CaughtIn
      <4> QED BY <1>0, <2>1, <2>3, <3>3, <4>1, ParsedAdded
    <3> QED BY <3>1, <3>2, <3>3
  <2> QED BY <2>4, <2>5
<1>8. ASSUME NEW p \in Pics, NEW i \in Indices(p), Task(p, i)
      PROVE  ParsedInv(q)'
  <2>1. CASE q = p
    BY <1>0, <1>8, <2>1, ParsedTask
  <2>2. CASE q # p
    <3>1. slices'[q] = slices[q]
      BY <1>0, <1>8, <2>2, TaskShape, ZenonT(30) DEF TaskChange, Changed, Others, Indices
    <3>2. ctuData'[q] = ctuData[q] /\ pic'[q] = pic[q]
      BY <1>0, <1>8, <2>2, OtherDone
    <3>3. ctuParsed'[q] = ctuParsed[q]
      BY <1>0, <1>8, <2>2 DEF Task, TaskStarts, TaskPoisoned, BeginCtu, EndCtu, TaskEnds, TaskThrows,
                              ExceptionSet, TaskFails, Gone, TypeInv
    <3> QED BY <1>0, <3>1, <3>2, <3>3, ParsedSame
  <2> QED BY <2>1, <2>2
<1> QED BY <1>3, <1>4, <1>5, <1>6, <1>7, <1>8 DEF Next, Indices

LEMMA InitParsed ==
  ASSUME ParseAssumption, Init
  PROVE  NumbersInv /\ PlaceInv /\ AllParsedInv
<1>1. \A p \in Pics : pic[p].place = "none" /\ Indices(p) = {}
  <2>1. Len(<<>>) = 0 /\ 1..0 = {}
    OBVIOUS
  <2> QED BY <2>1 DEF Init, Indices, NewPic
<1>2. Taken = {}
  BY <1>1 DEF Taken
<1>3. parseFrameList \in Seq(Taken) /\ main.pc # "sanitize"
  <2>1. parseFrameList = <<>>
    BY DEF Init
  <2> QED BY <2>1 DEF Init, In
<1> QED BY <1>1, <1>2, <1>3 DEF NumbersInv, NumberInv, PlaceInv, AllParsedInv, ParsedInv, Guarded

(* Everything in a line and above it is before the last CTU of the line.   *)
LEMMA LineEnd ==
  ASSUME ParseAssumption, NEW line \in 1..HeightInCtus, NEW c \in 0..(line * WidthInCtus - 1)
  PROVE  /\ line * WidthInCtus - 1 \in Ctus
         /\ c \in Ctus /\ UpTo(c, line * WidthInCtus - 1)
<1> DEFINE W == WidthInCtus  H == HeightInCtus  e == line * W - 1
<1>0. W \in Nat /\ W > 0 /\ H \in Nat /\ H > 0 /\ NumCtus = W * H /\ line \in Nat /\ line >= 1 /\ line <= H
  BY Sizes DEF NumCtus
<1>1. W * (H - line) = W * H - line * W /\ W * (H - line) >= 0 /\ W * (line - 1) = line * W - W
      /\ line - 1 \in Nat /\ W * (line - 1) >= 0
  BY <1>0
<1>2. e \in Nat /\ e < NumCtus /\ e = W * (line - 1) + (W - 1) /\ W - 1 \in Nat
  BY <1>0, <1>1
<1>3. e \in Ctus /\ c \in Ctus
  BY <1>0, <1>2, Sizes DEF Ctus
<1>4. Row(e) = line - 1 /\ Col(e) = W - 1
  BY <1>0, <1>1, <1>2, DivisionUnique DEF Row, Col
<1>5. /\ c \in Nat /\ Col(c) \in Nat /\ Row(c) \in Nat /\ Col(c) < W
      /\ c = W * Row(c) + Col(c)
  BY <1>3, Coordinates
<1>6. Row(c) <= line - 1
  <2> SUFFICES ASSUME Row(c) >= line PROVE FALSE
    BY <1>0, <1>5
  <2>1. W * (Row(c) - line) = W * Row(c) - line * W /\ W * (Row(c) - line) >= 0
    BY <1>0, <1>5
  <2>2. c < line * W
    BY <1>0, <1>2
  <2> QED BY <1>0, <1>5, <2>1, <2>2
<1> QED BY <1>0, <1>3, <1>4, <1>5, <1>6 DEF UpTo

(* For every size of the pictures, every layout in which no CTU belongs to *)
(* two slices and any faults, a task of DecLibRecon that finds the barrier *)
(* of the last CTU of a line open (DecLibRecon::ctuTask, PARSE) finds this *)
(* line and all above it parsed, and it finds them so as long as it runs.  *)
THEOREM LinesMeanLines == ASSUME Disjoint PROVE Spec => []LineMeansLine
<1> DEFINE Inv == NumbersInv /\ PlaceInv /\ AllParsedInv
<1> USE ParseAssumption
<1>1. Init => Inv
  BY InitParsed
<1>2. BaseInv /\ Inv /\ [Next]_vars => Inv'
  BY ParsedStep, NumbersStep, PlaceStep DEF BaseInv
<1>3. BaseInv /\ Inv => LineMeansLine
  <2> SUFFICES ASSUME BaseInv, Inv, NEW p \in Pics, Guarded(p), NEW line \in 1..HeightInCtus,
                      ctuParsed[p][line * WidthInCtus - 1] = "unlocked", NEW c \in 0..(line * WidthInCtus - 1)
               PROVE  ctuData[p][c] = "parsed"
    BY DEF LineMeansLine, Guarded
  <2> DEFINE e == line * WidthInCtus - 1
  <2>1. e \in Ctus /\ c \in Ctus /\ UpTo(c, e)
    BY LineEnd
  <2>2. OpenInv(p) /\ UpInv(p) /\ ctuParsed[p][e] = "unlocked"
    BY DEF AllParsedInv, ParsedInv
  <2> HIDE DEF e
  <2> QED BY <2>1, <2>2 DEF OpenInv, UpInv
<1> QED BY <1>1, <1>2, <1>3, BaseInvariant, PTL DEF Spec
=============================================================================
