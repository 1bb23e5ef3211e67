------------------------ MODULE ParameterSets_proofs ------------------------
(***************************************************************************)
(* Proofs about ParameterSets, for any number of pictures, slices, stored  *)
(* sets and contents.  What an object says never changes; the pictures     *)
(* share the PPS and the LMCS APS of their first slice; and what is stored *)
(* between slices decides the rest.                                        *)
(***************************************************************************)
EXTENDS ParameterSets, TLAPS

PsIds == {"pps", "lmcs"}

SliceType ==
  [pps : 1..Len(object), lmcs : 1..Len(object), alf : [AlfIds -> Nat],
   sent : [pps : Contents, lmcs : Contents]]

CsType == [pps : 0..Len(object), lmcs : 0..Len(object), alf : [AlfIds -> Nat]]
CurType == [pic : 0..NumPictures, refused : BOOLEAN, stored : [Ids -> Nat]]
ObjectType == [content : Contents, changed : BOOLEAN]

TypeInv ==
  /\ object \in Seq(ObjectType)
  /\ paramsetMap \in [Ids -> 0..Len(object)]
  /\ alfAPSs \in [AlfIds -> Nat]
  /\ cs \in [Pics -> CsType]
  /\ slices \in [Pics -> Seq(SliceType)]
  /\ cur \in CurType

(* A slice has the PPS and the LMCS APS of its picture, and of the ALF     *)
(* APSs of its picture those it needs.                                     *)
SharesInv ==
  \A p \in Pics : \A n \in 1..Len(slices[p]) :
    slices[p][n].pps = cs[p].pps /\ slices[p][n].lmcs = cs[p].lmcs

AlfInv ==
  /\ \A p \in Pics : \A n \in 1..Len(slices[p]) : \A i \in AlfIds :
       slices[p][n].alf[i] \in {None, cs[p].alf[i]}
  /\ cur.pic # 0 => alfAPSs = cs[cur.pic].alf
  /\ InPicture => \A i \in AlfIds : cs[cur.pic].alf[i] \in {None, paramsetMap[i]}

(* The object of the picture and the newest one of the same id: the same,  *)
(* or one set was stored in between and the flag tells whether it differs. *)
Told(id, o) ==
  /\ cur.stored[id] = 0 => o = paramsetMap[id]
  /\ object[o].changed \/ object[o].content = object[paramsetMap[id]].content

ToldInv == InPicture => Told("pps", cs[cur.pic].pps) /\ Told("lmcs", cs[cur.pic].lmcs)

(* A picture that is parsed has both of them.                              *)
KnownInv ==
  cur.pic # 0 =>
    /\ cs[cur.pic].pps # 0 /\ cs[cur.pic].lmcs # 0
    /\ paramsetMap["pps"] # 0 /\ paramsetMap["lmcs"] # 0

-----------------------------------------------------------------------------
(* No step makes an object say something else, or deletes one here.        *)
Preserved ==
  /\ object' \in Seq(ObjectType)
  /\ Len(object) <= Len(object')
  /\ \A o \in 1..Len(object) : object'[o].content = object[o].content

LEMMA StoreShape ==
  ASSUME ParameterSetsAssumption, TypeInv, NEW id \in Ids, NEW content \in Contents, Store(id, content)
  PROVE  /\ Preserved
         /\ Len(object') = Len(object) + 1
         /\ \A o \in 1..Len(object) : object'[o] = Flagged(id, content)[o]
         /\ object'[Len(object) + 1] = [content |-> content, changed |-> FALSE]
<1> DEFINE f == Flagged(id, content)
<1>1. object \in Seq(ObjectType) /\ Len(object) \in Nat
  BY DEF TypeInv
<1>2. ASSUME NEW o \in 1..Len(object) PROVE object[o] \in ObjectType
  BY <1>1
<1>3. ASSUME NEW o \in 1..Len(object)
      PROVE  f[o] \in ObjectType /\ f[o].content = object[o].content
  <2>1. CASE o = paramsetMap[id]
    BY <1>2, <2>1 DEF Flagged, ObjectType
  <2>2. CASE o # paramsetMap[id]
    BY <1>2, <2>2 DEF Flagged, ObjectType
  <2> QED BY <2>1, <2>2
<1>4. f \in [1..Len(object) -> ObjectType]
  <2>1. f = [o \in 1..Len(object) |-> f[o]]
    BY DEF Flagged
  <2> QED BY <2>1, <1>3
<1>5. f \in Seq(ObjectType) /\ Len(f) = Len(object)
  BY <1>1, <1>4
<1> DEFINE r == [content |-> content, changed |-> FALSE]
<1>6. object' = Append(f, r) /\ r \in ObjectType
  BY DEF Store, ObjectType
<1> HIDE DEF f, r
<1>7. /\ object' \in Seq(ObjectType) /\ Len(object') = Len(object) + 1
      /\ \A o \in 1..Len(object) : object'[o] = f[o]
      /\ object'[Len(object) + 1] = r
  BY <1>1, <1>5, <1>6
<1> QED BY <1>1, <1>3, <1>7 DEF Preserved, f, r

LEMMA ClearedShape ==
  ASSUME ParameterSetsAssumption, TypeInv, NEW ids \in SUBSET AlfIds, object' = Cleared(ids)
  PROVE  Preserved /\ Len(object') = Len(object)
<1>1. object \in Seq(ObjectType) /\ Len(object) \in Nat
  BY DEF TypeInv
<1>2. ASSUME NEW o \in 1..Len(object) PROVE object[o] \in ObjectType
  BY <1>1
<1> DEFINE f == Cleared(ids)
<1>3. ASSUME NEW o \in 1..Len(object)
      PROVE  f[o] \in ObjectType /\ f[o].content = object[o].content
  <2>1. CASE \E id \in {"pps", "lmcs"} \cup ids : o = paramsetMap[id]
    BY <1>2, <2>1 DEF Cleared, ObjectType
  <2>2. CASE ~(\E id \in {"pps", "lmcs"} \cup ids : o = paramsetMap[id])
    BY <1>2, <2>2 DEF Cleared, ObjectType
  <2> QED BY <2>1, <2>2
<1>4. f \in [1..Len(object) -> ObjectType]
  <2>1. f = [o \in 1..Len(object) |-> f[o]]
    BY DEF Cleared
  <2> QED BY <2>1, <1>3
<1>5. object' = f
  OBVIOUS
<1> HIDE DEF f
<1>6. f \in Seq(ObjectType) /\ Len(f) = Len(object)
  BY <1>1, <1>4
<1> QED BY <1>1, <1>3, <1>5, <1>6 DEF Preserved

-----------------------------------------------------------------------------
(* Types.                                                                  *)
LEMMA InitTypes == ASSUME ParameterSetsAssumption, Init PROVE TypeInv
<1>1. object = <<>> /\ Len(object) = 0
  BY DEF Init
<1>2. NoSets \in CsType
  BY <1>1 DEF NoSets, CsType, None
<1>3. cur \in CurType
  BY DEF Init, Parsing, CurType, ParameterSetsAssumption
<1> QED BY <1>1, <1>2, <1>3 DEF Init, TypeInv, None

(* Pointers stay in range when objects are only added.                     *)
LEMMA RangesGrow ==
  ASSUME TypeInv, Preserved
  PROVE  /\ CsType \subseteq CsType' /\ SliceType \subseteq SliceType'
         /\ 0..Len(object) \subseteq 0..Len(object')
<1>1. Len(object) \in Nat /\ Len(object') \in Nat /\ Len(object) <= Len(object')
  BY DEF TypeInv, Preserved
<1> QED BY <1>1 DEF CsType, SliceType

LEMMA StoreTypes ==
  ASSUME ParameterSetsAssumption, TypeInv, NEW id \in Ids, NEW content \in Contents, Store(id, content)
  PROVE  TypeInv'
<1>1. Preserved /\ Len(object') = Len(object) + 1
  BY StoreShape
<1>2. Len(object) \in Nat /\ object' \in Seq(ObjectType)
  BY <1>1 DEF TypeInv, Preserved
<1>3. paramsetMap' \in [Ids -> 0..Len(object')]
  BY <1>1, <1>2 DEF Store, TypeInv
<1>4. cur' \in CurType
  <2>1. CASE InPicture
    <3>1. cur \in CurType /\ cur.stored \in [Ids -> Nat]
      BY DEF TypeInv, CurType
    <3> DEFINE g == [cur.stored EXCEPT ![id] = cur.stored[id] + 1]
    <3>2. g \in [Ids -> Nat]
      BY <3>1
    <3>3. cur' = [cur EXCEPT !.stored = g]
      BY <2>1 DEF Store
    <3> HIDE DEF g
    <3> QED BY <3>1, <3>2, <3>3 DEF CurType
  <2>2. CASE ~InPicture
    BY <2>2 DEF Store, TypeInv
  <2> QED BY <2>1, <2>2
<1>5. cs' \in [Pics -> CsType'] /\ slices' \in [Pics -> Seq(SliceType')]
  <2>1. cs \in [Pics -> CsType'] /\ \A p \in Pics : slices[p] \in Seq(SliceType')
    <3>1. ASSUME NEW p \in Pics PROVE slices[p] \in Seq(SliceType')
      <4>1. slices[p] \in Seq(SliceType)
        BY DEF TypeInv
      <4> DEFINE A == SliceType  B == SliceType'
      <4>2. A \subseteq B
        BY <1>1, RangesGrow
      <4> HIDE DEF A, B
      <4>3. ASSUME slices[p] \in Seq(A) PROVE slices[p] \in Seq(B)
        BY <4>2, <4>3
      <4> QED BY <4>1, <4>3 DEF A, B
    <3> QED BY <1>1, <3>1, RangesGrow DEF TypeInv
  <2> QED BY <2>1 DEF Store, TypeInv
<1> QED BY <1>2, <1>3, <1>4, <1>5 DEF Store, TypeInv, CurType

LEMMA ActivatedType ==
  ASSUME TypeInv, NEW ids \in SUBSET AlfIds, NEW old \in [AlfIds -> Nat]
  PROVE  Activated(old, ids) \in [AlfIds -> Nat]
<1>1. Len(object) \in Nat
  BY DEF TypeInv
<1>2. \A i \in AlfIds : paramsetMap[i] \in Nat
  BY <1>1 DEF TypeInv, Ids
<1> QED BY <1>2 DEF Activated

LEMMA ContentKnown ==
  ASSUME TypeInv, NEW id \in Ids, paramsetMap[id] \in 1..Len(object)
  PROVE  ContentOf(id) \in Contents
<1>1. object \in Seq(ObjectType)
  BY DEF TypeInv
<1>2. object[paramsetMap[id]] \in ObjectType
  BY <1>1
<1> QED BY <1>2 DEF ContentOf, ObjectType

(* What the first slice of a picture does to the variables.                *)
LEMMA FirstSliceShape ==
  ASSUME ParameterSetsAssumption, TypeInv, NEW ids \in SUBSET AlfIds, FirstSlice(ids),
         NEW p, p = cur.pic + 1, NEW alf, alf = Activated([i \in AlfIds |-> None], ids)
  PROVE  /\ p \in Pics /\ cur' = Parsing(p)
         /\ Preserved /\ Len(object') = Len(object)
         /\ UNCHANGED paramsetMap
         /\ paramsetMap["pps"] \in 1..Len(object) /\ paramsetMap["lmcs"] \in 1..Len(object)
         /\ alf \in [AlfIds -> Nat] /\ alfAPSs' = alf
         /\ Shared(ids) \in CsType /\ NewSlice(Shared(ids), alf) \in SliceType
         /\ cs' = [cs EXCEPT ![p] = Shared(ids)]
         /\ slices' = [slices EXCEPT ![p] = <<NewSlice(Shared(ids), alf)>>]
<1>1. p \in Pics /\ cur' = Parsing(p)
  BY DEF FirstSlice, TypeInv, CurType, Pics, ParameterSetsAssumption
<1>2. Preserved /\ Len(object') = Len(object)
  <2>1. object' = Cleared(ids)
    BY DEF FirstSlice
  <2> QED BY <2>1, ClearedShape
<1>3. paramsetMap["pps"] \in 1..Len(object) /\ paramsetMap["lmcs"] \in 1..Len(object)
  BY DEF FirstSlice, Known, TypeInv, Ids, None
<1>4. alf \in [AlfIds -> Nat]
  <2>1. [i \in AlfIds |-> None] \in [AlfIds -> Nat]
    BY DEF None
  <2> QED BY <2>1, ActivatedType
<1>5. Shared(ids) \in CsType
  BY <1>3, <1>4 DEF Shared, CsType
<1>6. NewSlice(Shared(ids), alf) \in SliceType
  <2>1. ContentOf("pps") \in Contents /\ ContentOf("lmcs") \in Contents
    BY <1>3, ContentKnown DEF Ids
  <2> QED BY <1>3, <1>4, <2>1 DEF NewSlice, Shared, SliceType
<1> QED BY <1>1, <1>2, <1>3, <1>4, <1>5, <1>6 DEF FirstSlice

LEMMA FirstSliceTypes ==
  ASSUME ParameterSetsAssumption, TypeInv, NEW ids \in SUBSET AlfIds, FirstSlice(ids)
  PROVE  TypeInv'
<1> DEFINE p == cur.pic + 1  alf == Activated([i \in AlfIds |-> None], ids)
           s == NewSlice(Shared(ids), alf)
<1>1. /\ p \in Pics /\ cur' = Parsing(p)
      /\ Preserved /\ Len(object') = Len(object)
      /\ UNCHANGED paramsetMap
      /\ alf \in [AlfIds -> Nat] /\ alfAPSs' = alf
      /\ Shared(ids) \in CsType /\ s \in SliceType
      /\ cs' = [cs EXCEPT ![p] = Shared(ids)]
      /\ slices' = [slices EXCEPT ![p] = <<s>>]
  BY FirstSliceShape
<1> HIDE DEF p, alf, s
<1>2. CsType' = CsType /\ SliceType' = SliceType
  BY <1>1 DEF CsType, SliceType
<1>3. cur' \in CurType
  BY <1>1 DEF Parsing, CurType, Pics, ParameterSetsAssumption
<1>4. slices' \in [Pics -> Seq(SliceType)]
  <2>1. <<s>> \in Seq(SliceType)
    BY <1>1
  <2> QED BY <1>1, <2>1 DEF TypeInv
<1> QED BY <1>1, <1>2, <1>3, <1>4 DEF TypeInv, Preserved, CurType

(* What a later slice does: it is refused, or appended.                    *)
LEMMA NextSliceShape ==
  ASSUME ParameterSetsAssumption, TypeInv, KnownInv, NEW ids \in SUBSET AlfIds, NextSlice(ids),
         NEW p, p = cur.pic, NEW alf, alf = Activated(alfAPSs, ids),
         NEW s, s = NewSlice(cs[p], alf)
  PROVE  /\ p \in Pics /\ p # 0 /\ InPicture
         /\ alf \in [AlfIds -> Nat] /\ alfAPSs' = alf
         /\ cs' = [cs EXCEPT ![p].alf = alf]
         /\ s \in SliceType
         /\ cur' \in CurType /\ cur'.pic = cur.pic /\ cur'.stored = cur.stored
         /\ slices' = slices \/ (~Changed(p) /\ slices' = [slices EXCEPT ![p] = Append(@, s)])
         /\ UNCHANGED <<object, paramsetMap>>
<1>1. p \in Pics /\ p # 0 /\ InPicture
  BY DEF NextSlice, TypeInv, CurType, Pics, InPicture, ParameterSetsAssumption
<1>2. alf \in [AlfIds -> Nat]
  BY ActivatedType DEF TypeInv
<1>3. s \in SliceType
  <2>1. cs[p] \in CsType /\ cs[p].pps # 0 /\ cs[p].lmcs # 0 /\ Len(object) \in Nat
    BY <1>1 DEF TypeInv, KnownInv
  <2>2. cs[p].pps \in 1..Len(object) /\ cs[p].lmcs \in 1..Len(object)
    BY <2>1 DEF CsType
  <2>3. paramsetMap["pps"] \in 1..Len(object) /\ paramsetMap["lmcs"] \in 1..Len(object)
    BY <2>1, <1>1 DEF TypeInv, Ids, KnownInv
  <2>4. ContentOf("pps") \in Contents /\ ContentOf("lmcs") \in Contents
    BY <2>3, ContentKnown DEF Ids
  <2> QED BY <1>2, <2>2, <2>4 DEF NewSlice, SliceType
<1>4. cur' \in CurType /\ cur'.pic = cur.pic /\ cur'.stored = cur.stored
  <2>1. cur \in CurType
    BY DEF TypeInv
  <2>2. cur' = cur \/ cur' = [cur EXCEPT !.refused = TRUE]
    BY DEF NextSlice
  <2> QED BY <2>1, <2>2 DEF CurType
<1> QED BY <1>1, <1>2, <1>3, <1>4 DEF NextSlice

LEMMA NextSliceTypes ==
  ASSUME ParameterSetsAssumption, TypeInv, KnownInv, NEW ids \in SUBSET AlfIds, NextSlice(ids)
  PROVE  TypeInv'
<1> DEFINE p == cur.pic  alf == Activated(alfAPSs, ids)  s == NewSlice(cs[p], alf)
<1>1. /\ p \in Pics
      /\ alf \in [AlfIds -> Nat] /\ alfAPSs' = alf
      /\ cs' = [cs EXCEPT ![p].alf = alf]
      /\ s \in SliceType
      /\ cur' \in CurType
      /\ slices' = slices \/ slices' = [slices EXCEPT ![p] = Append(@, s)]
      /\ UNCHANGED <<object, paramsetMap>>
  BY NextSliceShape
<1> HIDE DEF p, alf, s
<1>2. CsType' = CsType /\ SliceType' = SliceType /\ CurType' = CurType
  BY <1>1 DEF CsType, SliceType, CurType
<1>3. cs' \in [Pics -> CsType]
  <2>1. cs[p] \in CsType
    BY <1>1 DEF TypeInv
  <2> DEFINE c == [cs[p] EXCEPT !.alf = alf]
  <2>2. c \in CsType
    BY <1>1, <2>1 DEF CsType
  <2>3. cs' = [cs EXCEPT ![p] = c]
    BY <1>1
  <2> HIDE DEF c
  <2> QED BY <1>1, <2>2, <2>3 DEF TypeInv
<1>4. slices' \in [Pics -> Seq(SliceType)]
  <2> DEFINE A == SliceType
  <2>1. slices \in [Pics -> Seq(A)] /\ s \in A
    BY <1>1 DEF TypeInv
  <2> HIDE DEF A
  <2> DEFINE q == Append(slices[p], s)
  <2>2. q \in Seq(A)
    BY <1>1, <2>1
  <2>3. slices' = slices \/ slices' = [slices EXCEPT ![p] = q]
    BY <1>1
  <2> HIDE DEF q
  <2>4. slices' \in [Pics -> Seq(A)]
    BY <1>1, <2>1, <2>2, <2>3
  <2> QED BY <2>4 DEF A
<1> QED BY <1>1, <1>2, <1>3, <1>4 DEF TypeInv

-----------------------------------------------------------------------------
(* Every slice has the objects of its picture.                             *)
BaseInv == TypeInv /\ KnownInv /\ SharesInv

LEMMA BaseInit == ASSUME ParameterSetsAssumption, Init PROVE BaseInv
<1>1. KnownInv
  BY DEF Init, KnownInv, Parsing
<1>2. SharesInv
  BY DEF Init, SharesInv
<1> QED BY <1>1, <1>2, InitTypes DEF BaseInv

LEMMA BaseStore ==
  ASSUME ParameterSetsAssumption, BaseInv, NEW id \in Ids, NEW content \in Contents, Store(id, content)
  PROVE  BaseInv'
<1>1. TypeInv'
  BY StoreTypes DEF BaseInv
<1>2. KnownInv'
  <2>1. cur'.pic = cur.pic /\ cs' = cs
    BY DEF Store, BaseInv, TypeInv, CurType
  <2>2. \A k \in Ids : paramsetMap'[k] \in {paramsetMap[k], Len(object) + 1} /\ Len(object) \in Nat
    BY DEF Store, BaseInv, TypeInv
  <2> QED BY <2>1, <2>2 DEF KnownInv, BaseInv, Ids
<1>3. SharesInv'
  BY DEF Store, BaseInv, SharesInv
<1> QED BY <1>1, <1>2, <1>3 DEF BaseInv

LEMMA BaseFirstSlice ==
  ASSUME ParameterSetsAssumption, BaseInv, NEW ids \in SUBSET AlfIds, FirstSlice(ids)
  PROVE  BaseInv'
<1> DEFINE p == cur.pic + 1  alf == Activated([i \in AlfIds |-> None], ids)
           s == NewSlice(Shared(ids), alf)
<1>1. /\ p \in Pics /\ cur' = Parsing(p)
      /\ UNCHANGED paramsetMap
      /\ paramsetMap["pps"] \in 1..Len(object) /\ paramsetMap["lmcs"] \in 1..Len(object)
      /\ cs' = [cs EXCEPT ![p] = Shared(ids)]
      /\ slices' = [slices EXCEPT ![p] = <<s>>]
  BY FirstSliceShape DEF BaseInv
<1>2. s.pps = Shared(ids).pps /\ s.lmcs = Shared(ids).lmcs
  BY DEF NewSlice
<1>3. Shared(ids).pps = paramsetMap["pps"] /\ Shared(ids).lmcs = paramsetMap["lmcs"]
  BY DEF Shared
<1> HIDE DEF p, alf, s
<1>4. KnownInv'
  <2>1. cur'.pic = p
    BY <1>1 DEF Parsing
  <2>2. cs'[p] = Shared(ids)
    BY <1>1 DEF BaseInv, TypeInv
  <2> QED BY <1>1, <1>3, <2>1, <2>2 DEF KnownInv
<1>5. SharesInv'
  <2> SUFFICES ASSUME NEW q \in Pics, NEW n \in 1..Len(slices'[q])
               PROVE  slices'[q][n].pps = cs'[q].pps /\ slices'[q][n].lmcs = cs'[q].lmcs
    BY DEF SharesInv
  <2>1. CASE q = p
    BY <1>1, <1>2, <2>1 DEF BaseInv, TypeInv
  <2>2. CASE q # p
    BY <1>1, <2>2 DEF BaseInv, TypeInv, SharesInv
  <2> QED BY <2>1, <2>2
<1> QED BY <1>4, <1>5, FirstSliceTypes DEF BaseInv

LEMMA BaseNextSlice ==
  ASSUME ParameterSetsAssumption, BaseInv, NEW ids \in SUBSET AlfIds, NextSlice(ids)
  PROVE  BaseInv'
<1> DEFINE p == cur.pic  alf == Activated(alfAPSs, ids)  s == NewSlice(cs[p], alf)
<1>1. /\ p \in Pics
      /\ cs' = [cs EXCEPT ![p].alf = alf]
      /\ cur'.pic = cur.pic
      /\ slices' = slices \/ slices' = [slices EXCEPT ![p] = Append(@, s)]
      /\ UNCHANGED paramsetMap
  BY NextSliceShape DEF BaseInv
<1>2. s.pps = cs[p].pps /\ s.lmcs = cs[p].lmcs
  BY DEF NewSlice
<1> HIDE DEF p, alf, s
<1>3. \A q \in Pics : cs'[q].pps = cs[q].pps /\ cs'[q].lmcs = cs[q].lmcs
  BY <1>1 DEF BaseInv, TypeInv, CsType
<1>4. KnownInv'
  BY <1>1, <1>3 DEF KnownInv, BaseInv, TypeInv, CurType, Pics, ParameterSetsAssumption
<1>5. SharesInv'
  <2> SUFFICES ASSUME NEW q \in Pics, NEW n \in 1..Len(slices'[q])
               PROVE  slices'[q][n].pps = cs[q].pps /\ slices'[q][n].lmcs = cs[q].lmcs
    BY <1>3 DEF SharesInv
  <2>1. CASE slices'[q] = slices[q]
    BY <2>1 DEF BaseInv, SharesInv
  <2>2. CASE slices'[q] = Append(slices[q], s) /\ q = p
    <3>1. slices[q] \in Seq(SliceType)
      BY DEF BaseInv, TypeInv
    <3>2. CASE n = Len(slices[q]) + 1
      BY <1>2, <2>2, <3>1, <3>2
    <3>3. CASE n # Len(slices[q]) + 1
      <4>1. n \in 1..Len(slices[q]) /\ slices'[q][n] = slices[q][n]
        BY <2>2, <3>1, <3>3
      <4> QED BY <4>1 DEF BaseInv, SharesInv
    <3> QED BY <3>2, <3>3
  <2>3. slices'[q] = slices[q] \/ (slices'[q] = Append(slices[q], s) /\ q = p)
    BY <1>1 DEF BaseInv, TypeInv
  <2> QED BY <2>1, <2>2, <2>3
<1> QED BY <1>4, <1>5, NextSliceTypes DEF BaseInv

LEMMA BaseStep == ASSUME ParameterSetsAssumption, BaseInv, [Next]_vars PROVE BaseInv'
<1>1. CASE UNCHANGED vars
  BY <1>1 DEF vars, BaseInv, TypeInv, KnownInv, SharesInv, CsType, SliceType, CurType
<1>2. ASSUME NEW id \in Ids, NEW content \in Contents, Store(id, content) PROVE BaseInv'
  BY <1>2, BaseStore
<1>3. ASSUME NEW ids \in SUBSET AlfIds, FirstSlice(ids) PROVE BaseInv'
  BY <1>3, BaseFirstSlice
<1>4. ASSUME NEW ids \in SUBSET AlfIds, NextSlice(ids) PROVE BaseInv'
  BY <1>4, BaseNextSlice
<1> QED BY <1>1, <1>2, <1>3, <1>4 DEF Next

-----------------------------------------------------------------------------
(* Pointers: no ALF APS is stored between the slices of a picture, so the  *)
(* APSs the picture shares are still the newest when a later slice comes,  *)
(* and those that slice shares in their place are the same.                *)
NoApsBetween == StoredInPicture \cap AlfIds = {}

LEMMA AlfStore ==
  ASSUME NoApsBetween, BaseInv, AlfInv,
         NEW id \in Ids, NEW content \in Contents, Store(id, content)
  PROVE  AlfInv'
<1>1. cs' = cs /\ slices' = slices /\ alfAPSs' = alfAPSs /\ cur'.pic = cur.pic
  BY DEF Store, BaseInv, TypeInv, CurType
<1>2. InPicture' = InPicture
  BY <1>1 DEF InPicture
<1>3. InPicture => \A i \in AlfIds : paramsetMap'[i] = paramsetMap[i]
  <2>1. InPicture => id \notin AlfIds
    BY DEF Store, NoApsBetween
  <2>2. \A k \in Ids : k # id => paramsetMap'[k] = paramsetMap[k]
    BY DEF Store, BaseInv, TypeInv
  <2> QED BY <2>1, <2>2 DEF Ids
<1> QED BY <1>1, <1>2, <1>3 DEF AlfInv

LEMMA AlfFirstSlice ==
  ASSUME ParameterSetsAssumption, BaseInv, AlfInv, NEW ids \in SUBSET AlfIds, FirstSlice(ids)
  PROVE  AlfInv'
<1> DEFINE p == cur.pic + 1  alf == Activated([i \in AlfIds |-> None], ids)
           s == NewSlice(Shared(ids), alf)
<1>1. /\ p \in Pics /\ cur' = Parsing(p)
      /\ UNCHANGED paramsetMap
      /\ alf \in [AlfIds -> Nat] /\ alfAPSs' = alf
      /\ cs' = [cs EXCEPT ![p] = Shared(ids)]
      /\ slices' = [slices EXCEPT ![p] = <<s>>]
  BY FirstSliceShape DEF BaseInv
<1>2. s.alf = alf /\ Shared(ids).alf = alf
  BY DEF NewSlice, Shared
<1>3. \A i \in AlfIds : alf[i] \in {None, paramsetMap[i]}
  BY DEF Activated
<1> HIDE DEF p, alf, s
<1>4. cs'[p].alf = alf /\ cur'.pic = p /\ slices'[p] = <<s>>
  BY <1>1, <1>2 DEF Parsing, BaseInv, TypeInv
<1>5. ASSUME NEW q \in Pics, NEW n \in 1..Len(slices'[q]), NEW i \in AlfIds
      PROVE  slices'[q][n].alf[i] \in {None, cs'[q].alf[i]}
  <2>1. CASE q = p
    BY <1>2, <1>4, <2>1
  <2>2. CASE q # p
    <3>1. slices'[q] = slices[q] /\ cs'[q] = cs[q]
      BY <1>1, <2>2 DEF BaseInv, TypeInv
    <3> QED BY <3>1 DEF AlfInv
  <2> QED BY <2>1, <2>2
<1> QED BY <1>1, <1>3, <1>4, <1>5 DEF AlfInv

LEMMA AlfNextSlice ==
  ASSUME ParameterSetsAssumption, BaseInv, AlfInv, NEW ids \in SUBSET AlfIds, NextSlice(ids)
  PROVE  AlfInv'
<1> DEFINE p == cur.pic  alf == Activated(alfAPSs, ids)  s == NewSlice(cs[p], alf)
<1>1. /\ p \in Pics /\ p # 0 /\ InPicture
      /\ alf \in [AlfIds -> Nat] /\ alfAPSs' = alf
      /\ cs' = [cs EXCEPT ![p].alf = alf]
      /\ cur'.pic = cur.pic
      /\ slices' = slices \/ slices' = [slices EXCEPT ![p] = Append(@, s)]
      /\ UNCHANGED paramsetMap
  BY NextSliceShape DEF BaseInv
<1>2. s.alf = alf
  BY DEF NewSlice
<1>3. \A i \in AlfIds : alf[i] \in {alfAPSs[i], paramsetMap[i]}
  BY DEF Activated
<1>4. \A i \in AlfIds : alfAPSs[i] \in {None, paramsetMap[i]} /\ alfAPSs[i] = cs[p].alf[i]
  BY <1>1 DEF AlfInv
<1> HIDE DEF alf, s
<1>5. cs'[p].alf = alf /\ cur'.pic = p /\ \A q \in Pics : q # p => cs'[q] = cs[q]
  BY <1>1 DEF BaseInv, TypeInv, CsType
<1>6. ASSUME NEW q \in Pics, NEW n \in 1..Len(slices'[q]), NEW i \in AlfIds
      PROVE  slices'[q][n].alf[i] \in {None, cs'[q].alf[i]}
  <2>1. slices'[q] = slices[q] \/ (slices'[q] = Append(slices[q], s) /\ q = p)
    BY <1>1 DEF BaseInv, TypeInv
  <2>2. slices[q] \in Seq(SliceType)
    BY DEF BaseInv, TypeInv
  <2>3. CASE slices'[q][n].alf = alf /\ q = p
    BY <1>5, <2>3
  <2>4. CASE n \in 1..Len(slices[q]) /\ slices'[q][n] = slices[q][n]
    <3>1. slices[q][n].alf[i] \in {None, cs[q].alf[i]}
      BY <2>4 DEF AlfInv
    <3>2. CASE q = p
      BY <1>3, <1>4, <1>5, <2>4, <3>1, <3>2
    <3>3. CASE q # p
      BY <1>5, <2>4, <3>1, <3>3
    <3> QED BY <3>2, <3>3
  <2>5. (slices'[q][n].alf = alf /\ q = p) \/ (n \in 1..Len(slices[q]) /\ slices'[q][n] = slices[q][n])
    <3>1. CASE slices'[q] = slices[q]
      BY <3>1
    <3>2. CASE slices'[q] = Append(slices[q], s) /\ q = p
      <4>1. CASE n = Len(slices[q]) + 1
        BY <1>2, <2>2, <3>2, <4>1
      <4>2. CASE n # Len(slices[q]) + 1
        BY <2>2, <3>2, <4>2
      <4> QED BY <4>1, <4>2
    <3> QED BY <2>1, <3>1, <3>2
  <2> QED BY <2>3, <2>4, <2>5
<1> QED BY <1>1, <1>3, <1>4, <1>5, <1>6, SMTT(30) DEF AlfInv

LEMMA AlfStep ==
  ASSUME ParameterSetsAssumption, NoApsBetween, BaseInv, AlfInv, [Next]_vars
  PROVE  AlfInv'
<1>1. CASE UNCHANGED vars
  BY <1>1 DEF vars, AlfInv, InPicture
<1>2. ASSUME NEW id \in Ids, NEW content \in Contents, Store(id, content) PROVE AlfInv'
  BY <1>2, AlfStore
<1>3. ASSUME NEW ids \in SUBSET AlfIds, FirstSlice(ids) PROVE AlfInv'
  BY <1>3, AlfFirstSlice
<1>4. ASSUME NEW ids \in SUBSET AlfIds, NextSlice(ids) PROVE AlfInv'
  BY <1>4, AlfNextSlice
<1> QED BY <1>1, <1>2, <1>3, <1>4 DEF Next

(* Every pointer of a slice is one that its picture shares, or none.       *)
LEMMA SharedAlive == ASSUME BaseInv, AlfInv PROVE PointersAlive
<1> SUFFICES ASSUME NEW p \in Pics, NEW n \in 1..Len(slices[p])
             PROVE  {slices[p][n].pps, slices[p][n].lmcs} \cup {slices[p][n].alf[i] : i \in AlfIds}
                      \subseteq Owned \cup {None}
  BY DEF PointersAlive
<1>1. {cs[p].pps, cs[p].lmcs} \cup {cs[p].alf[i] : i \in AlfIds} \subseteq Owned
  BY DEF Owned
<1>2. slices[p][n].pps = cs[p].pps /\ slices[p][n].lmcs = cs[p].lmcs
  BY DEF BaseInv, SharesInv
<1>3. \A i \in AlfIds : slices[p][n].alf[i] \in {None, cs[p].alf[i]}
  BY DEF AlfInv
<1> QED BY <1>1, <1>2, <1>3

(* What a slice points to stays alive as long as its picture, for any      *)
(* number of pictures, slices and stored parameter sets, when no ALF APS   *)
(* comes between the slices of a picture (storePS, finalInit).             *)
THEOREM PointersStayAlive == ASSUME NoApsBetween PROVE Spec => []PointersAlive
<1>1. Init => BaseInv /\ AlfInv
  <2>1. Init => AlfInv
    BY DEF Init, AlfInv, InPicture, Parsing
  <2> QED BY <2>1, BaseInit, ParameterSetsAssumption
<1>2. BaseInv /\ AlfInv /\ [Next]_vars => (BaseInv /\ AlfInv)'
  BY BaseStep, AlfStep, ParameterSetsAssumption
<1>3. BaseInv /\ AlfInv => PointersAlive
  BY SharedAlive
<1> QED BY <1>1, <1>2, <1>3, PTL DEF Spec

-----------------------------------------------------------------------------
(* Contents: between two slices a set is stored at most once.  The one     *)
(* that store replaces is the one the picture has, so its flag tells.      *)
StoredOnce == MaxInPicture <= 1

LEMMA ToldStore ==
  ASSUME ParameterSetsAssumption, StoredOnce, BaseInv, ToldInv,
         NEW id \in Ids, NEW content \in Contents, Store(id, content)
  PROVE  ToldInv'
<1>1. cs' = cs /\ slices' = slices /\ cur'.pic = cur.pic
  BY DEF Store, BaseInv, TypeInv, CurType
<1>2. InPicture' = InPicture
  BY <1>1 DEF InPicture
<1>3. /\ Len(object') = Len(object) + 1 /\ Preserved /\ Len(object) \in Nat
      /\ \A o \in 1..Len(object) : object'[o] = Flagged(id, content)[o]
      /\ object'[Len(object) + 1] = [content |-> content, changed |-> FALSE]
  BY StoreShape DEF BaseInv, TypeInv
<1>4. ASSUME InPicture, NEW k \in PsIds, NEW o \in 1..Len(object), Told(k, o), paramsetMap[k] \in 1..Len(object)
      PROVE  Told(k, o)'
  <2>1. cur.stored \in [Ids -> Nat] /\ cur'.stored = [cur.stored EXCEPT ![id] = cur.stored[id] + 1]
    BY <1>4 DEF Store, BaseInv, TypeInv, CurType
  <2>2. object[o] \in ObjectType /\ object'[o].content = object[o].content
    BY <1>3 DEF BaseInv, TypeInv, Preserved
  <2>3. object'[o].changed = (object[o].changed \/ (o = paramsetMap[id] /\ object[o].content # content))
    BY <1>3, <2>2 DEF Flagged, ObjectType
  <2>4. CASE k = id
    <3>1. cur.stored[id] = 0
      BY <1>4, <2>1 DEF Store, StoredOnce, ParameterSetsAssumption
    <3>2. o = paramsetMap[id]
      BY <1>4, <2>4, <3>1 DEF Told
    <3>3. cur'.stored[k] # 0
      BY <2>1, <2>4
    <3>4. object'[paramsetMap'[k]].content = content
      BY <1>3, <2>4 DEF Store, BaseInv, TypeInv
    <3>5. object'[o].changed \/ object'[o].content = object'[paramsetMap'[k]].content
      BY <2>2, <2>3, <3>2, <3>4
    <3> QED BY <3>3, <3>5 DEF Told
  <2>5. CASE k # id
    <3>1. paramsetMap'[k] = paramsetMap[k] /\ cur'.stored[k] = cur.stored[k]
      BY <2>1, <2>5 DEF Store, BaseInv, TypeInv, Ids, PsIds
    <3>2. object'[paramsetMap[k]].content = object[paramsetMap[k]].content
      BY <1>3, <1>4 DEF Preserved
    <3>3. object[o].changed \/ object[o].content = object[paramsetMap[k]].content
      BY <1>4 DEF Told
    <3>4. cur.stored[k] = 0 => o = paramsetMap[k]
      BY <1>4 DEF Told
    <3>5. object'[o].changed \/ object'[o].content = object'[paramsetMap'[k]].content
      BY <2>2, <2>3, <3>1, <3>2, <3>3
    <3> QED BY <3>1, <3>4, <3>5 DEF Told
  <2> QED BY <2>4, <2>5
<1>5. InPicture => /\ cur.pic \in Pics
                   /\ cs[cur.pic].pps \in 1..Len(object) /\ cs[cur.pic].lmcs \in 1..Len(object)
                   /\ paramsetMap["pps"] \in 1..Len(object) /\ paramsetMap["lmcs"] \in 1..Len(object)
  <2> SUFFICES ASSUME InPicture
               PROVE  /\ cur.pic \in Pics
                      /\ cs[cur.pic].pps \in 1..Len(object) /\ cs[cur.pic].lmcs \in 1..Len(object)
                      /\ paramsetMap["pps"] \in 1..Len(object) /\ paramsetMap["lmcs"] \in 1..Len(object)
    OBVIOUS
  <2>1. cur.pic \in Pics /\ cur.pic # 0
    BY DEF InPicture, BaseInv, TypeInv, CurType, Pics, ParameterSetsAssumption
  <2>2. cs[cur.pic] \in CsType
    BY <2>1 DEF BaseInv, TypeInv
  <2> QED BY <1>3, <2>1, <2>2 DEF BaseInv, KnownInv, CsType, TypeInv, Ids
<1>6. InPicture => Told("pps", cs[cur.pic].pps)' /\ Told("lmcs", cs[cur.pic].lmcs)'
  BY <1>1, <1>4, <1>5, ZenonT(30) DEF ToldInv, PsIds, Told
<1> QED BY <1>1, <1>2, <1>6 DEF ToldInv, Told

LEMMA ToldFirstSlice ==
  ASSUME ParameterSetsAssumption, BaseInv, NEW ids \in SUBSET AlfIds, FirstSlice(ids)
  PROVE  ToldInv'
<1> DEFINE p == cur.pic + 1  alf == Activated([i \in AlfIds |-> None], ids)
<1>1. /\ p \in Pics /\ cur' = Parsing(p)
      /\ UNCHANGED paramsetMap
      /\ cs' = [cs EXCEPT ![p] = Shared(ids)]
  BY FirstSliceShape DEF BaseInv
<1> HIDE DEF p
<1>2. cur'.pic = p /\ cs'[p] = Shared(ids)
  BY <1>1 DEF Parsing, BaseInv, TypeInv
<1>3. cs'[p].pps = paramsetMap'["pps"] /\ cs'[p].lmcs = paramsetMap'["lmcs"]
  BY <1>1, <1>2 DEF Shared
<1> QED BY <1>2, <1>3 DEF ToldInv, Told

LEMMA ToldNextSlice ==
  ASSUME ParameterSetsAssumption, BaseInv, ToldInv, NEW ids \in SUBSET AlfIds, NextSlice(ids)
  PROVE  ToldInv'
<1> DEFINE p == cur.pic  alf == Activated(alfAPSs, ids)  s == NewSlice(cs[p], alf)
<1>1. /\ p \in Pics /\ InPicture
      /\ cs' = [cs EXCEPT ![p].alf = alf]
      /\ cur'.pic = cur.pic /\ cur'.stored = cur.stored
      /\ UNCHANGED <<object, paramsetMap>>
  BY NextSliceShape DEF BaseInv
<1> HIDE DEF alf
<1>2. cs'[p].pps = cs[p].pps /\ cs'[p].lmcs = cs[p].lmcs
  BY <1>1 DEF BaseInv, TypeInv, CsType
<1> QED BY <1>1, <1>2 DEF ToldInv, Told

LEMMA ToldStep ==
  ASSUME ParameterSetsAssumption, StoredOnce, BaseInv, ToldInv, [Next]_vars
  PROVE  ToldInv'
<1>1. CASE UNCHANGED vars
  BY <1>1 DEF vars, ToldInv, Told, InPicture
<1>2. ASSUME NEW id \in Ids, NEW content \in Contents, Store(id, content) PROVE ToldInv'
  BY <1>2, ToldStore
<1>3. ASSUME NEW ids \in SUBSET AlfIds, FirstSlice(ids) PROVE ToldInv'
  BY <1>3, ToldFirstSlice
<1>4. ASSUME NEW ids \in SUBSET AlfIds, NextSlice(ids) PROVE ToldInv'
  BY <1>4, ToldNextSlice
<1> QED BY <1>1, <1>2, <1>3, <1>4 DEF Next

(* Slices that were there keep what they point to, and that its content.   *)
AsSent(s) == object[s.pps].content = s.sent.pps /\ object[s.lmcs].content = s.sent.lmcs

LEMMA SentStays ==
  ASSUME BaseInv, Preserved, NEW s \in SliceType, AsSent(s)
  PROVE  object'[s.pps].content = s.sent.pps /\ object'[s.lmcs].content = s.sent.lmcs
BY DEF AsSent, SliceType, Preserved

LEMMA SentStep ==
  ASSUME ParameterSetsAssumption, StoredOnce, BaseInv, ToldInv, DecodedAsSent, [Next]_vars
  PROVE  DecodedAsSent'
<1> DEFINE Good(s) == object'[s.pps].content = s.sent.pps /\ object'[s.lmcs].content = s.sent.lmcs
<1>1. SUFFICES ASSUME NEW q \in Pics, NEW n \in 1..Len(slices'[q]) PROVE Good(slices'[q][n])
  BY DEF DecodedAsSent
<1>2. slices[q] \in Seq(SliceType)
  BY DEF BaseInv, TypeInv
<1>3. ASSUME Preserved, n \in 1..Len(slices[q]), slices'[q][n] = slices[q][n]
      PROVE  Good(slices'[q][n])
  <2>1. slices[q][n] \in SliceType /\ AsSent(slices[q][n])
    BY <1>2, <1>3 DEF DecodedAsSent, AsSent
  <2> QED BY <1>3, <2>1, SentStays
<1>4. CASE UNCHANGED vars
  <2>1. Preserved
    BY <1>4 DEF vars, Preserved, BaseInv, TypeInv
  <2> QED BY <1>3, <1>4, <2>1 DEF vars
<1>5. ASSUME NEW id \in Ids, NEW content \in Contents, Store(id, content) PROVE Good(slices'[q][n])
  <2>1. Preserved
    BY <1>5, StoreShape DEF BaseInv
  <2> QED BY <1>3, <1>5, <2>1 DEF Store
<1>6. ASSUME NEW ids \in SUBSET AlfIds, FirstSlice(ids) PROVE Good(slices'[q][n])
  <2> DEFINE p == cur.pic + 1  alf == Activated([i \in AlfIds |-> None], ids)
             s == NewSlice(Shared(ids), alf)
  <2>1. /\ p \in Pics /\ Preserved
        /\ paramsetMap["pps"] \in 1..Len(object) /\ paramsetMap["lmcs"] \in 1..Len(object)
        /\ slices' = [slices EXCEPT ![p] = <<s>>]
    BY <1>6, FirstSliceShape DEF BaseInv
  <2>2. Good(s)
    BY <2>1 DEF NewSlice, Shared, ContentOf, Preserved
  <2> HIDE DEF p, alf, s
  <2>3. CASE q = p
    <3>1. slices'[q][n] = s
      BY <2>1, <2>3 DEF BaseInv, TypeInv
    <3> QED BY <2>2, <3>1
  <2>4. CASE q # p
    <3>1. slices'[q] = slices[q]
      BY <2>1, <2>4 DEF BaseInv, TypeInv
    <3> QED BY <1>3, <2>1, <3>1
  <2> QED BY <2>3, <2>4
<1>7. ASSUME NEW ids \in SUBSET AlfIds, NextSlice(ids) PROVE Good(slices'[q][n])
  <2> DEFINE p == cur.pic  alf == Activated(alfAPSs, ids)  s == NewSlice(cs[p], alf)
  <2>1. /\ p \in Pics /\ InPicture
        /\ slices' = slices \/ (~Changed(p) /\ slices' = [slices EXCEPT ![p] = Append(@, s)])
        /\ object' = object
    BY <1>7, NextSliceShape DEF BaseInv
  <2>2. Preserved
    BY <2>1 DEF Preserved, BaseInv, TypeInv
  <2>3. ~Changed(p) => Good(s)
    BY <2>1 DEF Changed, ToldInv, Told, NewSlice, ContentOf
  <2> HIDE DEF alf, s
  <2>4. slices'[q] = slices[q] \/ (slices'[q] = Append(slices[q], s) /\ ~Changed(p))
    BY <2>1 DEF BaseInv, TypeInv
  <2>5. CASE slices'[q] = slices[q]
    BY <1>3, <2>2, <2>5
  <2>6. CASE slices'[q] = Append(slices[q], s) /\ ~Changed(p)
    <3>1. CASE n = Len(slices[q]) + 1
      <4>1. slices'[q][n] = s
        BY <1>2, <2>6, <3>1
      <4> QED BY <2>3, <2>6, <4>1
    <3>2. CASE n # Len(slices[q]) + 1
      <4>1. n \in 1..Len(slices[q]) /\ slices'[q][n] = slices[q][n]
        BY <1>2, <2>6, <3>2
      <4> QED BY <1>3, <2>2, <4>1
    <3> QED BY <3>1, <3>2
  <2> QED BY <2>4, <2>5, <2>6
<1> QED BY <1>4, <1>5, <1>6, <1>7 DEF Next

(* Every slice is decoded with the PPS and the LMCS APS that were sent     *)
(* last, for any number of pictures, slices and contents, when of each at  *)
(* most one is stored between the slices of a picture (storePS, the checks *)
(* of xActivateParameterSets).                                             *)
THEOREM AlwaysDecodedAsSent == ASSUME StoredOnce PROVE Spec => []DecodedAsSent
<1>1. Init => BaseInv /\ ToldInv /\ DecodedAsSent
  <2>1. Init => ToldInv /\ DecodedAsSent
    BY DEF Init, ToldInv, InPicture, Parsing, DecodedAsSent
  <2> QED BY <2>1, BaseInit, ParameterSetsAssumption
<1>2. BaseInv /\ ToldInv /\ DecodedAsSent /\ [Next]_vars => (BaseInv /\ ToldInv /\ DecodedAsSent)'
  BY BaseStep, ToldStep, SentStep, ParameterSetsAssumption
<1> QED BY <1>1, <1>2, PTL DEF Spec
=============================================================================
