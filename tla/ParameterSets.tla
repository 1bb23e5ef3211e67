---------------------------- MODULE ParameterSets ----------------------------
(***************************************************************************)
(* Parameter sets are replaced while pictures that refer to them are still *)
(* being decoded.  The manager owns the newest set of every id, a picture  *)
(* shares what its first slice activated, and its slices have plain        *)
(* pointers.  Between the slices of a picture a parameter set must not     *)
(* change: a flag in the object that was replaced tells.                   *)
(*                                                                         *)
(* One SPS or PPS stands for both, which are treated alike, and a picture  *)
(* has one LMCS APS.  A parameter set is its content.                      *)
(***************************************************************************)
EXTENDS Integers, Sequences

CONSTANTS
  AlfIds,           \* ids of ALF APSs
  Contents,         \* what a parameter set may say
  StoredInPicture,  \* ids of parameter sets that come between slices of a picture
  MaxInPicture,     \* bound: how often each of them
  NumPictures, MaxSlices, MaxStores   \* bounds: pictures, slices of each, sets stored

Ids  == {"pps", "lmcs"} \cup AlfIds
Pics == 1..NumPictures

ASSUME ParameterSetsAssumption ==
  /\ {"pps", "lmcs"} \cap AlfIds = {} /\ StoredInPicture \subseteq Ids
  /\ {MaxInPicture, NumPictures, MaxSlices, MaxStores} \subseteq Nat

None == 0

VARIABLES
  object,      \* every parameter set that was stored: content, m_changedFlag
  paramsetMap, \* m_paramsetMap: the object of each id
  activePsId,  \* m_activePsId
  lastActive,  \* m_lastActiveParameterSet of the map of PPSs and of that of APSs
  alfAPSs,     \* m_alfAPSs
  cs,          \* the objects that each picture shares: pps, lmcs and alf
  slices,      \* the slices of each picture: the objects they point to; what the
               \* manager had as its PPS and LMCS APS when they came
  cur          \* the picture that is being parsed, whether a slice of it was refused,
               \* and how often each set was stored between its slices

vars == <<object, paramsetMap, activePsId, lastActive, alfAPSs, cs, slices, cur>>

Parsing(p) == [pic |-> p, refused |-> FALSE, stored |-> [id \in Ids |-> 0]]
NoSets == [pps |-> None, lmcs |-> None, alf |-> [i \in AlfIds |-> None]]
MapOf(id) == IF id = "pps" THEN "pps" ELSE "aps"

Init ==
  /\ object = <<>>
  /\ paramsetMap = [id \in Ids |-> None]
  /\ activePsId = {}
  /\ lastActive = [m \in {"pps", "aps"} |-> None]
  /\ alfAPSs = [i \in AlfIds |-> None]
  /\ cs = [p \in Pics |-> NoSets]
  /\ slices = [p \in Pics |-> <<>>]
  /\ cur = Parsing(0)

-----------------------------------------------------------------------------
(* storePS.  The flag of the old object says that the new one differs.     *)
Flagged(id, content) ==
  [o \in 1..Len(object) |->
     IF o = paramsetMap[id]
     THEN [object[o] EXCEPT !.changed = @ \/ object[o].content # content] ELSE object[o]]

InPicture == cur.pic # 0 /\ Len(slices[cur.pic]) < MaxSlices

Store(id, content) ==
  /\ Len(object) < MaxStores
  /\ InPicture => id \in StoredInPicture /\ cur.stored[id] < MaxInPicture
  /\ cur' = IF InPicture THEN [cur EXCEPT !.stored[id] = @ + 1] ELSE cur
  /\ object' = Append(Flagged(id, content), [content |-> content, changed |-> FALSE])
  /\ paramsetMap' = [paramsetMap EXCEPT ![id] = Len(object) + 1]
  /\ lastActive' = IF paramsetMap[id] # None /\ id \in activePsId
                   THEN [lastActive EXCEPT ![MapOf(id)] = paramsetMap[id]] ELSE lastActive
  /\ UNCHANGED <<activePsId, alfAPSs, cs, slices>>

-----------------------------------------------------------------------------
(* xActivateParameterSets of the manager, for the APSs the slice header    *)
(* names, and of the parser, for the picture and the slice.                *)
Known(ids) == \A id \in {"pps", "lmcs"} \cup ids : paramsetMap[id] # None

Activated(old, ids) == [i \in AlfIds |-> IF i \in ids THEN paramsetMap[i] ELSE old[i]]

ContentOf(id) == object[paramsetMap[id]].content

Cleared(ids) ==                               \* clearChangedFlag
  [o \in 1..Len(object) |->
     IF \E id \in {"pps", "lmcs"} \cup ids : o = paramsetMap[id]
     THEN [object[o] EXCEPT !.changed = FALSE] ELSE object[o]]

(* finalInit of the picture: it shares the objects.                        *)
SharedFault(ids) == [pps |-> paramsetMap["pps"], lmcs |-> paramsetMap["lmcs"], alf |-> [i \in AlfIds |-> None]]
                                              \* fault: the ALF APSs are not shared
Shared(ids) == [pps |-> paramsetMap["pps"], lmcs |-> paramsetMap["lmcs"],
                alf |-> Activated([i \in AlfIds |-> None], ids)]

NewSlice(sets, alf) ==
  [pps |-> sets.pps, lmcs |-> sets.lmcs, alf |-> alf,
   sent |-> [pps |-> ContentOf("pps"), lmcs |-> ContentOf("lmcs")]]

FirstSlice(ids) ==
  /\ cur.pic < NumPictures /\ Known(ids)
  /\ LET alf == Activated([i \in AlfIds |-> None], ids)
         p   == cur.pic + 1
     IN  /\ object' = Cleared(ids)
         /\ activePsId' = {"pps", "lmcs"} \cup ids
         /\ alfAPSs' = alf
         /\ cs' = [cs EXCEPT ![p] = Shared(ids)]
         /\ slices' = [slices EXCEPT ![p] = <<NewSlice(Shared(ids), alf)>>]
         /\ cur' = Parsing(p)
  /\ UNCHANGED <<paramsetMap, lastActive>>

(* "a new SPS, PPS, APS, LMCS APS has been decoded while processing a      *)
(* picture": the picture's own PPS and LMCS APS are asked, but for the ALF *)
(* APSs those the manager has by now.                                      *)
ChangedFault(p) == object[cs[p].pps].changed  \* fault: the LMCS APS is not asked

Changed(p) ==
  \/ object[cs[p].pps].changed \/ object[cs[p].lmcs].changed
  \/ \E i \in AlfIds : paramsetMap[i] # None /\ object[paramsetMap[i]].changed

NextSlice(ids) ==
  LET p   == cur.pic
      alf == Activated(alfAPSs, ids)
  IN  /\ p # 0 /\ Len(slices[p]) < MaxSlices /\ ~cur.refused /\ Known(ids)
      /\ activePsId' = activePsId \cup {"lmcs"} \cup ids
      /\ alfAPSs' = alf
      /\ cs' = [cs EXCEPT ![p].alf = alf]
      /\ IF Changed(p)
         THEN cur' = [cur EXCEPT !.refused = TRUE] /\ UNCHANGED slices
         ELSE slices' = [slices EXCEPT ![p] = Append(@, NewSlice(cs[p], alf))] /\ UNCHANGED cur
      /\ UNCHANGED <<object, paramsetMap, lastActive>>

Next ==
  \/ \E id \in Ids, content \in Contents : Store(id, content)
  \/ \E ids \in SUBSET AlfIds : FirstSlice(ids) \/ NextSlice(ids)

Spec == Init /\ [][Next]_vars

-----------------------------------------------------------------------------
(* The objects somebody owns: the manager, or a picture that is decoded.   *)
Owned ==
  {paramsetMap[id] : id \in Ids} \cup {lastActive["pps"], lastActive["aps"]}
    \cup UNION {{cs[p].pps, cs[p].lmcs} \cup {cs[p].alf[i] : i \in AlfIds} : p \in Pics}

(* What a slice points to is not deleted while its picture is decoded,     *)
(* however many parameter sets are stored in the meantime.                 *)
PointersAlive ==
  \A p \in Pics : \A n \in 1..Len(slices[p]) :
    {slices[p][n].pps, slices[p][n].lmcs} \cup {slices[p][n].alf[i] : i \in AlfIds} \subseteq Owned \cup {None}

(* A slice is decoded with the PPS and the LMCS APS that were sent last,   *)
(* although it has them from the picture, and its header is parsed with    *)
(* the PPS the manager has.                                                *)
DecodedAsSent ==
  \A p \in Pics : \A n \in 1..Len(slices[p]) :
    LET s == slices[p][n]
    IN  /\ object[s.pps].content = s.sent.pps
        /\ object[s.lmcs].content = s.sent.lmcs
=============================================================================
