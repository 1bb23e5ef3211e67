------------------------------ MODULE MCDecLib ------------------------------
(* Streams for DecLib: access units in coding order.                       *)
EXTENDS DecLib

EOS == [type |-> "EOS"]
Idr == [type |-> "IDR", poc |-> 0, refs |-> {}, keep |-> {}, isRef |-> TRUE, output |-> TRUE]
Cra(poc) == [Idr EXCEPT !.type = "CRA", !.poc = poc]
Ref(poc, refs, keep) == [Idr EXCEPT !.type = "TRAIL", !.poc = poc, !.refs = refs, !.keep = keep]
Nonref(poc, refs) == [Ref(poc, refs, refs) EXCEPT !.isRef = FALSE]

(* A group of pictures with reordering, and an IDR picture after it.       *)
Gop == <<Idr, Ref(4, {0}, {0}), Nonref(2, {0, 4}), Idr, Ref(1, {0}, {0})>>

Long == <<Idr, Ref(4, {0}, {0}), Nonref(2, {0, 4}), Ref(8, {4}, {4}), Nonref(6, {4, 8}), Ref(9, {8}, {8})>>

(* A lost access unit, with which POC 4 should have come: one that refers  *)
(* to it, one that only keeps it, one that does neither.                   *)
Lost     == <<Idr, Ref(2, {0, 4}, {0, 4}), Ref(8, {0}, {0, 2}), Idr, Ref(1, {0}, {0})>>
LostKept == <<Idr, Ref(8, {0}, {0, 4}), Ref(9, {0}, {0}), Idr, Ref(1, {0}, {0})>>

(* It begins before a random access point, with leading pictures after it, *)
(* and ends a sequence.                                                    *)
Middle == <<Ref(7, {6}, {6}), Cra(8), [Nonref(7, {6, 8}) EXCEPT !.type = "RASL"], Ref(9, {8}, {8}),
            EOS, Idr, Ref(1, {0}, {0})>>

Input(units, goOn) == [units |-> units, tryContinue |-> goOn]
MCInputs == {Input(Long, FALSE), Input(Gop, TRUE), Input(Lost, TRUE), Input(Lost, FALSE), Input(LostKept, TRUE), Input(Middle, FALSE)}
ReconFailsInputs == {Input(Gop, TRUE)}
=============================================================================
