---------------------------- MODULE OutputOrder ----------------------------
(***************************************************************************)
(* What a player expects of the decoder: access units are delivered one at *)
(* a time, none of them twice, in the order in which they are displayed.   *)
(* Access units that are damaged or cannot be decoded may be left out, but *)
(* nothing is delivered after something that is displayed later.           *)
(***************************************************************************)
EXTENDS Integers, Sequences

VARIABLES
  units,    \* the access units and end-of-sequence marks, in coding order
  delivered \* numbers of the access units that were delivered

oVars == <<units, delivered>>

(* An IDR picture and a CRA picture after an end of sequence start a coded *)
(* video sequence; POC orders the pictures of one sequence.                *)
Starts(i) ==
  units[i].type = "IDR" \/ (units[i].type = "CRA" /\ i > 1 /\ units[i-1].type = "EOS")

SameSequence(i, j) == ~\E k \in (i+1)..j : Starts(k)

DisplayedBefore(i, j) ==
  \/ i < j /\ ~SameSequence(i, j)
  \/ SameSequence(i, j) /\ SameSequence(j, i) /\ units[i].poc < units[j].poc

OInit == delivered = <<>>

Deliver(i) ==
  /\ units[i].type # "EOS" /\ units[i].output
  /\ \A k \in 1..Len(delivered) : DisplayedBefore(delivered[k], i)
  /\ delivered' = Append(delivered, i)
  /\ UNCHANGED units

OSpec == OInit /\ [][\E i \in 1..Len(units) : Deliver(i)]_oVars
=============================================================================
