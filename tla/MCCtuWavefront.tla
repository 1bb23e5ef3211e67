--------------------------- MODULE MCCtuWavefront ---------------------------
(* The first task of a line has two CTUs, so that the values published     *)
(* inside a loop matter.                                                   *)
EXTENDS CtuWavefront

MCTwoOne == [c \in 0..NumTasksPerLine - 1 |-> IF c = 0 THEN 2 ELSE 1]
=============================================================================
