--------------------------- MODULE MCDecLibRecon ---------------------------
(* Instances of DecLibRecon with one CTU in every task. *)
EXTENDS DecLibRecon

MCOneCtu == [c \in 0..NumTasksPerLine - 1 |-> 1]
=============================================================================
