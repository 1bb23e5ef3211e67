------------------------- MODULE MCSingleThreadPool -------------------------
(* Task graphs for the pool without threads.  Task 4 has barriers, and all *)
(* the tasks but Finish may poll for another one, except for the cycles,   *)
(* in which task 4 waits for the end of a task that polls for task 4.      *)
EXTENDS SingleThreadPool

MCGraph(B, q, throws, pictures) ==
  [barriers |-> [t \in Tasks |-> IF t = 4 THEN B ELSE {}],
   polls    |-> [t \in Tasks |-> IF t = Finish \/ q[t] = t THEN {} ELSE {q[t]}],
   throws   |-> throws, pictures |-> pictures]

MCGraphs(throws, pictures) ==
  {g \in {MCGraph(B, q, throws, pictures) : B \in SUBSET (1..3), q \in [1..4 -> 1..4]} : Acyclic(g)}

(* Two pictures without errors, or one in which three tasks may throw.     *)
MCScenarios == MCGraphs({}, 2) \cup MCGraphs({1, 3, 4}, 1)

(* No dependencies but that of Finish; the first task may throw.           *)
MCNoGraph(pictures) ==
  {[barriers |-> [t \in Tasks |-> {}], polls |-> [t \in Tasks |-> {}],
    throws |-> {1}, pictures |-> pictures]}
MCTwoPictures == MCNoGraph(2)
=============================================================================
