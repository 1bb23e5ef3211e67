---------------------------- MODULE MCThreadPool ----------------------------
(* Small task graphs for the thread pool.                                  *)
EXTENDS ThreadPool

(* 1 is parsed first, 2 waits for it, 3 polls for what 2 does.             *)
MCChainBarriers == [t \in Tasks |-> IF t = 2 THEN {1} ELSE {}]
MCChainPolls    == [t \in Tasks |-> IF t = 3 THEN {2} ELSE {}]

=============================================================================
