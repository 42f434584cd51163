--------------------------- MODULE MCPriorityQueue ---------------------------
(* Instances of PriorityQueue for TLC. *)
EXTENDS PriorityQueue, TLC

CONSTANTS p1, p2

MCThreads2 == {p1, p2}
MCPriorities == {-1, 0}

ThreadSymmetry == Permutations(Threads)
=============================================================================
