---------------------------- MODULE MCThreadPool ----------------------------
(* Small instances of ThreadPool for TLC. *)
EXTENDS ThreadPool, TLC

CONSTANTS w1, w2, c1, c2, t1, t2, t3

MCWorkers2 == {w1, w2}
MCClients1 == {c1}
MCClients2 == {c1, c2}
MCTasks2   == {t1, t2}
MCTasks3   == {t1, t2, t3}

\* t3 is more urgent than the other two.
MCPriority == [t \in Tasks |-> IF t = t3 THEN 0 ELSE 1]

\* Sound for the safety runs: no property tells two workers or two clients
\* apart.
ThreadSymmetry == Permutations(Workers) \cup Permutations(Clients)
=============================================================================
