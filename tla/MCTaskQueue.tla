---------------------------- MODULE MCTaskQueue -----------------------------
(* Small instances of TaskQueue for TLC. *)
EXTENDS TaskQueue, TLC

CONSTANTS w1, w2, c1, t1, t2, f1

MCWorkers1 == {w1}
MCWorkers2 == {w1, w2}
MCClients  == {c1}
MCTasks2   == {t1, t2}
MCCallbacks == {f1}
MCNoCallbacks == {}
MCPriority == [t \in Tasks |-> 0]

\* Everything the owner may call, and the calls of a program that never
\* cancels.
AllCalls  == DispatcherCall
WaitCalls == {"update", "waitFor", "waitForAll"}

\* Sound for the safety runs: no property tells two workers or tasks apart.
QueueSymmetry == Permutations(Workers) \cup Permutations(Tasks)
=============================================================================
