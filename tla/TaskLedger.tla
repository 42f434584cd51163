----------------------------- MODULE TaskLedger -----------------------------
(***************************************************************************)
(* What a task queue promises, with no threads, locks or queues in sight:  *)
(* every task it accepts runs on at most one of `Threads` workers and is   *)
(* completed exactly once; after closing nothing is accepted any more and  *)
(* whatever has not started is completed by the cancellation.              *)
(***************************************************************************)
EXTENDS Naturals, FiniteSets

CONSTANTS Tasks,      \* the tasks
          Threads     \* how many tasks may run at the same time

VARIABLES status,     \* where each task stands
          open        \* tasks are accepted

vars == <<status, open>>

Status == {"new", "accepted", "running", "answered", "completed"}

In(s) == {t \in Tasks : status[t] = s}

Init == status = [t \in Tasks |-> "new"] /\ open = TRUE

Move(t, from, to) ==
  status[t] = from /\ status' = [status EXCEPT ![t] = to]

\* The task was prepared and waits for a worker.
Accept(t) == open /\ Move(t, "new", "accepted") /\ UNCHANGED open

\* The task needs no worker: it was refused in preparation, or was meant for
\* the dispatcher from the start.
Bypass(t) == open /\ Move(t, "new", "answered") /\ UNCHANGED open

\* A free worker takes the task.
Start(t) ==
  /\ Cardinality(In("running")) < Threads
  /\ Move(t, "accepted", "running")
  /\ UNCHANGED open

\* The worker is done with it.
Finish(t) == Move(t, "running", "answered") /\ UNCHANGED open

\* The dispatcher runs its completion.
Complete(t) == Move(t, "answered", "completed") /\ UNCHANGED open

Close == open /\ open' = FALSE /\ UNCHANGED status

\* With no task running, everything accepted is completed at once.
CancelAll ==
  /\ ~open
  /\ In("running") = {}
  /\ In("accepted") # {}
  /\ status' = [t \in Tasks |-> IF t \in In("accepted") THEN "completed"
                                ELSE status[t]]
  /\ UNCHANGED open

Next ==
  \/ \E t \in Tasks : Accept(t) \/ Bypass(t) \/ Start(t) \/ Finish(t) \/ Complete(t)
  \/ Close
  \/ CancelAll

Spec == Init /\ [][Next]_vars
=============================================================================
