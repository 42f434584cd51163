----------------------------- MODULE MCEventBus -----------------------------
\* The instances of EventBus that TLC checks.
EXTENDS EventBus

CONSTANTS l1, l2, w1, d1, d2, d3

MCLoopers == {l1, l2}
MCDelegates == {d1, d2, d3}

\* Two delegates on one looper, so that a callback can outlive the other's
\* removal and the first and the last of a looper differ, and one on another.
MCLooperOf == (d1 :> l1) @@ (d2 :> l1) @@ (d3 :> l2)

\* A pool on the first looper, which the other can then be mixed up in.
MCWorkers == {w1}
MCPoolOf == w1 :> l1
=============================================================================
