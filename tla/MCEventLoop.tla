----------------------------- MODULE MCEventLoop -----------------------------
(* Small instances of EventLoop for TLC. *)
EXTENDS EventLoop, TLC

CONSTANTS p1, p2, p3, k1, k2

MCPosts == {p1, p2, p3}
MCInner == {p3}
MCTask(p) == p = p1
MCWakers == {k1, k2}

\* A graceful wakeup, and one that leaves it to the run, which may be forced.
MCWakeFlags == {{"Graceful"}, {"ContextDefault"}}
MCRunFlags == {{"Graceful"}, {}}
=============================================================================
