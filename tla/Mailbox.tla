------------------------------- MODULE Mailbox -------------------------------
(***************************************************************************)
(* What performOnThread() promises: everything posted to a loop is run     *)
(* there exactly once, and where the order between two posts is kept, the  *)
(* one posted first runs first.                                            *)
(***************************************************************************)
CONSTANTS Posts,         \* what may be posted
          Ordered(_, _)  \* the order between the two posts is kept

VARIABLES waiting,  \* the posts still to run
          ahead,    \* pairs of them: the first has to run before the second
          done      \* the posts that have run

Init == waiting = {} /\ ahead = {} /\ done = {}

New(p) == p \notin waiting \cup done
First(p) == p \in waiting /\ \A q \in waiting : <<q, p>> \notin ahead

Behind(p, W) == {<<q, p>> : q \in {r \in W : Ordered(r, p)}}
Without(p) == {x \in ahead : x[1] # p /\ x[2] # p}

Post(p) ==
  /\ New(p)
  /\ waiting' = waiting \cup {p}
  /\ ahead' = ahead \cup Behind(p, waiting)
  /\ UNCHANGED done

Run(p) ==
  /\ First(p)
  /\ waiting' = waiting \ {p}
  /\ ahead' = Without(p)
  /\ done' = done \cup {p}

\* What runs may post more.
RunAndPost(p, n) ==
  /\ First(p) /\ New(n)
  /\ waiting' = (waiting \ {p}) \cup {n}
  /\ ahead' = Without(p) \cup Behind(n, waiting \ {p})
  /\ done' = done \cup {p}

Next ==
  \/ \E p \in Posts : Post(p) \/ Run(p)
  \/ \E p, n \in Posts : RunAndPost(p, n)

Spec == Init /\ [][Next]_<<waiting, ahead, done>>
=============================================================================
