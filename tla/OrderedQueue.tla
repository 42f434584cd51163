---------------------------- MODULE OrderedQueue ----------------------------
(***************************************************************************)
(* What memory::PriorityQueue promises its users                           *)
(* (core/memory/SPMemPriorityQueue.h): a sequence ordered by priority,     *)
(* where an entry goes behind its equals, or in front of them when it was  *)
(* pushed with insertFirst.  A value is told apart by the number of its    *)
(* push.                                                                   *)
(***************************************************************************)
EXTENDS Integers, Sequences

CONSTANT Priorities   \* the PriorityType values in use: lower is popped first

VARIABLES queue,      \* the entries in the order they will be popped
          pushes      \* how many pushes there were

vars == <<queue, pushes>>

Entry == [priority : Int, insertFirst : BOOLEAN, stamp : Nat]

Init == queue = <<>> /\ pushes = 0

\* Does an entry f of the queue stay in front of a new entry e?
StaysBefore(f, e) ==
  IF e.insertFirst THEN f.priority < e.priority ELSE f.priority <= e.priority

\* q with e behind its first k entries
InsertAfter(q, k, e) ==
  [i \in 1..(Len(q) + 1) |->
     IF i <= k THEN q[i] ELSE IF i = k + 1 THEN e ELSE q[i - 1]]

Push(p, first) ==
  LET e == [priority |-> p, insertFirst |-> first, stamp |-> pushes]
  IN  \E k \in 0..Len(queue) :
        /\ \A i \in 1..Len(queue) : StaysBefore(queue[i], e) <=> i <= k
        /\ queue' = InsertAfter(queue, k, e)
        /\ pushes' = pushes + 1

Pop == queue # <<>> /\ queue' = Tail(queue) /\ UNCHANGED pushes

Next == Pop \/ \E p \in Priorities, first \in BOOLEAN : Push(p, first)

Spec == Init /\ [][Next]_vars

(***************************************************************************)
(* Properties                                                              *)
(***************************************************************************)

\* The head is always among the most urgent: lower values come first.
Sorted ==
  \A i, j \in 1..Len(queue) : i < j => queue[i].priority <= queue[j].priority

\* Within one priority value: first the entries pushed with insertFirst, the
\* latest of them in front, then the others in the order of their pushes.
FairWithinPriority ==
  \A i, j \in 1..Len(queue) :
    i < j /\ queue[i].priority = queue[j].priority =>
      /\ queue[j].insertFirst => queue[i].insertFirst
      /\ queue[i].insertFirst /\ queue[j].insertFirst =>
           queue[i].stamp > queue[j].stamp
      /\ ~queue[i].insertFirst => queue[i].stamp < queue[j].stamp
=============================================================================
