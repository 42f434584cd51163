------------------------- MODULE OrderedQueueProofs -------------------------
(* The order OrderedQueue promises, for all values, priorities and pushes. *)
EXTENDS OrderedQueue, TLAPS

TypeOK == queue \in Seq(Entry) /\ pushes \in Nat

\* Entries carry the stamps of earlier pushes.
Stamped == \A i \in 1..Len(queue) : queue[i].stamp < pushes

Inv == TypeOK /\ Stamped /\ Sorted /\ FairWithinPriority

\* Inserting behind the first k of a sequence keeps it a sequence.
LEMMA InsertAfterType ==
  ASSUME NEW S, NEW q \in Seq(S), NEW k \in 0..Len(q), NEW e \in S
  PROVE  /\ InsertAfter(q, k, e) \in Seq(S)
         /\ Len(InsertAfter(q, k, e)) = Len(q) + 1
         /\ \A i \in 1..(Len(q) + 1) : InsertAfter(q, k, e)[i] =
              IF i <= k THEN q[i] ELSE IF i = k + 1 THEN e ELSE q[i - 1]
<1>1. \A i \in 1..(Len(q) + 1) :
        (IF i <= k THEN q[i] ELSE IF i = k + 1 THEN e ELSE q[i - 1]) \in S
  OBVIOUS
<1>2. QED
  BY <1>1 DEF InsertAfter

\* A push keeps the order, wherever in the queue its place is.
LEMMA PushKeepsOrder ==
  ASSUME Inv, NEW p \in Int, NEW first \in BOOLEAN, Push(p, first)
  PROVE  Inv'
<1> DEFINE e == [priority |-> p, insertFirst |-> first, stamp |-> pushes]
<1>1. PICK k \in 0..Len(queue) :
        /\ \A i \in 1..Len(queue) : StaysBefore(queue[i], e) <=> i <= k
        /\ queue' = InsertAfter(queue, k, e)
        /\ pushes' = pushes + 1
  BY DEF Push
<1>2. e \in Entry
  BY DEF Inv, TypeOK, Entry
<1>3. /\ queue' \in Seq(Entry)
      /\ Len(queue') = Len(queue) + 1
      /\ \A i \in 1..(Len(queue) + 1) : queue'[i] =
           IF i <= k THEN queue[i] ELSE IF i = k + 1 THEN e ELSE queue[i - 1]
  BY <1>1, <1>2, InsertAfterType DEF Inv, TypeOK
<1>4. \A i \in 1..Len(queue) : queue[i] \in Entry
  BY DEF Inv, TypeOK
<1>6. TypeOK'
  BY <1>1, <1>3 DEF Inv, TypeOK
<1>e. /\ e.priority = p /\ e.stamp = pushes
      /\ e.insertFirst => first
      /\ first => e.insertFirst
      /\ pushes \in Nat /\ pushes' = pushes + 1
  <2>1. e.priority = p /\ e.stamp = pushes
    OBVIOUS
  <2>2. e.insertFirst => first
    OBVIOUS
  <2>3. first => e.insertFirst
    OBVIOUS
  <2>4. QED
    BY <2>1, <2>2, <2>3, <1>1 DEF Inv, TypeOK
<1>f. /\ \A i \in 1..Len(queue) : /\ queue[i].priority \in Int
                                  /\ queue[i].stamp \in Nat
      /\ Len(queue) \in Nat /\ Len(queue') \in Nat /\ k \in Nat
      /\ Len(queue') = Len(queue) + 1
  <2>1. \A i \in 1..Len(queue) : queue[i].priority \in Int
    BY <1>4 DEF Entry
  <2>2. \A i \in 1..Len(queue) : queue[i].stamp \in Nat
    BY <1>4 DEF Entry
  <2>3. Len(queue) \in Nat
    BY DEF Inv, TypeOK
  <2>4. QED
    BY <2>1, <2>2, <2>3, <1>3
<1> HIDE DEF e
<1>5. \A i \in 1..Len(queue) :
        /\ i <= k => queue[i].priority <= p /\ (first => queue[i].priority < p)
        /\ i > k => queue[i].priority >= p /\ (~first => queue[i].priority > p)
  <2>1. \A i \in 1..Len(queue) : i <= k <=> StaysBefore(queue[i], e)
    BY <1>1
  <2>2. SUFFICES ASSUME NEW i \in 1..Len(queue)
        PROVE /\ i <= k => queue[i].priority <= p /\ (first => queue[i].priority < p)
              /\ i > k => queue[i].priority >= p /\ (~first => queue[i].priority > p)
    BY Zenon
  <2>3. CASE first
    <3>1. StaysBefore(queue[i], e) <=> queue[i].priority < p
      BY <2>3, <1>e DEF StaysBefore
    <3>2. QED
      BY <2>1, <2>3, <3>1, <1>f
  <2>4. CASE ~first
    <3>1. StaysBefore(queue[i], e) <=> queue[i].priority <= p
      BY <2>4, <1>e DEF StaysBefore
    <3>2. QED
      BY <2>1, <2>4, <3>1, <1>f
  <2>5. QED
    BY <2>3, <2>4
<1>k. /\ \A i \in 1..k : queue'[i] = queue[i]
      /\ queue'[k + 1] = e
      /\ \A i \in (k + 2)..Len(queue') : queue'[i] = queue[i - 1]
  <2>1. \A i \in 1..k : queue'[i] = queue[i]
    BY <1>3, <1>f
  <2>2. queue'[k + 1] = e
    <3>1. k + 1 \in 1..(Len(queue) + 1) /\ ~(k + 1 <= k)
      BY <1>f
    <3>2. QED
      BY <3>1, <1>3
  <2>3. ASSUME NEW i \in (k + 2)..Len(queue')
        PROVE  queue'[i] = queue[i - 1]
    <3>1. i \in 1..(Len(queue) + 1) /\ ~(i <= k) /\ i # k + 1
      BY <1>f
    <3>2. QED
      BY <3>1, <1>3
  <2>4. QED
    BY <2>1, <2>2, <2>3
<1>c. ASSUME NEW i \in 1..Len(queue')
      PROVE  \/ i \in 1..k /\ i \in 1..Len(queue)
             \/ i = k + 1
             \/ i \in (k + 2)..Len(queue') /\ i - 1 \in (k + 1)..Len(queue)
  BY <1>3, <1>f
<1>g. ASSUME NEW i \in 1..Len(queue'), i > k + 1
      PROVE  queue'[i] = queue[i - 1] /\ i - 1 \in 1..Len(queue) /\ i - 1 > k
  <2>1. i \in (k + 2)..Len(queue') /\ i - 1 \in 1..Len(queue) /\ i - 1 > k
    BY <1>g, <1>f
  <2>2. QED
    BY <2>1, <1>k
<1>l. ASSUME NEW i \in 1..Len(queue'), i < k + 1
      PROVE  queue'[i] = queue[i] /\ i \in 1..Len(queue) /\ i <= k
  <2>1. i \in 1..k /\ i \in 1..Len(queue)
    BY <1>l, <1>f
  <2>2. QED
    BY <2>1, <1>k
<1>7. Stamped'
  <2> SUFFICES ASSUME NEW i \in 1..Len(queue')
               PROVE  queue'[i].stamp < pushes'
    BY DEF Stamped
  <2>1. \A j \in 1..Len(queue) : queue[j].stamp < pushes
    BY DEF Inv, Stamped
  <2>2. CASE i \in 1..k /\ i \in 1..Len(queue)
    BY <2>1, <2>2, <1>e, <1>f, <1>k
  <2>3. CASE i = k + 1
    BY <2>3, <1>e, <1>k
  <2>4. CASE i \in (k + 2)..Len(queue') /\ i - 1 \in (k + 1)..Len(queue)
    <3>1. queue'[i] = queue[i - 1] /\ i - 1 \in 1..Len(queue)
      BY <2>4, <1>k, <1>f
    <3>2. QED
      BY <3>1, <2>1, <1>e, <1>f
  <2>5. QED
    BY <1>c, <2>2, <2>3, <2>4
<1>8. Sorted'
  <2>s. SUFFICES ASSUME NEW i \in 1..Len(queue'), NEW j \in 1..Len(queue'), i < j
               PROVE  queue'[i].priority <= queue'[j].priority
    BY DEF Sorted
  <2>1. \A m, n \in 1..Len(queue) :
          m < n => queue[m].priority <= queue[n].priority
    BY DEF Inv, Sorted
  <2>2. \A m \in 1..Len(queue) : /\ m <= k => queue[m].priority <= p
                                 /\ m > k => queue[m].priority >= p
    BY <1>5
  <2>3. CASE i = k + 1
    <3>1. queue'[i].priority = p
      BY <2>3, <1>k, <1>e
    <3>2. queue'[j] = queue[j - 1] /\ j - 1 \in 1..Len(queue) /\ j - 1 > k
      BY <2>s, <2>3, <1>g, <1>f
    <3>3. queue[j - 1].priority >= p /\ queue[j - 1].priority \in Int
      BY <3>2, <2>2, <1>f
    <3>4. queue'[j].priority >= p /\ queue'[j].priority \in Int
      BY <3>2, <3>3
    <3>5. QED
      BY <3>1, <3>4
  <2>4. CASE j = k + 1
    <3>1. queue'[j].priority = p
      BY <2>4, <1>k, <1>e
    <3>2. queue'[i] = queue[i] /\ i \in 1..Len(queue) /\ i <= k
      BY <2>s, <2>4, <1>l, <1>f
    <3>3. queue[i].priority <= p /\ queue[i].priority \in Int
      BY <3>2, <2>2, <1>f
    <3>4. QED
      BY <3>1, <3>2, <3>3
  <2>5. CASE i # k + 1 /\ j # k + 1
    <3>1. PICK m \in 1..Len(queue) :
            queue'[i] = queue[m] /\ m = IF i <= k THEN i ELSE i - 1
      BY <2>5, <1>g, <1>l, <1>f
    <3>2. PICK n \in 1..Len(queue) :
            queue'[j] = queue[n] /\ n = IF j <= k THEN j ELSE j - 1
      BY <2>5, <1>g, <1>l, <1>f
    <3>3. m < n
      BY <2>s, <3>1, <3>2, <2>5
    <3>4. QED
      BY <3>1, <3>2, <3>3, <2>1
  <2>6. QED
    BY <2>3, <2>4, <2>5
<1>9. FairWithinPriority'
  <2> DEFINE Fair(x, y) ==
        x.priority = y.priority =>
          /\ y.insertFirst => x.insertFirst
          /\ x.insertFirst /\ y.insertFirst => x.stamp > y.stamp
          /\ ~x.insertFirst => x.stamp < y.stamp
  <2>s. SUFFICES ASSUME NEW i \in 1..Len(queue'), NEW j \in 1..Len(queue'),
                        i < j
                 PROVE  Fair(queue'[i], queue'[j])
    BY DEF FairWithinPriority
  <2>1. \A m, n \in 1..Len(queue) : m < n => Fair(queue[m], queue[n])
    BY DEF Inv, FairWithinPriority
  <2>2. \A m \in 1..Len(queue) : queue[m].stamp < pushes
    BY DEF Inv, Stamped
  <2>3. CASE i = k + 1
    <3>1. queue'[i] = e
      BY <2>3, <1>k
    <3>2. queue'[j] = queue[j - 1] /\ j - 1 \in 1..Len(queue) /\ j - 1 > k
      BY <2>s, <2>3, <1>g, <1>f
    <3>3. queue'[j].priority = p => first
      <4>1. /\ ~first => queue[j - 1].priority > p
            /\ queue[j - 1].priority \in Int
        BY <3>2, <1>5, <1>f
      <4>2. ~(queue[j - 1].priority > p) \/ queue[j - 1].priority # p
        BY <4>1
      <4>3. QED
        BY <3>2, <4>1, <4>2
    <3>4. queue'[j].stamp < pushes
      BY <3>2, <2>2
    <3>5. queue'[j].stamp \in Nat
      BY <3>2, <1>f
    <3>6. QED
      BY <3>1, <3>3, <3>4, <3>5, <1>e
  <2>4. CASE j = k + 1
    <3>1. queue'[j] = e
      BY <2>4, <1>k
    <3>2. queue'[i] = queue[i] /\ i \in 1..Len(queue) /\ i <= k
      BY <2>s, <2>4, <1>l, <1>f
    <3>3. queue'[i].priority = p => ~first
      <4>1. /\ first => queue[i].priority < p
            /\ queue[i].priority \in Int
        BY <3>2, <1>5, <1>f
      <4>2. ~(queue[i].priority < p) \/ queue[i].priority # p
        BY <4>1
      <4>3. QED
        BY <3>2, <4>1, <4>2
    <3>4. queue'[i].stamp < pushes
      BY <3>2, <2>2
    <3>5. QED
      BY <3>1, <3>3, <3>4, <1>e
  <2>5. CASE i # k + 1 /\ j # k + 1
    <3>1. PICK m \in 1..Len(queue) :
            queue'[i] = queue[m] /\ m = IF i <= k THEN i ELSE i - 1
      BY <2>5, <1>g, <1>l, <1>f
    <3>2. PICK n \in 1..Len(queue) :
            queue'[j] = queue[n] /\ n = IF j <= k THEN j ELSE j - 1
      BY <2>5, <1>g, <1>l, <1>f
    <3>3. m < n
      BY <3>1, <3>2, <2>5, <2>s
    <3> HIDE DEF Fair
    <3>4. QED
      BY <3>1, <3>2, <3>3, <2>1
  <2>6. QED
    BY <2>3, <2>4, <2>5
<1>10. QED
  BY <1>6, <1>7, <1>8, <1>9 DEF Inv

\* A pop shifts the queue and keeps the order.
LEMMA PopKeepsOrder ==
  ASSUME Inv, Pop
  PROVE  Inv'
<1>1. /\ queue' \in Seq(Entry)
      /\ Len(queue') = Len(queue) - 1
      /\ \A i \in 1..Len(queue') : queue'[i] = queue[i + 1]
      /\ pushes' = pushes
  BY DEF Pop, Inv, TypeOK
<1>2. \A i \in 1..Len(queue') : i + 1 \in 1..Len(queue)
  BY <1>1 DEF Inv, TypeOK
<1>3. TypeOK' /\ Stamped'
  BY <1>1, <1>2 DEF Inv, TypeOK, Stamped
<1>4. Sorted'
  <2> SUFFICES ASSUME NEW i \in 1..Len(queue'), NEW j \in 1..Len(queue'), i < j
               PROVE  queue'[i].priority <= queue'[j].priority
    BY DEF Sorted
  <2>1. i + 1 < j + 1 /\ i + 1 \in 1..Len(queue) /\ j + 1 \in 1..Len(queue)
    BY <1>2
  <2>2. QED
    BY <1>1, <2>1 DEF Inv, Sorted
<1>5. FairWithinPriority'
  <2> SUFFICES ASSUME NEW i \in 1..Len(queue'), NEW j \in 1..Len(queue'),
                      i < j, queue'[i].priority = queue'[j].priority
               PROVE  /\ queue'[j].insertFirst => queue'[i].insertFirst
                      /\ queue'[i].insertFirst /\ queue'[j].insertFirst =>
                           queue'[i].stamp > queue'[j].stamp
                      /\ ~queue'[i].insertFirst =>
                           queue'[i].stamp < queue'[j].stamp
    BY DEF FairWithinPriority
  <2>1. i + 1 < j + 1 /\ i + 1 \in 1..Len(queue) /\ j + 1 \in 1..Len(queue)
    BY <1>2
  <2>2. queue'[i] = queue[i + 1] /\ queue'[j] = queue[j + 1]
    BY <1>1
  <2>3. QED
    BY <2>1, <2>2 DEF Inv, FairWithinPriority
<1>6. QED
  BY <1>3, <1>4, <1>5 DEF Inv

\* Whatever is pushed and popped, the queue is ordered, and fair to equals.
THEOREM OrderIsKept ==
  ASSUME Priorities \subseteq Int
  PROVE  Spec => [](Sorted /\ FairWithinPriority)
<1>1. Init => Inv
  BY DEF Init, Inv, TypeOK, Stamped, Sorted, FairWithinPriority
<1>2. Inv /\ [Next]_vars => Inv'
  <2> SUFFICES ASSUME Inv, [Next]_vars PROVE Inv'
    OBVIOUS
  <2>2. CASE UNCHANGED vars
    BY <2>2 DEF vars, Inv, TypeOK, Stamped, Sorted, FairWithinPriority
  <2>3. QED
    BY <2>2, PushKeepsOrder, PopKeepsOrder DEF Next
<1>3. Inv => Sorted /\ FairWithinPriority
  BY DEF Inv
<1>4. QED
  BY <1>1, <1>2, <1>3, PTL DEF Spec
=============================================================================
