------------------------ MODULE PriorityQueueProofs ------------------------
(***************************************************************************)
(* Proofs about PriorityQueue whose clear() runs alone (ClearRaces is      *)
(* FALSE), for any threads, priorities, block sizes and number of pushes:  *)
(* the locks keep threads apart, no node is lost, blocks and values live   *)
(* as long as they are used, and the linked list is an OrderedQueue.       *)
(***************************************************************************)
EXTENDS PriorityQueue, FiniteSetTheorems, WellFoundedInduction, TLAPS

-----------------------------------------------------------------------------
(* Numbers.                                                                *)

\* The natural numbers are well-founded by <.
LEMMA NatOrder ==
  \E R : IsWellFoundedOn(R, Nat) /\ \A m, n \in Nat : <<m, n>> \in R <=> m < n
<1>1. \A m, n \in Nat : <<m, n>> \in OpToRel(<, Nat) <=> m < n
  BY DEF OpToRel
<1>2. QED
  BY <1>1, NatLessThanWellFounded, Zenon

\* So a set of them that is not empty has a least member.
LEMMA Least ==
  ASSUME NEW D \in SUBSET Nat, D # {}
  PROVE  \E n \in D : \A m \in D : n <= m
<1>1. PICK R : IsWellFoundedOn(R, Nat) /\ \A m, n \in Nat : <<m, n>> \in R <=> m < n
  BY NatOrder, Zenon
<1>2. \A m, n \in Nat : <<m, n>> \in R <=> m < n
  BY <1>1
<1>3. \E n \in D : \A m \in D : ~(<<m, n>> \in R)
  <2>1. IsWellFoundedOn(R, Nat)
    BY <1>1
  <2>2. D \subseteq Nat
    OBVIOUS
  <2>3. QED
    BY <2>1, <2>2, WFMin, Zenon
<1>4. PICK n \in D : \A m \in D : ~(<<m, n>> \in R)
  BY <1>3
<1>5. \A m \in D : ~(m < n)
  BY <1>2, <1>4
<1>6. \A m \in D : n <= m
  BY <1>5
<1>7. QED
  BY <1>6

\* One that has a bound has a greatest member.
LEMMA Greatest ==
  ASSUME NEW b \in Nat, NEW D \in SUBSET (0..b), D # {}
  PROVE  \E n \in D : \A m \in D : m <= n
<1> DEFINE E == {k \in Nat : b - k \in D}
<1>1. PICK d \in D : TRUE
  OBVIOUS
<1>2. b - d \in E
  BY b - (b - d) = d
<1>3. PICK k \in E : \A m \in E : k <= m
  BY <1>2, Least
<1>4. b - k \in D /\ k \in Nat
  BY <1>3
<1>5. ASSUME NEW m \in D PROVE m <= b - k
  <2>1. b - m \in E
    BY b - (b - m) = m
  <2>2. k <= b - m
    BY <2>1, <1>3
  <2>3. QED
    BY <2>2, <1>4
<1>6. QED
  BY <1>4, <1>5

\* What holds of 0 and passes from each number to the next holds of all.
LEMMA Induction ==
  ASSUME NEW D \in SUBSET Nat, 0 \in D, \A n \in D : n + 1 \in D
  PROVE  D = Nat
<1>1. SUFFICES ASSUME Nat \ D # {} PROVE FALSE
  OBVIOUS
<1>2. PICK n \in Nat \ D : \A m \in Nat \ D : n <= m
  BY <1>1, Least
<1>3. n # 0 /\ n - 1 \in Nat
  BY <1>2
<1>4. n - 1 \in D
  BY <1>2, <1>3
<1>5. (n - 1) + 1 = n
  BY <1>2
<1>6. QED
  BY <1>2, <1>4, <1>5

-----------------------------------------------------------------------------
(* Nodes and chains.                                                       *)

LEMMA Sizes ==
  Preallocated \in Nat \ {0} /\ StorageNodes \in Nat \ {0, 1} /\ MaxPushes \in Nat
  BY QueueNodesAssumption

LEMMA NodePairs ==
  /\ \A b \in Blocks : NodesOf(b) = {b} \X (1..StorageNodes) /\ b # NoBlock
  /\ NodesOf(NoBlock) = {NoBlock} \X (1..Preallocated)
  /\ \A b \in Blocks \cup {NoBlock} : \A n \in NodesOf(b) :
       n \in Node /\ BlockOf(n) = b /\ n = <<b, n[2]>>
  /\ \A n \in Node : BlockOf(n) \in Blocks \cup {NoBlock} /\ n \in NodesOf(BlockOf(n))
  /\ Null \notin Node /\ BlockOf(Null) = NoBlock
<1>1. \A b \in Blocks : NodesOf(b) = {b} \X (1..StorageNodes) /\ b # NoBlock
  BY Sizes DEF Blocks, NodesOf, NoBlock
<1>2. NodesOf(NoBlock) = {NoBlock} \X (1..Preallocated)
  BY DEF NodesOf
<1>3. \A b \in Blocks \cup {NoBlock} : \A n \in NodesOf(b) :
        n \in Node /\ BlockOf(n) = b /\ n = <<b, n[2]>>
  BY <1>1, <1>2 DEF Node, BlockOf
<1>4. \A n \in Node : BlockOf(n) \in Blocks \cup {NoBlock} /\ n \in NodesOf(BlockOf(n))
  BY <1>3 DEF Node
<1>5. Null \notin Node /\ BlockOf(Null) = NoBlock
  <2>1. \A b \in Blocks \cup {NoBlock} : \A n \in NodesOf(b) : n[2] # 0
    BY <1>1, <1>2, Sizes
  <2>2. QED
    BY <2>1, <1>4 DEF Null, BlockOf
<1>6. QED
  BY <1>1, <1>2, <1>3, <1>4, <1>5

LEMMA NodesFinite == IsFiniteSet(Node) /\ Cardinality(Node) \in Nat
<1>1. IsFiniteSet(0..MaxPushes) /\ IsFiniteSet(1..Preallocated + StorageNodes)
  BY Sizes, FS_Interval
<1>2. IsFiniteSet((0..MaxPushes) \X (1..Preallocated + StorageNodes))
  BY <1>1, FS_Product
<1>3. Node \subseteq (0..MaxPushes) \X (1..Preallocated + StorageNodes)
  BY NodePairs, Sizes DEF Node, Blocks, NoBlock
<1>4. QED
  BY <1>2, <1>3, FS_Subset, FS_CardinalityType

\* s holds the nodes from `first` on, each once, and ends.
Chain(links, first, s) ==
  /\ s \in Seq(Node)
  /\ \A i, j \in DOMAIN s : s[i] = s[j] => i = j
  /\ first = IF s = <<>> THEN Null ELSE s[1]
  /\ \A i \in DOMAIN s : links[s[i]] = IF i = Len(s) THEN Null ELSE s[i + 1]

\* The list that a chain is.
LEMMA ListOfChain ==
  ASSUME NEW links, NEW first, NEW s, Chain(links, first, s), links[Null] = Null
  PROVE  ListBy(links, first) = s
<1> DEFINE N == Cardinality(Node)
           at == CHOOSE g : g = [k \in 0..N |-> IF k = 0 THEN first ELSE links[g[k - 1]]]
           h == [k \in 0..N |-> IF k < Len(s) THEN s[k + 1] ELSE Null]
           T == {k \in DOMAIN at : at[k] # Null}
<1>1. ListBy(links, first) = [i \in 1..Cardinality(T) |-> at[i - 1]]
  BY DEF ListBy
<1>2. /\ s \in Seq(Node) /\ Len(s) \in Nat /\ DOMAIN s = 1..Len(s)
      /\ \A i \in 1..Len(s) : s[i] \in Node /\ s[i] # Null
  BY NodePairs DEF Chain
<1>3. Len(s) <= N /\ N \in Nat
  <2>1. s \in Injection(1..Len(s), Node)
    BY <1>2 DEF Chain, Injection, IsInjective
  <2>2. Cardinality(1..Len(s)) <= N
    BY <2>1, NodesFinite, FS_Injection
  <2>3. Cardinality(1..Len(s)) = Len(s)
    BY <1>2, FS_Interval
  <2>4. QED
    BY <2>2, <2>3, NodesFinite
<1>4. h = [k \in 0..N |-> IF k = 0 THEN first ELSE links[h[k - 1]]]
  <2>1. ASSUME NEW k \in 0..N
        PROVE  h[k] = IF k = 0 THEN first ELSE links[h[k - 1]]
    <3>1. CASE k = 0
      BY <3>1, <1>2, <1>3 DEF Chain
    <3>2. CASE k # 0
      <4>1. k - 1 \in 0..N /\ h[k - 1] = IF k - 1 < Len(s) THEN s[k] ELSE Null
        BY <3>2, <1>3
      <4>2. h[k] = IF k < Len(s) THEN s[k + 1] ELSE Null
        OBVIOUS
      <4>3. CASE k <= Len(s)
        <5>1. links[s[k]] = IF k = Len(s) THEN Null ELSE s[k + 1]
          <6>1. k \in DOMAIN s
            BY <4>3, <3>2, <1>2
          <6>2. QED
            BY <6>1 DEF Chain
        <5>2. QED
          BY <5>1, <4>1, <4>2, <4>3, <3>2, <1>2
      <4>4. CASE k > Len(s)
        BY <4>1, <4>2, <4>4, <3>2, <1>2
      <4>5. QED
        BY <4>3, <4>4, <1>2
    <3>3. QED
      BY <3>1, <3>2
  <2>2. QED
    BY <2>1
<1>5. at = [k \in 0..N |-> IF k = 0 THEN first ELSE links[at[k - 1]]]
  <2> HIDE DEF h, N
  <2>1. QED
    BY <1>4, Zenon
<1> HIDE DEF at, N
<1>6. ASSUME NEW k \in 0..N PROVE at[k] = h[k]
  <2>1. SUFFICES ASSUME {j \in 0..N : at[j] # h[j]} # {} PROVE FALSE
    OBVIOUS
  <2>2. PICK j \in 0..N : at[j] # h[j] /\ \A i \in 0..N : at[i] # h[i] => j <= i
    <3>1. {i \in 0..N : at[i] # h[i]} \in SUBSET Nat
      BY <1>3
    <3>2. QED
      BY <2>1, <3>1, Least
  <2>3. /\ at[j] = IF j = 0 THEN first ELSE links[at[j - 1]]
        /\ h[j] = IF j = 0 THEN first ELSE links[h[j - 1]]
    <3> HIDE DEF h
    <3>1. QED
      BY <1>4, <1>5
  <2>4. j # 0 /\ j - 1 \in 0..N /\ at[j - 1] # h[j - 1]
    BY <2>2, <2>3, <1>3
  <2>5. QED
    BY <2>2, <2>4, <1>3
<1>7. DOMAIN at = 0..N
  BY <1>5
<1>8. T = 0..Len(s) - 1
  BY <1>2, <1>3, <1>6, <1>7
<1>9. Cardinality(T) = Len(s)
  <2>1. Cardinality(0..Len(s) - 1) = Len(s)
    BY <1>2, FS_Interval
  <2>2. QED
    BY <1>8, <2>1
<1>10. \A i \in 1..Len(s) : at[i - 1] = s[i]
  BY <1>2, <1>3, <1>6
<1>11. s = [i \in 1..Len(s) |-> s[i]]
  BY <1>2
<1>12. QED
  <2> HIDE DEF T
  <2>1. QED
    BY <1>1, <1>9, <1>10, <1>11

-----------------------------------------------------------------------------
(* Locks.                                                                  *)

LockTypes ==
  /\ pc \in [Threads -> Pc]
  /\ queueLocks \in BOOLEAN /\ freeLocks \in BOOLEAN
  /\ queueMutex \in Threads \cup {NoThread} /\ freeMutex \in Threads \cup {NoThread}

\* A mutex is owned by the thread that is in its section, and the locks are
\* disabled exactly for a clear(), which is alone.
LocksOK ==
  /\ \A t \in Threads :
       /\ queueMutex = t <=> pc[t] \in {"pushing", "popping", "clearing"}
       /\ freeMutex = t <=>
            pc[t] \in {"allocating", "freeing", "clearLockQueue", "clearing"}
       /\ pc[t] \in ClearPc => /\ ~queueLocks /\ ~freeLocks
                               /\ \A u \in Threads \ {t} : pc[u] = "idle"
  /\ (\A t \in Threads : pc[t] \notin ClearPc) => queueLocks /\ freeLocks

LEMMA NoThreadIsNone == NoThread \notin Threads
  BY QueueNodesAssumption

\* While a thread is in an operation, nobody clears.
LEMMA NobodyClears ==
  ASSUME LocksOK, NEW t \in Threads, pc[t] \notin ClearPc, pc[t] # "idle"
  PROVE  queueLocks /\ freeLocks /\ \A u \in Threads : pc[u] \notin ClearPc
<1>1. \A u \in Threads : pc[u] \notin ClearPc
  BY DEF LocksOK
<1>2. QED
  BY <1>1 DEF LocksOK

\* Steps of an operation outside of the sections.
LEMMA StayOutside ==
  ASSUME LockTypes, LocksOK, NEW t \in Threads, UNCHANGED lockVars,
         NEW b \in {"alloc", "pop", "free"}, pc' = [pc EXCEPT ![t] = b],
         pc[t] \in {"idle", "dispose"}, \A u \in Threads : pc[u] \notin ClearPc
  PROVE  LockTypes' /\ LocksOK'
<1>1. LockTypes'
  BY DEF LockTypes, lockVars, Pc
<1>2. \A u \in Threads : pc'[u] = IF u = t THEN b ELSE pc[u]
  BY DEF LockTypes
<1>3. \A u \in Threads : pc'[u] \notin ClearPc
  BY <1>2 DEF ClearPc
<1>4. QED
  BY <1>1, <1>2, <1>3 DEF LocksOK, lockVars

\* Into a section and out of it.
LEMMA EnterQueueLocks ==
  ASSUME LockTypes, LocksOK, NEW t \in Threads, NEW b \in {"pushing", "popping"},
         EnterQueue(t), pc' = [pc EXCEPT ![t] = b], pc[t] \in {"push", "pop"}
  PROVE  LockTypes' /\ LocksOK'
<1>1. /\ queueLocks /\ freeLocks /\ \A u \in Threads : pc[u] \notin ClearPc
      /\ queueMutex = NoThread /\ queueMutex' = t
      /\ UNCHANGED <<queueLocks, freeLocks, freeMutex>>
  BY NobodyClears DEF EnterQueue, ClearPc
<1>2. LockTypes'
  BY <1>1 DEF LockTypes, Pc
<1>3. \A u \in Threads : pc'[u] = IF u = t THEN b ELSE pc[u]
  BY DEF LockTypes
<1>4. \A u \in Threads : pc'[u] \notin ClearPc
  BY <1>1, <1>3 DEF ClearPc
<1>5. \A u \in Threads : /\ queueMutex' = u <=> u = t
                         /\ pc[u] \notin {"pushing", "popping", "clearing"}
  BY <1>1, NoThreadIsNone DEF LocksOK
<1>6. QED
  BY <1>1, <1>2, <1>3, <1>4, <1>5 DEF LocksOK

LEMMA LeaveQueueLocks ==
  ASSUME LockTypes, LocksOK, NEW t \in Threads, NEW b \in {"idle", "dispose"},
         LeaveQueue, pc' = [pc EXCEPT ![t] = b], pc[t] \in {"pushing", "popping"}
  PROVE  LockTypes' /\ LocksOK'
<1>1. /\ queueLocks /\ freeLocks /\ \A u \in Threads : pc[u] \notin ClearPc
      /\ queueMutex = t /\ queueMutex' = NoThread
      /\ UNCHANGED <<queueLocks, freeLocks, freeMutex>>
  BY NobodyClears DEF LeaveQueue, ClearPc, LocksOK
<1>2. LockTypes'
  BY <1>1 DEF LockTypes, Pc
<1>3. \A u \in Threads : pc'[u] = IF u = t THEN b ELSE pc[u]
  BY DEF LockTypes
<1>4. \A u \in Threads : pc'[u] \notin ClearPc
  BY <1>1, <1>3 DEF ClearPc
<1>5. \A u \in Threads : /\ queueMutex' # u
                         /\ u # t => pc[u] \notin {"pushing", "popping", "clearing"}
  BY <1>1, NoThreadIsNone DEF LocksOK
<1>6. QED
  BY <1>1, <1>2, <1>3, <1>4, <1>5 DEF LocksOK

LEMMA EnterFreeLocks ==
  ASSUME LockTypes, LocksOK, NEW t \in Threads, NEW b \in {"allocating", "freeing"},
         EnterFree(t), pc' = [pc EXCEPT ![t] = b], pc[t] \in {"alloc", "free"}
  PROVE  LockTypes' /\ LocksOK'
<1>1. /\ queueLocks /\ freeLocks /\ \A u \in Threads : pc[u] \notin ClearPc
      /\ freeMutex = NoThread /\ freeMutex' = t
      /\ UNCHANGED <<queueLocks, freeLocks, queueMutex>>
  BY NobodyClears DEF EnterFree, ClearPc
<1>2. LockTypes'
  BY <1>1 DEF LockTypes, Pc
<1>3. \A u \in Threads : pc'[u] = IF u = t THEN b ELSE pc[u]
  BY DEF LockTypes
<1>4. \A u \in Threads : pc'[u] \notin ClearPc
  BY <1>1, <1>3 DEF ClearPc
<1>5. \A u \in Threads :
        /\ freeMutex' = u <=> u = t
        /\ pc[u] \notin {"allocating", "freeing", "clearLockQueue", "clearing"}
  BY <1>1, NoThreadIsNone DEF LocksOK
<1>6. QED
  BY <1>1, <1>2, <1>3, <1>4, <1>5 DEF LocksOK

LEMMA LeaveFreeLocks ==
  ASSUME LockTypes, LocksOK, NEW t \in Threads, NEW b \in {"push", "idle"},
         LeaveFree, pc' = [pc EXCEPT ![t] = b], pc[t] \in {"allocating", "freeing"}
  PROVE  LockTypes' /\ LocksOK'
<1>1. /\ queueLocks /\ freeLocks /\ \A u \in Threads : pc[u] \notin ClearPc
      /\ freeMutex = t /\ freeMutex' = NoThread
      /\ UNCHANGED <<queueLocks, freeLocks, queueMutex>>
  BY NobodyClears DEF LeaveFree, ClearPc, LocksOK
<1>2. LockTypes'
  BY <1>1 DEF LockTypes, Pc
<1>3. \A u \in Threads : pc'[u] = IF u = t THEN b ELSE pc[u]
  BY DEF LockTypes
<1>4. \A u \in Threads : pc'[u] \notin ClearPc
  BY <1>1, <1>3 DEF ClearPc
<1>5. \A u \in Threads :
        /\ freeMutex' # u
        /\ u # t => pc[u] \notin {"allocating", "freeing", "clearLockQueue", "clearing"}
  BY <1>1, NoThreadIsNone DEF LocksOK
<1>6. QED
  BY <1>1, <1>2, <1>3, <1>4, <1>5 DEF LocksOK

\* clear() begins alone and stays so.
LEMMA ClearLocks ==
  ASSUME ~ClearRaces, LockTypes, LocksOK, NEW t \in Threads,
         \/ ClearDisable(t) \/ ClearLockFree(t) \/ ClearLockQueue(t)
         \/ ClearUnlock(t) \/ ClearRestore(t)
  PROVE  LockTypes' /\ LocksOK'
<1>1. /\ \E b \in Pc : pc' = [pc EXCEPT ![t] = b]
      /\ \A u \in Threads \ {t} : pc[u] = "idle" /\ pc'[u] = "idle"
  BY DEF LockTypes, LocksOK, ClearDisable, ClearLockFree, ClearLockQueue, ClearUnlock,
         ClearRestore, Go, Pc, ClearPc
<1>2. LockTypes'
  BY <1>1 DEF LockTypes, ClearDisable, ClearLockFree, ClearLockQueue, ClearUnlock,
              ClearRestore
<1>3. \A u \in Threads \ {t} : queueMutex # u /\ freeMutex # u
  BY <1>1 DEF LocksOK
<1>4. CASE ClearDisable(t)
  <2>1. pc[t] = "idle" /\ pc'[t] = "clearLockFree" /\ ~freeLocks' /\ ~queueLocks'
        /\ UNCHANGED <<queueMutex, freeMutex>>
    BY <1>4 DEF ClearDisable, Go, LockTypes
  <2>2. queueMutex # t /\ freeMutex # t
    BY <2>1 DEF LocksOK
  <2>3. QED
    BY <1>1, <1>2, <1>3, <2>1, <2>2 DEF LocksOK, ClearPc
<1>5. CASE ClearLockFree(t)
  <2>1. pc[t] = "clearLockFree" /\ pc'[t] = "clearLockQueue" /\ freeMutex' = t
        /\ UNCHANGED <<queueMutex, queueLocks, freeLocks>>
    BY <1>5 DEF ClearLockFree, Go, LockTypes
  <2>2. queueMutex # t /\ ~queueLocks /\ ~freeLocks
    BY <2>1 DEF LocksOK, ClearPc
  <2>3. QED
    BY <1>1, <1>2, <1>3, <2>1, <2>2 DEF LocksOK, ClearPc
<1>6. CASE ClearLockQueue(t)
  <2>1. pc[t] = "clearLockQueue" /\ pc'[t] = "clearing" /\ queueMutex' = t
        /\ UNCHANGED <<freeMutex, queueLocks, freeLocks>>
    BY <1>6 DEF ClearLockQueue, Go, LockTypes
  <2>2. freeMutex = t /\ ~queueLocks /\ ~freeLocks
    BY <2>1 DEF LocksOK, ClearPc
  <2>3. QED
    BY <1>1, <1>2, <1>3, <2>1, <2>2 DEF LocksOK, ClearPc
<1>7. CASE ClearUnlock(t)
  <2>1. pc[t] = "clearing" /\ pc'[t] = "clearRestore" /\ queueMutex' = NoThread
        /\ freeMutex' = NoThread /\ UNCHANGED <<queueLocks, freeLocks>>
    BY <1>7 DEF ClearUnlock, Go, LockTypes
  <2>2. ~queueLocks /\ ~freeLocks
    BY <2>1 DEF LocksOK, ClearPc
  <2>3. QED
    BY <1>1, <1>2, <2>1, <2>2, NoThreadIsNone DEF LocksOK, ClearPc
<1>8. CASE ClearRestore(t)
  <2>1. pc[t] = "clearRestore" /\ pc'[t] = "idle" /\ queueLocks' /\ freeLocks'
        /\ UNCHANGED <<queueMutex, freeMutex>>
    BY <1>8 DEF ClearRestore, Go, LockTypes
  <2>2. queueMutex # t /\ freeMutex # t
    BY <2>1 DEF LocksOK
  <2>3. QED
    BY <1>1, <1>2, <1>3, <2>1, <2>2 DEF LocksOK, ClearPc
<1>9. QED
  BY <1>4, <1>5, <1>6, <1>7, <1>8

LEMMA LocksStep ==
  ASSUME ~ClearRaces, LockTypes, LocksOK, [Next]_vars
  PROVE  LockTypes' /\ LocksOK'
<1>1. CASE UNCHANGED vars
  <2>1. UNCHANGED <<pc, queueLocks, freeLocks, queueMutex, freeMutex>>
    BY <1>1 DEF vars, lockVars
  <2>2. QED
    BY <2>1 DEF LockTypes, LocksOK
<1>2. SUFFICES ASSUME NEW t \in Threads, Next,
                      \/ Push(t) \/ AllocateEnter(t) \/ AllocateNode(t) \/ PushEnter(t)
                      \/ PushNode(t)
                      \/ Pop(t) \/ PopEnter(t) \/ PopNothing(t) \/ PopNode(t) \/ Dispose(t)
                      \/ FreeEnter(t) \/ FreeNode(t)
                      \/ ClearDisable(t) \/ ClearLockFree(t) \/ ClearLockQueue(t)
                      \/ ClearNode(t) \/ ClearUnlock(t) \/ ClearRestore(t)
               PROVE  LockTypes' /\ LocksOK'
  BY <1>1 DEF Next
<1>3. CASE Push(t) \/ Pop(t)
  <2>1. /\ pc[t] = "idle" /\ UNCHANGED lockVars /\ \A u \in Threads : pc[u] \notin ClearPc
        /\ pc' = [pc EXCEPT ![t] = "alloc"] \/ pc' = [pc EXCEPT ![t] = "pop"]
    BY <1>3 DEF Push, Pop, Go, MayStart
  <2>2. QED
    BY <2>1, StayOutside
<1>4. CASE Dispose(t)
  <2>1. pc[t] = "dispose" /\ UNCHANGED lockVars /\ pc' = [pc EXCEPT ![t] = "free"]
    BY <1>4 DEF Dispose, Go
  <2>2. \A u \in Threads : pc[u] \notin ClearPc
    BY <2>1, NobodyClears DEF ClearPc
  <2>3. QED
    BY <2>1, <2>2, StayOutside
<1>5. CASE AllocateEnter(t) \/ FreeEnter(t)
  BY <1>5, EnterFreeLocks DEF AllocateEnter, FreeEnter, Go
<1>6. CASE AllocateNode(t) \/ FreeNode(t)
  BY <1>6, LeaveFreeLocks DEF AllocateNode, FreeNode, Go
<1>7. CASE PushEnter(t) \/ PopEnter(t)
  BY <1>7, EnterQueueLocks DEF PushEnter, PopEnter, Go
<1>8. CASE PushNode(t) \/ PopNothing(t) \/ PopNode(t)
  BY <1>8, LeaveQueueLocks DEF PushNode, PopNothing, PopNode, Go
<1>9. CASE ClearNode(t)
  <2>1. UNCHANGED <<pc, queueLocks, freeLocks, queueMutex, freeMutex>>
    BY <1>9 DEF ClearNode, lockVars
  <2>2. QED
    BY <2>1 DEF LockTypes, LocksOK
<1>10. QED
  BY <1>2, <1>3, <1>4, <1>5, <1>6, <1>7, <1>8, <1>9, ClearLocks

LEMMA LocksAlways == ~ClearRaces => (Spec => [](LockTypes /\ LocksOK))
<1> SUFFICES ASSUME ~ClearRaces PROVE Spec => [](LockTypes /\ LocksOK)
  OBVIOUS
<1>1. Init => LockTypes /\ LocksOK
  BY NoThreadIsNone DEF Init, LockTypes, LocksOK, Pc, ClearPc
<1>2. LockTypes /\ LocksOK /\ [Next]_vars => (LockTypes /\ LocksOK)'
  BY LocksStep
<1>3. QED
  BY <1>1, <1>2, PTL DEF Spec

\* "allocate (blocking) ... push (blocking) ... pop (blocking) ... free
\* (blocking)": two threads are never inside one list.
THEOREM ListsAreGuarded == ~ClearRaces => (Spec => []Blocking)
<1> SUFFICES ASSUME ~ClearRaces PROVE Spec => []Blocking
  OBVIOUS
<1>1. LocksOK => Blocking
  BY DEF LocksOK, Blocking
<1>2. QED
  BY <1>1, LocksAlways, PTL

(* Chains, read by their length.                                           *)

Cells(s) == {s[i] : i \in DOMAIN s}
Once(s, L) == \A i, j \in 1..L : s[i] = s[j] => i = j
Linked(links, s, L) == \A i \in 1..L : links[s[i]] = IF i = L THEN Null ELSE s[i + 1]
Sized(s, L) == L \in Nat /\ s \in Seq(Node) /\ Len(s) = L /\ DOMAIN s = 1..L

LEMMA ChainIs ==
  ASSUME NEW links, NEW first, NEW s, Chain(links, first, s)
  PROVE  /\ Sized(s, Len(s)) /\ Once(s, Len(s)) /\ Linked(links, s, Len(s))
         /\ first = IF Len(s) = 0 THEN Null ELSE s[1]
<1>1. s \in Seq(Node)
  BY DEF Chain
<1>2. Sized(s, Len(s))
  BY <1>1 DEF Sized
<1>3. (s = <<>>) <=> (Len(s) = 0)
  BY <1>1
<1>4. /\ \A i, j \in DOMAIN s : s[i] = s[j] => i = j
      /\ first = IF s = <<>> THEN Null ELSE s[1]
      /\ \A i \in DOMAIN s : links[s[i]] = IF i = Len(s) THEN Null ELSE s[i + 1]
  BY DEF Chain
<1>5. QED
  BY <1>2, <1>3, <1>4, Zenon DEF Sized, Once, Linked

LEMMA IsChain ==
  ASSUME NEW links, NEW first, NEW s, NEW L, Sized(s, L), Once(s, L), Linked(links, s, L),
         first = IF L = 0 THEN Null ELSE s[1]
  PROVE  Chain(links, first, s)
<1>1. (s = <<>>) <=> (L = 0)
  BY DEF Sized
<1>2. QED
  BY <1>1, Zenon DEF Chain, Sized, Once, Linked

LEMMA CellsAre ==
  ASSUME NEW s, NEW L, Sized(s, L)
  PROVE  /\ Cells(s) = {s[i] : i \in 1..L} /\ Cells(s) \subseteq Node
         /\ \A i \in 1..L : s[i] \in Node /\ s[i] # Null /\ s[i] \in Cells(s)
<1>1. \A i \in 1..L : s[i] \in Node
  BY DEF Sized
<1>2. Cells(s) = {s[i] : i \in 1..L}
  BY Zenon DEF Cells, Sized
<1>3. QED
  <2>1. Null \notin Node
    BY NodePairs
  <2>2. QED
    BY <1>1, <1>2, <2>1, Zenon

\* Links of other nodes do not matter.
LEMMA ChainFrame ==
  ASSUME NEW links, NEW first, NEW s, Chain(links, first, s),
         NEW new, \A n \in Cells(s) : new[n] = links[n]
  PROVE  Chain(new, first, s)
  BY DEF Chain, Cells

\* r is s with n behind its first k nodes.
Inserted(r, s, L, k, n) ==
  \A i \in 1..(L + 1) : r[i] = IF i <= k THEN s[i] ELSE IF i = k + 1 THEN n ELSE s[i - 1]

LEMMA InsertLinks ==
  ASSUME NEW L \in Nat, NEW k \in 0..L, NEW s, NEW r, NEW n, NEW links, NEW new,
         Inserted(r, s, L, k, n), Linked(links, s, L),
         new[n] = IF k = L THEN Null ELSE s[k + 1],
         k > 0 => new[s[k]] = n,
         \A i \in 1..L : i # k => new[s[i]] = links[s[i]]
  PROVE  Linked(new, r, L + 1)
<1> SUFFICES ASSUME NEW i \in 1..(L + 1)
             PROVE  new[r[i]] = IF i = L + 1 THEN Null ELSE r[i + 1]
  BY DEF Linked
<1>1. CASE i < k
  BY <1>1 DEF Inserted, Linked
<1>2. CASE i = k
  BY <1>2 DEF Inserted, Linked
<1>3. CASE i = k + 1
  BY <1>3 DEF Inserted, Linked
<1>4. CASE i > k + 1
  BY <1>4 DEF Inserted, Linked
<1>5. QED
  BY <1>1, <1>2, <1>3, <1>4

LEMMA InsertOnce ==
  ASSUME NEW L \in Nat, NEW k \in 0..L, NEW s, NEW r, NEW n,
         Inserted(r, s, L, k, n), Once(s, L), \A i \in 1..L : s[i] # n
  PROVE  Once(r, L + 1)
<1> SUFFICES ASSUME NEW i \in 1..(L + 1), NEW j \in 1..(L + 1), r[i] = r[j]
             PROVE  i = j
  BY DEF Once
<1> DEFINE a(m) == IF m <= k THEN m ELSE m - 1
<1>1. \A m \in 1..(L + 1) : m # k + 1 => a(m) \in 1..L /\ r[m] = s[a(m)]
  BY DEF Inserted
<1>2. CASE i = k + 1
  BY <1>2, <1>1 DEF Inserted
<1>3. CASE j = k + 1
  BY <1>3, <1>1 DEF Inserted
<1>4. CASE i # k + 1 /\ j # k + 1
  <2>1. a(i) = a(j)
    BY <1>1, <1>4 DEF Once
  <2>2. QED
    BY <2>1, <1>4
<1>5. QED
  BY <1>2, <1>3, <1>4

LEMMA InsertCells ==
  ASSUME NEW L \in Nat, NEW k \in 0..L, NEW s, NEW r, NEW n, Inserted(r, s, L, k, n)
  PROVE  {r[i] : i \in 1..(L + 1)} = {s[i] : i \in 1..L} \cup {n}
<1>1. ASSUME NEW i \in 1..(L + 1) PROVE r[i] \in {s[j] : j \in 1..L} \cup {n}
  <2>1. CASE i <= k
    <3>1. i \in 1..L /\ r[i] = s[i]
      BY <2>1 DEF Inserted
    <3>2. QED
      BY <3>1
  <2>2. CASE i > k + 1
    <3>1. i - 1 \in 1..L /\ r[i] = s[i - 1]
      BY <2>2 DEF Inserted
    <3>2. QED
      BY <3>1
  <2>3. CASE i = k + 1
    BY <2>3 DEF Inserted
  <2>4. QED
    BY <2>1, <2>2, <2>3
<1>2. ASSUME NEW i \in 1..L PROVE s[i] \in {r[j] : j \in 1..(L + 1)}
  <2>1. CASE i <= k
    <3>1. i \in 1..(L + 1) /\ r[i] = s[i]
      BY <2>1 DEF Inserted
    <3>2. QED
      BY <3>1
  <2>2. CASE i > k
    <3>1. i + 1 \in 1..(L + 1) /\ r[i + 1] = s[i]
      BY <2>2 DEF Inserted
    <3>2. QED
      BY <3>1
  <2>3. QED
    BY <2>1, <2>2
<1>3. n \in {r[j] : j \in 1..(L + 1)}
  <2>1. k + 1 \in 1..(L + 1) /\ r[k + 1] = n
    BY DEF Inserted
  <2>2. QED
    BY <2>1
<1>4. QED
  BY <1>1, <1>2, <1>3

LEMMA InsertAfterIs ==
  ASSUME NEW S, NEW s \in Seq(S), NEW L, L = Len(s), NEW k \in 0..L, NEW e \in S
  PROVE  /\ Ordered!InsertAfter(s, k, e) \in Seq(S)
         /\ Len(Ordered!InsertAfter(s, k, e)) = Len(s) + 1
         /\ Inserted(Ordered!InsertAfter(s, k, e), s, L, k, e)
<1> DEFINE r == [i \in 1..(L + 1) |-> IF i <= k THEN s[i] ELSE IF i = k + 1 THEN e ELSE s[i - 1]]
<1>1. L \in Nat /\ \A i \in 1..L : s[i] \in S
  OBVIOUS
<1>2. r \in [1..(L + 1) -> S]
  BY <1>1
<1>3. r \in Seq(S) /\ Len(r) = L + 1
  BY <1>1, <1>2
<1>4. r = Ordered!InsertAfter(s, k, e)
  BY DEF Ordered!InsertAfter
<1>5. Inserted(r, s, L, k, e)
  BY <1>1 DEF Inserted
<1> HIDE DEF r
<1>6. QED
  BY <1>3, <1>4, <1>5, Zenon

\* A node is linked in behind the first k of a chain.
LEMMA ChainInsert ==
  ASSUME NEW links, NEW first, NEW s, Chain(links, first, s), NEW L, L = Len(s),
         NEW k \in 0..L, NEW n \in Node \ Cells(s), NEW new,
         new[n] = (IF k = L THEN Null ELSE s[k + 1]),
         k > 0 => new[s[k]] = n,
         \A i \in 1..L : i # k => new[s[i]] = links[s[i]]
  PROVE  /\ Chain(new, IF k = 0 THEN n ELSE first, Ordered!InsertAfter(s, k, n))
         /\ Sized(Ordered!InsertAfter(s, k, n), L + 1)
         /\ Inserted(Ordered!InsertAfter(s, k, n), s, L, k, n)
         /\ Cells(Ordered!InsertAfter(s, k, n)) = Cells(s) \cup {n}
<1> DEFINE r == Ordered!InsertAfter(s, k, n)
<1>1. /\ Sized(s, L) /\ Once(s, L) /\ Linked(links, s, L)
      /\ first = IF L = 0 THEN Null ELSE s[1]
  BY ChainIs
<1>2. L \in Nat /\ s \in Seq(Node)
  BY <1>1 DEF Sized
<1>3. r \in Seq(Node) /\ Len(r) = L + 1 /\ Inserted(r, s, L, k, n)
  <2>1. n \in Node
    OBVIOUS
  <2>2. r \in Seq(Node)
    BY <1>2, <2>1, InsertAfterIs
  <2>3. Len(r) = Len(s) + 1
    BY <1>2, <2>1, InsertAfterIs
  <2>4. Inserted(r, s, L, k, n)
    BY <1>2, <2>1, InsertAfterIs, Zenon
  <2>5. QED
    BY <2>2, <2>3, <2>4
<1> HIDE DEF r
<1>4. Sized(r, L + 1)
  BY <1>2, <1>3 DEF Sized
<1>5. \A i \in 1..L : s[i] # n
  BY <1>1, CellsAre
<1>6. Once(r, L + 1)
  BY <1>1, <1>2, <1>3, <1>5, InsertOnce
<1>7. Linked(new, r, L + 1)
  BY <1>1, <1>2, <1>3, InsertLinks
<1>8. L + 1 # 0 /\ (IF k = 0 THEN n ELSE first) = r[1]
  BY <1>1, <1>2, <1>3 DEF Inserted
<1>9. Chain(new, IF k = 0 THEN n ELSE first, r)
  BY <1>4, <1>6, <1>7, <1>8, IsChain
<1>10. Cells(r) = Cells(s) \cup {n}
  BY <1>1, <1>2, <1>3, <1>4, CellsAre, InsertCells
<1>11. QED
  BY <1>3, <1>4, <1>9, <1>10 DEF r
\* r is s without its first node.
Shifted(r, s, L) == \A i \in 1..(L - 1) : r[i] = s[i + 1]

LEMMA TailIs ==
  ASSUME NEW s, NEW L, Sized(s, L), L # 0
  PROVE  Sized(Tail(s), L - 1) /\ Shifted(Tail(s), s, L)
<1>1. s \in Seq(Node) /\ s # <<>> /\ Len(s) = L /\ L \in Nat \ {0}
  BY DEF Sized
<1>2. Tail(s) \in Seq(Node) /\ Len(Tail(s)) = L - 1
  BY <1>1
<1>3. \A i \in 1..(L - 1) : Tail(s)[i] = s[i + 1]
  BY <1>1
<1>4. QED
  BY <1>1, <1>2, <1>3 DEF Sized, Shifted

LEMMA ShiftedIs ==
  ASSUME NEW L \in Nat \ {0}, NEW s, NEW r, NEW links,
         Shifted(r, s, L), Once(s, L), Linked(links, s, L)
  PROVE  /\ Once(r, L - 1) /\ Linked(links, r, L - 1)
         /\ {r[i] : i \in 1..(L - 1)} = {s[i] : i \in 1..L} \ {s[1]}
         /\ links[s[1]] = IF L - 1 = 0 THEN Null ELSE r[1]
<1>1. Once(r, L - 1)
  <2> SUFFICES ASSUME NEW i \in 1..(L - 1), NEW j \in 1..(L - 1), r[i] = r[j]
               PROVE  i = j
    BY DEF Once
  <2>1. i + 1 \in 1..L /\ j + 1 \in 1..L /\ s[i + 1] = s[j + 1]
    BY DEF Shifted
  <2>2. i + 1 = j + 1
    BY <2>1 DEF Once
  <2>3. QED
    BY <2>2
<1>2. Linked(links, r, L - 1)
  <2> SUFFICES ASSUME NEW i \in 1..(L - 1)
               PROVE  links[r[i]] = IF i = L - 1 THEN Null ELSE r[i + 1]
    BY DEF Linked
  <2>1. i + 1 \in 1..L /\ r[i] = s[i + 1]
    BY DEF Shifted
  <2>2. links[s[i + 1]] = IF i + 1 = L THEN Null ELSE s[(i + 1) + 1]
    BY <2>1 DEF Linked
  <2>3. i # L - 1 => r[i + 1] = s[(i + 1) + 1]
    BY DEF Shifted
  <2>4. QED
    BY <2>1, <2>2, <2>3
<1>3. ASSUME NEW i \in 1..(L - 1) PROVE r[i] \in {s[j] : j \in 1..L} \ {s[1]}
  <2>1. i + 1 \in 1..L /\ 1 \in 1..L /\ i + 1 # 1 /\ r[i] = s[i + 1]
    BY DEF Shifted
  <2>2. s[i + 1] # s[1]
    BY <2>1 DEF Once
  <2>3. QED
    BY <2>1, <2>2
<1>4. ASSUME NEW i \in 1..L, s[i] # s[1] PROVE s[i] \in {r[j] : j \in 1..(L - 1)}
  <2>1. i # 1
    BY <1>4
  <2>2. i - 1 \in 1..(L - 1) /\ (i - 1) + 1 = i
    BY <2>1
  <2>3. r[i - 1] = s[(i - 1) + 1]
    BY <2>2 DEF Shifted
  <2>4. r[i - 1] = s[i]
    BY <2>2, <2>3
  <2>5. QED
    BY <2>2, <2>4
<1>5. links[s[1]] = IF L - 1 = 0 THEN Null ELSE r[1]
  <2>1. links[s[1]] = IF 1 = L THEN Null ELSE s[1 + 1]
    BY DEF Linked
  <2>2. L # 1 => r[1] = s[1 + 1]
    BY DEF Shifted
  <2>3. QED
    BY <2>1, <2>2
<1>6. QED
  BY <1>1, <1>2, <1>3, <1>4, <1>5

\* The first node is taken off.
LEMMA ChainTail ==
  ASSUME NEW links, NEW first, NEW s, Chain(links, first, s), first # Null
  PROVE  /\ Chain(links, links[first], Tail(s))
         /\ Sized(s, Len(s)) /\ Sized(Tail(s), Len(s) - 1) /\ Shifted(Tail(s), s, Len(s))
         /\ Len(s) \in Nat \ {0}
         /\ Cells(Tail(s)) = Cells(s) \ {first} /\ first \in Cells(s)
         /\ links[first] = Null <=> Len(s) = 1
<1> DEFINE r == Tail(s)
           L == Len(s)
<1>1. /\ Sized(s, L) /\ Once(s, L) /\ Linked(links, s, L)
      /\ first = IF L = 0 THEN Null ELSE s[1]
  BY ChainIs
<1> HIDE DEF L
<1>2. L \in Nat \ {0} /\ first = s[1]
  BY <1>1 DEF Sized
<1>3. Sized(r, L - 1) /\ Shifted(r, s, L)
  <2>1. L # 0
    BY <1>2
  <2>2. QED
    BY <1>1, <2>1, TailIs
<1> HIDE DEF r
<1>4. /\ Once(r, L - 1) /\ Linked(links, r, L - 1)
      /\ {r[i] : i \in 1..(L - 1)} = {s[i] : i \in 1..L} \ {s[1]}
  <2>1. Once(r, L - 1) /\ Linked(links, r, L - 1)
    BY <1>1, <1>2, <1>3, ShiftedIs
  <2>2. {r[i] : i \in 1..(L - 1)} = {s[i] : i \in 1..L} \ {s[1]}
    BY <1>1, <1>2, <1>3, ShiftedIs
  <2>3. QED
    BY <2>1, <2>2
<1>5. links[first] = IF L - 1 = 0 THEN Null ELSE r[1]
  BY <1>1, <1>2, <1>3, ShiftedIs
<1>6. Chain(links, links[first], r)
  BY <1>3, <1>4, <1>5, IsChain
<1>7. Cells(r) = Cells(s) \ {first}
  BY <1>1, <1>2, <1>3, <1>4, CellsAre
<1>8. first \in Cells(s)
  <2>1. 1 \in 1..L
    BY <1>2
  <2>2. QED
    BY <1>1, <1>2, <2>1, CellsAre
<1>9. links[first] = Null <=> L = 1
  <2>1. L # 1 => 1 \in 1..(L - 1)
    BY <1>2
  <2>2. L # 1 => r[1] # Null
    BY <1>3, <2>1, CellsAre
  <2>3. (L - 1 = 0) <=> (L = 1)
    BY <1>2
  <2>4. QED
    BY <1>5, <2>2, <2>3
<1>10. QED
  BY <1>1, <1>2, <1>3, <1>6, <1>7, <1>8, <1>9 DEF r, L

\* The members of a set of numbers in their order.
Enumerates(e, m, D) ==
  /\ \A i \in 1..m : e[i] \in D
  /\ \A i, j \in 1..m : i < j => e[i] < e[j]
  /\ \A d \in D : \E i \in 1..m : e[i] = d

LEMMA Enumeration ==
  ASSUME NEW L \in Nat, NEW D \in SUBSET (1..L)
  PROVE  \E m \in Nat : \E e : Enumerates(e, m, D)
<1> DEFINE Able == {l \in Nat : \A C \in SUBSET (1..l) : \E m \in Nat : \E e : Enumerates(e, m, C)}
<1>1. 0 \in Able
  <2>1. \A C \in SUBSET (1..0) : Enumerates([i \in {} |-> i], 0, C)
    BY DEF Enumerates
  <2>2. QED
    BY <2>1
<1>2. ASSUME NEW l \in Able PROVE l + 1 \in Able
  <2>1. SUFFICES ASSUME NEW C \in SUBSET (1..(l + 1))
                 PROVE  \E m \in Nat : \E e : Enumerates(e, m, C)
    OBVIOUS
  <2>2. C \ {l + 1} \in SUBSET (1..l)
    OBVIOUS
  <2>3. PICK m \in Nat : \E e : Enumerates(e, m, C \ {l + 1})
    BY <2>2
  <2>4. PICK e : Enumerates(e, m, C \ {l + 1})
    BY <2>3
  <2>5. CASE l + 1 \notin C
    BY <2>4, <2>5
  <2>6. CASE l + 1 \in C
    <3> DEFINE g == [i \in 1..(m + 1) |-> IF i = m + 1 THEN l + 1 ELSE e[i]]
    <3>1. \A i \in 1..m : e[i] \in C /\ e[i] \in 1..l /\ i \in 1..(m + 1) /\ g[i] = e[i]
      <4>1. \A i \in 1..m : e[i] \in C \ {l + 1}
        BY <2>4 DEF Enumerates
      <4>2. \A i \in 1..m : i \in 1..(m + 1) /\ g[i] = e[i]
        OBVIOUS
      <4> HIDE DEF g
      <4>3. QED
        BY <4>1, <4>2, <2>2
    <3>2. m + 1 \in 1..(m + 1) /\ g[m + 1] = l + 1
      OBVIOUS
    <3> HIDE DEF g
    <3>3. \A i \in 1..(m + 1) : g[i] \in C
      BY <3>1, <3>2, <2>6
    <3>4. ASSUME NEW i \in 1..(m + 1), NEW j \in 1..(m + 1), i < j PROVE g[i] < g[j]
      <4>1. i \in 1..m
        BY <3>4
      <4>2. CASE j = m + 1
        BY <4>1, <4>2, <3>1, <3>2
      <4>3. CASE j # m + 1
        <5>1. j \in 1..m
          BY <4>3
        <5>2. e[i] < e[j]
          BY <4>1, <5>1, <3>4, <2>4 DEF Enumerates
        <5>3. QED
          BY <4>1, <5>1, <5>2, <3>1
      <4>4. QED
        BY <4>2, <4>3
    <3>5. ASSUME NEW d \in C PROVE \E i \in 1..(m + 1) : g[i] = d
      <4>1. CASE d = l + 1
        BY <4>1, <3>2
      <4>2. CASE d # l + 1
        <5>1. PICK i \in 1..m : e[i] = d
          BY <4>2, <2>4 DEF Enumerates
        <5>2. QED
          BY <5>1, <3>1
      <4>3. QED
        BY <4>1, <4>2
    <3>6. Enumerates(g, m + 1, C)
      BY <3>3, <3>4, <3>5 DEF Enumerates
    <3>7. QED
      BY <3>6
  <2>7. QED
    BY <2>5, <2>6
<1>3. Able = Nat
  <2> HIDE DEF Able
  <2>1. Able \in SUBSET Nat
    BY DEF Able
  <2>2. QED
    BY <1>1, <1>2, <2>1, Induction
<1>4. QED
  BY <1>3

\* There is one least and one greatest member.
LEMMA LeastIs ==
  ASSUME NEW D \in SUBSET Int, NEW x \in D, \A k \in D : x <= k
  PROVE  (CHOOSE j \in D : \A k \in D : j <= k) = x
<1>1. ASSUME NEW j \in D, \A k \in D : j <= k PROVE j = x
  <2>1. j <= x /\ x <= j /\ j \in Int /\ x \in Int
    BY <1>1
  <2>2. QED
    BY <2>1
<1>2. QED
  BY <1>1

LEMMA GreatestIs ==
  ASSUME NEW D \in SUBSET Int, NEW x \in D, \A k \in D : k <= x
  PROVE  (CHOOSE j \in D : \A k \in D : k <= j) = x
<1>1. ASSUME NEW j \in D, \A k \in D : k <= j PROVE j = x
  <2>1. j <= x /\ x <= j /\ j \in Int /\ x \in Int
    BY <1>1
  <2>2. QED
    BY <2>1
<1>2. QED
  BY <1>1

\* The members behind the p-th.
From(D, i) == {j \in D : j >= i}
Behind(e, p) == IF p = 0 THEN 1 ELSE e[p] + 1

LEMMA EnumeratesNext ==
  ASSUME NEW D \in SUBSET (Nat \ {0}), NEW m \in Nat, NEW e, Enumerates(e, m, D),
         NEW p \in 0..m
  PROVE  /\ p = m => From(D, Behind(e, p)) = {}
         /\ p # m => /\ e[p + 1] \in From(D, Behind(e, p))
                     /\ \A k \in From(D, Behind(e, p)) : e[p + 1] <= k
<1> DEFINE l == Behind(e, p)
<1>1. \A i \in 1..m : e[i] \in D /\ e[i] \in Nat \ {0}
  BY DEF Enumerates
<1>2. l \in Nat /\ (p = 0 => l = 1) /\ (p # 0 => l = e[p] + 1 /\ p \in 1..m)
  BY <1>1 DEF Behind
<1> HIDE DEF l
<1>3. ASSUME NEW j \in From(D, l) PROVE \E i \in 1..m : e[i] = j /\ i > p
  <2>1. PICK i \in 1..m : e[i] = j
    BY DEF Enumerates, From
  <2>2. ASSUME i <= p PROVE FALSE
    <3>1. p \in 1..m /\ j >= e[p] + 1
      BY <2>2, <1>2 DEF From
    <3>2. i = p \/ e[i] < e[p]
      BY <2>2, <3>1 DEF Enumerates
    <3>3. QED
      BY <3>1, <3>2, <2>1, <1>1
  <2>3. QED
    BY <2>1, <2>2
<1>4. ASSUME p = m, From(D, l) # {} PROVE FALSE
  <2>1. PICK j \in From(D, l) : TRUE
    BY <1>4
  <2>2. PICK i \in 1..m : e[i] = j /\ i > p
    BY <1>3
  <2>3. QED
    BY <2>2, <1>4
<1>5. ASSUME p # m
      PROVE  e[p + 1] \in From(D, l) /\ \A k \in From(D, l) : e[p + 1] <= k
  <2>1. p + 1 \in 1..m
    BY <1>5
  <2>2. e[p + 1] \in D /\ e[p + 1] \in Nat \ {0}
    BY <2>1, <1>1
  <2>3. e[p + 1] \in From(D, l)
    <3>1. CASE p = 0
      BY <3>1, <1>2, <2>2 DEF From
    <3>2. CASE p # 0
      <4>1. p \in 1..m /\ p < p + 1
        BY <3>2
      <4>2. e[p] < e[p + 1] /\ e[p] \in Nat
        BY <4>1, <2>1, <1>1 DEF Enumerates
      <4>3. e[p + 1] >= l
        BY <3>2, <4>2, <1>2, <2>2
      <4>4. QED
        BY <2>2, <4>3 DEF From
    <3>3. QED
      BY <3>1, <3>2
  <2>4. ASSUME NEW k \in From(D, l) PROVE e[p + 1] <= k
    <3>1. PICK i \in 1..m : e[i] = k /\ i > p
      BY <1>3
    <3>2. i = p + 1 \/ p + 1 < i
      BY <3>1
    <3>3. p + 1 < i => e[p + 1] < e[i]
      BY <2>1 DEF Enumerates
    <3>4. QED
      BY <3>1, <3>2, <3>3, <2>1, <1>1
  <2>5. QED
    BY <2>3, <2>4
<1>6. QED
  BY <1>4, <1>5 DEF l

\* What is left of a chain when some nodes leave it, each that stays linked to
\* the next one that stays.
FirstFrom(s, D, i) ==
  IF From(D, i) = {} THEN Null
  ELSE s[CHOOSE j \in From(D, i) : \A k \in From(D, i) : j <= k]
Picked(r, s, e, m, D) == Enumerates(e, m, D) /\ \A p \in 1..m : r[p] = s[e[p]]

LEMMA FirstFromIs ==
  ASSUME NEW D \in SUBSET (Nat \ {0}), NEW s, NEW m \in Nat, NEW e, Enumerates(e, m, D),
         NEW p \in 0..m
  PROVE  FirstFrom(s, D, Behind(e, p)) = IF p = m THEN Null ELSE s[e[p + 1]]
<1> DEFINE l == Behind(e, p)
<1>1. CASE p = m
  <2>1. From(D, l) = {}
    BY <1>1, EnumeratesNext
  <2>2. QED
    BY <1>1, <2>1 DEF FirstFrom
<1>2. CASE p # m
  <2>1. e[p + 1] \in From(D, l) /\ \A k \in From(D, l) : e[p + 1] <= k
    BY <1>2, EnumeratesNext
  <2> HIDE DEF l
  <2>2. From(D, l) \in SUBSET Int
    <3>1. D \in SUBSET Int
      OBVIOUS
    <3>2. QED
      BY <3>1 DEF From
  <2>3. (CHOOSE j \in From(D, l) : \A k \in From(D, l) : j <= k) = e[p + 1]
    BY <2>1, <2>2, LeastIs
  <2>4. FirstFrom(s, D, l) = s[e[p + 1]]
    BY <2>1, <2>3 DEF FirstFrom
  <2>5. QED
    BY <1>2, <2>4 DEF l
<1>3. QED
  BY <1>1, <1>2

LEMMA PickedOnce ==
  ASSUME NEW L \in Nat, NEW D \in SUBSET (1..L), NEW s, NEW m \in Nat, NEW e, NEW r,
         Picked(r, s, e, m, D), Once(s, L)
  PROVE  Once(r, m)
<1> SUFFICES ASSUME NEW i \in 1..m, NEW j \in 1..m, r[i] = r[j], i < j PROVE FALSE
  BY DEF Once
<1>1. e[i] \in 1..L /\ e[j] \in 1..L /\ e[i] < e[j]
  BY DEF Picked, Enumerates
<1>2. s[e[i]] = s[e[j]]
  BY DEF Picked
<1>3. e[i] = e[j]
  BY <1>1, <1>2 DEF Once
<1>4. QED
  BY <1>1, <1>3

Relinked(new, s, D) == \A i \in D : new[s[i]] = FirstFrom(s, D, i + 1)

LastOf(s, D) == IF D = {} THEN Null ELSE s[CHOOSE j \in D : \A i \in D : i <= j]
PickedChain(new, s, D, r, e) ==
  /\ Chain(new, FirstFrom(s, D, 1), r)
  /\ Sized(r, Len(r)) /\ Picked(r, s, e, Len(r), D)
  /\ Cells(r) = {s[i] : i \in D}
  /\ LastOf(s, D) = IF Len(r) = 0 THEN Null ELSE r[Len(r)]

LEMMA ChainPick ==
  ASSUME NEW links, NEW first, NEW s, Chain(links, first, s),
         NEW D \in SUBSET (1..Len(s)), NEW new, Relinked(new, s, D)
  PROVE  \E r, e : PickedChain(new, s, D, r, e)
<1> DEFINE L == Len(s)
<1>1. Sized(s, L) /\ Once(s, L) /\ L \in Nat
  BY ChainIs DEF Sized
<1>2. D \in SUBSET (Nat \ {0})
  BY <1>1
<1>3. PICK m \in Nat : \E e : Enumerates(e, m, D)
  BY <1>1, Enumeration
<1>4. PICK e : Enumerates(e, m, D)
  BY <1>3
<1> DEFINE r == [p \in 1..m |-> s[e[p]]]
<1>5. \A p \in 1..m : e[p] \in D /\ e[p] \in 1..L
  BY <1>4 DEF Enumerates
<1>6. r \in [1..m -> Node]
  BY <1>1, <1>5, CellsAre
<1>7. r \in Seq(Node) /\ Len(r) = m
  BY <1>6
<1>8. Sized(r, m)
  BY <1>7 DEF Sized
<1>9. Picked(r, s, e, m, D)
  BY <1>4 DEF Picked
<1> HIDE DEF r
<1>10. Once(r, m)
  BY <1>1, <1>9, PickedOnce
<1>11. FirstFrom(s, D, 1) = IF m = 0 THEN Null ELSE r[1]
  <2>1. m # 0 => 1 \in 1..m
    OBVIOUS
  <2>2. m # 0 => r[1] = s[e[1]]
    BY <2>1, <1>9 DEF Picked
  <2>3. 0 \in 0..m /\ Behind(e, 0) = 1 /\ 0 + 1 = 1
    BY DEF Behind
  <2>4. FirstFrom(s, D, Behind(e, 0)) = IF 0 = m THEN Null ELSE s[e[0 + 1]]
    BY <2>3, <1>4, <1>2, FirstFromIs
  <2>5. QED
    BY <2>2, <2>3, <2>4
<1>12. Linked(new, r, m)
  <2>1. SUFFICES ASSUME NEW p \in 1..m
                 PROVE  new[r[p]] = IF p = m THEN Null ELSE r[p + 1]
    BY DEF Linked
  <2>2. r[p] = s[e[p]] /\ e[p] \in D
    BY <1>9, <1>5 DEF Picked
  <2>3. new[r[p]] = FirstFrom(s, D, e[p] + 1)
    BY <2>2 DEF Relinked
  <2>4. p \in 0..m /\ Behind(e, p) = e[p] + 1
    BY DEF Behind
  <2>5. FirstFrom(s, D, Behind(e, p)) = IF p = m THEN Null ELSE s[e[p + 1]]
    BY <2>4, <1>4, <1>2, FirstFromIs
  <2>6. FirstFrom(s, D, e[p] + 1) = IF p = m THEN Null ELSE s[e[p + 1]]
    BY <2>4, <2>5
  <2>7. p # m => r[p + 1] = s[e[p + 1]]
    BY <1>9 DEF Picked
  <2>8. QED
    BY <2>3, <2>6, <2>7
<1>13. Chain(new, FirstFrom(s, D, 1), r)
  BY <1>8, <1>10, <1>11, <1>12, IsChain
<1>14. Cells(r) = {s[i] : i \in D}
  <2>1. Cells(r) = {r[p] : p \in 1..m}
    BY <1>8, CellsAre
  <2>2. \A p \in 1..m : r[p] = s[e[p]]
    BY <1>9 DEF Picked
  <2>3. \A i \in D : \E p \in 1..m : e[p] = i
    BY <1>4 DEF Enumerates
  <2>4. QED
    BY <2>1, <2>2, <2>3, <1>5
<1>15. m = 0 <=> D = {}
  <2>1. \A i \in D : \E p \in 1..m : e[p] = i
    BY <1>4 DEF Enumerates
  <2>2. ASSUME D # {}, m = 0 PROVE FALSE
    <3>1. PICK i \in D : TRUE
      BY <2>2
    <3>2. PICK p \in 1..m : e[p] = i
      BY <2>1
    <3>3. QED
      BY <3>2, <2>2
  <2>3. m # 0 => 1 \in 1..m
    OBVIOUS
  <2>4. QED
    BY <2>2, <2>3, <1>5
<1>16. ASSUME D # {} PROVE r[m] = s[CHOOSE j \in D : \A k \in D : k <= j]
  <2>1. m \in 1..m
    <3>1. m # 0
      BY <1>15, <1>16
    <3>2. QED
      BY <3>1
  <2>2. ASSUME NEW k \in D PROVE k <= e[m]
    <3>1. PICK p \in 1..m : e[p] = k
      BY <1>4 DEF Enumerates
    <3>2. p = m \/ e[p] < e[m]
      BY <1>4, <2>1 DEF Enumerates
    <3>3. QED
      BY <3>1, <3>2, <2>1, <1>5
  <2>3. e[m] \in D /\ D \in SUBSET Int
    BY <2>1, <1>5
  <2>4. (CHOOSE j \in D : \A k \in D : k <= j) = e[m]
    BY <2>2, <2>3, GreatestIs
  <2>5. QED
    BY <2>1, <2>4, <1>9 DEF Picked
<1>17. QED
  BY <1>7, <1>8, <1>9, <1>13, <1>14, <1>15, <1>16 DEF PickedChain, LastOf

-----------------------------------------------------------------------------
(* A list with its first and last pointers.                                *)

ListTypes == [first : Node \cup {Null}, last : Node \cup {Null}]
LinkTypes == [Node \cup {Null} -> Node \cup {Null}]
Held(lk, l, s) ==
  /\ l \in ListTypes /\ Chain(lk, l.first, s)
  /\ l.last = IF Len(s) = 0 THEN Null ELSE s[Len(s)]

LEMMA HeldFacts ==
  ASSUME NEW lk, NEW l, NEW s, Held(lk, l, s)
  PROVE  /\ Sized(s, Len(s)) /\ Len(s) \in Nat /\ Cells(s) \subseteq Node
         /\ l.first = IF Len(s) = 0 THEN Null ELSE s[1]
         /\ l.first = Null <=> Len(s) = 0
         /\ l.last = Null <=> Len(s) = 0
         /\ l.first # Null => l.first \in Cells(s) /\ l.last \in Cells(s)
         /\ l.first = l.last <=> Len(s) \in {0, 1}
<1>1. /\ Sized(s, Len(s)) /\ Once(s, Len(s))
      /\ l.first = IF Len(s) = 0 THEN Null ELSE s[1]
      /\ l.last = IF Len(s) = 0 THEN Null ELSE s[Len(s)]
  BY ChainIs DEF Held
<1>2. Len(s) \in Nat
  BY <1>1 DEF Sized
<1>3. Len(s) # 0 => 1 \in 1..Len(s) /\ Len(s) \in 1..Len(s)
  BY <1>2
<1>4. Len(s) # 0 => /\ s[1] \in Cells(s) /\ s[1] # Null
                    /\ s[Len(s)] \in Cells(s) /\ s[Len(s)] # Null
  BY <1>1, <1>3, CellsAre
<1>5. Len(s) # 0 => (s[1] = s[Len(s)] <=> Len(s) = 1)
  BY <1>1, <1>3 DEF Once
<1>6. Cells(s) \subseteq Node
  BY <1>1, CellsAre
<1>7. QED
  BY <1>1, <1>2, <1>4, <1>5, <1>6

LEMMA HeldFrame ==
  ASSUME NEW lk, NEW l, NEW s, Held(lk, l, s), NEW new, \A n \in Cells(s) : new[n] = lk[n]
  PROVE  Held(new, l, s)
  BY ChainFrame DEF Held

SameBut(new, lk, n) == \A m \in Node \ {n} : new[m] = lk[m]

\* The first node leaves.
LEMMA HeldTail ==
  ASSUME NEW lk \in LinkTypes, NEW l, NEW s, Held(lk, l, s), l.first # Null,
         NEW new, SameBut(new, lk, l.first),
         NEW k, k = IF l.first = l.last THEN Empty ELSE [l EXCEPT !.first = lk[l.first]]
  PROVE  /\ Held(new, k, Tail(s)) /\ Cells(Tail(s)) = Cells(s) \ {l.first}
         /\ Sized(s, Len(s)) /\ Sized(Tail(s), Len(s) - 1) /\ Shifted(Tail(s), s, Len(s))
         /\ l.first \in Cells(s) /\ Len(s) \in Nat \ {0}
<1>1. Chain(lk, l.first, s) /\ l \in ListTypes
  BY DEF Held
<1>2. /\ Chain(lk, lk[l.first], Tail(s))
      /\ Sized(s, Len(s)) /\ Sized(Tail(s), Len(s) - 1) /\ Shifted(Tail(s), s, Len(s))
      /\ Cells(Tail(s)) = Cells(s) \ {l.first} /\ l.first \in Cells(s)
      /\ lk[l.first] = Null <=> Len(s) = 1
      /\ Len(s) \in Nat \ {0}
  BY <1>1, ChainTail
<1>3. Cells(s) \subseteq Node /\ (l.first = l.last <=> Len(s) = 1)
  BY <1>2, HeldFacts
<1>4. Chain(new, lk[l.first], Tail(s))
  <2>1. \A n \in Cells(Tail(s)) : new[n] = lk[n]
    BY <1>2, <1>3 DEF SameBut
  <2>2. QED
    BY <1>2, <2>1, ChainFrame
<1>5. k.first = lk[l.first]
  BY <1>1, <1>2, <1>3 DEF Empty, ListTypes
<1>6. k \in ListTypes
  <2>1. lk[l.first] \in Node \cup {Null}
    BY <1>2, <1>3 DEF LinkTypes
  <2>2. QED
    BY <2>1, <1>1 DEF ListTypes, Empty
<1>7. k.last = IF Len(Tail(s)) = 0 THEN Null ELSE Tail(s)[Len(Tail(s))]
  <2>1. Len(Tail(s)) = Len(s) - 1
    BY <1>2 DEF Sized
  <2>2. CASE Len(s) = 1
    BY <2>1, <2>2, <1>3 DEF Empty
  <2>3. CASE Len(s) # 1
    <3>1. Len(s) - 1 \in 1..(Len(s) - 1) /\ (Len(s) - 1) + 1 = Len(s)
      <4>1. Len(s) \in Nat \ {0, 1}
        BY <1>2, <2>3
      <4>2. \A L \in Nat \ {0, 1} : L - 1 \in 1..(L - 1) /\ (L - 1) + 1 = L
        OBVIOUS
      <4>3. QED
        BY <4>1, <4>2
    <3>2. Tail(s)[Len(s) - 1] = s[Len(s)]
      BY <3>1, <1>2 DEF Shifted
    <3>3. k.last = l.last /\ l.last = s[Len(s)]
      BY <2>3, <1>1, <1>2, <1>3 DEF Held, ListTypes
    <3>4. Len(s) - 1 # 0
      BY <3>1
    <3>5. QED
      BY <2>1, <3>2, <3>3, <3>4
  <2>4. QED
    BY <2>2, <2>3
<1>8. Held(new, k, Tail(s))
  BY <1>4, <1>5, <1>6, <1>7 DEF Held
<1>9. QED
  BY <1>2, <1>8

\* A node comes in behind the first i.
LEMMA HeldInsert ==
  ASSUME NEW lk, NEW l, NEW s, Held(lk, l, s), NEW i \in 0..Len(s),
         NEW n \in Node \ Cells(s), NEW new,
         new[n] = (IF i = Len(s) THEN Null ELSE s[i + 1]),
         i > 0 => new[s[i]] = n,
         \A j \in 1..Len(s) : j # i => new[s[j]] = lk[s[j]],
         NEW k, k = [first |-> IF i = 0 THEN n ELSE l.first,
                     last |-> IF i = Len(s) THEN n ELSE l.last]
  PROVE  /\ Held(new, k, Ordered!InsertAfter(s, i, n))
         /\ Cells(Ordered!InsertAfter(s, i, n)) = Cells(s) \cup {n}
         /\ Sized(Ordered!InsertAfter(s, i, n), Len(s) + 1)
         /\ Inserted(Ordered!InsertAfter(s, i, n), s, Len(s), i, n)
<1> DEFINE r == Ordered!InsertAfter(s, i, n)
           L == Len(s)
<1>1. Chain(lk, l.first, s) /\ l \in ListTypes /\ L \in Nat
  BY HeldFacts DEF Held
<1>2. /\ Chain(new, IF i = 0 THEN n ELSE l.first, r)
      /\ Sized(r, L + 1) /\ Inserted(r, s, L, i, n) /\ Cells(r) = Cells(s) \cup {n}
  BY <1>1, ChainInsert
<1>3. k.first = (IF i = 0 THEN n ELSE l.first) /\ k \in ListTypes
  BY <1>1 DEF ListTypes
<1> HIDE DEF r
<1>4. k.last = r[L + 1]
  <2>1. L + 1 \in 1..(L + 1) /\ (L + 1) - 1 = L /\ ~(L + 1 <= i) /\ (L + 1 = i + 1 <=> i = L)
    BY <1>1
  <2>2. r[L + 1] = IF i = L THEN n ELSE s[L]
    BY <2>1, <1>2 DEF Inserted
  <2>3. i # L => L # 0
    BY <1>1
  <2>4. i # L => l.last = s[L]
    BY <2>3 DEF Held
  <2>5. QED
    BY <2>2, <2>4
<1>5. Len(r) = L + 1 /\ L + 1 # 0
  BY <1>1, <1>2 DEF Sized
<1>6. Held(new, k, r)
  BY <1>2, <1>3, <1>4, <1>5 DEF Held
<1>7. QED
  BY <1>2, <1>6 DEF r

\* Some nodes leave, each that stays linked to the next one that stays.
PickedHeld(new, s, D, r, e) ==
  /\ Held(new, [first |-> FirstFrom(s, D, 1), last |-> LastOf(s, D)], r)
  /\ Picked(r, s, e, Len(r), D) /\ Cells(r) = {s[i] : i \in D} /\ Sized(r, Len(r))

LEMMA HeldPick ==
  ASSUME NEW lk, NEW l, NEW s, Held(lk, l, s), NEW D \in SUBSET (1..Len(s)), NEW new,
         Relinked(new, s, D)
  PROVE  \E r, e : PickedHeld(new, s, D, r, e)
<1>1. Chain(lk, l.first, s)
  BY DEF Held
<1>2. PICK r, e : PickedChain(new, s, D, r, e)
  BY <1>1, ChainPick
<1> DEFINE k == [first |-> FirstFrom(s, D, 1), last |-> LastOf(s, D)]
<1>3. /\ k.first = FirstFrom(s, D, 1)
      /\ k.last = IF Len(r) = 0 THEN Null ELSE r[Len(r)]
  BY <1>2 DEF PickedChain
<1>4. k.first \in Node \cup {Null} /\ k.last \in Node \cup {Null}
  <2>1. Len(r) # 0 => 1 \in 1..Len(r) /\ Len(r) \in 1..Len(r)
    BY <1>2 DEF PickedChain, Sized
  <2>2. Len(r) # 0 => r[1] \in Node /\ r[Len(r)] \in Node
    BY <1>2, <2>1, CellsAre DEF PickedChain
  <2>3. k.first = IF Len(r) = 0 THEN Null ELSE r[1]
    BY <1>2, <1>3, ChainIs DEF PickedChain
  <2>4. QED
    BY <2>2, <2>3, <1>3
<1>5. k = [first |-> k.first, last |-> k.last]
  OBVIOUS
<1>6. k \in ListTypes
  BY <1>4, <1>5 DEF ListTypes
<1>7. Held(new, k, r)
  BY <1>2, <1>3, <1>6 DEF Held, PickedChain
<1>8. QED
  BY <1>2, <1>7 DEF PickedHeld, PickedChain

\* The nodes of a block, from the a-th on.
Running(lk, b, a, N) ==
  \A i \in a..N : lk[<<b, i>>] = IF i = N THEN Null ELSE <<b, i + 1>>

LEMMA HeldRun ==
  ASSUME NEW b \in Blocks \cup {NoBlock}, NEW N \in Nat, NodesOf(b) = {b} \X (1..N),
         NEW a \in 1..N, NEW lk, Running(lk, b, a, N),
         NEW k, k = [first |-> <<b, a>>, last |-> <<b, N>>]
  PROVE  \E r : /\ Held(lk, k, r) /\ Sized(r, Len(r))
                /\ Cells(r) = {<<b, i>> : i \in a..N}
<1> DEFINE L == (N - a) + 1
           r == [i \in 1..L |-> <<b, (i + a) - 1>>]
<1>1. L \in Nat \ {0}
  OBVIOUS
<1>2. \A i \in 1..N : <<b, i>> \in NodesOf(b) /\ <<b, i>> \in Node
  BY NodePairs
<1>3. \A i \in 1..L : (i + a) - 1 \in a..N /\ (i + a) - 1 \in 1..N
  OBVIOUS
<1>4. r \in [1..L -> Node]
  BY <1>2, <1>3
<1>5. r \in Seq(Node) /\ Len(r) = L
  <2> HIDE DEF L
  <2>1. QED
    BY <1>1, <1>4
<1>6. Sized(r, L)
  BY <1>1, <1>5 DEF Sized
<1>7. \A i \in 1..L : r[i] = <<b, (i + a) - 1>>
  OBVIOUS
<1> HIDE DEF r
<1>8. Once(r, L)
  <2> SUFFICES ASSUME NEW i \in 1..L, NEW j \in 1..L, r[i] = r[j] PROVE i = j
    BY DEF Once
  <2>1. (i + a) - 1 = (j + a) - 1
    BY <1>7
  <2>2. QED
    BY <2>1
<1>9. Linked(lk, r, L)
  <2> SUFFICES ASSUME NEW i \in 1..L PROVE lk[r[i]] = IF i = L THEN Null ELSE r[i + 1]
    BY DEF Linked
  <2>1. lk[r[i]] = IF (i + a) - 1 = N THEN Null ELSE <<b, ((i + a) - 1) + 1>>
    BY <1>3, <1>7 DEF Running
  <2>2. (i + a) - 1 = N <=> i = L
    OBVIOUS
  <2>3. i # L => r[i + 1] = <<b, ((i + a) - 1) + 1>>
    <3>1. i # L => i + 1 \in 1..L /\ ((i + 1) + a) - 1 = ((i + a) - 1) + 1
      OBVIOUS
    <3>2. QED
      BY <3>1, <1>7
  <2>4. QED
    BY <2>1, <2>2, <2>3
<1>10. r[1] = <<b, a>> /\ r[L] = <<b, N>> /\ k.first = r[1] /\ k.last = r[L]
  <2>1. 1 \in 1..L /\ L \in 1..L /\ (1 + a) - 1 = a /\ (L + a) - 1 = N
    OBVIOUS
  <2>2. QED
    BY <2>1, <1>7
<1>11. Chain(lk, k.first, r)
  <2>1. k.first = IF L = 0 THEN Null ELSE r[1]
    BY <1>1, <1>10
  <2>2. QED
    BY <2>1, <1>6, <1>8, <1>9, IsChain
<1>12. k \in ListTypes
  BY <1>2 DEF ListTypes
<1>13. Held(lk, k, r)
  BY <1>1, <1>5, <1>10, <1>11, <1>12 DEF Held
<1>14. Cells(r) = {<<b, i>> : i \in a..N}
  <2>1. Cells(r) = {r[i] : i \in 1..L}
    BY <1>6, CellsAre
  <2>2. ASSUME NEW i \in a..N PROVE <<b, i>> \in {r[j] : j \in 1..L}
    <3>1. (i - a) + 1 \in 1..L /\ (((i - a) + 1) + a) - 1 = i
      OBVIOUS
    <3>2. r[(i - a) + 1] = <<b, i>>
      BY <3>1, <1>7
    <3>3. QED
      BY <3>1, <3>2
  <2>3. \A i \in 1..L : r[i] \in {<<b, j>> : j \in a..N}
    BY <1>3, <1>7
  <2>4. QED
    BY <2>1, <2>2, <2>3
<1>15. QED
  BY <1>5, <1>6, <1>13, <1>14

-----------------------------------------------------------------------------
(* Where the nodes are, and how many of a block are in use.                *)

NodesIn(lv) == UNION {NodesOf(b) : b \in lv \cup {NoBlock}}
Placed(lv, H, cf, cq) ==
  NodesIn(lv) = cf \cup cq \cup H /\ cf \cap cq = {} /\ H \cap (cf \cup cq) = {}
Counted(lv, us, cf) ==
  /\ lv \subseteq Blocks /\ us \in [Blocks -> Nat]
  /\ \A b \in Blocks : /\ us[b] = IF b \in lv THEN Cardinality(NodesOf(b) \ cf) ELSE 0
                       /\ b \in lv <=> us[b] > 0
PreFirst(s) ==
  \A i, j \in 1..Len(s) : i < j /\ BlockOf(s[j]) = NoBlock => BlockOf(s[i]) = NoBlock

LEMMA NodesInIs ==
  ASSUME NEW lv \in SUBSET Blocks
  PROVE  NodesIn(lv) = {n \in Node : BlockOf(n) \in lv \cup {NoBlock}}
<1>1. \A n \in NodesIn(lv) : n \in Node /\ BlockOf(n) \in lv \cup {NoBlock}
  BY NodePairs DEF NodesIn
<1>2. \A n \in Node : BlockOf(n) \in lv \cup {NoBlock} => n \in NodesIn(lv)
  BY NodePairs DEF NodesIn
<1>3. QED
  BY <1>1, <1>2

LEMMA OutFinite ==
  ASSUME NEW b \in Blocks \cup {NoBlock}, NEW c
  PROVE  IsFiniteSet(NodesOf(b) \ c) /\ Cardinality(NodesOf(b) \ c) \in Nat
<1>1. NodesOf(b) \ c \subseteq Node
  BY NodePairs
<1>2. QED
  BY <1>1, NodesFinite, FS_Subset, FS_CardinalityType

\* A node leaves the free list.
LEMMA CountedTake ==
  ASSUME NEW lv, NEW us, NEW cf, Counted(lv, us, cf), cf \subseteq NodesIn(lv),
         NEW n \in cf, NEW vs,
         vs = IF BlockOf(n) = NoBlock THEN us ELSE [us EXCEPT ![BlockOf(n)] = @ + 1]
  PROVE  Counted(lv, vs, cf \ {n})
<1> DEFINE b == BlockOf(n)
<1>1. n \in Node /\ b \in lv \cup {NoBlock} /\ n \in NodesOf(b) /\ lv \subseteq Blocks
  BY NodesInIs, NodePairs DEF Counted
<1>2. \A c \in Blocks \ {b} : NodesOf(c) \ (cf \ {n}) = NodesOf(c) \ cf
  BY NodePairs
<1>3. Cardinality(NodesOf(b) \ (cf \ {n})) = Cardinality(NodesOf(b) \ cf) + 1
  <2>1. IsFiniteSet(NodesOf(b) \ cf)
    BY <1>1, OutFinite
  <2>2. n \notin NodesOf(b) \ cf
    OBVIOUS
  <2>3. (NodesOf(b) \ cf) \cup {n} = NodesOf(b) \ (cf \ {n})
    BY <1>1
  <2>4. QED
    BY <2>1, <2>2, <2>3, FS_AddElement
<1> HIDE DEF b
<1>4. us \in [Blocks -> Nat] /\ NoBlock \notin Blocks
  BY NodePairs DEF Counted
<1>5. vs \in [Blocks -> Nat] /\ \A c \in Blocks : vs[c] = IF c = b THEN us[c] + 1 ELSE us[c]
  BY <1>1, <1>4 DEF b
<1>6. SUFFICES ASSUME NEW c \in Blocks
               PROVE  /\ vs[c] = IF c \in lv THEN Cardinality(NodesOf(c) \ (cf \ {n})) ELSE 0
                      /\ c \in lv <=> vs[c] > 0
  BY <1>1, <1>5 DEF Counted
<1>7. /\ us[c] = IF c \in lv THEN Cardinality(NodesOf(c) \ cf) ELSE 0
      /\ c \in lv <=> us[c] > 0
      /\ us[c] \in Nat
  BY <1>4 DEF Counted
<1>8. CASE c = b
  <2>1. c \in lv
    BY <1>1, <1>4, <1>8
  <2>2. QED
    BY <2>1, <1>3, <1>5, <1>7, <1>8
<1>9. CASE c # b
  BY <1>2, <1>5, <1>7, <1>9
<1>10. QED
  BY <1>8, <1>9

\* A node that is not the last in use of its block comes back.
LEMMA CountedGive ==
  ASSUME NEW lv, NEW us, NEW cf, Counted(lv, us, cf),
         NEW n \in NodesIn(lv) \ cf, BlockOf(n) # NoBlock => us[BlockOf(n)] # 1, NEW vs,
         vs = IF BlockOf(n) = NoBlock THEN us ELSE [us EXCEPT ![BlockOf(n)] = @ - 1]
  PROVE  Counted(lv, vs, cf \cup {n})
<1> DEFINE b == BlockOf(n)
<1>1. n \in Node /\ b \in lv \cup {NoBlock} /\ n \in NodesOf(b) /\ lv \subseteq Blocks
  BY NodesInIs, NodePairs DEF Counted
<1>2. \A c \in Blocks \ {b} : NodesOf(c) \ (cf \cup {n}) = NodesOf(c) \ cf
  BY NodePairs
<1>3. Cardinality(NodesOf(b) \ (cf \cup {n})) = Cardinality(NodesOf(b) \ cf) - 1
  <2>1. IsFiniteSet(NodesOf(b) \ cf)
    BY <1>1, OutFinite
  <2>2. n \in NodesOf(b) \ cf
    BY <1>1
  <2>3. (NodesOf(b) \ cf) \ {n} = NodesOf(b) \ (cf \cup {n})
    OBVIOUS
  <2>4. QED
    BY <2>1, <2>2, <2>3, FS_RemoveElement
<1>4. b # NoBlock => us[b] # 1
  OBVIOUS
<1> HIDE DEF b
<1>5. us \in [Blocks -> Nat] /\ NoBlock \notin Blocks
  BY NodePairs DEF Counted
<1>6. b # NoBlock => b \in Blocks /\ us[b] > 0 /\ us[b] \in Nat
  BY <1>1, <1>5 DEF Counted
<1>7. vs \in [Blocks -> Nat] /\ \A c \in Blocks : vs[c] = IF c = b THEN us[c] - 1 ELSE us[c]
  <2>1. CASE b = NoBlock
    BY <2>1, <1>5 DEF b
  <2>2. CASE b # NoBlock
    <3>1. vs = [us EXCEPT ![b] = @ - 1] /\ us[b] - 1 \in Nat
      BY <2>2, <1>6 DEF b
    <3>2. QED
      BY <3>1, <1>5
  <2>3. QED
    BY <2>1, <2>2
<1>8. SUFFICES ASSUME NEW c \in Blocks
               PROVE  /\ vs[c] = IF c \in lv THEN Cardinality(NodesOf(c) \ (cf \cup {n})) ELSE 0
                      /\ c \in lv <=> vs[c] > 0
  BY <1>1, <1>7 DEF Counted
<1>9. /\ us[c] = IF c \in lv THEN Cardinality(NodesOf(c) \ cf) ELSE 0
      /\ c \in lv <=> us[c] > 0
      /\ us[c] \in Nat
  BY <1>5 DEF Counted
<1>10. CASE c = b
  <2>1. c \in lv /\ us[c] # 1
    BY <1>1, <1>5, <1>10, <1>4
  <2>2. vs[c] = us[c] - 1 /\ us[c] = Cardinality(NodesOf(c) \ cf)
    BY <2>1, <1>7, <1>9, <1>10
  <2>3. QED
    BY <2>1, <2>2, <1>3, <1>9, <1>10
<1>11. CASE c # b
  BY <1>2, <1>7, <1>9, <1>11
<1>12. QED
  BY <1>10, <1>11

\* The last node in use of a block is the only one.
LEMMA CountedLast ==
  ASSUME NEW lv, NEW us, NEW cf, Counted(lv, us, cf), NEW b \in Blocks, us[b] = 1,
         NEW n \in NodesOf(b) \ cf
  PROVE  NodesOf(b) \ cf = {n}
<1>1. Cardinality(NodesOf(b) \ cf) = 1
  BY DEF Counted
<1>2. IsFiniteSet(NodesOf(b) \ cf)
  BY OutFinite
<1>3. \E x : NodesOf(b) \ cf = {x}
  BY <1>1, <1>2, FS_Singleton
<1>4. QED
  BY <1>3

\* It comes back: the block goes.
LEMMA CountedDrop ==
  ASSUME NEW lv, NEW us, NEW cf, Counted(lv, us, cf), NEW b \in Blocks, us[b] = 1,
         NEW n \in NodesOf(b) \ cf
  PROVE  Counted(lv \ {b}, [us EXCEPT ![b] = 0], {m \in cf : BlockOf(m) # b})
<1> DEFINE vs == [us EXCEPT ![b] = 0]
           cg == {m \in cf : BlockOf(m) # b}
<1>1. lv \subseteq Blocks /\ us \in [Blocks -> Nat]
  BY DEF Counted
<1>2. \A c \in Blocks \ {b} : NodesOf(c) \ cg = NodesOf(c) \ cf
  BY NodePairs
<1>3. vs \in [Blocks -> Nat] /\ \A c \in Blocks : vs[c] = IF c = b THEN 0 ELSE us[c]
  BY <1>1
<1> HIDE DEF vs, cg
<1>4. ASSUME NEW c \in Blocks
      PROVE  /\ vs[c] = IF c \in lv \ {b} THEN Cardinality(NodesOf(c) \ cg) ELSE 0
             /\ c \in lv \ {b} <=> vs[c] > 0
  <2>1. CASE c = b
    BY <2>1, <1>3
  <2>2. CASE c # b
    <3>1. /\ us[c] = IF c \in lv THEN Cardinality(NodesOf(c) \ cf) ELSE 0
          /\ c \in lv <=> us[c] > 0
      BY DEF Counted
    <3>2. QED
      BY <3>1, <2>2, <1>2, <1>3
  <2>3. QED
    BY <2>1, <2>2
<1>5. Counted(lv \ {b}, vs, cg)
  BY <1>1, <1>3, <1>4 DEF Counted
<1>6. QED
  BY <1>5 DEF vs, cg

\* A new block, all of its nodes free except the first.
LEMMA CountedNew ==
  ASSUME NEW lv, NEW us, Counted(lv, us, {}), NEW b \in Blocks \ lv
  PROVE  Counted(lv \cup {b}, [us EXCEPT ![b] = 1], {<<b, i>> : i \in 2..StorageNodes})
<1> DEFINE vs == [us EXCEPT ![b] = 1]
           cg == {<<b, i>> : i \in 2..StorageNodes}
<1>1. lv \subseteq Blocks /\ us \in [Blocks -> Nat]
  BY DEF Counted
<1>2. Cardinality(NodesOf(b) \ cg) = 1
  <2>1. NodesOf(b) = {b} \X (1..StorageNodes)
    BY NodePairs
  <2>2. NodesOf(b) \ cg = {<<b, 1>>}
    <3>1. \A n \in NodesOf(b) : n = <<b, n[2]>> /\ n[2] \in 1..StorageNodes
      BY <2>1
    <3>2. <<b, 1>> \in NodesOf(b) /\ <<b, 1>> \notin cg
      BY <2>1, Sizes
    <3>3. \A n \in NodesOf(b) : n \notin cg => n = <<b, 1>>
      BY <3>1
    <3>4. QED
      BY <3>2, <3>3
  <2>3. QED
    BY <2>2, FS_Singleton
<1>3. \A c \in Blocks \ {b} : NodesOf(c) \ cg = NodesOf(c) \ {}
  BY NodePairs
<1>4. vs \in [Blocks -> Nat] /\ \A c \in Blocks : vs[c] = IF c = b THEN 1 ELSE us[c]
  BY <1>1
<1> HIDE DEF vs, cg
<1>5. ASSUME NEW c \in Blocks
      PROVE  /\ vs[c] = IF c \in lv \cup {b} THEN Cardinality(NodesOf(c) \ cg) ELSE 0
             /\ c \in lv \cup {b} <=> vs[c] > 0
  <2>1. CASE c = b
    BY <2>1, <1>2, <1>4
  <2>2. CASE c # b
    <3>1. /\ us[c] = IF c \in lv THEN Cardinality(NodesOf(c) \ {}) ELSE 0
          /\ c \in lv <=> us[c] > 0
      BY DEF Counted
    <3>2. QED
      BY <3>1, <2>2, <1>3, <1>4
  <2>3. QED
    BY <2>1, <2>2
<1>6. Counted(lv \cup {b}, vs, cg)
  BY <1>1, <1>4, <1>5 DEF Counted
<1>7. QED
  BY <1>6 DEF vs, cg

\* The order of the free list under the changes of a list.
LEMMA PreFirstTail ==
  ASSUME NEW s, NEW r, NEW L \in Nat \ {0}, Len(s) = L, Len(r) = L - 1, Shifted(r, s, L),
         PreFirst(s)
  PROVE  PreFirst(r)
<1> SUFFICES ASSUME NEW i \in 1..(L - 1), NEW j \in 1..(L - 1), i < j,
                    BlockOf(r[j]) = NoBlock
             PROVE  BlockOf(r[i]) = NoBlock
  BY DEF PreFirst
<1>1. /\ i + 1 \in 1..L /\ j + 1 \in 1..L /\ i + 1 < j + 1
      /\ r[i] = s[i + 1] /\ r[j] = s[j + 1]
  BY DEF Shifted
<1>2. QED
  BY <1>1 DEF PreFirst

LEMMA PreFirstInsert ==
  ASSUME NEW s, NEW r, NEW L \in Nat, Len(s) = L, Len(r) = L + 1, PreFirst(s),
         NEW k \in 0..L, NEW n, Inserted(r, s, L, k, n),
         IF BlockOf(n) = NoBlock THEN k = 0 ELSE k = L
  PROVE  PreFirst(r)
<1> SUFFICES ASSUME NEW i \in 1..(L + 1), NEW j \in 1..(L + 1), i < j,
                    BlockOf(r[j]) = NoBlock
             PROVE  BlockOf(r[i]) = NoBlock
  BY DEF PreFirst
<1>1. CASE BlockOf(n) = NoBlock
  <2>1. CASE i = 1
    BY <1>1, <2>1 DEF Inserted
  <2>2. CASE i # 1
    <3>1. /\ i - 1 \in 1..L /\ j - 1 \in 1..L /\ i - 1 < j - 1
          /\ r[i] = s[i - 1] /\ r[j] = s[j - 1]
      BY <1>1, <2>2 DEF Inserted
    <3>2. QED
      BY <3>1 DEF PreFirst
  <2>3. QED
    BY <2>1, <2>2
<1>2. CASE BlockOf(n) # NoBlock
  <2>1. j # L + 1
    BY <1>2 DEF Inserted
  <2>2. i \in 1..L /\ j \in 1..L /\ r[i] = s[i] /\ r[j] = s[j]
    BY <1>2, <2>1 DEF Inserted
  <2>3. QED
    BY <2>2 DEF PreFirst
<1>3. QED
  BY <1>1, <1>2

LEMMA PreFirstPick ==
  ASSUME NEW s, NEW r, NEW e, NEW D \in SUBSET (1..Len(s)), Picked(r, s, e, Len(r), D),
         PreFirst(s)
  PROVE  PreFirst(r)
<1> SUFFICES ASSUME NEW i \in 1..Len(r), NEW j \in 1..Len(r), i < j,
                    BlockOf(r[j]) = NoBlock
             PROVE  BlockOf(r[i]) = NoBlock
  BY DEF PreFirst
<1>1. /\ e[i] \in 1..Len(s) /\ e[j] \in 1..Len(s) /\ e[i] < e[j]
      /\ r[i] = s[e[i]] /\ r[j] = s[e[j]]
  BY DEF Picked, Enumerates
<1>2. QED
  BY <1>1 DEF PreFirst

-----------------------------------------------------------------------------
(* The store: both lists, the blocks, and the nodes H in threads' hands.   *)

Linking(lk) == lk \in LinkTypes /\ lk[Null] = Null
Store(lk, fr, qu, lv, us, H, f, q) ==
  /\ Linking(lk) /\ Held(lk, fr, f) /\ Held(lk, qu, q) /\ PreFirst(f)
  /\ Placed(lv, H, Cells(f), Cells(q)) /\ Counted(lv, us, Cells(f))

\* allocateNode() with a free node
Taken(lk, fr, us, n, lk2, fr2, us2) ==
  /\ fr.first # Null /\ n = fr.first
  /\ lk2 = [lk EXCEPT ![n] = Null]
  /\ fr2 = IF fr.first = fr.last THEN Empty ELSE [fr EXCEPT !.first = lk[fr.first]]
  /\ us2 = IF BlockOf(n) = NoBlock THEN us ELSE [us EXCEPT ![BlockOf(n)] = @ + 1]

LEMMA StoreTake ==
  ASSUME NEW lk, NEW fr, NEW qu, NEW lv, NEW us, NEW H, NEW f, NEW q,
         Store(lk, fr, qu, lv, us, H, f, q),
         NEW n, NEW lk2, NEW fr2, NEW us2, Taken(lk, fr, us, n, lk2, fr2, us2)
  PROVE  /\ Store(lk2, fr2, qu, lv, us2, H \cup {n}, Tail(f), q)
         /\ n \in Node /\ n \notin H \cup Cells(q)
<1>1. /\ Linking(lk) /\ Held(lk, fr, f) /\ Held(lk, qu, q) /\ PreFirst(f)
      /\ Placed(lv, H, Cells(f), Cells(q)) /\ Counted(lv, us, Cells(f))
  BY DEF Store
<1>2. /\ fr.first # Null /\ n = fr.first
      /\ lk2 = [lk EXCEPT ![n] = Null]
      /\ fr2 = IF fr.first = fr.last THEN Empty ELSE [fr EXCEPT !.first = lk[fr.first]]
      /\ us2 = IF BlockOf(n) = NoBlock THEN us ELSE [us EXCEPT ![BlockOf(n)] = @ + 1]
  BY DEF Taken
<1>3. Cells(f) \subseteq Node /\ n \in Cells(f) /\ n \in Node /\ Cells(q) \subseteq Node
  BY <1>1, <1>2, HeldFacts
<1>4. Linking(lk2) /\ SameBut(lk2, lk, n)
  <2>1. Null \notin Node
    BY NodePairs
  <2>2. QED
    BY <1>1, <1>3, <1>2, <2>1 DEF Linking, LinkTypes, SameBut
<1>5. /\ Held(lk2, fr2, Tail(f)) /\ Cells(Tail(f)) = Cells(f) \ {n}
      /\ Sized(f, Len(f)) /\ Sized(Tail(f), Len(f) - 1) /\ Shifted(Tail(f), f, Len(f))
      /\ Len(f) \in Nat \ {0}
  <2>1. lk \in LinkTypes
    BY <1>1 DEF Linking
  <2>2. QED
    BY <1>1, <1>4, <1>2, <2>1, HeldTail
<1>6. n \notin H \cup Cells(q)
  BY <1>1, <1>3 DEF Placed
<1>7. Held(lk2, qu, q)
  BY <1>1, <1>3, <1>4, <1>6, HeldFrame DEF SameBut
<1>8. PreFirst(Tail(f))
  <2>1. Len(Tail(f)) = Len(f) - 1
    BY <1>5 DEF Sized
  <2>2. QED
    BY <1>1, <1>5, <2>1, PreFirstTail
<1>9. Placed(lv, H \cup {n}, Cells(f) \ {n}, Cells(q))
  BY <1>1, <1>3 DEF Placed
<1>10. Counted(lv, us2, Cells(f) \ {n})
  <2>1. Cells(f) \subseteq NodesIn(lv)
    BY <1>1 DEF Placed
  <2>2. QED
    BY <1>1, <1>3, <1>2, <2>1, CountedTake
<1>11. QED
  BY <1>3, <1>4, <1>5, <1>6, <1>7, <1>8, <1>9, <1>10 DEF Store

\* allocateNode() with a new block
NewBlock(lk, fr, us, b, lk2, fr2, us2) ==
  /\ fr.first = Null
  /\ lk2 = [n \in DOMAIN lk |-> IF n = <<b, 1>> THEN Null
                               ELSE IF n \in NodesOf(b) THEN InitNodes(b)[n]
                               ELSE lk[n]]
  /\ fr2 = [first |-> <<b, 2>>, last |-> <<b, StorageNodes>>]
  /\ us2 = [us EXCEPT ![b] = 1]

LEMMA StoreNew ==
  ASSUME NEW lk, NEW fr, NEW qu, NEW lv, NEW us, NEW H, NEW f, NEW q,
         Store(lk, fr, qu, lv, us, H, f, q), NEW b \in Blocks \ lv,
         NEW lk2, NEW fr2, NEW us2, NewBlock(lk, fr, us, b, lk2, fr2, us2)
  PROVE  /\ \E r : Store(lk2, fr2, qu, lv \cup {b}, us2, H \cup {<<b, 1>>}, r, q)
         /\ <<b, 1>> \in Node /\ <<b, 1>> \notin H \cup Cells(q)
<1> DEFINE S == StorageNodes
           N == <<b, 1>>
           cg == {<<b, i>> : i \in 2..S}
<1>1. /\ fr2 = [first |-> <<b, 2>>, last |-> <<b, S>>] /\ us2 = [us EXCEPT ![b] = 1]
      /\ lk2 = [n \in DOMAIN lk |-> IF n = N THEN Null
                                    ELSE IF n \in NodesOf(b) THEN InitNodes(b)[n]
                                    ELSE lk[n]]
  BY DEF NewBlock
<1>2. /\ Linking(lk) /\ Held(lk, fr, f) /\ Held(lk, qu, q) /\ PreFirst(f)
      /\ Placed(lv, H, Cells(f), Cells(q)) /\ Counted(lv, us, Cells(f))
  BY DEF Store
<1>3. /\ b \in Blocks \cup {NoBlock} /\ b # NoBlock /\ NodesOf(b) = {b} \X (1..S)
      /\ S \in Nat /\ 2 \in 1..S /\ 1 \in 1..S /\ S >= 2
  BY Sizes, NodePairs
<1>4. Cells(f) = {} /\ Cells(q) \subseteq Node
  <2>1. fr.first = Null
    BY DEF NewBlock
  <2>2. Len(f) = 0 /\ Sized(f, Len(f)) /\ Cells(q) \subseteq Node
    BY <2>1, <1>2, HeldFacts
  <2>3. Cells(f) = {f[i] : i \in 1..0}
    BY <2>2, CellsAre
  <2>4. QED
    BY <2>2, <2>3
<1>5. \A n \in NodesOf(b) : n \in Node /\ BlockOf(n) = b /\ n = <<b, n[2]>> /\ n[2] \in 1..S
  BY <1>3, NodePairs
<1>6. NodesOf(b) = cg \cup {N} /\ N \notin cg /\ N \in NodesOf(b)
  <2>1. N \in NodesOf(b) /\ cg \subseteq NodesOf(b) /\ N \notin cg
    BY <1>3
  <2>2. ASSUME NEW n \in NodesOf(b) PROVE n \in cg \cup {N}
    <3>1. n[2] = 1 \/ n[2] \in 2..S
      BY <1>3, <1>5
    <3>2. QED
      BY <3>1, <1>5
  <2>3. QED
    BY <2>1, <2>2
<1>7. H \cup Cells(q) = NodesIn(lv) /\ lv \subseteq Blocks
  BY <1>2, <1>4 DEF Placed, Counted
<1>8. NodesOf(b) \cap NodesIn(lv) = {} /\ NodesIn(lv \cup {b}) = NodesIn(lv) \cup NodesOf(b)
  <2>1. NodesIn(lv) = {n \in Node : BlockOf(n) \in lv \cup {NoBlock}}
    BY <1>7, NodesInIs
  <2>2. NodesOf(b) \cap NodesIn(lv) = {}
    BY <1>3, <1>5, <2>1
  <2>3. QED
    BY <2>2 DEF NodesIn
<1>9. N \in Node /\ N \notin H \cup Cells(q)
  BY <1>5, <1>6, <1>7, <1>8
<1>10. DOMAIN lk = Node \cup {Null} /\ Null \notin Node /\ Null \notin NodesOf(b)
  BY <1>2, <1>5, NodePairs DEF Linking, LinkTypes
<1>11. \A i \in 1..S : InitNodes(b)[<<b, i>>] = IF i = S THEN Null ELSE <<b, i + 1>>
  <2>1. ASSUME NEW i \in 1..S
        PROVE  InitNodes(b)[<<b, i>>] = IF i = S THEN Null ELSE <<b, i + 1>>
    <3>1. <<b, i>> \in NodesOf(b) /\ (<<b, i + 1>> \in NodesOf(b) <=> i # S)
      BY <1>3
    <3>2. QED
      BY <3>1 DEF InitNodes
  <2>2. QED
    BY <2>1
<1>12. \A i \in 2..S : lk2[<<b, i>>] = IF i = S THEN Null ELSE <<b, i + 1>>
  <2>1. ASSUME NEW i \in 2..S PROVE lk2[<<b, i>>] = IF i = S THEN Null ELSE <<b, i + 1>>
    <3>1. i \in 1..S /\ <<b, i>> \in NodesOf(b) /\ <<b, i>> # N /\ <<b, i>> \in DOMAIN lk
      BY <1>3, <1>5, <1>10
    <3>2. lk2[<<b, i>>] = InitNodes(b)[<<b, i>>]
      BY <3>1, <1>1
    <3>3. QED
      BY <3>1, <3>2, <1>11
  <2>2. QED
    BY <2>1
<1>13. /\ \A m \in Node \ NodesOf(b) : lk2[m] = lk[m]
       /\ lk2[Null] = Null /\ lk2[N] = Null
  BY <1>2, <1>6, <1>9, <1>10, <1>1 DEF Linking
<1>14. Linking(lk2)
  <2>1. ASSUME NEW m \in Node \cup {Null} PROVE lk2[m] \in Node \cup {Null}
    <3>1. CASE m \in NodesOf(b) /\ m # N
      <4>1. PICK i \in 2..S : m = <<b, i>>
        BY <3>1, <1>6
      <4>2. i # S => <<b, i + 1>> \in NodesOf(b)
        BY <1>3
      <4>3. QED
        BY <4>1, <4>2, <1>5, <1>12
    <3>2. CASE m \notin NodesOf(b)
      BY <3>2, <1>2, <1>13 DEF Linking, LinkTypes
    <3>3. CASE m = N
      BY <3>3, <1>13
    <3>4. QED
      BY <3>1, <3>2, <3>3
  <2>2. lk2 = [m \in Node \cup {Null} |-> lk2[m]]
    BY <1>10, <1>1
  <2>3. QED
    BY <2>1, <2>2, <1>13 DEF Linking, LinkTypes
<1>15. PICK r : Held(lk2, fr2, r) /\ Sized(r, Len(r)) /\ Cells(r) = cg
  <2>1. Running(lk2, b, 2, S)
    BY <1>12 DEF Running
  <2>2. QED
    BY <1>3, <1>1, <2>1, HeldRun
<1>16. Held(lk2, qu, q)
  BY <1>2, <1>4, <1>7, <1>8, <1>13, HeldFrame
<1>17. PreFirst(r)
  <2>1. \A i \in 1..Len(r) : r[i] \in NodesOf(b)
    BY <1>6, <1>15, CellsAre
  <2>2. \A i \in 1..Len(r) : BlockOf(r[i]) # NoBlock
    BY <2>1, <1>3, <1>5
  <2>3. QED
    BY <2>2 DEF PreFirst
<1>18. Placed(lv \cup {b}, H \cup {N}, cg, Cells(q))
  <2>1. H \cap Cells(q) = {}
    BY <1>2 DEF Placed
  <2>2. QED
    BY <2>1, <1>6, <1>7, <1>8 DEF Placed
<1>19. Counted(lv \cup {b}, us2, cg)
  BY <1>2, <1>4, <1>1, CountedNew
<1>20. Store(lk2, fr2, qu, lv \cup {b}, us2, H \cup {N}, r, q)
  BY <1>14, <1>15, <1>16, <1>17, <1>18, <1>19 DEF Store
<1>21. QED
  BY <1>9, <1>20

\* freeNode() of a preallocated node, and of one of a block that stays
LEMMA StoreGive ==
  ASSUME NEW lk, NEW fr, NEW qu, NEW lv, NEW us, NEW H, NEW f, NEW q,
         Store(lk, fr, qu, lv, us, H, f, q), NEW n \in H, n \in Node,
         NEW lk2, NEW fr2, NEW us2,
         \/ /\ BlockOf(n) = NoBlock
            /\ lk2 = [lk EXCEPT ![n] = fr.first]
            /\ fr2 = [first |-> n, last |-> IF fr.last = Null THEN n ELSE fr.last]
            /\ us2 = us
         \/ /\ BlockOf(n) # NoBlock /\ us[BlockOf(n)] # 1
            /\ us2 = [us EXCEPT ![BlockOf(n)] = @ - 1]
            /\ IF fr.last # Null
               THEN /\ lk2 = [lk EXCEPT ![n] = Null, ![fr.last] = n]
                    /\ fr2 = [fr EXCEPT !.last = n]
               ELSE /\ lk2 = [lk EXCEPT ![n] = Null]
                    /\ fr2 = [first |-> n, last |-> n]
  PROVE  \E r : Store(lk2, fr2, qu, lv, us2, H \ {n}, r, q)
<1> DEFINE k == IF BlockOf(n) = NoBlock THEN 0 ELSE Len(f)
           r == Ordered!InsertAfter(f, k, n)
<1>1. /\ Linking(lk) /\ Held(lk, fr, f) /\ Held(lk, qu, q) /\ PreFirst(f)
      /\ Placed(lv, H, Cells(f), Cells(q)) /\ Counted(lv, us, Cells(f))
  BY DEF Store
<1>2. /\ Len(f) \in Nat /\ Sized(f, Len(f)) /\ fr \in ListTypes
      /\ fr.first = IF Len(f) = 0 THEN Null ELSE f[1]
      /\ fr.last = IF Len(f) = 0 THEN Null ELSE f[Len(f)]
      /\ fr.last = Null <=> Len(f) = 0
      /\ Cells(f) \subseteq Node /\ Cells(q) \subseteq Node
      /\ fr.last # Null => fr.last \in Cells(f)
  BY <1>1, HeldFacts DEF Held
<1>3. n \notin Cells(f) /\ n \notin Cells(q) /\ Cells(f) \cap Cells(q) = {}
  BY <1>1 DEF Placed
<1>4. Null \notin Node /\ lk \in LinkTypes /\ lk[Null] = Null /\ n # Null
  BY <1>1, NodePairs DEF Linking
<1>5. \A i \in 1..Len(f) : f[i] \in Cells(f) /\ f[i] # n
  BY <1>2, <1>3, CellsAre
<1>6. \A i \in 1..Len(f) : f[i] = fr.last => i = Len(f)
  <2>1. Once(f, Len(f))
    BY <1>1, ChainIs DEF Held
  <2>2. \A i \in 1..Len(f) : Len(f) \in 1..Len(f) /\ Len(f) # 0
    BY <1>2
  <2>3. QED
    BY <2>1, <2>2, <1>2 DEF Once
<1>7. k \in 0..Len(f)
  BY <1>2
<1>8. /\ lk2 \in LinkTypes
      /\ \A m \in Node : m # n /\ m # fr.last => lk2[m] = lk[m]
      /\ BlockOf(n) = NoBlock => lk2[n] = fr.first /\ \A m \in Node \ {n} : lk2[m] = lk[m]
      /\ BlockOf(n) # NoBlock => lk2[n] = Null /\ (fr.last # Null => lk2[fr.last] = n)
      /\ lk2[Null] = Null
  <2>1. CASE BlockOf(n) = NoBlock
    <3>1. lk2 = [lk EXCEPT ![n] = fr.first] /\ fr.first \in Node \cup {Null}
      BY <2>1, <1>2 DEF ListTypes
    <3>2. QED
      BY <2>1, <3>1, <1>4 DEF LinkTypes
  <2>2. CASE BlockOf(n) # NoBlock /\ fr.last = Null
    <3>1. lk2 = [lk EXCEPT ![n] = Null]
      BY <2>2
    <3>2. QED
      BY <2>2, <3>1, <1>4 DEF LinkTypes
  <2>3. CASE BlockOf(n) # NoBlock /\ fr.last # Null
    <3>1. lk2 = [lk EXCEPT ![n] = Null, ![fr.last] = n]
      BY <2>3
    <3>2. fr.last \in Node /\ fr.last # n
      BY <2>3, <1>2, <1>3
    <3>3. QED
      BY <2>3, <3>1, <3>2, <1>4 DEF LinkTypes
  <2>4. QED
    BY <2>1, <2>2, <2>3
<1>9. fr2 = [first |-> IF k = 0 THEN n ELSE fr.first, last |-> IF k = Len(f) THEN n ELSE fr.last]
  <2>1. CASE BlockOf(n) = NoBlock
    BY <2>1, <1>2
  <2>2. CASE BlockOf(n) # NoBlock
    BY <2>2, <1>2 DEF ListTypes
  <2>3. QED
    BY <2>1, <2>2
<1>10. lk2[n] = IF k = Len(f) THEN Null ELSE f[k + 1]
  BY <1>2, <1>8
<1>11. k > 0 => lk2[f[k]] = n
  BY <1>2, <1>8
<1>12. \A j \in 1..Len(f) : j # k => lk2[f[j]] = lk[f[j]]
  <2>1. ASSUME NEW j \in 1..Len(f), j # k PROVE lk2[f[j]] = lk[f[j]]
    <3>1. f[j] \in Node /\ f[j] # n
      BY <1>2, <1>5
    <3>2. CASE BlockOf(n) = NoBlock
      BY <3>1, <3>2, <1>8
    <3>3. CASE BlockOf(n) # NoBlock
      <4>1. f[j] # fr.last
        BY <3>3, <2>1, <1>6
      <4>2. QED
        BY <3>1, <4>1, <1>8
    <3>4. QED
      BY <3>2, <3>3
  <2>2. QED
    BY <2>1
<1>13. IF BlockOf(n) = NoBlock THEN k = 0 ELSE k = Len(f)
  OBVIOUS
<1> HIDE DEF k
<1>14. /\ Held(lk2, fr2, r) /\ Cells(r) = Cells(f) \cup {n}
       /\ Sized(r, Len(f) + 1) /\ Inserted(r, f, Len(f), k, n)
  <2>1. n \in Node \ Cells(f)
    BY <1>3
  <2>2. QED
    BY <1>1, <1>7, <1>9, <1>10, <1>11, <1>12, <2>1, HeldInsert
<1> HIDE DEF r
<1>15. PreFirst(r)
  <2>1. Len(r) = Len(f) + 1
    BY <1>14 DEF Sized
  <2>2. QED
    BY <2>1, <1>1, <1>2, <1>7, <1>14, <1>13, PreFirstInsert
<1>16. Held(lk2, qu, q)
  <2>1. \A m \in Cells(q) : m # n /\ m # fr.last /\ m \in Node
    BY <1>2, <1>3, <1>4
  <2>2. QED
    BY <2>1, <1>1, <1>8, HeldFrame
<1>17. Placed(lv, H \ {n}, Cells(f) \cup {n}, Cells(q))
  BY <1>1, <1>3 DEF Placed
<1>18. Counted(lv, us2, Cells(f) \cup {n})
  <2>1. n \in NodesIn(lv) \ Cells(f)
    BY <1>1, <1>3 DEF Placed
  <2>2. us2 = IF BlockOf(n) = NoBlock THEN us ELSE [us EXCEPT ![BlockOf(n)] = @ - 1]
    OBVIOUS
  <2>3. BlockOf(n) # NoBlock => us[BlockOf(n)] # 1
    OBVIOUS
  <2>4. QED
    BY <1>1, <2>1, <2>2, <2>3, CountedGive
<1>19. Linking(lk2)
  BY <1>8 DEF Linking
<1>20. QED
  BY <1>14, <1>15, <1>16, <1>17, <1>18, <1>19 DEF Store

\* freeNode() of the last node in use of a block
Staying(D, f, b) ==
  D \in SUBSET (1..Len(f)) /\ \A i \in 1..Len(f) : i \in D <=> BlockOf(f[i]) # b
Dropped(new, lk, f, D, b) ==
  new = [m \in DOMAIN lk |->
           IF BlockOf(m) = b THEN Null
           ELSE IF \E i \in D : f[i] = m
           THEN FirstFrom(f, D, (CHOOSE i \in D : f[i] = m) + 1) ELSE lk[m]]

LEMMA StoreDrop ==
  ASSUME NEW lk, NEW fr, NEW qu, NEW lv, NEW us, NEW H, NEW f, NEW q,
         Store(lk, fr, qu, lv, us, H, f, q), NEW n \in H, n \in Node,
         NEW b, b = BlockOf(n), b # NoBlock, us[b] = 1,
         NEW D, Staying(D, f, b), NEW lk2, Dropped(lk2, lk, f, D, b)
  PROVE  \E r : Store(lk2, [first |-> FirstFrom(f, D, 1), last |-> LastOf(f, D)], qu,
                      lv \ {b}, [us EXCEPT ![b] = 0], H \ {n}, r, q)
<1> DEFINE fr2 == [first |-> FirstFrom(f, D, 1), last |-> LastOf(f, D)]
           us2 == [us EXCEPT ![b] = 0]
<1>1. /\ Linking(lk) /\ Held(lk, fr, f) /\ Held(lk, qu, q) /\ PreFirst(f)
      /\ Placed(lv, H, Cells(f), Cells(q)) /\ Counted(lv, us, Cells(f))
  BY DEF Store
<1>2. /\ Len(f) \in Nat /\ Sized(f, Len(f)) /\ DOMAIN f = 1..Len(f)
      /\ Cells(f) \subseteq Node /\ Cells(q) \subseteq Node /\ Once(f, Len(f))
      /\ Cells(f) = {f[i] : i \in 1..Len(f)}
      /\ \A i \in 1..Len(f) : f[i] \in Node
  <2>1. Once(f, Len(f)) /\ Sized(f, Len(f))
    BY <1>1, ChainIs DEF Held
  <2>2. Cells(f) \subseteq Node /\ Cells(q) \subseteq Node
    BY <1>1, HeldFacts
  <2>3. /\ Cells(f) = {f[i] : i \in 1..Len(f)}
        /\ \A i \in 1..Len(f) : f[i] \in Node
    BY <2>1, CellsAre
  <2>4. QED
    BY <2>1, <2>2, <2>3 DEF Sized
<1>3. n \notin Cells(f) /\ n \notin Cells(q) /\ Cells(f) \cap Cells(q) = {}
  BY <1>1 DEF Placed
<1>4. /\ b \in Blocks /\ n \in NodesOf(b) /\ NoBlock \notin Blocks
      /\ DOMAIN lk = Node \cup {Null} /\ Null \notin Node /\ lk[Null] = Null
      /\ BlockOf(Null) # b
  BY <1>1, NodePairs DEF Linking, LinkTypes
<1>5. D \in SUBSET (1..Len(f)) /\ D = {i \in 1..Len(f) : BlockOf(f[i]) # b}
  BY DEF Staying
<1>6. /\ Counted(lv \ {b}, us2, {m \in Cells(f) : BlockOf(m) # b})
      /\ NodesOf(b) \ Cells(f) = {n}
  <2>1. n \in NodesOf(b) \ Cells(f)
    BY <1>3, <1>4
  <2>2. Counted(lv \ {b}, us2, {m \in Cells(f) : BlockOf(m) # b})
    BY <1>1, <1>4, <2>1, CountedDrop
  <2>3. NodesOf(b) \ Cells(f) = {n}
    BY <1>1, <1>4, <2>1, CountedLast
  <2>4. QED
    BY <2>2, <2>3
<1>7. \A m \in Node : BlockOf(m) = b => m \in Cells(f) \cup {n}
  BY <1>6, NodePairs
<1>8. \A m \in Cells(q) : BlockOf(m) # b /\ m \notin Cells(f) /\ m \in Node
  BY <1>2, <1>3, <1>7
<1>9. Relinked(lk2, f, D)
  <2> SUFFICES ASSUME NEW i \in D PROVE lk2[f[i]] = FirstFrom(f, D, i + 1)
    BY DEF Relinked
  <2>1. f[i] \in DOMAIN lk /\ BlockOf(f[i]) # b
    BY <1>2, <1>4, <1>5
  <2>2. (CHOOSE j \in D : f[j] = f[i]) = i
    BY <1>2, <1>5 DEF Once
  <2>3. QED
    BY <2>1, <2>2 DEF Dropped
<1>10. Linking(lk2)
  <2>1. ASSUME NEW l \in Int PROVE FirstFrom(f, D, l) \in Node \cup {Null}
    <3>1. CASE From(D, l) = {}
      BY <3>1 DEF FirstFrom
    <3>2. CASE From(D, l) # {}
      <4>1. PICK j \in From(D, l) : \A k \in From(D, l) : j <= k
        <5>1. From(D, l) \in SUBSET Nat
          BY <1>5 DEF From
        <5>2. QED
          BY <5>1, <3>2, Least
      <4>2. j \in 1..Len(f) /\ From(D, l) \in SUBSET Int
        BY <1>5 DEF From
      <4>3. (CHOOSE i \in From(D, l) : \A k \in From(D, l) : i <= k) = j
        BY <4>1, <4>2, LeastIs
      <4>4. FirstFrom(f, D, l) = f[j]
        BY <3>2, <4>3 DEF FirstFrom
      <4>5. QED
        BY <4>2, <4>4, <1>2
    <3>3. QED
      BY <3>1, <3>2
  <2>2. ASSUME NEW m \in Node \cup {Null} PROVE lk2[m] \in Node \cup {Null}
    <3>1. CASE BlockOf(m) = b
      BY <3>1, <1>4 DEF Dropped
    <3>2. CASE BlockOf(m) # b /\ \E i \in D : f[i] = m
      <4>1. PICK i \in D : f[i] = m
        BY <3>2
      <4>2. lk2[m] = FirstFrom(f, D, i + 1)
        BY <4>1, <1>9 DEF Relinked
      <4>3. i + 1 \in Int
        BY <1>5
      <4>4. QED
        BY <4>2, <4>3, <2>1
    <3>3. CASE BlockOf(m) # b /\ ~\E i \in D : f[i] = m
      BY <3>3, <1>1, <1>4 DEF Dropped, Linking, LinkTypes
    <3>4. QED
      BY <3>1, <3>2, <3>3
  <2>3. lk2 = [m \in Node \cup {Null} |-> lk2[m]]
    BY <1>4 DEF Dropped
  <2>4. lk2[Null] = Null
    <3>1. ~\E i \in D : f[i] = Null
      BY <1>2, <1>4, <1>5
    <3>2. QED
      BY <3>1, <1>4 DEF Dropped
  <2>5. QED
    BY <2>2, <2>3, <2>4 DEF Linking, LinkTypes
<1>11. \A m \in Cells(q) : lk2[m] = lk[m]
  <2>1. ASSUME NEW m \in Cells(q) PROVE lk2[m] = lk[m]
    <3>1. ~\E i \in D : f[i] = m
      BY <1>2, <1>5, <1>8
    <3>2. QED
      BY <3>1, <1>4, <1>8 DEF Dropped
  <2>2. QED
    BY <2>1
<1>12. Held(lk2, qu, q)
  BY <1>1, <1>11, HeldFrame
<1>13. PICK r, e : PickedHeld(lk2, f, D, r, e)
  BY <1>1, <1>5, <1>9, HeldPick
<1>14. /\ Held(lk2, fr2, r) /\ Picked(r, f, e, Len(r), D)
       /\ Cells(r) = {f[i] : i \in D} /\ Sized(r, Len(r))
  BY <1>13 DEF PickedHeld
<1>15. Cells(r) = {m \in Cells(f) : BlockOf(m) # b}
  BY <1>2, <1>5, <1>14
<1>16. PreFirst(r)
  BY <1>1, <1>5, <1>14, PreFirstPick
<1>17. Placed(lv \ {b}, H \ {n}, Cells(r), Cells(q))
  <2>1. /\ NodesIn(lv) = {m \in Node : BlockOf(m) \in lv \cup {NoBlock}}
        /\ NodesIn(lv \ {b}) = {m \in Node : BlockOf(m) \in (lv \ {b}) \cup {NoBlock}}
    BY <1>1, NodesInIs DEF Counted
  <2>2. NodesIn(lv \ {b}) = {m \in NodesIn(lv) : BlockOf(m) # b}
    BY <2>1, <1>4
  <2>3. \A m \in H \ {n} : BlockOf(m) # b
    <3>1. \A m \in H : m \in Node /\ m \notin Cells(f)
      BY <1>1, <2>1 DEF Placed
    <3>2. QED
      BY <3>1, <1>7
  <2>4. QED
    BY <2>2, <2>3, <1>1, <1>4, <1>8, <1>15 DEF Placed
<1>18. QED
  BY <1>6, <1>10, <1>12, <1>14, <1>15, <1>16, <1>17 DEF Store

\* pushNode() behind the first k nodes of the sorted list
LinkedIn(new, lk, q, k, n) ==
  /\ Linking(new)
  /\ new[n] = IF k = Len(q) THEN Null ELSE q[k + 1]
  /\ k > 0 => new[q[k]] = n
  /\ \A m \in Node \ {n} : (k > 0 /\ m = q[k]) \/ new[m] = lk[m]
Pushed(lk2, qu2, lk, qu, q, k, n) ==
  /\ k \in 0..Len(q) /\ LinkedIn(lk2, lk, q, k, n)
  /\ qu2 = [first |-> IF k = 0 THEN n ELSE qu.first,
             last |-> IF k = Len(q) THEN n ELSE qu.last]

LEMMA StorePush ==
  ASSUME NEW lk, NEW fr, NEW qu, NEW lv, NEW us, NEW H, NEW f, NEW q,
         Store(lk, fr, qu, lv, us, H, f, q), NEW n \in H, n \in Node,
         NEW k, NEW lk2, NEW qu2, Pushed(lk2, qu2, lk, qu, q, k, n)
  PROVE  Store(lk2, fr, qu2, lv, us, H \ {n}, f, Ordered!InsertAfter(q, k, n))
<1> DEFINE r == Ordered!InsertAfter(q, k, n)
<1>1. /\ k \in 0..Len(q) /\ LinkedIn(lk2, lk, q, k, n)
      /\ qu2 = [first |-> IF k = 0 THEN n ELSE qu.first,
                last |-> IF k = Len(q) THEN n ELSE qu.last]
  BY DEF Pushed
<1>2. /\ Linking(lk) /\ Held(lk, fr, f) /\ Held(lk, qu, q) /\ PreFirst(f)
      /\ Placed(lv, H, Cells(f), Cells(q)) /\ Counted(lv, us, Cells(f))
  BY DEF Store
<1>3. n \in Node \ Cells(q) /\ n \notin Cells(f) /\ Cells(f) \cap Cells(q) = {}
  BY <1>2 DEF Placed
<1>4. /\ Cells(f) \subseteq Node /\ Cells(q) \subseteq Node /\ Len(q) \in Nat
      /\ Sized(q, Len(q))
  BY <1>2, HeldFacts
<1>5. Once(q, Len(q))
  BY <1>2, ChainIs DEF Held
<1>6. \A j \in 1..Len(q) : q[j] \in Cells(q) /\ q[j] \in Node /\ q[j] # n
  BY <1>3, <1>4, CellsAre
<1>7. \A j \in 1..Len(q) : j # k => lk2[q[j]] = lk[q[j]]
  <2>1. ASSUME NEW j \in 1..Len(q), j # k PROVE lk2[q[j]] = lk[q[j]]
    <3>1. ~(k > 0 /\ q[j] = q[k])
      <4>1. k > 0 => k \in 1..Len(q)
        BY <1>1
      <4>2. QED
        BY <4>1, <2>1, <1>5, <1>1 DEF Once
    <3>2. QED
      BY <3>1, <1>6, <1>1 DEF LinkedIn
  <2>2. QED
    BY <2>1
<1>8. /\ Held(lk2, qu2, r) /\ Cells(r) = Cells(q) \cup {n}
  <2>1. /\ lk2[n] = (IF k = Len(q) THEN Null ELSE q[k + 1])
        /\ k > 0 => lk2[q[k]] = n
    BY <1>1 DEF LinkedIn
  <2>2. QED
    BY <1>2, <1>3, <1>7, <1>1, <2>1, HeldInsert
<1> HIDE DEF r
<1>9. Held(lk2, fr, f)
  <2>1. ASSUME NEW m \in Cells(f) PROVE lk2[m] = lk[m]
    <3>1. m \in Node \ {n} /\ ~(k > 0 /\ m = q[k])
      <4>1. k > 0 => k \in 1..Len(q)
        BY <1>1
      <4>2. QED
        BY <4>1, <1>3, <1>4, <1>6, <1>1
    <3>2. QED
      BY <3>1, <1>1 DEF LinkedIn
  <2>2. QED
    BY <2>1, <1>2, HeldFrame
<1>10. Placed(lv, H \ {n}, Cells(f), Cells(q) \cup {n})
  BY <1>2, <1>3 DEF Placed
<1>11. Linking(lk2)
  BY <1>1 DEF LinkedIn
<1>12. QED
  <2>1. Store(lk2, fr, qu2, lv, us, H \ {n}, f, r)
    BY <1>2, <1>8, <1>9, <1>10, <1>11 DEF Store
  <2>2. QED
    BY <2>1, <1>8 DEF r

\* popNode(): the first node goes into a thread's hands.
Unlinked(lk2, qu2, lk, qu) ==
  /\ qu.first # Null /\ Linking(lk2) /\ SameBut(lk2, lk, qu.first)
  /\ qu2 = IF qu.first = qu.last THEN Empty ELSE [qu EXCEPT !.first = lk[qu.first]]

LEMMA StoreUnlink ==
  ASSUME NEW lk, NEW fr, NEW qu, NEW lv, NEW us, NEW H, NEW f, NEW q,
         Store(lk, fr, qu, lv, us, H, f, q), NEW lk2, NEW qu2, Unlinked(lk2, qu2, lk, qu)
  PROVE  Store(lk2, fr, qu2, lv, us, H \cup {qu.first}, f, Tail(q))
<1> DEFINE n == qu.first
<1>1. /\ Linking(lk) /\ Held(lk, fr, f) /\ Held(lk, qu, q) /\ PreFirst(f)
      /\ Placed(lv, H, Cells(f), Cells(q)) /\ Counted(lv, us, Cells(f))
  BY DEF Store
<1>2. /\ n # Null /\ Linking(lk2) /\ SameBut(lk2, lk, n)
      /\ qu2 = IF n = qu.last THEN Empty ELSE [qu EXCEPT !.first = lk[n]]
  BY DEF Unlinked
<1>3. lk \in LinkTypes
  BY <1>1 DEF Linking
<1>4. /\ Held(lk2, qu2, Tail(q)) /\ Cells(Tail(q)) = Cells(q) \ {n}
      /\ n \in Cells(q)
  BY <1>1, <1>2, <1>3, HeldTail
<1>5. Cells(q) \subseteq Node /\ Cells(f) \subseteq Node
  BY <1>1, HeldFacts
<1>6. n \notin H /\ n \notin Cells(f)
  BY <1>1, <1>4 DEF Placed
<1>7. Held(lk2, fr, f)
  BY <1>1, <1>2, <1>5, <1>6, HeldFrame DEF SameBut
<1>8. Placed(lv, H \cup {n}, Cells(f), Cells(q) \ {n})
  BY <1>1, <1>4 DEF Placed
<1>9. QED
  BY <1>1, <1>2, <1>4, <1>7, <1>8 DEF Store

-----------------------------------------------------------------------------
(* The invariant.                                                          *)

FreeList == List(free.first)
QueueList == List(queue.first)
Hands == {node[t] : t \in Threads} \ {Null}
HandPc == {"push", "pushing", "dispose", "free", "freeing"}
FilledPc == {"push", "pushing", "dispose"}

StoreOK == Store(next, free, queue, live, used, Hands, FreeList, QueueList)

DataTypes ==
  /\ entry \in [Node -> [priority : Int, insertFirst : BOOLEAN, stamp : Nat]]
  /\ filled \subseteq Node /\ node \in [Threads -> Node \cup {Null}]
  /\ begun \in 0..MaxPushes /\ pushes \in Nat

\* A thread has a node exactly while it pushes or has popped one, no two have
\* the same, and what it is about to push has its priority.
HandsOK ==
  \A t \in Threads :
    /\ node[t] # Null <=> pc[t] \in HandPc
    /\ pc[t] \in {"push", "pushing"} => entry[node[t]].priority \in Priorities
    /\ \A u \in Threads : node[t] = node[u] /\ node[t] # Null => t = u

FilledOK == filled = Cells(QueueList) \cup {node[t] : t \in {u \in Threads : pc[u] \in FilledPc}}

\* The walk of pushNode() finds the place, for lower values come first.
InOrder(q, e) == \A i, j \in 1..Len(q) : i < j => e[q[i]].priority <= e[q[j]].priority
ByPriority == InOrder(QueueList, entry)

\* No more blocks are alive than pushes have got their node.
Allocating == {t \in Threads : pc[t] \in {"alloc", "allocating"}}
Pushing == {t \in Threads : pc[t] \in {"alloc", "allocating", "push", "pushing"}}
PushesCounted ==
  /\ IsFiniteSet(Pushing)
  /\ pushes + Cardinality(Pushing) <= begun
  /\ Cardinality(live) + Cardinality(Allocating) <= begun

IInv ==
  /\ LockTypes /\ LocksOK /\ DataTypes /\ HandsOK /\ StoreOK /\ FilledOK /\ ByPriority
  /\ PushesCounted

-----------------------------------------------------------------------------
(* Counting.                                                               *)

LEMMA AllocatingFinite ==
  ASSUME PushesCounted, live \subseteq Blocks
  PROVE  /\ IsFiniteSet(Pushing) /\ IsFiniteSet(Allocating) /\ IsFiniteSet(live)
         /\ Cardinality(Pushing) \in Nat /\ Cardinality(Allocating) \in Nat
         /\ Cardinality(live) \in Nat
<1>1. IsFiniteSet(Pushing)
  BY DEF PushesCounted
<1>2. Allocating \subseteq Pushing
  BY DEF Allocating, Pushing
<1>3. IsFiniteSet(Blocks)
  BY Sizes, FS_Interval DEF Blocks
<1>4. IsFiniteSet(Allocating) /\ IsFiniteSet(live)
  BY <1>1, <1>2, <1>3, FS_Subset
<1>5. QED
  BY <1>1, <1>4, FS_CardinalityType

\* So there is a block to allocate.
LEMMA BlockLeft ==
  ASSUME PushesCounted, live \subseteq Blocks, begun \in 0..MaxPushes, NEW t \in Allocating
  PROVE  (CHOOSE c \in Blocks : c \notin live) \in Blocks \ live
<1>1. Blocks \ live # {}
  <2>1. SUFFICES ASSUME live = Blocks PROVE FALSE
    OBVIOUS
  <2>2. Cardinality(live) = MaxPushes
    BY <2>1, Sizes, FS_Interval DEF Blocks
  <2>3. Cardinality(Allocating) # 0
    BY AllocatingFinite, FS_EmptySet
  <2>4. QED
    BY <2>2, <2>3, AllocatingFinite, Sizes DEF PushesCounted
<1>2. QED
  BY <1>1

LEMMA CountKeep ==
  ASSUME PushesCounted, live \subseteq Blocks, begun \in Nat,
         Pushing' = Pushing, Allocating' = Allocating,
         live' \subseteq live, UNCHANGED <<begun, pushes>>
  PROVE  PushesCounted'
<1>1. Cardinality(live') <= Cardinality(live) /\ Cardinality(live') \in Nat
  BY AllocatingFinite, FS_Subset, FS_CardinalityType
<1>2. begun' = begun /\ pushes' = pushes
  OBVIOUS
<1>3. Cardinality(live') + Cardinality(Allocating') <= begun
  <2>1. Cardinality(live) \in Nat /\ Cardinality(Allocating) \in Nat
    BY AllocatingFinite
  <2>2. Cardinality(live) + Cardinality(Allocating) <= begun
    BY DEF PushesCounted
  <2>3. QED
    BY <1>1, <2>1, <2>2
<1>4. QED
  BY <1>2, <1>3 DEF PushesCounted

LEMMA CountPush ==
  ASSUME LockTypes, PushesCounted, live \subseteq Blocks, begun \in Nat, pushes \in Nat,
         NEW t \in Threads, Push(t)
  PROVE  PushesCounted'
<1>1. pc[t] = "idle" /\ \A u \in Threads : pc'[u] = IF u = t THEN "alloc" ELSE pc[u]
  BY DEF Push, Go, LockTypes
<1>2. /\ Pushing' = Pushing \cup {t} /\ t \notin Pushing
      /\ Allocating' = Allocating \cup {t} /\ t \notin Allocating
  BY <1>1 DEF Pushing, Allocating
<1>3. /\ IsFiniteSet(Pushing')
      /\ Cardinality(Pushing') = Cardinality(Pushing) + 1
      /\ Cardinality(Allocating') = Cardinality(Allocating) + 1
  BY <1>2, AllocatingFinite, FS_AddElement
<1>4. begun' = begun + 1 /\ pushes' = pushes /\ live' = live
  BY DEF Push, dataVars, listVars
<1>5. QED
  BY <1>3, <1>4, AllocatingFinite DEF PushesCounted

LEMMA CountAllocate ==
  ASSUME LockTypes, PushesCounted, live \subseteq Blocks, begun \in Nat, pushes \in Nat,
         NEW t \in Threads, pc[t] = "allocating", pc' = [pc EXCEPT ![t] = "push"],
         NEW b, live' = live \/ (live' = live \cup {b} /\ b \notin live),
         UNCHANGED <<begun, pushes>>
  PROVE  PushesCounted'
<1>1. \A u \in Threads : pc'[u] = IF u = t THEN "push" ELSE pc[u]
  BY DEF LockTypes
<1>2. Pushing' = Pushing /\ Allocating' = Allocating \ {t} /\ t \in Allocating
  BY <1>1 DEF Pushing, Allocating
<1>3. Cardinality(Allocating') = Cardinality(Allocating) - 1
  BY <1>2, AllocatingFinite, FS_RemoveElement
<1>4. Cardinality(live') <= Cardinality(live) + 1 /\ Cardinality(live') \in Nat
  <2>1. IsFiniteSet(live) /\ Cardinality(live) \in Nat
    BY AllocatingFinite
  <2>2. CASE live' = live
    BY <2>1, <2>2
  <2>3. CASE live' = live \cup {b} /\ b \notin live
    <3>1. Cardinality(live \cup {b}) = Cardinality(live) + 1
      BY <2>1, <2>3, FS_AddElement
    <3>2. QED
      BY <2>1, <2>3, <3>1
  <2>4. QED
    BY <2>2, <2>3
<1>5. Cardinality(live') + Cardinality(Allocating') <= begun
  BY <1>3, <1>4, AllocatingFinite DEF PushesCounted
<1>6. QED
  BY <1>2, <1>5 DEF PushesCounted

LEMMA CountPushed ==
  ASSUME LockTypes, PushesCounted, live \subseteq Blocks, begun \in Nat, pushes \in Nat,
         NEW t \in Threads, pc[t] = "pushing", pc' = [pc EXCEPT ![t] = "idle"],
         live' = live, begun' = begun, pushes' = pushes + 1
  PROVE  PushesCounted'
<1>1. \A u \in Threads : pc'[u] = IF u = t THEN "idle" ELSE pc[u]
  BY DEF LockTypes
<1>2. Pushing' = Pushing \ {t} /\ t \in Pushing /\ Allocating' = Allocating
  BY <1>1 DEF Pushing, Allocating
<1>3. IsFiniteSet(Pushing') /\ Cardinality(Pushing') = Cardinality(Pushing) - 1
  BY <1>2, AllocatingFinite, FS_RemoveElement
<1>4. QED
  BY <1>2, <1>3, AllocatingFinite DEF PushesCounted

-----------------------------------------------------------------------------
(* The steps.                                                              *)

LEMMA StoreLists ==
  ASSUME NEW lk, NEW fr, NEW qu, NEW lv, NEW us, NEW H, NEW f, NEW q,
         Store(lk, fr, qu, lv, us, H, f, q)
  PROVE  ListBy(lk, fr.first) = f /\ ListBy(lk, qu.first) = q
<1>1. lk[Null] = Null /\ Chain(lk, fr.first, f) /\ Chain(lk, qu.first, q)
  BY DEF Store, Linking, Held
<1>2. QED
  BY <1>1, ListOfChain

LEMMA StoreNext ==
  ASSUME NEW H, NEW f, NEW q, Store(next', free', queue', live', used', H, f, q), Hands' = H
  PROVE  StoreOK' /\ FreeList' = f /\ QueueList' = q
<1>1. ListBy(next', free'.first) = f /\ ListBy(next', queue'.first) = q
  BY StoreLists
<1>2. FreeList' = f /\ QueueList' = q
  BY <1>1 DEF FreeList, QueueList, List
<1>3. QED
  BY <1>2 DEF StoreOK

\* What the lists hold now.
LEMMA StoreNow ==
  ASSUME StoreOK
  PROVE  /\ Cells(FreeList) \subseteq Node /\ Cells(QueueList) \subseteq Node
         /\ Hands \cap (Cells(FreeList) \cup Cells(QueueList)) = {}
         /\ Sized(QueueList, Len(QueueList)) /\ Len(QueueList) \in Nat
         /\ queue.first = IF Len(QueueList) = 0 THEN Null ELSE QueueList[1]
         /\ queue.first # Null => queue.first \in Cells(QueueList)
         /\ live \subseteq Blocks
<1>1. /\ Held(next, free, FreeList) /\ Held(next, queue, QueueList)
      /\ Placed(live, Hands, Cells(FreeList), Cells(QueueList))
      /\ Counted(live, used, Cells(FreeList))
  BY DEF StoreOK, Store
<1>2. QED
  BY <1>1, HeldFacts DEF Placed, Counted

LEMMA HandsGain ==
  ASSUME node \in [Threads -> Node \cup {Null}], NEW t \in Threads, node[t] = Null,
         NEW n \in Node, node' = [node EXCEPT ![t] = n]
  PROVE  Hands' = Hands \cup {n} /\ \A u \in Threads : node'[u] = IF u = t THEN n ELSE node[u]
<1>1. \A u \in Threads : node'[u] = IF u = t THEN n ELSE node[u]
  OBVIOUS
<1>2. n # Null
  BY NodePairs
<1>3. Hands' = {node'[u] : u \in Threads} \ {Null}
  BY DEF Hands
<1>4. Hands' \subseteq Hands \cup {n}
  BY <1>1, <1>3 DEF Hands
<1>5. Hands \subseteq Hands'
  BY <1>1, <1>3 DEF Hands
<1>6. n \in Hands'
  BY <1>1, <1>2, <1>3
<1>7. QED
  BY <1>1, <1>4, <1>5, <1>6

LEMMA HandsLose ==
  ASSUME node \in [Threads -> Node \cup {Null}], HandsOK, NEW t \in Threads, node[t] # Null,
         node' = [node EXCEPT ![t] = Null]
  PROVE  /\ Hands' = Hands \ {node[t]} /\ node[t] \in Hands /\ node[t] \in Node
         /\ \A u \in Threads : node'[u] = IF u = t THEN Null ELSE node[u]
<1>1. \A u \in Threads : node'[u] = IF u = t THEN Null ELSE node[u]
  OBVIOUS
<1>2. Hands' = {node'[u] : u \in Threads} \ {Null}
  BY DEF Hands
<1>3. \A u \in Threads \ {t} : node[u] # node[t]
  BY DEF HandsOK
<1>4. Hands' \subseteq Hands \ {node[t]}
  BY <1>1, <1>2, <1>3 DEF Hands
<1>5. Hands \ {node[t]} \subseteq Hands'
  <2>1. ASSUME NEW u \in Threads, node[u] # Null, node[u] # node[t] PROVE node[u] \in Hands'
    <3>1. u # t /\ node'[u] = node[u]
      BY <2>1, <1>1
    <3>2. QED
      BY <2>1, <3>1, <1>2
  <2>2. QED
    BY <2>1 DEF Hands
<1>6. QED
  BY <1>1, <1>4, <1>5 DEF Hands

DataOK == DataTypes /\ HandsOK /\ StoreOK /\ FilledOK /\ ByPriority

\* Steps that only move a thread.
LEMMA DataFrame ==
  ASSUME DataOK, UNCHANGED <<listVars, dataVars, node>>, begun' \in 0..MaxPushes,
         \A u \in Threads : /\ pc'[u] \in HandPc <=> pc[u] \in HandPc
                            /\ pc'[u] \in FilledPc <=> pc[u] \in FilledPc
                            /\ pc'[u] \in {"push", "pushing"} => pc[u] \in {"push", "pushing"}
  PROVE  DataOK'
<1>1. UNCHANGED <<next, free, queue, live, used, entry, filled, pushes, node>>
  BY DEF listVars, dataVars
<1>2. DataTypes'
  BY <1>1 DEF DataOK, DataTypes
<1>3. HandsOK'
  BY <1>1 DEF DataOK, HandsOK
<1>4. QueueList' = QueueList /\ FreeList' = FreeList /\ Hands' = Hands
  BY <1>1 DEF QueueList, FreeList, Hands, List
<1>5. StoreOK'
  BY <1>1, <1>4 DEF DataOK, StoreOK
<1>6. FilledOK'
  <2>1. {u \in Threads : pc'[u] \in FilledPc} = {u \in Threads : pc[u] \in FilledPc}
    OBVIOUS
  <2>2. QED
    BY <1>1, <1>4, <2>1 DEF DataOK, FilledOK
<1>7. ByPriority'
  BY <1>1, <1>4 DEF DataOK, ByPriority
<1>8. QED
  BY <1>2, <1>3, <1>5, <1>6, <1>7 DEF DataOK

\* The order of a list does not depend on other nodes' entries.
LEMMA InOrderFrame ==
  ASSUME NEW q, NEW e, NEW g, Sized(q, Len(q)), InOrder(q, e),
         \A n \in Cells(q) : g[n].priority = e[n].priority
  PROVE  InOrder(q, g)
<1>1. \A i \in 1..Len(q) : q[i] \in Cells(q)
  BY CellsAre
<1>2. QED
  BY <1>1 DEF InOrder

LEMMA InOrderTail ==
  ASSUME NEW q, NEW e, NEW L \in Nat \ {0}, Len(q) = L, InOrder(q, e), NEW r, Len(r) = L - 1,
         Shifted(r, q, L)
  PROVE  InOrder(r, e)
<1> SUFFICES ASSUME NEW i \in 1..(L - 1), NEW j \in 1..(L - 1), i < j
             PROVE  e[r[i]].priority <= e[r[j]].priority
  BY DEF InOrder
<1>1. /\ i + 1 \in 1..L /\ j + 1 \in 1..L /\ i + 1 < j + 1
      /\ r[i] = q[i + 1] /\ r[j] = q[j + 1]
  BY DEF Shifted
<1>2. QED
  BY <1>1 DEF InOrder

\* The entry of a node is set, or reset, while it is in no list.
LEMMA DataAllocate ==
  ASSUME LockTypes, LocksOK, DataOK, PushesCounted, NEW t \in Threads, AllocateNode(t)
  PROVE  /\ DataOK' /\ QueueList' = QueueList
         /\ \A n \in Cells(QueueList) : entry'[n] = entry[n]
         /\ \E b : live' = live \/ (live' = live \cup {b} /\ b \notin live)
<1> DEFINE b == CHOOSE c \in Blocks : c \notin live
           n == IF free.first # Null THEN free.first ELSE <<b, 1>>
<1>1. /\ pc[t] = "allocating" /\ pc' = [pc EXCEPT ![t] = "push"]
      /\ TakeFree \/ TakeFromBlock(b)
      /\ node' = [node EXCEPT ![t] = n]
      /\ filled' = filled \cup {n}
      /\ \E p \in Priorities, first \in BOOLEAN :
           entry' = [entry EXCEPT ![n] = [priority |-> p, insertFirst |-> first, stamp |-> 0]]
      /\ UNCHANGED <<queue, pushes, begun>>
  BY DEF AllocateNode, Go
<1>2. DataTypes /\ HandsOK /\ StoreOK /\ FilledOK /\ ByPriority
  BY DEF DataOK
<1>3. \A u \in Threads : pc'[u] = IF u = t THEN "push" ELSE pc[u]
  BY <1>1 DEF LockTypes
<1>4. node[t] = Null /\ node \in [Threads -> Node \cup {Null}]
  BY <1>1, <1>2 DEF HandsOK, HandPc, DataTypes
<1>5. \E f : /\ Store(next', free', queue', live', used', Hands \cup {n}, f, QueueList)
             /\ n \in Node /\ n \notin Hands \cup Cells(QueueList)
  <2>1. Store(next, free, queue, live, used, Hands, FreeList, QueueList)
    BY <1>2 DEF StoreOK
  <2>2. CASE TakeFree
    <3>1. Taken(next, free, used, n, next', free', used') /\ live' = live /\ queue' = queue
      BY <2>2, <1>1 DEF TakeFree, Taken
    <3> HIDE DEF n
    <3>2. /\ Store(next', free', queue, live, used', Hands \cup {n}, Tail(FreeList), QueueList)
          /\ n \in Node /\ n \notin Hands \cup Cells(QueueList)
      BY <2>1, <3>1, StoreTake
    <3>3. QED
      BY <3>1, <3>2
  <2>3. CASE TakeFromBlock(b)
    <3>1. b \in Blocks \ live
      <4>1. t \in Allocating
        BY <1>1 DEF Allocating
      <4>2. QED
        BY <4>1, <1>2, BlockLeft, StoreNow DEF DataTypes
    <3>2. n = <<b, 1>>
      BY <2>3 DEF TakeFromBlock
    <3> HIDE DEF b, n
    <3>3. /\ NewBlock(next, free, used, b, next', free', used')
          /\ live' = live \cup {b} /\ queue' = queue
      BY <2>3, <1>1 DEF TakeFromBlock, NewBlock
    <3>4. /\ \E r : Store(next', free', queue, live \cup {b}, used', Hands \cup {<<b, 1>>}, r,
                          QueueList)
          /\ <<b, 1>> \in Node /\ <<b, 1>> \notin Hands \cup Cells(QueueList)
      BY <2>1, <3>1, <3>3, StoreNew
    <3>5. QED
      BY <3>2, <3>3, <3>4
  <2>4. QED
    BY <1>1, <2>2, <2>3
<1>6. \E c : live' = live \/ (live' = live \cup {c} /\ c \notin live)
  <2>1. CASE TakeFree
    BY <2>1 DEF TakeFree
  <2>2. CASE TakeFromBlock(b)
    <3>1. live' = live \cup {b}
      BY <2>2 DEF TakeFromBlock
    <3>2. CASE b \in live
      BY <3>1, <3>2
    <3>3. CASE b \notin live
      BY <3>1, <3>3
    <3>4. QED
      BY <3>2, <3>3
  <2>3. QED
    BY <1>1, <2>1, <2>2
<1> HIDE DEF n, b
<1>7. PICK f : /\ Store(next', free', queue', live', used', Hands \cup {n}, f, QueueList)
               /\ n \in Node /\ n \notin Hands \cup Cells(QueueList)
  BY <1>5
<1>8. Hands' = Hands \cup {n} /\ \A u \in Threads : node'[u] = IF u = t THEN n ELSE node[u]
  BY <1>1, <1>4, <1>7, HandsGain
<1>9. StoreOK' /\ QueueList' = QueueList
  BY <1>7, <1>8, StoreNext
<1>10. PICK p \in Priorities, first \in BOOLEAN :
         entry' = [entry EXCEPT ![n] = [priority |-> p, insertFirst |-> first, stamp |-> 0]]
  BY <1>1
<1>11. /\ entry' \in [Node -> [priority : Int, insertFirst : BOOLEAN, stamp : Nat]]
       /\ \A m \in Node \ {n} : entry'[m] = entry[m]
       /\ entry'[n].priority \in Priorities
  <2>1. p \in Int
    BY QueueNodesAssumption
  <2>2. QED
    BY <2>1, <1>2, <1>7, <1>10 DEF DataTypes
<1>12. DataTypes'
  <2>1. filled' \subseteq Node /\ node' \in [Threads -> Node \cup {Null}]
    BY <1>1, <1>2, <1>4, <1>7 DEF DataTypes
  <2>2. QED
    BY <2>1, <1>1, <1>2, <1>11 DEF DataTypes
<1>13. HandsOK'
  <2>1. n # Null
    BY <1>7, NodePairs
  <2>2. \A u \in Threads \ {t} : node[u] # n
    BY <1>7, <2>1 DEF Hands
  <2>3. ASSUME NEW u \in Threads
        PROVE  /\ node'[u] # Null <=> pc'[u] \in HandPc
               /\ pc'[u] \in {"push", "pushing"} => entry'[node'[u]].priority \in Priorities
               /\ \A v \in Threads : node'[u] = node'[v] /\ node'[u] # Null => u = v
    <3>1. CASE u = t
      BY <3>1, <2>1, <2>2, <1>3, <1>8, <1>11 DEF HandPc
    <3>2. CASE u # t
      <4>1. /\ node'[u] = node[u] /\ pc'[u] = pc[u] /\ node[u] # n
            /\ node[u] # Null => node[u] \in Node
        BY <3>2, <2>2, <1>3, <1>4, <1>8
      <4>2. /\ node[u] # Null <=> pc[u] \in HandPc
            /\ pc[u] \in {"push", "pushing"} => entry[node[u]].priority \in Priorities
            /\ \A v \in Threads : node[u] = node[v] /\ node[u] # Null => u = v
        BY <1>2 DEF HandsOK
      <4>3. pc[u] \in {"push", "pushing"} => pc[u] \in HandPc
        BY DEF HandPc
      <4>4. pc[u] \in {"push", "pushing"} => entry'[node[u]] = entry[node[u]]
        BY <4>1, <4>2, <4>3, <1>11
      <4>5. QED
        BY <4>1, <4>2, <4>4, <1>8
    <3>3. QED
      BY <3>1, <3>2
  <2>4. QED
    BY <2>3 DEF HandsOK
<1>14. FilledOK'
  <2>1. {node'[u] : u \in {v \in Threads : pc'[v] \in FilledPc}} =
          {node[u] : u \in {v \in Threads : pc[v] \in FilledPc}} \cup {n}
    <3>1. pc[t] \notin FilledPc /\ pc'[t] \in FilledPc /\ node'[t] = n
      BY <1>1, <1>3, <1>8 DEF FilledPc
    <3>2. \A u \in Threads \ {t} : pc'[u] = pc[u] /\ node'[u] = node[u]
      BY <1>3, <1>8
    <3>3. QED
      BY <3>1, <3>2
  <2>2. QED
    BY <2>1, <1>1, <1>2, <1>9 DEF FilledOK
<1>15. \A m \in Cells(QueueList) : entry'[m] = entry[m]
  BY <1>2, <1>7, <1>11, StoreNow
<1>16. ByPriority'
  <2>1. InOrder(QueueList, entry')
    BY <1>2, <1>15, StoreNow, InOrderFrame DEF ByPriority
  <2>2. QED
    BY <2>1, <1>9 DEF ByPriority
<1>17. QED
  BY <1>6, <1>9, <1>12, <1>13, <1>14, <1>15, <1>16 DEF DataOK

-----------------------------------------------------------------------------
(* pushNode().                                                             *)

\* n belongs behind exactly the first k nodes of q.
BelongsAt(q, e, n, k) ==
  \A i \in 1..Len(q) : Ordered!StaysBefore(e[q[i]], e[n]) <=> i <= k

LEMMA BeforeIs ==
  ASSUME NEW m, NEW n
  PROVE  Before(m, n) <=> Ordered!StaysBefore(entry[m], entry[n])
  BY DEF Before, Ordered!StaysBefore

\* Where one node stays in front of n, all nodes before it do.
LEMMA BeforeDown ==
  ASSUME NEW q, NEW L \in Nat, L = Len(q), InOrder(q, entry), NEW n,
         \A i \in 1..L : entry[q[i]].priority \in Int, entry[n].priority \in Int,
         NEW i \in 1..L, NEW j \in 1..L, i <= j, Before(q[j], n)
  PROVE  Before(q[i], n)
<1>1. i = j \/ entry[q[i]].priority <= entry[q[j]].priority
  BY DEF InOrder
<1>2. QED
  BY <1>1 DEF Before

\* The walk of pushNode() ends at the last of them.
LEMMA WalkEndIs ==
  ASSUME NEW n, NEW q, q = QueueList, NEW L \in Nat, L = Len(q), DOMAIN q = 1..L,
         InOrder(q, entry),
         \A i \in 1..L : entry[q[i]].priority \in Int, entry[n].priority \in Int,
         L # 0, Before(q[1], n), ~Before(q[L], n)
  PROVE  \E k \in 1..(L - 1) : /\ WalkEnd(n) = q[k]
                               /\ \A i \in 1..L : Before(q[i], n) <=> i <= k
<1> DEFINE D == {i \in 1..L : Before(q[i], n)}
           Ends(i) == /\ \A j \in 2..i : Before(q[j], n)
                      /\ i = L \/ ~Before(q[i + 1], n)
           k == CHOOSE i \in 1..L : Ends(i)
<1>1. \A j \in 1..L : Before(q[j], n) => \A i \in 1..j : Before(q[i], n)
  BY BeforeDown
<1>2. PICK g \in D : \A i \in D : i <= g
  <2>1. 1 \in D /\ D \subseteq 0..L
    OBVIOUS
  <2>2. QED
    BY <2>1, Greatest
<1>3. g \in 1..L /\ Ends(g)
  <2>1. \A j \in 2..g : Before(q[j], n)
    BY <1>1, <1>2
  <2>2. g # L => g + 1 \in 1..L /\ g + 1 \notin D
    BY <1>2
  <2>3. QED
    BY <1>2, <2>1, <2>2
<1>4. k \in 1..L /\ Ends(k)
  <2> HIDE DEF Ends
  <2>1. QED
    BY <1>3
<1>5. WalkEnd(n) = q[k]
  BY DEF WalkEnd, QueueList
<1> HIDE DEF k
<1>6. \A i \in 1..k : Before(q[i], n)
  <2>1. \A i \in 1..k : i = 1 \/ i \in 2..k
    BY <1>4
  <2>2. QED
    BY <1>4, <2>1
<1>7. k # L
  BY <1>4, <1>6
<1>8. k \in 1..(L - 1) /\ ~Before(q[k + 1], n) /\ k + 1 \in 1..L
  BY <1>4, <1>7
<1>9. ASSUME NEW i \in 1..L, i > k, Before(q[i], n) PROVE FALSE
  <2>1. k + 1 \in 1..i
    BY <1>8, <1>9
  <2>2. QED
    BY <2>1, <1>1, <1>8, <1>9
<1>10. \A i \in 1..L : Before(q[i], n) <=> i <= k
  BY <1>4, <1>6, <1>9
<1>11. QED
  BY <1>5, <1>8, <1>10

\* The list after pushNode()
LEMMA PushLinks ==
  ASSUME StoreOK, ByPriority, NEW t \in Threads, PushNode(t), NEW n \in Node, n = node[t],
         \A m \in Node : entry[m].priority \in Int, n \notin Cells(QueueList),
         NEW L, L = Len(QueueList)
  PROVE  \E k \in 0..L :
           /\ BelongsAt(QueueList, entry, n, k)
           /\ LinkedIn(next', next, QueueList, k, n)
           /\ queue' = [first |-> IF k = 0 THEN n ELSE queue.first,
                        last |-> IF k = L THEN n ELSE queue.last]
<1> DEFINE q == QueueList
           At(k) == \A i \in 1..L : Before(q[i], n) <=> i <= k
           New(k) == queue' = [first |-> IF k = 0 THEN n ELSE queue.first,
                               last |-> IF k = L THEN n ELSE queue.last]
<1>1. Linking(next) /\ Held(next, queue, q)
  BY DEF StoreOK, Store
<1>2. /\ L \in Nat /\ Sized(q, L) /\ DOMAIN q = 1..L /\ Once(q, L) /\ Linked(next, q, L)
      /\ queue.first = IF L = 0 THEN Null ELSE q[1]
      /\ queue.last = IF L = 0 THEN Null ELSE q[L]
      /\ queue \in ListTypes
  BY <1>1, ChainIs DEF Held, Sized
<1>3. \A i \in 1..L : q[i] \in Node /\ q[i] # Null /\ q[i] \in Cells(q) /\ q[i] # n
  BY <1>2, CellsAre
<1>4. InOrder(q, entry)
  BY DEF ByPriority
<1>5. L = Len(q)
  OBVIOUS
<1> HIDE DEF q
<1>6. Null \notin Node /\ next \in LinkTypes /\ next[Null] = Null /\ n # Null
  BY <1>1, NodePairs DEF Linking
<1>7. ASSUME NEW k, At(k) PROVE BelongsAt(q, entry, n, k)
  <2>1. ASSUME NEW i \in 1..Len(q)
        PROVE  Ordered!StaysBefore(entry[q[i]], entry[n]) <=> i <= k
    <3>1. Before(q[i], n) <=> i <= k
      BY <1>7, <1>5
    <3>2. QED
      BY <3>1, BeforeIs
  <2>2. QED
    BY <2>1 DEF BelongsAt
<1>8. CASE queue.first = Null
  <2>1. L = 0 /\ next' = [next EXCEPT ![n] = Null] /\ queue' = [first |-> n, last |-> n]
    BY <1>8, <1>2, <1>3 DEF PushNode
  <2>2. LinkedIn(next', next, q, 0, n)
    BY <2>1, <1>2, <1>6 DEF LinkedIn, Linking, LinkTypes
  <2>3. At(0) /\ New(0)
    BY <2>1
  <2>4. QED
    BY <2>2, <2>3, <1>2, <1>7 DEF q
<1>9. CASE queue.first # Null /\ ~Before(queue.first, n)
  <2>1. /\ L # 0 /\ queue.first = q[1] /\ 1 \in 1..L
        /\ next' = [next EXCEPT ![n] = q[1]] /\ queue' = [queue EXCEPT !.first = n]
    BY <1>9, <1>2 DEF PushNode
  <2>2. LinkedIn(next', next, q, 0, n)
    BY <2>1, <1>2, <1>3, <1>6 DEF LinkedIn, Linking, LinkTypes
  <2>3. At(0)
    <3>1. ASSUME NEW i \in 1..L, Before(q[i], n) PROVE FALSE
      <4>1. 1 <= i
        OBVIOUS
      <4>2. Before(q[1], n)
        BY <2>1, <3>1, <4>1, <1>2, <1>3, <1>4, BeforeDown DEF q
      <4>3. QED
        BY <4>2, <2>1, <1>9
    <3>2. QED
      BY <3>1
  <2>4. New(0)
    BY <2>1, <1>2 DEF ListTypes
  <2>5. QED
    BY <2>2, <2>3, <2>4, <1>2, <1>7 DEF q
<1>10. CASE queue.first # Null /\ Before(queue.first, n) /\ Before(queue.last, n)
  <2>1. /\ L # 0 /\ queue.last = q[L] /\ L \in 1..L
        /\ next' = [next EXCEPT ![n] = Null, ![q[L]] = n]
        /\ queue' = [queue EXCEPT !.last = n]
    BY <1>10, <1>2 DEF PushNode
  <2>2. LinkedIn(next', next, q, L, n)
    BY <2>1, <1>2, <1>3, <1>6 DEF LinkedIn, Linking, LinkTypes, q
  <2>3. At(L)
    <3>1. ASSUME NEW i \in 1..L PROVE Before(q[i], n)
      <4>1. i <= L
        OBVIOUS
      <4>2. Before(q[L], n)
        BY <1>10, <2>1
      <4>3. QED
        BY <2>1, <4>1, <4>2, <1>2, <1>3, <1>4, BeforeDown DEF q
    <3>2. QED
      BY <3>1
  <2>4. New(L)
    BY <2>1, <1>2 DEF ListTypes
  <2>5. QED
    BY <2>2, <2>3, <2>4, <1>2, <1>7 DEF q
<1>11. CASE queue.first # Null /\ Before(queue.first, n) /\ ~Before(queue.last, n)
  <2>1. /\ L # 0 /\ queue.first = q[1] /\ queue.last = q[L]
        /\ next' = [next EXCEPT ![n] = next[WalkEnd(n)], ![WalkEnd(n)] = n]
        /\ queue' = queue
    BY <1>11, <1>2 DEF PushNode
  <2>2. PICK k \in 1..(L - 1) : WalkEnd(n) = q[k] /\ At(k)
    BY <1>11, <2>1, <1>2, <1>3, <1>4, WalkEndIs DEF q
  <2>3. k \in 1..L /\ next[q[k]] = q[k + 1] /\ q[k] \in Node /\ q[k] # n /\ k + 1 \in 1..L
    BY <1>2, <1>3 DEF Linked
  <2>4. next' = [next EXCEPT ![n] = q[k + 1], ![q[k]] = n]
    BY <2>1, <2>2, <2>3
  <2>5. LinkedIn(next', next, q, k, n)
    BY <2>3, <2>4, <1>2, <1>3, <1>6 DEF LinkedIn, Linking, LinkTypes, q
  <2>6. New(k)
    BY <2>1, <2>3, <1>2 DEF ListTypes
  <2>7. QED
    BY <2>2, <2>5, <2>6, <1>2, <1>7 DEF q
<1>12. QED
  BY <1>8, <1>9, <1>10, <1>11

LEMMA InOrderInsert ==
  ASSUME NEW q, NEW L \in Nat, Len(q) = L, NEW e, InOrder(q, e), NEW n, NEW k \in 0..L,
         BelongsAt(q, e, n, k), NEW r, Len(r) = L + 1, Inserted(r, q, L, k, n),
         \A i \in 1..L : e[q[i]].priority \in Int, e[n].priority \in Int
  PROVE  InOrder(r, e)
<1>1. \A i \in 1..L : /\ i <= k => e[q[i]].priority <= e[n].priority
                      /\ i > k => e[n].priority <= e[q[i]].priority
  BY DEF BelongsAt, Ordered!StaysBefore
<1> SUFFICES ASSUME NEW i \in 1..(L + 1), NEW j \in 1..(L + 1), i < j
             PROVE  e[r[i]].priority <= e[r[j]].priority
  BY DEF InOrder
<1>2. CASE i = k + 1
  <2>1. j - 1 \in 1..L /\ j - 1 > k /\ r[j] = q[j - 1] /\ r[i] = n
    BY <1>2 DEF Inserted
  <2>2. QED
    BY <2>1, <1>1
<1>3. CASE j = k + 1
  <2>1. i \in 1..L /\ i <= k /\ r[i] = q[i] /\ r[j] = n
    BY <1>3 DEF Inserted
  <2>2. QED
    BY <2>1, <1>1
<1>4. CASE i # k + 1 /\ j # k + 1
  <2> DEFINE a(m) == IF m <= k THEN m ELSE m - 1
  <2>1. /\ a(i) \in 1..L /\ r[i] = q[a(i)] /\ a(j) \in 1..L /\ r[j] = q[a(j)]
        /\ a(i) < a(j)
    BY <1>4 DEF Inserted
  <2> HIDE DEF a
  <2>2. QED
    BY <2>1 DEF InOrder
<1>5. QED
  BY <1>2, <1>3, <1>4

-----------------------------------------------------------------------------
(* Threads that give their nodes away.                                     *)

FilledHands == {node[t] : t \in {u \in Threads : pc[u] \in FilledPc}}

\* A thread that leaves `fill` to `dispose` takes its node out of FilledHands.
LEMMA FilledLose ==
  ASSUME HandsOK, NEW t \in Threads, pc[t] \in FilledPc, pc'[t] \notin FilledPc,
         \A u \in Threads \ {t} : pc'[u] = pc[u] /\ node'[u] = node[u]
  PROVE  FilledHands' = FilledHands \ {node[t]} /\ node[t] \in FilledHands
<1>1. node[t] # Null
  BY DEF HandsOK, HandPc, FilledPc
<1>2. \A u \in Threads \ {t} : node[u] # node[t]
  BY <1>1 DEF HandsOK
<1>3. FilledHands' = {node'[v] : v \in {u \in Threads : pc'[u] \in FilledPc}}
  BY DEF FilledHands
<1>4. QED
  BY <1>2, <1>3 DEF FilledHands

\* A thread that pushed or freed its node is idle, without one.
LEMMA HandsIdle ==
  ASSUME HandsOK, node \in [Threads -> Node \cup {Null}], NEW t \in Threads,
         \A u \in Threads : /\ pc'[u] = IF u = t THEN "idle" ELSE pc[u]
                            /\ node'[u] = IF u = t THEN Null ELSE node[u],
         \A m \in Node : m # node[t] => entry'[m] = entry[m]
  PROVE  HandsOK'
<1>1. ASSUME NEW u \in Threads
      PROVE  /\ node'[u] # Null <=> pc'[u] \in HandPc
             /\ pc'[u] \in {"push", "pushing"} => entry'[node'[u]].priority \in Priorities
             /\ \A v \in Threads : node'[u] = node'[v] /\ node'[u] # Null => u = v
  <2>1. CASE u = t
    BY <2>1 DEF HandPc
  <2>2. CASE u # t
    <3>1. /\ node'[u] = node[u] /\ pc'[u] = pc[u] /\ node[u] \in Node \cup {Null}
          /\ node[u] # Null <=> pc[u] \in HandPc
          /\ pc[u] \in {"push", "pushing"} => entry[node[u]].priority \in Priorities
          /\ \A v \in Threads : node[u] = node[v] /\ node[u] # Null => u = v
      BY <2>2 DEF HandsOK
    <3>2. pc[u] \in {"push", "pushing"} => entry'[node[u]] = entry[node[u]]
      BY <2>2, <3>1 DEF HandPc
    <3>3. QED
      BY <3>1, <3>2
  <2>3. QED
    BY <2>1, <2>2
<1>2. QED
  BY <1>1 DEF HandsOK

LEMMA DataPush ==
  ASSUME LockTypes, DataOK, NEW t \in Threads, PushNode(t)
  PROVE  /\ DataOK'
         /\ \E k \in 0..Len(QueueList) :
              /\ BelongsAt(QueueList, entry, node[t], k)
              /\ QueueList' = Ordered!InsertAfter(QueueList, k, node[t])
         /\ node[t] \in Node /\ node[t] \notin Cells(QueueList)
         /\ entry[node[t]].priority \in Priorities
<1> DEFINE n == node[t]
           q == QueueList
           L == Len(QueueList)
<1>1. /\ pc[t] = "pushing" /\ pc' = [pc EXCEPT ![t] = "idle"]
      /\ entry' = [entry EXCEPT ![n].stamp = pushes] /\ pushes' = pushes + 1
      /\ node' = [node EXCEPT ![t] = Null]
      /\ UNCHANGED <<free, live, used, filled, begun>>
  BY DEF PushNode, Go
<1>2. DataTypes /\ HandsOK /\ StoreOK /\ FilledOK /\ ByPriority
  BY DEF DataOK
<1>3. \A u \in Threads : pc'[u] = IF u = t THEN "idle" ELSE pc[u]
  BY <1>1 DEF LockTypes
<1>4. node \in [Threads -> Node \cup {Null}] /\ n # Null /\ entry[n].priority \in Priorities
  BY <1>1, <1>2 DEF HandsOK, HandPc, DataTypes
<1>5. /\ Hands' = Hands \ {n} /\ n \in Hands /\ n \in Node
      /\ \A u \in Threads : node'[u] = IF u = t THEN Null ELSE node[u]
  BY <1>1, <1>2, <1>4, HandsLose
<1>6. n \notin Cells(q) /\ Sized(q, L) /\ L \in Nat /\ Cells(q) \subseteq Node
  BY <1>2, <1>5, StoreNow
<1>7. \A m \in Node : entry[m].priority \in Int
  BY <1>2 DEF DataTypes
<1>8. PICK k \in 0..L :
         /\ BelongsAt(QueueList, entry, n, k)
         /\ LinkedIn(next', next, QueueList, k, n)
         /\ queue' = [first |-> IF k = 0 THEN n ELSE queue.first,
                      last |-> IF k = L THEN n ELSE queue.last]
  BY <1>2, <1>5, <1>6, <1>7, PushLinks
<1> DEFINE r == Ordered!InsertAfter(q, k, n)
<1>9. Store(next', free, queue', live, used, Hands \ {n}, FreeList, r)
  <2>1. Store(next, free, queue, live, used, Hands, FreeList, q)
    BY <1>2 DEF StoreOK
  <2>2. Pushed(next', queue', next, queue, q, k, n)
    BY <1>8 DEF Pushed
  <2> HIDE DEF n, q
  <2>3. QED
    BY <2>1, <2>2, <1>5, StorePush
<1>10. StoreOK' /\ QueueList' = r
  BY <1>1, <1>5, <1>9, StoreNext
<1>11. Inserted(r, q, L, k, n) /\ Len(r) = L + 1 /\ Sized(r, Len(r))
  <2>1. q \in Seq(Node) /\ k \in 0..L
    BY <1>6 DEF Sized
  <2>2. r \in Seq(Node) /\ Len(r) = L + 1 /\ Inserted(r, q, L, k, n)
    BY <2>1, <1>5, InsertAfterIs
  <2>3. QED
    BY <2>2 DEF Sized
<1>12. Cells(r) = Cells(q) \cup {n}
  <2>1. Cells(r) = {r[i] : i \in 1..(L + 1)} /\ Cells(q) = {q[i] : i \in 1..L}
    BY <1>6, <1>11, CellsAre
  <2>2. {r[i] : i \in 1..(L + 1)} = {q[i] : i \in 1..L} \cup {n}
    BY <1>6, <1>11, InsertCells
  <2>3. QED
    BY <2>1, <2>2
<1>13. /\ entry' \in [Node -> [priority : Int, insertFirst : BOOLEAN, stamp : Nat]]
       /\ \A m \in Node : m # n => entry'[m] = entry[m]
       /\ \A m \in Node : entry'[m].priority = entry[m].priority
  <2>1. pushes \in Nat /\ entry \in [Node -> [priority : Int, insertFirst : BOOLEAN, stamp : Nat]]
    BY <1>2 DEF DataTypes
  <2>2. QED
    BY <2>1, <1>1, <1>5
<1> HIDE DEF n, q, L, r
<1>14. DataTypes'
  BY <1>1, <1>2, <1>4, <1>13 DEF DataTypes
<1>15. HandsOK'
  BY <1>2, <1>3, <1>4, <1>5, <1>13, HandsIdle DEF n
<1>16. FilledOK'
  <2>1. FilledHands' = FilledHands \ {n} /\ n \in FilledHands
    BY <1>1, <1>2, <1>3, <1>5, FilledLose DEF FilledPc, n
  <2>2. filled = Cells(q) \cup FilledHands
    BY <1>2 DEF FilledOK, FilledHands, q
  <2>3. filled' = Cells(QueueList') \cup FilledHands'
    BY <2>1, <2>2, <1>1, <1>10, <1>12
  <2>4. QED
    BY <2>3 DEF FilledOK, FilledHands
<1>17. ByPriority'
  <2>1. InOrder(r, entry)
    <3>1. \A i \in 1..L : entry[q[i]].priority \in Int
      BY <1>6, <1>7, CellsAre
    <3>2. InOrder(q, entry) /\ entry[n].priority \in Int
      BY <1>2, <1>5, <1>7 DEF ByPriority, q
    <3>3. Len(q) = L
      BY <1>6 DEF Sized
    <3>4. QED
      BY <3>1, <3>2, <3>3, <1>6, <1>8, <1>11, InOrderInsert DEF q
  <2>2. Cells(r) \subseteq Node
    BY <1>5, <1>6, <1>12
  <2>3. InOrder(r, entry')
    BY <2>1, <2>2, <1>11, <1>13, InOrderFrame
  <2>4. QED
    BY <2>3, <1>10 DEF ByPriority
<1>18. QED
  BY <1>4, <1>5, <1>6, <1>8, <1>10, <1>14, <1>15, <1>16, <1>17 DEF DataOK, n, q, L, r

-----------------------------------------------------------------------------
(* freeNode() and popNode().                                               *)

LEMMA StoreReturn ==
  ASSUME NEW H, NEW qu, NEW q, Store(next, free, qu, live, used, H, FreeList, q),
         NEW n \in H, n \in Node, ReturnNode(n)
  PROVE  (\E r : Store(next', free', qu, live', used', H \ {n}, r, q)) /\ live' \subseteq live
<1>1. CASE FreePreallocated(n)
  BY <1>1, StoreGive DEF FreePreallocated
<1>2. CASE FreeToBlock(n)
  BY <1>2, StoreGive DEF FreeToBlock
<1>3. CASE FreeWithBlock(n)
  <2> DEFINE b == BlockOf(n)
             f == FreeList
             D == {i \in DOMAIN f : BlockOf(f[i]) # b}
  <2>1. /\ b # NoBlock /\ used[b] = 1
        /\ used' = [used EXCEPT ![b] = 0] /\ live' = live \ {b}
    BY <1>3 DEF FreeWithBlock
  <2>2. free' = [first |-> FirstFrom(f, D, 1), last |-> LastOf(f, D)]
    BY <1>3, Zenon DEF FreeWithBlock, FirstFrom, LastOf, From, FreeList
  <2>3. Dropped(next', next, f, D, b)
    BY <1>3, Zenon DEF FreeWithBlock, Dropped, FirstFrom, From, FreeList
  <2>4. Staying(D, f, b)
    <3>1. DOMAIN f = 1..Len(f)
      BY HeldFacts DEF Store, Sized
    <3>2. QED
      BY <3>1 DEF Staying
  <2> HIDE DEF b, f, D
  <2>5. \E r : Store(next', [first |-> FirstFrom(f, D, 1), last |-> LastOf(f, D)], qu,
                     live \ {b}, [used EXCEPT ![b] = 0], H \ {n}, r, q)
    BY <2>1, <2>3, <2>4, StoreDrop DEF b, f
  <2>6. QED
    BY <2>1, <2>2, <2>5
<1>4. QED
  BY <1>1, <1>2, <1>3 DEF ReturnNode

\* An entry changes that is in no list.
LEMMA OrderAside ==
  ASSUME DataOK, NEW n, n \notin Cells(QueueList), NEW r, Sized(r, Len(r)),
         InOrder(r, entry), Cells(r) \subseteq Cells(QueueList), QueueList' = r,
         \A m \in Node : m # n => entry'[m] = entry[m]
  PROVE  ByPriority'
<1>1. Cells(QueueList) \subseteq Node
  BY StoreNow DEF DataOK
<1>2. \A m \in Cells(r) : entry'[m].priority = entry[m].priority
  BY <1>1
<1>3. InOrder(r, entry')
  BY <1>2, InOrderFrame
<1>4. QED
  BY <1>3 DEF ByPriority

\* The list without its first node.
LEMMA QueueTail ==
  ASSUME DataOK, queue.first # Null
  PROVE  /\ InOrder(Tail(QueueList), entry) /\ QueueList # <<>>
         /\ Sized(Tail(QueueList), Len(Tail(QueueList)))
         /\ Cells(Tail(QueueList)) = Cells(QueueList) \ {queue.first}
         /\ queue.first \in Cells(QueueList) /\ queue.first \in Node
         /\ queue.first \notin Hands
         /\ Linking(next)
<1>1. /\ Held(next, queue, QueueList) /\ Linking(next) /\ InOrder(QueueList, entry)
      /\ Hands \cap Cells(QueueList) = {} /\ Cells(QueueList) \subseteq Node
  BY StoreNow DEF DataOK, StoreOK, Store, ByPriority
<1> DEFINE q == QueueList
           r == Tail(q)
           L == Len(q)
<1>2. /\ Sized(q, L) /\ Sized(r, L - 1) /\ Shifted(r, q, L)
      /\ Cells(r) = Cells(q) \ {queue.first} /\ queue.first \in Cells(q)
      /\ L \in Nat \ {0}
  BY <1>1, ChainTail DEF Held
<1> HIDE DEF r, q, L
<1>3. Len(r) = L - 1
  BY <1>2 DEF Sized
<1>4. Len(q) = L
  BY DEF L
<1>5. InOrder(r, entry)
  BY <1>1, <1>2, <1>3, <1>4, InOrderTail DEF q
<1>6. q # <<>>
  BY <1>2, <1>4
<1>7. QED
  BY <1>1, <1>2, <1>3, <1>5, <1>6 DEF q, r

LEMMA DataPop ==
  ASSUME LockTypes, DataOK, NEW t \in Threads, PopNode(t)
  PROVE  /\ DataOK' /\ QueueList' = Tail(QueueList) /\ QueueList # <<>>
         /\ UNCHANGED <<entry, pushes>>
<1> DEFINE n == queue.first
<1>1. /\ pc[t] = "popping" /\ pc' = [pc EXCEPT ![t] = "dispose"] /\ n # Null
      /\ queue' = IF n = queue.last THEN Empty ELSE [queue EXCEPT !.first = next[n]]
      /\ next' = [next EXCEPT ![n] = Null] /\ node' = [node EXCEPT ![t] = n]
      /\ UNCHANGED <<free, live, used, entry, filled, pushes, begun>>
  BY DEF PopNode, Unlink, Go, dataVars
<1>2. DataTypes /\ HandsOK /\ StoreOK /\ FilledOK /\ ByPriority
  BY DEF DataOK
<1>3. \A u \in Threads : pc'[u] = IF u = t THEN "dispose" ELSE pc[u]
  BY <1>1 DEF LockTypes
<1>4. /\ InOrder(Tail(QueueList), entry) /\ QueueList # <<>>
      /\ Sized(Tail(QueueList), Len(Tail(QueueList)))
      /\ Cells(Tail(QueueList)) = Cells(QueueList) \ {n}
      /\ n \in Cells(QueueList) /\ n \in Node /\ n \notin Hands /\ Linking(next)
  BY <1>1, QueueTail
<1>5. node[t] = Null /\ node \in [Threads -> Node \cup {Null}]
  BY <1>1, <1>2 DEF HandsOK, HandPc, DataTypes
<1>6. Hands' = Hands \cup {n} /\ \A u \in Threads : node'[u] = IF u = t THEN n ELSE node[u]
  <2> HIDE DEF n
  <2>1. QED
    BY <1>1, <1>4, <1>5, HandsGain
<1>7. Linking(next') /\ SameBut(next', next, n)
  <2>1. Null \notin Node
    BY NodePairs
  <2>2. QED
    BY <2>1, <1>1, <1>4 DEF Linking, LinkTypes, SameBut
<1>8. Store(next', free, queue', live, used, Hands \cup {n}, FreeList, Tail(QueueList))
  <2>1. Store(next, free, queue, live, used, Hands, FreeList, QueueList)
    BY <1>2 DEF StoreOK
  <2>2. Unlinked(next', queue', next, queue)
    BY <1>1, <1>7 DEF Unlinked
  <2>3. QED
    BY <2>1, <2>2, StoreUnlink
<1> HIDE DEF n
<1>9. StoreOK' /\ QueueList' = Tail(QueueList)
  BY <1>1, <1>6, <1>8, StoreNext
<1>10. DataTypes'
  BY <1>1, <1>2, <1>4, <1>5 DEF DataTypes
<1>11. HandsOK'
  <2>1. n # Null /\ \A u \in Threads \ {t} : node[u] # n
    BY <1>1, <1>4 DEF Hands
  <2>2. ASSUME NEW u \in Threads
        PROVE  /\ node'[u] # Null <=> pc'[u] \in HandPc
               /\ pc'[u] \in {"push", "pushing"} => entry'[node'[u]].priority \in Priorities
               /\ \A v \in Threads : node'[u] = node'[v] /\ node'[u] # Null => u = v
    <3>1. CASE u = t
      BY <3>1, <2>1, <1>3, <1>6 DEF HandPc
    <3>2. CASE u # t
      <4>1. /\ node[u] # Null <=> pc[u] \in HandPc
            /\ pc[u] \in {"push", "pushing"} => entry[node[u]].priority \in Priorities
            /\ \A v \in Threads : node[u] = node[v] /\ node[u] # Null => u = v
        BY <1>2 DEF HandsOK
      <4>2. QED
        BY <3>2, <4>1, <2>1, <1>1, <1>3, <1>6
    <3>3. QED
      BY <3>1, <3>2
  <2>3. QED
    BY <2>2 DEF HandsOK
<1>12. FilledOK'
  <2>1. FilledHands' = FilledHands \cup {n}
    <3>1. FilledHands' = {node'[v] : v \in {u \in Threads : pc'[u] \in FilledPc}}
      BY DEF FilledHands
    <3>2. /\ pc[t] \notin FilledPc /\ pc'[t] \in FilledPc /\ node'[t] = n
          /\ \A u \in Threads \ {t} : pc'[u] = pc[u] /\ node'[u] = node[u]
      BY <1>1, <1>3, <1>6 DEF FilledPc
    <3>3. QED
      BY <3>1, <3>2 DEF FilledHands
  <2>2. filled = Cells(QueueList) \cup FilledHands
    BY <1>2 DEF FilledOK, FilledHands
  <2>3. filled' = Cells(QueueList') \cup FilledHands'
    BY <2>1, <2>2, <1>1, <1>4, <1>9
  <2>4. QED
    BY <2>3 DEF FilledOK, FilledHands
<1>13. ByPriority'
  BY <1>1, <1>4, <1>9 DEF ByPriority
<1>14. QED
  BY <1>1, <1>4, <1>9, <1>10, <1>11, <1>12, <1>13 DEF DataOK

LEMMA DataDispose ==
  ASSUME LockTypes, DataOK, NEW t \in Threads, Dispose(t)
  PROVE  /\ DataOK' /\ QueueList' = QueueList /\ pushes' = pushes
         /\ \A m \in Cells(QueueList) : entry'[m] = entry[m]
<1> DEFINE n == node[t]
<1>1. /\ pc[t] = "dispose" /\ pc' = [pc EXCEPT ![t] = "free"]
      /\ filled' = filled \ {n} /\ entry' = [entry EXCEPT ![n] = NoEntry]
      /\ UNCHANGED <<queue, free, next, live, used, pushes, node, begun>>
  BY DEF Dispose, DestroyValue, Go, listVars
<1>2. DataTypes /\ HandsOK /\ StoreOK /\ FilledOK /\ ByPriority
  BY DEF DataOK
<1>3. \A u \in Threads : pc'[u] = IF u = t THEN "free" ELSE pc[u]
  BY <1>1 DEF LockTypes
<1>4. n # Null /\ n \in Node /\ n \in Hands
  BY <1>1, <1>2 DEF HandsOK, HandPc, DataTypes, Hands
<1>5. n \notin Cells(QueueList) /\ Cells(QueueList) \subseteq Node
      /\ Sized(QueueList, Len(QueueList))
  BY <1>2, <1>4, StoreNow
<1>6. QueueList' = QueueList /\ FreeList' = FreeList /\ Hands' = Hands
  BY <1>1 DEF QueueList, FreeList, List, Hands
<1>7. StoreOK'
  BY <1>1, <1>2, <1>6 DEF StoreOK
<1>8. /\ entry' \in [Node -> [priority : Int, insertFirst : BOOLEAN, stamp : Nat]]
      /\ \A m \in Node : m # n => entry'[m] = entry[m]
  BY <1>1, <1>2, <1>4 DEF DataTypes, NoEntry
<1>9. DataTypes'
  BY <1>1, <1>2, <1>8 DEF DataTypes
<1>10. HandsOK'
  <2>1. ASSUME NEW u \in Threads
        PROVE  /\ node'[u] # Null <=> pc'[u] \in HandPc
               /\ pc'[u] \in {"push", "pushing"} => entry'[node'[u]].priority \in Priorities
               /\ \A v \in Threads : node'[u] = node'[v] /\ node'[u] # Null => u = v
    <3>1. /\ node[u] # Null <=> pc[u] \in HandPc
          /\ pc[u] \in {"push", "pushing"} => entry[node[u]].priority \in Priorities
          /\ \A v \in Threads : node[u] = node[v] /\ node[u] # Null => u = v
      BY <1>2 DEF HandsOK
    <3>2. node[u] \in Node \cup {Null} /\ (u # t => node[u] # n)
      BY <1>2, <1>4 DEF HandsOK, DataTypes
    <3>3. pc'[u] \in {"push", "pushing"} => entry'[node[u]] = entry[node[u]]
      <4>1. pc'[u] \in {"push", "pushing"} => u # t /\ node[u] # Null
        BY <3>1, <1>3 DEF HandPc
      <4>2. QED
        BY <4>1, <3>2, <1>8
    <3>4. QED
      BY <3>1, <3>3, <1>1, <1>3 DEF HandPc
  <2>2. QED
    BY <2>1 DEF HandsOK
<1>11. FilledOK'
  <2>1. FilledHands' = FilledHands \ {n}
    BY <1>1, <1>2, <1>3, FilledLose DEF FilledPc
  <2>2. filled = Cells(QueueList) \cup FilledHands
    BY <1>2 DEF FilledOK, FilledHands
  <2>3. filled' = Cells(QueueList') \cup FilledHands'
    BY <2>1, <2>2, <1>1, <1>5, <1>6
  <2>4. QED
    BY <2>3 DEF FilledOK, FilledHands
<1> HIDE DEF n
<1>12. ByPriority'
  BY <1>2, <1>5, <1>6, <1>8, OrderAside DEF ByPriority
<1>13. QED
  BY <1>1, <1>5, <1>6, <1>7, <1>8, <1>9, <1>10, <1>11, <1>12 DEF DataOK

LEMMA DataFree ==
  ASSUME LockTypes, DataOK, NEW t \in Threads, FreeNode(t)
  PROVE  /\ DataOK' /\ QueueList' = QueueList /\ live' \subseteq live
         /\ UNCHANGED <<entry, pushes>>
<1> DEFINE n == node[t]
<1>1. /\ pc[t] = "freeing" /\ pc' = [pc EXCEPT ![t] = "idle"]
      /\ ReturnNode(n) /\ node' = [node EXCEPT ![t] = Null]
      /\ UNCHANGED <<queue, entry, filled, pushes, begun>>
  BY DEF FreeNode, Go, dataVars
<1>2. DataTypes /\ HandsOK /\ StoreOK /\ FilledOK /\ ByPriority
  BY DEF DataOK
<1>3. \A u \in Threads : pc'[u] = IF u = t THEN "idle" ELSE pc[u]
  BY <1>1 DEF LockTypes
<1>4. n # Null /\ node \in [Threads -> Node \cup {Null}]
  BY <1>1, <1>2 DEF HandsOK, HandPc, DataTypes
<1>5. /\ Hands' = Hands \ {n} /\ n \in Hands /\ n \in Node
      /\ \A u \in Threads : node'[u] = IF u = t THEN Null ELSE node[u]
  BY <1>1, <1>2, <1>4, HandsLose
<1>6. Store(next, free, queue, live, used, Hands, FreeList, QueueList)
  BY <1>2 DEF StoreOK
<1>7. /\ \E r : Store(next', free', queue, live', used', Hands \ {n}, r, QueueList)
      /\ live' \subseteq live
  BY <1>1, <1>5, <1>6, StoreReturn
<1>8. StoreOK' /\ QueueList' = QueueList
  <2>1. PICK r : Store(next', free', queue, live', used', Hands \ {n}, r, QueueList)
    BY <1>7
  <2>2. QED
    BY <2>1, <1>1, <1>5, StoreNext
<1>9. DataTypes'
  BY <1>1, <1>2, <1>4 DEF DataTypes
<1>10. HandsOK'
  BY <1>1, <1>2, <1>3, <1>4, <1>5, HandsIdle
<1>11. FilledOK'
  <2>1. \A u \in Threads : /\ pc'[u] \in FilledPc <=> pc[u] \in FilledPc
                           /\ pc[u] \in FilledPc => node'[u] = node[u]
    BY <1>1, <1>3, <1>5 DEF FilledPc
  <2>2. {node'[v] : v \in {u \in Threads : pc'[u] \in FilledPc}} =
          {node[v] : v \in {u \in Threads : pc[u] \in FilledPc}}
    BY <2>1
  <2>3. QED
    BY <2>2, <1>1, <1>2, <1>8 DEF FilledOK
<1>12. ByPriority'
  BY <1>1, <1>2, <1>8 DEF ByPriority
<1>13. QED
  BY <1>1, <1>7, <1>8, <1>9, <1>10, <1>11, <1>12 DEF DataOK

LEMMA DataClear ==
  ASSUME LockTypes, DataOK, NEW t \in Threads, ClearNode(t)
  PROVE  /\ DataOK' /\ QueueList' = Tail(QueueList) /\ QueueList # <<>>
         /\ pushes' = pushes /\ live' \subseteq live
         /\ Cells(QueueList') \subseteq Node
         /\ \A m \in Cells(QueueList') : entry'[m] = entry[m]
<1> DEFINE n == queue.first
           r == Tail(QueueList)
<1>1. /\ n # Null /\ ReturnNode(n)
      /\ queue' = IF n = queue.last THEN Empty ELSE [queue EXCEPT !.first = next[n]]
      /\ filled' = filled \ {n} /\ entry' = [entry EXCEPT ![n] = NoEntry]
      /\ UNCHANGED <<pushes, pc, node, begun>>
  BY DEF ClearNode, Unlink, DestroyValue
<1>2. DataTypes /\ HandsOK /\ StoreOK /\ FilledOK /\ ByPriority
  BY DEF DataOK
<1>3. /\ InOrder(r, entry) /\ QueueList # <<>> /\ Sized(r, Len(r))
      /\ Cells(r) = Cells(QueueList) \ {n}
      /\ n \in Cells(QueueList) /\ n \in Node /\ n \notin Hands /\ Linking(next)
  BY <1>1, QueueTail
<1>4. Store(next, free, queue', live, used, Hands \cup {n}, FreeList, r)
  <2>1. Store(next, free, queue, live, used, Hands, FreeList, QueueList)
    BY <1>2 DEF StoreOK
  <2>2. Unlinked(next, queue', next, queue)
    BY <1>1, <1>3 DEF Unlinked, SameBut
  <2>3. QED
    BY <2>1, <2>2, StoreUnlink
<1> HIDE DEF n, r
<1>5. /\ \E f : Store(next', free', queue', live', used', (Hands \cup {n}) \ {n}, f, r)
      /\ live' \subseteq live
  <2>1. n \in Hands \cup {n}
    OBVIOUS
  <2>2. QED
    BY <2>1, <1>1, <1>3, <1>4, StoreReturn
<1>6. (Hands \cup {n}) \ {n} = Hands /\ Hands' = Hands
  BY <1>1, <1>3 DEF Hands
<1>7. StoreOK' /\ QueueList' = r
  <2>1. PICK f : Store(next', free', queue', live', used', Hands, f, r)
    BY <1>5, <1>6
  <2>2. QED
    BY <2>1, <1>6, StoreNext
<1>8. /\ entry' \in [Node -> [priority : Int, insertFirst : BOOLEAN, stamp : Nat]]
      /\ \A m \in Node : m # n => entry'[m] = entry[m]
  BY <1>1, <1>2, <1>3 DEF DataTypes, NoEntry
<1>9. DataTypes'
  BY <1>1, <1>2, <1>8 DEF DataTypes
<1>10. HandsOK'
  <2>1. ASSUME NEW u \in Threads
        PROVE  /\ node'[u] # Null <=> pc'[u] \in HandPc
               /\ pc'[u] \in {"push", "pushing"} => entry'[node'[u]].priority \in Priorities
               /\ \A v \in Threads : node'[u] = node'[v] /\ node'[u] # Null => u = v
    <3>1. /\ node[u] # Null <=> pc[u] \in HandPc
          /\ pc[u] \in {"push", "pushing"} => entry[node[u]].priority \in Priorities
          /\ \A v \in Threads : node[u] = node[v] /\ node[u] # Null => u = v
      BY <1>2 DEF HandsOK
    <3>2. node[u] # Null => node[u] \in Node /\ node[u] # n
      BY <1>2, <1>3 DEF DataTypes, Hands
    <3>3. pc[u] \in {"push", "pushing"} => entry'[node[u]] = entry[node[u]]
      BY <3>1, <3>2, <1>8 DEF HandPc
    <3>4. QED
      BY <3>1, <3>3, <1>1
  <2>2. QED
    BY <2>1 DEF HandsOK
<1>11. FilledOK'
  <2>1. FilledHands' = FilledHands /\ FilledHands \subseteq Hands
    <3>1. \A u \in Threads : pc[u] \in FilledPc => node[u] # Null
      BY <1>2 DEF HandsOK, HandPc, FilledPc
    <3>2. QED
      BY <3>1, <1>1 DEF FilledHands, Hands
  <2>2. filled = Cells(QueueList) \cup FilledHands
    BY <1>2 DEF FilledOK, FilledHands
  <2>3. filled' = Cells(QueueList') \cup FilledHands'
    BY <2>1, <2>2, <1>1, <1>3, <1>7
  <2>4. QED
    BY <2>3 DEF FilledOK, FilledHands
<1>12. n \notin Cells(r) /\ Cells(r) \subseteq Node
  BY <1>2, <1>3, StoreNow
<1>13. ByPriority'
  <2>1. \A m \in Cells(r) : entry'[m].priority = entry[m].priority
    BY <1>8, <1>12
  <2>2. InOrder(r, entry')
    BY <2>1, <1>3, InOrderFrame
  <2>3. QED
    BY <2>2, <1>7 DEF ByPriority
<1>14. QED
  BY <1>1, <1>3, <1>5, <1>7, <1>8, <1>9, <1>10, <1>11, <1>12, <1>13 DEF DataOK, r

-----------------------------------------------------------------------------
(* The beginning.                                                          *)

LEMMA StoreInit ==
  ASSUME Init
  PROVE  StoreOK /\ QueueList = <<>> /\ Hands = {}
<1>1. /\ queue = Empty
      /\ free = [first |-> <<NoBlock, 1>>, last |-> <<NoBlock, Preallocated>>]
      /\ next = [n \in Node \cup {Null} |-> IF n \in NodesOf(NoBlock)
                                           THEN InitNodes(NoBlock)[n] ELSE Null]
      /\ live = {} /\ used = [b \in Blocks |-> 0] /\ node = [t \in Threads |-> Null]
  BY DEF Init
<1>2. /\ NoBlock \in Blocks \cup {NoBlock} /\ NodesOf(NoBlock) = {NoBlock} \X (1..Preallocated)
      /\ Preallocated \in Nat /\ 1 \in 1..Preallocated
      /\ \A n \in NodesOf(NoBlock) : n \in Node /\ BlockOf(n) = NoBlock
      /\ Null \notin Node
  BY Sizes, NodePairs
<1>3. \A i \in 1..Preallocated :
        next[<<NoBlock, i>>] = IF i = Preallocated THEN Null ELSE <<NoBlock, i + 1>>
  <2>1. ASSUME NEW i \in 1..Preallocated
        PROVE  next[<<NoBlock, i>>] = IF i = Preallocated THEN Null ELSE <<NoBlock, i + 1>>
    <3>1. /\ <<NoBlock, i>> \in NodesOf(NoBlock)
          /\ <<NoBlock, i + 1>> \in NodesOf(NoBlock) <=> i # Preallocated
      BY <1>2
    <3>2. next[<<NoBlock, i>>] = InitNodes(NoBlock)[<<NoBlock, i>>]
      BY <3>1, <1>1, <1>2
    <3>3. QED
      BY <3>1, <3>2 DEF InitNodes
  <2>2. QED
    BY <2>1
<1>4. Linking(next)
  <2>1. ASSUME NEW n \in NodesOf(NoBlock) PROVE InitNodes(NoBlock)[n] \in Node \cup {Null}
    BY <1>2 DEF InitNodes
  <2>2. QED
    BY <2>1, <1>1, <1>2 DEF Linking, LinkTypes
<1>5. PICK r : /\ Held(next, free, r) /\ Sized(r, Len(r))
               /\ Cells(r) = {<<NoBlock, i>> : i \in 1..Preallocated}
  <2>1. Running(next, NoBlock, 1, Preallocated)
    BY <1>3 DEF Running
  <2>2. QED
    BY <1>1, <1>2, <2>1, HeldRun
<1>6. Cells(r) = NodesOf(NoBlock)
  BY <1>2, <1>5
<1>7. Sized(<<>>, 0) /\ Cells(<<>>) = {} /\ Len(<<>>) = 0
  BY DEF Sized, Cells
<1>8. Held(next, queue, <<>>)
  <2>1. Once(<<>>, 0) /\ Linked(next, <<>>, 0)
    BY DEF Once, Linked
  <2>2. queue.first = IF 0 = 0 THEN Null ELSE <<>>[1]
    BY <1>1 DEF Empty
  <2>3. Chain(next, queue.first, <<>>)
    BY <2>1, <2>2, <1>7, IsChain
  <2>4. QED
    BY <2>3, <1>1, <1>7 DEF Held, ListTypes, Empty
<1>9. PreFirst(r)
  <2>1. \A i \in 1..Len(r) : r[i] \in Cells(r)
    BY <1>5, CellsAre
  <2>2. QED
    BY <2>1, <1>2, <1>6 DEF PreFirst
<1>10. Hands = {}
  BY <1>1 DEF Hands
<1>11. Placed(live, {}, Cells(r), {})
  BY <1>1, <1>6 DEF Placed, NodesIn
<1>12. Counted(live, used, Cells(r))
  BY <1>1 DEF Counted
<1>13. Store(next, free, queue, live, used, Hands, r, <<>>)
  BY <1>4, <1>5, <1>7, <1>8, <1>9, <1>10, <1>11, <1>12 DEF Store
<1>14. FreeList = r /\ QueueList = <<>>
  BY <1>13, StoreLists DEF FreeList, QueueList, List
<1>15. QED
  BY <1>10, <1>13, <1>14 DEF StoreOK

LEMMA IInvInit ==
  ASSUME Init
  PROVE  IInv
<1>1. LockTypes /\ LocksOK
  BY NoThreadIsNone DEF Init, LockTypes, LocksOK, Pc, ClearPc
<1>2. StoreOK /\ QueueList = <<>> /\ Hands = {}
  BY StoreInit
<1>3. /\ pc = [t \in Threads |-> "idle"] /\ node = [t \in Threads |-> Null]
      /\ entry = [n \in Node |-> NoEntry] /\ filled = {} /\ live = {}
      /\ begun = 0 /\ pushes = 0
  BY DEF Init
<1>4. DataTypes
  BY <1>3, Sizes DEF DataTypes, NoEntry
<1>5. HandsOK
  BY <1>3 DEF HandsOK, HandPc
<1>6. FilledOK
  BY <1>2, <1>3 DEF FilledOK, FilledPc, Cells
<1>7. ByPriority
  <2>1. 1..Len(QueueList) = {}
    BY <1>2
  <2>2. QED
    BY <2>1 DEF ByPriority, InOrder
<1>8. PushesCounted
  <2>1. Pushing = {} /\ Allocating = {}
    BY <1>3 DEF Pushing, Allocating
  <2>2. QED
    BY <2>1, <1>3, FS_EmptySet DEF PushesCounted
<1>9. QED
  BY <1>1, <1>2, <1>4, <1>5, <1>6, <1>7, <1>8 DEF IInv

-----------------------------------------------------------------------------
(* The steps together.                                                     *)

\* Steps that only move a thread, into a section, out of it or between two.
Moves(t) ==
  \/ AllocateEnter(t) \/ PushEnter(t) \/ Pop(t) \/ PopEnter(t) \/ PopNothing(t) \/ FreeEnter(t)
  \/ ClearDisable(t) \/ ClearLockFree(t) \/ ClearLockQueue(t) \/ ClearUnlock(t)
  \/ ClearRestore(t)

PcKept(u) ==
  /\ pc'[u] \in HandPc <=> pc[u] \in HandPc
  /\ pc'[u] \in FilledPc <=> pc[u] \in FilledPc
  /\ pc'[u] \in {"push", "pushing"} => pc[u] \in {"push", "pushing"}

LEMMA DataMoves ==
  ASSUME LockTypes, DataOK, PushesCounted, NEW t \in Threads, Moves(t)
  PROVE  /\ DataOK' /\ PushesCounted' /\ UNCHANGED <<listVars, dataVars>>
<1>1. UNCHANGED <<listVars, dataVars, node, begun>>
  BY DEF Moves, AllocateEnter, PushEnter, Pop, PopEnter, PopNothing, FreeEnter, ClearDisable,
         ClearLockFree, ClearLockQueue, ClearUnlock, ClearRestore
<1>2. /\ \A u \in Threads \ {t} : pc'[u] = pc[u]
      /\ \/ pc[t] = "alloc" /\ pc'[t] = "allocating"
         \/ pc[t] = "push" /\ pc'[t] = "pushing"
         \/ pc[t] = "free" /\ pc'[t] = "freeing"
         \/ /\ pc[t] \in {"idle", "pop", "popping"} \cup ClearPc
            /\ pc'[t] \in {"idle", "pop", "popping"} \cup ClearPc
  BY DEF Moves, AllocateEnter, PushEnter, Pop, PopEnter, PopNothing, FreeEnter, ClearDisable,
         ClearLockFree, ClearLockQueue, ClearUnlock, ClearRestore, Go, LockTypes, ClearPc
<1>3. \A u \in Threads : PcKept(u)
  BY <1>2 DEF PcKept, HandPc, FilledPc, ClearPc
<1>4. begun' \in 0..MaxPushes /\ live \subseteq Blocks /\ begun \in Nat
  BY <1>1, StoreNow, Sizes DEF DataOK, DataTypes
<1>5. DataOK'
  BY <1>1, <1>3, <1>4, DataFrame DEF PcKept
<1>6. Pushing' = Pushing /\ Allocating' = Allocating
  BY <1>2 DEF Pushing, Allocating, ClearPc
<1>7. PushesCounted'
  <2>1. UNCHANGED <<begun, pushes, live>>
    BY <1>1 DEF listVars, dataVars
  <2>2. QED
    BY <2>1, <1>4, <1>6, CountKeep
<1>8. QED
  BY <1>1, <1>5, <1>7

LEMMA DataBegin ==
  ASSUME LockTypes, DataOK, PushesCounted, NEW t \in Threads, Push(t)
  PROVE  /\ DataOK' /\ PushesCounted' /\ UNCHANGED <<listVars, dataVars>>
<1>1. /\ UNCHANGED <<listVars, dataVars, node>> /\ begun' = begun + 1 /\ begun < MaxPushes
      /\ pc[t] = "idle" /\ pc' = [pc EXCEPT ![t] = "alloc"]
  BY DEF Push, Go
<1>2. begun \in 0..MaxPushes /\ live \subseteq Blocks /\ pushes \in Nat
  BY StoreNow DEF DataOK, DataTypes
<1>3. begun' \in 0..MaxPushes /\ begun \in Nat
  BY <1>1, <1>2, Sizes
<1>4. \A u \in Threads : PcKept(u)
  BY <1>1 DEF PcKept, HandPc, FilledPc, LockTypes
<1>5. DataOK'
  BY <1>1, <1>3, <1>4, DataFrame DEF PcKept
<1>6. PushesCounted'
  BY <1>2, <1>3, CountPush
<1>7. QED
  BY <1>1, <1>5, <1>6

LEMMA IInvStep ==
  ASSUME ~ClearRaces, IInv, [Next]_vars
  PROVE  IInv'
<1>1. /\ LockTypes /\ LocksOK /\ DataOK /\ PushesCounted
      /\ live \subseteq Blocks /\ begun \in Nat /\ pushes \in Nat
  BY StoreNow, Sizes DEF IInv, DataOK, DataTypes
<1>2. LockTypes' /\ LocksOK'
  BY <1>1, LocksStep
<1>3. SUFFICES DataOK' /\ PushesCounted'
  BY <1>2 DEF IInv, DataOK
<1>4. CASE UNCHANGED vars
  <2>1. UNCHANGED <<listVars, dataVars, node, pc, begun>>
    BY <1>4 DEF vars
  <2>2. UNCHANGED <<begun, pushes, live>>
    BY <2>1 DEF listVars, dataVars
  <2>3. Pushing' = Pushing /\ Allocating' = Allocating /\ \A u \in Threads : PcKept(u)
    BY <2>1 DEF Pushing, Allocating, PcKept
  <2>4. begun' \in 0..MaxPushes
    BY <2>1, <1>1 DEF DataOK, DataTypes
  <2>5. DataOK'
    BY <2>1, <2>3, <2>4, <1>1, DataFrame DEF PcKept
  <2>6. QED
    BY <2>2, <2>3, <2>5, <1>1, CountKeep
<1>5. SUFFICES ASSUME NEW t \in Threads,
                      \/ Push(t) \/ AllocateNode(t) \/ PushNode(t) \/ PopNode(t) \/ Dispose(t)
                      \/ FreeNode(t) \/ ClearNode(t) \/ Moves(t)
               PROVE  DataOK' /\ PushesCounted'
  BY <1>4 DEF Next, Moves
<1>6. CASE Push(t)
  BY <1>1, <1>6, DataBegin
<1>7. CASE AllocateNode(t)
  <2>1. DataOK' /\ \E b : live' = live \/ (live' = live \cup {b} /\ b \notin live)
    BY <1>1, <1>7, DataAllocate
  <2>2. /\ pc[t] = "allocating" /\ pc' = [pc EXCEPT ![t] = "push"]
        /\ UNCHANGED <<begun, pushes>>
    BY <1>7 DEF AllocateNode, Go
  <2>3. QED
    BY <2>1, <2>2, <1>1, CountAllocate
<1>8. CASE PushNode(t)
  <2>1. DataOK'
    BY <1>1, <1>8, DataPush
  <2>2. /\ pc[t] = "pushing" /\ pc' = [pc EXCEPT ![t] = "idle"]
        /\ live' = live /\ begun' = begun /\ pushes' = pushes + 1
    BY <1>8 DEF PushNode, Go
  <2>3. QED
    BY <2>1, <2>2, <1>1, CountPushed
<1>9. CASE PopNode(t)
  <2>1. DataOK'
    BY <1>1, <1>9, DataPop
  <2>2. /\ pc[t] = "popping" /\ pc' = [pc EXCEPT ![t] = "dispose"]
        /\ UNCHANGED <<live, begun, pushes>>
    BY <1>9 DEF PopNode, Go, dataVars
  <2>3. Pushing' = Pushing /\ Allocating' = Allocating
    BY <2>2, <1>1 DEF Pushing, Allocating, LockTypes
  <2>4. QED
    BY <2>1, <2>2, <2>3, <1>1, CountKeep
<1>10. CASE Dispose(t)
  <2>1. DataOK'
    BY <1>1, <1>10, DataDispose
  <2>2. /\ pc[t] = "dispose" /\ pc' = [pc EXCEPT ![t] = "free"]
        /\ UNCHANGED <<live, begun, pushes>>
    BY <1>10 DEF Dispose, Go, listVars
  <2>3. Pushing' = Pushing /\ Allocating' = Allocating
    BY <2>2, <1>1 DEF Pushing, Allocating, LockTypes
  <2>4. QED
    BY <2>1, <2>2, <2>3, <1>1, CountKeep
<1>11. CASE FreeNode(t)
  <2>1. DataOK' /\ live' \subseteq live
    BY <1>1, <1>11, DataFree
  <2>2. /\ pc[t] = "freeing" /\ pc' = [pc EXCEPT ![t] = "idle"]
        /\ UNCHANGED <<begun, pushes>>
    BY <1>11 DEF FreeNode, Go, dataVars
  <2>3. Pushing' = Pushing /\ Allocating' = Allocating
    BY <2>2, <1>1 DEF Pushing, Allocating, LockTypes
  <2>4. QED
    BY <2>1, <2>2, <2>3, <1>1, CountKeep
<1>12. CASE ClearNode(t)
  <2>1. DataOK' /\ live' \subseteq live
    BY <1>1, <1>12, DataClear
  <2>2. UNCHANGED <<begun, pushes, pc>>
    BY <1>12 DEF ClearNode
  <2>3. Pushing' = Pushing /\ Allocating' = Allocating
    BY <2>2 DEF Pushing, Allocating
  <2>4. QED
    BY <2>1, <2>2, <2>3, <1>1, CountKeep
<1>13. CASE Moves(t)
  BY <1>1, <1>13, DataMoves
<1>14. QED
  BY <1>5, <1>6, <1>7, <1>8, <1>9, <1>10, <1>11, <1>12, <1>13

LEMMA IInvAlways == ~ClearRaces => (Spec => []IInv)
<1> SUFFICES ASSUME ~ClearRaces PROVE Spec => []IInv
  OBVIOUS
<1>1. IInv /\ [Next]_vars => IInv'
  BY IInvStep
<1>2. QED
  BY <1>1, IInvInit, PTL DEF Spec

-----------------------------------------------------------------------------
(* What the invariant says of the lists.                                   *)

LEMMA BlockSize ==
  ASSUME NEW b \in Blocks, NEW c
  PROVE  Cardinality(NodesOf(b) \ c) \in 0..StorageNodes
<1>1. /\ IsFiniteSet(NodesOf(b)) /\ Cardinality(NodesOf(b)) = StorageNodes
  <2>1. NodesOf(b) = {b} \X (1..StorageNodes) /\ StorageNodes \in Nat
    BY NodePairs, Sizes
  <2>2. IsFiniteSet({b}) /\ Cardinality({b}) = 1
    BY FS_Singleton
  <2>3. IsFiniteSet(1..StorageNodes) /\ Cardinality(1..StorageNodes) = StorageNodes
    BY <2>1, FS_Interval
  <2> DEFINE S == {b}
             T == 1..StorageNodes
  <2>4. IsFiniteSet(S \X T) /\ Cardinality(S \X T) = Cardinality(S) * Cardinality(T)
    <3> HIDE DEF S, T
    <3>1. IsFiniteSet(S) /\ IsFiniteSet(T)
      BY <2>2, <2>3 DEF S, T
    <3>2. QED
      BY <3>1, FS_Product
  <2>5. Cardinality(S) * Cardinality(T) = StorageNodes
    BY <2>1, <2>2, <2>3
  <2>6. QED
    BY <2>1, <2>4, <2>5
<1>2. /\ IsFiniteSet(NodesOf(b) \ c)
      /\ Cardinality(NodesOf(b) \ c) <= StorageNodes
  BY <1>1, FS_Subset
<1>3. Cardinality(NodesOf(b) \ c) \in Nat
  BY <1>2, FS_CardinalityType
<1>4. QED
  BY <1>2, <1>3, Sizes

LEMMA Lists ==
  ASSUME IInv
  PROVE  /\ Linking(next) /\ Held(next, free, FreeList) /\ Held(next, queue, QueueList)
         /\ PreFirst(FreeList) /\ Placed(live, Hands, Cells(FreeList), Cells(QueueList))
         /\ Counted(live, used, Cells(FreeList))
         /\ DOMAIN FreeList = 1..Len(FreeList)
         /\ InList(free.first) = Cells(FreeList) /\ InList(queue.first) = Cells(QueueList)
<1>1. /\ Linking(next) /\ Held(next, free, FreeList) /\ Held(next, queue, QueueList)
      /\ PreFirst(FreeList) /\ Placed(live, Hands, Cells(FreeList), Cells(QueueList))
      /\ Counted(live, used, Cells(FreeList))
  BY DEF IInv, StoreOK, Store
<1>2. DOMAIN FreeList = 1..Len(FreeList)
  BY <1>1, HeldFacts DEF Sized
<1>3. InList(free.first) = Cells(FreeList) /\ InList(queue.first) = Cells(QueueList)
  BY DEF InList, Cells, FreeList, QueueList
<1>4. QED
  BY <1>1, <1>2, <1>3

LEMMA IInvTypes ==
  ASSUME IInv
  PROVE  TypeOK
<1>1. /\ LockTypes /\ DataTypes
      /\ Linking(next) /\ free \in ListTypes /\ queue \in ListTypes
      /\ Counted(live, used, Cells(FreeList))
  BY Lists DEF IInv, Held
<1>2. used \in [Blocks -> 0..StorageNodes]
  <2>1. ASSUME NEW b \in Blocks PROVE used[b] \in 0..StorageNodes
    <3>1. used[b] = IF b \in live THEN Cardinality(NodesOf(b) \ Cells(FreeList)) ELSE 0
      BY <1>1 DEF Counted
    <3>2. QED
      BY <3>1, BlockSize, Sizes
  <2>2. QED
    BY <2>1, <1>1 DEF Counted
<1>3. pushes \in 0..MaxPushes
  <2>1. PushesCounted /\ live \subseteq Blocks /\ begun \in 0..MaxPushes /\ pushes \in Nat
    BY <1>1 DEF IInv, Counted, DataTypes
  <2>2. Cardinality(Pushing) \in Nat /\ pushes + Cardinality(Pushing) <= begun
    BY <2>1, AllocatingFinite DEF PushesCounted
  <2>3. QED
    BY <2>1, <2>2, Sizes
<1>4. QED
  BY <1>1, <1>2, <1>3 DEF TypeOK, LockTypes, DataTypes, Linking, LinkTypes, ListTypes, Counted

LEMMA IInvConserves ==
  ASSUME IInv
  PROVE  NodesConserved
<1>1. /\ Placed(live, Hands, InList(free.first), InList(queue.first)) /\ HandsOK
  BY Lists DEF IInv
<1>2. \A t, u \in Threads : node[t] = node[u] /\ node[t] # Null => t = u
  BY <1>1 DEF HandsOK
<1>3. QED
  BY <1>1, <1>2 DEF NodesConserved, Placed, NodesIn, Hands

LEMMA IInvOrders ==
  ASSUME IInv
  PROVE  ListsInOrder
<1>1. LastIsLast
  <2>1. ASSUME NEW l, NEW s, Held(next, l, s), s = List(l.first)
        PROVE  IF l.first = Null THEN l.last = Null ELSE List(l.first)[Len(List(l.first))] = l.last
    <3>1. /\ l.last = IF Len(s) = 0 THEN Null ELSE s[Len(s)]
          /\ l.first = Null <=> Len(s) = 0
      BY <2>1, HeldFacts DEF Held
    <3>2. QED
      BY <3>1, <2>1
  <2>2. /\ Held(next, queue, QueueList) /\ QueueList = List(queue.first)
        /\ Held(next, free, FreeList) /\ FreeList = List(free.first)
    BY Lists DEF QueueList, FreeList
  <2>3. QED
    BY <2>1, <2>2 DEF LastIsLast
<1>2. PreallocatedFirst
  BY Lists DEF PreallocatedFirst, PreFirst, FreeList
<1>3. QED
  BY <1>1, <1>2 DEF ListsInOrder

LEMMA IInvLifetimes ==
  ASSUME IInv
  PROVE  LifetimesExact
<1>1. UsedExact
  BY Lists DEF UsedExact, Counted
<1>2. FilledExact
  BY Lists DEF IInv, FilledOK, FilledExact, FilledPc
<1>3. QED
  BY <1>1, <1>2 DEF LifetimesExact

-----------------------------------------------------------------------------
(* The theorems.                                                           *)

\* The types of all variables; `used` never exceeds the nodes of a block and
\* the free block that allocateNode() asks for is always there.
THEOREM TypeCorrect == ~ClearRaces => (Spec => []TypeOK)
  BY IInvAlways, IInvTypes, PTL

\* "node lifecycle": every node of the object and of every live block is in
\* exactly one place, the free list, the sorted list or one thread's hands.
THEOREM NodesNotLost == ~ClearRaces => (Spec => []NodesConserved)
  BY IInvAlways, IInvConserves, PTL

\* Appends find the ends of the lists, and what is preallocated comes first in
\* the free list, as the removal of a block expects.
THEOREM ListsOrdered == ~ClearRaces => (Spec => []ListsInOrder)
  BY IInvAlways, IInvOrders, PTL

\* `used` counts the nodes of a block out of the free list, the block is alive
\* while there are any, and storage holds a value exactly from fill to dispose.
THEOREM LifetimesHeld == ~ClearRaces => (Spec => []LifetimesExact)
  BY IInvAlways, IInvLifetimes, PTL

-----------------------------------------------------------------------------
(* The linked list implements the ordered sequence.                        *)

Entries(q, e) == [i \in DOMAIN q |-> e[q[i]]]
Same(q, e, g) == \A n \in Cells(q) : g[n] = e[n]
EntryType == [priority : Int, insertFirst : BOOLEAN, stamp : Nat]

LEMMA PendingIs ==
  Pending = Entries(QueueList, entry) /\ Pending' = Entries(QueueList', entry')
  BY DEF Pending, Entries, QueueList

LEMMA EntriesSized ==
  ASSUME NEW q, NEW L, Sized(q, L), NEW e \in [Node -> EntryType]
  PROVE  /\ Entries(q, e) \in Seq(EntryType) /\ Len(Entries(q, e)) = L
         /\ Entries(q, e) = [i \in 1..L |-> e[q[i]]]
<1>1. L \in Nat /\ DOMAIN q = 1..L /\ \A i \in 1..L : q[i] \in Node
  BY CellsAre DEF Sized
<1>2. Entries(q, e) = [i \in 1..L |-> e[q[i]]]
  BY <1>1 DEF Entries
<1>3. \A i \in 1..L : e[q[i]] \in EntryType
  BY <1>1
<1> HIDE DEF EntryType
<1>4. Entries(q, e) \in [1..L -> EntryType]
  BY <1>2, <1>3
<1>5. QED
  BY <1>1, <1>2, <1>4

LEMMA EntriesSame ==
  ASSUME NEW q, NEW e, NEW g, Same(q, e, g)
  PROVE  Entries(q, g) = Entries(q, e)
  BY DEF Entries, Same, Cells

LEMMA EntriesTail ==
  ASSUME NEW q, Sized(q, Len(q)), q # <<>>, NEW e \in [Node -> EntryType]
  PROVE  Entries(Tail(q), e) = Tail(Entries(q, e)) /\ Entries(q, e) # <<>>
<1> DEFINE L == Len(q)
           r == Tail(q)
           p == Entries(q, e)
<1>1. L \in Nat \ {0}
  BY DEF Sized
<1>2. Sized(r, L - 1) /\ Shifted(r, q, L)
  BY <1>1, TailIs
<1>3. p \in Seq(EntryType) /\ Len(p) = L /\ p = [i \in 1..L |-> e[q[i]]]
  BY EntriesSized
<1> HIDE DEF L, p, r
<1>4. Entries(r, e) = [i \in 1..(L - 1) |-> e[r[i]]]
  BY <1>2 DEF Entries, Sized
<1>5. p # <<>>
  BY <1>1, <1>3
<1>6. Tail(p) = [i \in 1..(L - 1) |-> p[i + 1]]
  BY <1>1, <1>3, <1>5
<1>7. \A i \in 1..(L - 1) : e[r[i]] = p[i + 1]
  <2>1. ASSUME NEW i \in 1..(L - 1) PROVE e[r[i]] = p[i + 1]
    <3>1. i + 1 \in 1..L /\ r[i] = q[i + 1]
      BY <1>1, <1>2 DEF Shifted
    <3>2. QED
      BY <3>1, <1>3
  <2>2. QED
    BY <2>1
<1>8. QED
  BY <1>4, <1>5, <1>6, <1>7 DEF p, r

LEMMA EntriesInsert ==
  ASSUME NEW q, Sized(q, Len(q)), NEW k \in 0..Len(q), NEW n \in Node,
         NEW e \in [Node -> EntryType], NEW g, Same(q, e, g)
  PROVE  Entries(Ordered!InsertAfter(q, k, n), g) =
           Ordered!InsertAfter(Entries(q, e), k, g[n])
<1> DEFINE L == Len(q)
           r == Ordered!InsertAfter(q, k, n)
           p == Entries(q, e)
<1>1. L \in Nat /\ \A i \in 1..L : q[i] \in Cells(q)
  BY CellsAre DEF Sized
<1>2. Len(p) = L /\ p = [i \in 1..L |-> e[q[i]]]
  BY EntriesSized
<1>3. DOMAIN r = 1..(L + 1) /\ Inserted(r, q, L, k, n)
  BY DEF Ordered!InsertAfter, Inserted
<1>4. Ordered!InsertAfter(p, k, g[n]) =
        [i \in 1..(L + 1) |-> IF i <= k THEN p[i] ELSE IF i = k + 1 THEN g[n] ELSE p[i - 1]]
  BY <1>2, Zenon DEF Ordered!InsertAfter
<1>5. k \in 0..L
  OBVIOUS
<1> HIDE DEF L, r, p
<1>6. ASSUME NEW i \in 1..(L + 1)
      PROVE  g[r[i]] = IF i <= k THEN p[i] ELSE IF i = k + 1 THEN g[n] ELSE p[i - 1]
  <2>1. CASE i <= k
    <3>1. i \in 1..L /\ r[i] = q[i]
      BY <2>1, <1>1, <1>3, <1>5 DEF Inserted
    <3>2. QED
      BY <2>1, <3>1, <1>1, <1>2 DEF Same
  <2>2. CASE i = k + 1
    <3>1. ~(i <= k) /\ r[i] = n
      BY <2>2, <1>3, <1>5 DEF Inserted
    <3>2. QED
      BY <2>2, <3>1
  <2>3. CASE ~(i <= k) /\ i # k + 1
    <3>1. i - 1 \in 1..L /\ r[i] = q[i - 1]
      BY <2>3, <1>1, <1>3, <1>5 DEF Inserted
    <3>2. QED
      BY <2>3, <3>1, <1>1, <1>2 DEF Same
  <2>4. QED
    BY <2>1, <2>2, <2>3
<1>7. Entries(r, g) = [i \in 1..(L + 1) |-> g[r[i]]]
  BY <1>3 DEF Entries
<1>8. QED
  BY <1>4, <1>6, <1>7 DEF p, r

\* A push takes effect in PushNode,
LEMMA PushRefines ==
  ASSUME IInv, NEW t \in Threads, PushNode(t)
  PROVE  \E p \in Priorities, first \in BOOLEAN : Ordered!Push(p, first)
<1> DEFINE n == node[t]
           q == QueueList
           x == entry'[n]
<1>1. LockTypes /\ DataOK /\ entry \in [Node -> EntryType] /\ Sized(q, Len(q)) /\ pushes \in Nat
      /\ Cells(q) \subseteq Node
  BY StoreNow DEF IInv, DataOK, DataTypes, EntryType
<1>2. /\ \E k \in 0..Len(q) : /\ BelongsAt(q, entry, n, k)
                              /\ QueueList' = Ordered!InsertAfter(q, k, n)
      /\ n \in Node /\ n \notin Cells(q) /\ entry[n].priority \in Priorities
  BY <1>1, DataPush
<1>3. PICK k \in 0..Len(q) : /\ BelongsAt(q, entry, n, k)
                             /\ QueueList' = Ordered!InsertAfter(q, k, n)
  BY <1>2
<1>4. entry' = [entry EXCEPT ![n].stamp = pushes] /\ pushes' = pushes + 1
  BY DEF PushNode
<1>5. /\ x = [priority |-> entry[n].priority, insertFirst |-> entry[n].insertFirst,
              stamp |-> pushes]
      /\ entry[n].insertFirst \in BOOLEAN
  BY <1>1, <1>2, <1>4 DEF EntryType
<1>6. Same(q, entry, entry')
  BY <1>1, <1>2, <1>4 DEF Same
<1> HIDE DEF n, q, x
<1>7. Pending = Entries(q, entry) /\ Pending' = Entries(QueueList', entry')
  BY PendingIs DEF q
<1>8. Pending' = Ordered!InsertAfter(Pending, k, x)
  <2>1. Entries(Ordered!InsertAfter(q, k, n), entry') =
          Ordered!InsertAfter(Entries(q, entry), k, entry'[n])
    BY <1>1, <1>2, <1>6, EntriesInsert
  <2>2. QED
    BY <2>1, <1>3, <1>7 DEF x
<1>9. /\ Len(Pending) = Len(q)
      /\ \A i \in 1..Len(q) : Pending[i] = entry[q[i]]
  <2>1. Len(Pending) = Len(q) /\ Pending = [i \in 1..Len(q) |-> entry[q[i]]]
    BY <1>1, <1>7, EntriesSized
  <2>2. QED
    BY <2>1
<1>10. \A i \in 1..Len(Pending) : Ordered!StaysBefore(Pending[i], x) <=> i <= k
  <2>1. ASSUME NEW i \in 1..Len(q) PROVE Ordered!StaysBefore(Pending[i], x) <=> i <= k
    <3>1. Ordered!StaysBefore(entry[q[i]], entry[n]) <=> i <= k
      BY <1>3 DEF BelongsAt
    <3>2. Ordered!StaysBefore(entry[q[i]], x) <=> Ordered!StaysBefore(entry[q[i]], entry[n])
      BY <1>5 DEF Ordered!StaysBefore
    <3>3. QED
      BY <3>1, <3>2, <1>9
  <2>2. QED
    BY <2>1, <1>9
<1>11. Ordered!Push(entry[n].priority, entry[n].insertFirst)
  <2>1. k \in 0..Len(Pending)
    BY <1>9
  <2>2. QED
    BY <2>1, <1>4, <1>5, <1>8, <1>10 DEF Ordered!Push
<1>12. QED
  BY <1>2, <1>5, <1>11

\* a pop in PopNode or in a round of clear(),
LEMMA PopRefines ==
  ASSUME IInv, NEW t \in Threads, PopNode(t) \/ ClearNode(t)
  PROVE  Ordered!Pop
<1> DEFINE q == QueueList
<1>1. LockTypes /\ DataOK /\ entry \in [Node -> EntryType] /\ Sized(q, Len(q))
  BY StoreNow DEF IInv, DataOK, DataTypes, EntryType
<1>2. /\ QueueList' = Tail(q) /\ q # <<>> /\ pushes' = pushes
      /\ \A n \in Cells(Tail(q)) : entry'[n] = entry[n]
  <2>1. CASE PopNode(t)
    BY <2>1, <1>1, DataPop
  <2>2. CASE ClearNode(t)
    BY <2>2, <1>1, DataClear
  <2>3. QED
    BY <2>1, <2>2
<1>3. Same(Tail(q), entry, entry')
  BY <1>2 DEF Same
<1> HIDE DEF q
<1>4. Entries(QueueList', entry') = Entries(Tail(q), entry)
  BY <1>2, <1>3, EntriesSame
<1>5. /\ Entries(Tail(q), entry) = Tail(Entries(q, entry))
      /\ Entries(q, entry) # <<>>
  BY <1>1, <1>2, EntriesTail
<1>6. Pending = Entries(q, entry) /\ Pending' = Entries(QueueList', entry')
  BY PendingIs DEF q
<1>7. QED
  BY <1>2, <1>4, <1>5, <1>6 DEF Ordered!Pop

\* and everything else keeps the sequence as it is.
LEMMA OthersStutter ==
  ASSUME IInv, NEW t \in Threads,
         Push(t) \/ AllocateNode(t) \/ Dispose(t) \/ FreeNode(t) \/ Moves(t)
  PROVE  Pending' = Pending /\ pushes' = pushes
<1> DEFINE q == QueueList
<1>1. LockTypes /\ LocksOK /\ DataOK /\ PushesCounted
  BY DEF IInv, DataOK
<1>2. /\ QueueList' = q /\ pushes' = pushes /\ \A n \in Cells(q) : entry'[n] = entry[n]
  <2>1. CASE Push(t) \/ Moves(t)
    <3>1. UNCHANGED <<listVars, dataVars>>
      BY <2>1, <1>1, DataBegin, DataMoves
    <3>2. UNCHANGED <<next, queue, entry, pushes>>
      BY <3>1 DEF listVars, dataVars
    <3>3. QED
      BY <3>2 DEF QueueList, List
  <2>2. CASE AllocateNode(t)
    <3>1. pushes' = pushes
      BY <2>2 DEF AllocateNode
    <3>2. QED
      BY <2>2, <3>1, <1>1, DataAllocate
  <2>3. CASE Dispose(t)
    BY <2>3, <1>1, DataDispose
  <2>4. CASE FreeNode(t)
    BY <2>4, <1>1, DataFree
  <2>5. QED
    BY <2>1, <2>2, <2>3, <2>4
<1>3. Entries(QueueList', entry') = Entries(q, entry)
  BY <1>2, EntriesSame DEF Same
<1>4. Pending = Entries(q, entry) /\ Pending' = Entries(QueueList', entry')
  BY PendingIs
<1>5. QED
  BY <1>2, <1>3, <1>4

LEMMA StepRefines ==
  ASSUME ~ClearRaces, IInv, [Next]_vars
  PROVE  [Ordered!Next]_(Ordered!vars)
<1>1. CASE UNCHANGED vars
  <2>1. UNCHANGED <<next, queue, entry, pushes>>
    BY <1>1 DEF vars, listVars, dataVars
  <2>2. Pending' = Pending
    BY <2>1 DEF Pending, List
  <2>3. QED
    BY <2>1, <2>2 DEF Ordered!vars
<1>2. SUFFICES ASSUME NEW t \in Threads,
                      \/ PushNode(t) \/ PopNode(t) \/ ClearNode(t)
                      \/ Push(t) \/ AllocateNode(t) \/ Dispose(t) \/ FreeNode(t) \/ Moves(t)
               PROVE  [Ordered!Next]_(Ordered!vars)
  BY <1>1 DEF Next, Moves
<1>3. CASE PushNode(t)
  BY <1>3, PushRefines DEF Ordered!Next
<1>4. CASE PopNode(t) \/ ClearNode(t)
  BY <1>4, PopRefines DEF Ordered!Next
<1>5. CASE Push(t) \/ AllocateNode(t) \/ Dispose(t) \/ FreeNode(t) \/ Moves(t)
  BY <1>5, OthersStutter DEF Ordered!vars
<1>6. QED
  BY <1>2, <1>3, <1>4, <1>5

\* The linked list behind its lock implements the ordered sequence: an entry
\* is popped in the order of priorities and goes behind its equals, or in front
\* of them with insertFirst.
THEOREM QueueIsOrdered == ~ClearRaces => (Spec => ImplementsOrderedQueue)
<1> SUFFICES ASSUME ~ClearRaces PROVE Spec => ImplementsOrderedQueue
  OBVIOUS
<1>1. Init => Ordered!Init
  <2> SUFFICES ASSUME Init PROVE Ordered!Init
    OBVIOUS
  <2>1. QueueList = <<>> /\ pushes = 0
    BY StoreInit DEF Init
  <2>2. Pending = <<>>
    BY <2>1, PendingIs DEF Entries
  <2>3. QED
    BY <2>1, <2>2 DEF Ordered!Init
<1>2. IInv /\ [Next]_vars => [Ordered!Next]_(Ordered!vars)
  BY StepRefines
<1>3. QED
  BY <1>1, <1>2, IInvAlways, PTL DEF Spec, ImplementsOrderedQueue, Ordered!Spec

\* The order an OrderedQueue keeps, said of the list.
Promised == INSTANCE OrderedQueueProofs WITH queue <- Pending

\* Both instances have the same initial states ...
LEMMA SameInit == Ordered!Init => Promised!Init
  BY DEF Ordered!Init, Promised!Init

\* ... and the same steps.
LEMMA SameNext ==
  [Ordered!Next]_(Ordered!vars) => [Promised!Next]_(Promised!vars)
  BY DEF Ordered!Next, Promised!Next, Ordered!vars, Promised!vars,
         Ordered!Push, Promised!Push, Ordered!Pop, Promised!Pop,
         Ordered!StaysBefore, Promised!StaysBefore,
         Ordered!InsertAfter, Promised!InsertAfter

\* So what pushNode links and pop_direct unlinks, under their locks, is always
\* sorted by priority, and within one priority the first pushed is in front,
\* behind those pushed with insertFirst, of which the last pushed is.
THEOREM LinkedListOrdered ==
  ~ClearRaces => (Spec => [](Promised!Sorted /\ Promised!FairWithinPriority))
<1>1. ImplementsOrderedQueue => Promised!Spec
  BY SameInit, SameNext, PTL
     DEF ImplementsOrderedQueue, Ordered!Spec, Promised!Spec
<1>2. Priorities \subseteq Int
  BY QueueNodesAssumption
<1>3. Promised!Spec => [](Promised!Sorted /\ Promised!FairWithinPriority)
  BY <1>2, Promised!OrderIsKept
<1>4. QED
  BY <1>1, <1>3, QueueIsOrdered, PTL
=============================================================================
