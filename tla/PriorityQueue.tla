---------------------------- MODULE PriorityQueue ----------------------------
(***************************************************************************)
(* stappler::memory::PriorityQueue (core/memory/SPMemPriorityQueue.h): the *)
(* container behind the input and output queues of thread::TaskQueue.      *)
(* Nodes move between a free list and a sorted list of pending values,     *)
(* each singly linked with a first and a last pointer and each behind its  *)
(* own replaceable lock interface.  The first nodes are part of the object *)
(* (_preallocated); more come in heap blocks, and a block is deleted when  *)
(* none of its nodes is in use.                                            *)
(***************************************************************************)
EXTENDS Integers, Sequences, FiniteSets

CONSTANTS
  Threads,       \* the threads that use the queue
  Priorities,    \* the PriorityType values in use
  Preallocated,  \* PreallocatedNodes (8 in the code)
  StorageNodes,  \* StorageNodes, the nodes of one block (64 in the code)
  MaxPushes,     \* bound: how many pushes the threads make in all
  NoThread,      \* a mutex is free
  ClearRaces     \* TRUE: clear() may run beside other operations

ASSUME QueueNodesAssumption ==
  /\ Preallocated \in Nat \ {0}
  /\ StorageNodes \in Nat \ {0, 1}
  /\ Priorities \subseteq Int
  /\ MaxPushes \in Nat
  /\ NoThread \notin Threads
  /\ ClearRaces \in BOOLEAN

Blocks == 1..MaxPushes                     \* every live block is in use
NoBlock == 0                               \* Node::block of _preallocated
Null == <<NoBlock, 0>>
NodesOf(b) == {b} \X (1..(IF b = NoBlock THEN Preallocated ELSE StorageNodes))
Node == UNION {NodesOf(b) : b \in Blocks \cup {NoBlock}}
BlockOf(n) == n[1]
Empty == [first |-> Null, last |-> Null]   \* a NodeInterface's list

VARIABLES
  queue, free,            \* _queue and _free: their first and last pointers
  queueLocks, freeLocks,  \* their lock interface is the mutex, not the no-op
  queueMutex, freeMutex,  \* the owners of the two mutexes
  next,                   \* Node::next; nothing follows Null
  entry,                  \* priority and value of a node; insertFirst and the
                          \* number of the push are history
  filled,                 \* the nodes whose storage holds a live Value
  live, used,             \* the allocated blocks and StorageBlock::used
  pc, node,               \* where each thread is, and the node in its hands
  begun, pushes           \* bound and history: pushes begun, pushes made

listVars == <<queue, free, next, live, used>>
lockVars == <<queueLocks, freeLocks, queueMutex, freeMutex>>
dataVars == <<entry, filled, pushes>>
vars == <<listVars, lockVars, dataVars, pc, node, begun>>

Pc == {"idle", "alloc", "allocating", "push", "pushing", "pop", "popping",
       "dispose", "free", "freeing", "clearLockFree", "clearLockQueue",
       "clearing", "clearRestore"}

ClearPc == {"clearLockFree", "clearLockQueue", "clearing", "clearRestore"}

\* The nodes from `first` on, by the links in `links`; a list that runs into a
\* cycle shows as longer than there are nodes.
ListBy(links, first) ==
  LET at[k \in 0..Cardinality(Node)] == IF k = 0 THEN first ELSE links[at[k - 1]]
      length == Cardinality({k \in DOMAIN at : at[k] # Null})
  IN  [i \in 1..length |-> at[i - 1]]

List(first) == ListBy(next, first)

InList(first) == LET l == List(first) IN {l[i] : i \in DOMAIN l}

\* initNodes: the nodes of a block, or of the object, in a chain
InitNodes(b) ==
  [n \in NodesOf(b) |-> IF <<b, n[2] + 1>> \in NodesOf(b) THEN <<b, n[2] + 1>>
                                                         ELSE Null]

NoEntry == [priority |-> 0, insertFirst |-> FALSE, stamp |-> 0]

Init ==
  /\ queue = Empty
  /\ free = [first |-> <<NoBlock, 1>>, last |-> <<NoBlock, Preallocated>>]
  /\ queueLocks = TRUE /\ freeLocks = TRUE
  /\ queueMutex = NoThread /\ freeMutex = NoThread
  /\ next = [n \in Node \cup {Null} |-> IF n \in NodesOf(NoBlock)
                                     THEN InitNodes(NoBlock)[n] ELSE Null]
  /\ entry = [n \in Node |-> NoEntry]
  /\ filled = {}
  /\ live = {} /\ used = [b \in Blocks |-> 0]
  /\ pc = [t \in Threads |-> "idle"]
  /\ node = [t \in Threads |-> Null]
  /\ begun = 0 /\ pushes = 0

(***************************************************************************)
(* Helpers                                                                 *)
(***************************************************************************)
Go(t, from, to) == pc[t] = from /\ pc' = [pc EXCEPT ![t] = to]

\* Mutant: the queue's lock interface is not asked.
EnterQueueFreely(t) == UNCHANGED lockVars

\* LockInterface::lock and unlock run whatever function is set at that time.
EnterQueue(t) ==
  /\ IF queueLocks THEN queueMutex = NoThread /\ queueMutex' = t
                   ELSE UNCHANGED queueMutex
  /\ UNCHANGED <<queueLocks, freeLocks, freeMutex>>
LeaveQueue ==
  /\ queueMutex' = IF queueLocks THEN NoThread ELSE queueMutex
  /\ UNCHANGED <<queueLocks, freeLocks, freeMutex>>
EnterFree(t) ==
  /\ IF freeLocks THEN freeMutex = NoThread /\ freeMutex' = t
                  ELSE UNCHANGED freeMutex
  /\ UNCHANGED <<queueLocks, freeLocks, queueMutex>>
LeaveFree ==
  /\ freeMutex' = IF freeLocks THEN NoThread ELSE freeMutex
  /\ UNCHANGED <<queueLocks, freeLocks, queueMutex>>

\* A caller that does not race clear() starts nothing while it runs.
MayStart(t) == ClearRaces \/ \A u \in Threads : pc[u] \notin ClearPc

\* Mutant: a free node is taken without counting it in its block.
TakeFreeUncounted ==
  /\ free.first # Null
  /\ free' = IF free.first = free.last THEN Empty
             ELSE [free EXCEPT !.first = next[free.first]]
  /\ next' = [next EXCEPT ![free.first] = Null]
  /\ UNCHANGED <<used, live>>

\* allocateNode takes the first free node ...
TakeFree ==
  /\ free.first # Null
  /\ free' = IF free.first = free.last THEN Empty
             ELSE [free EXCEPT !.first = next[free.first]]
  /\ next' = [next EXCEPT ![free.first] = Null]
  /\ used' = IF BlockOf(free.first) = NoBlock THEN used
             ELSE [used EXCEPT ![BlockOf(free.first)] = @ + 1]
  /\ UNCHANGED live

\* ... or the first node of a new block, whose others become the free list.
TakeFromBlock(b) ==
  /\ free.first = Null
  /\ live' = live \cup {b}
  /\ used' = [used EXCEPT ![b] = 1]
  /\ next' = [n \in DOMAIN next |-> IF n = <<b, 1>> THEN Null
                             ELSE IF n \in NodesOf(b) THEN InitNodes(b)[n]
                             ELSE next[n]]
  /\ free' = [first |-> <<b, 2>>, last |-> <<b, StorageNodes>>]

\* Mutant: a preallocated node is appended like the others.
FreePreallocatedToBack(n) ==
  /\ BlockOf(n) = NoBlock
  /\ next' = IF free.last = Null THEN [next EXCEPT ![n] = Null]
             ELSE [next EXCEPT ![n] = Null, ![free.last] = n]
  /\ free' = [first |-> IF free.first = Null THEN n ELSE free.first, last |-> n]
  /\ UNCHANGED <<live, used>>

\* freeNode of a preallocated node: to the front of the free list
FreePreallocated(n) ==
  /\ BlockOf(n) = NoBlock
  /\ next' = [next EXCEPT ![n] = free.first]
  /\ free' = [first |-> n, last |-> IF free.last = Null THEN n ELSE free.last]
  /\ UNCHANGED <<live, used>>

\* freeNode of a block's node: to the back of the free list
FreeToBlock(n) ==
  /\ BlockOf(n) # NoBlock
  /\ used[BlockOf(n)] # 1
  /\ used' = [used EXCEPT ![BlockOf(n)] = @ - 1]
  /\ IF free.last # Null
     THEN /\ next' = [next EXCEPT ![n] = Null, ![free.last] = n]
          /\ free' = [free EXCEPT !.last = n]
     ELSE /\ next' = [next EXCEPT ![n] = Null]
          /\ free' = [first |-> n, last |-> n]
  /\ UNCHANGED live

\* Mutant: the block is deleted and its nodes stay in the free list.
FreeWithBlockLeave(n) ==
  /\ BlockOf(n) # NoBlock
  /\ used[BlockOf(n)] = 1
  /\ used' = [used EXCEPT ![BlockOf(n)] = 0]
  /\ live' = live \ {BlockOf(n)}
  /\ UNCHANGED <<free, next>>

\* freeNode of the last node in use of a block: its nodes leave the free list
\* (each that stays is linked to the next one that does) and the block is deleted.
FreeWithBlock(n) ==
  LET b       == BlockOf(n)
      f       == List(free.first)
      Stay    == {i \in DOMAIN f : BlockOf(f[i]) # b}
      From(i) == {j \in Stay : j >= i}
      At(i)   == IF From(i) = {} THEN Null
                 ELSE f[CHOOSE j \in From(i) : \A k \in From(i) : j <= k]
  IN  /\ b # NoBlock
      /\ used[b] = 1
      /\ used' = [used EXCEPT ![b] = 0]
      /\ live' = live \ {b}
      /\ free' = [first |-> At(1),
                  last  |-> IF Stay = {} THEN Null
                            ELSE f[CHOOSE j \in Stay : \A k \in Stay : k <= j]]
      /\ next' = [m \in DOMAIN next |->
                    IF BlockOf(m) = b THEN Null
                    ELSE IF \E i \in Stay : f[i] = m
                    THEN At((CHOOSE i \in Stay : f[i] = m) + 1) ELSE next[m]]

ReturnNode(n) == FreePreallocated(n) \/ FreeToBlock(n) \/ FreeWithBlock(n)

(***************************************************************************)
(* push(): allocate, fill, push                                            *)
(***************************************************************************)
Push(t) ==
  /\ MayStart(t)
  /\ begun < MaxPushes
  /\ Go(t, "idle", "alloc")
  /\ begun' = begun + 1
  /\ UNCHANGED <<listVars, lockVars, dataVars, node>>

AllocateEnter(t) ==
  /\ Go(t, "alloc", "allocating")
  /\ EnterFree(t)
  /\ UNCHANGED <<listVars, dataVars, node, begun>>

\* The node is taken and the lock given back; then the caller, alone with the
\* node, sets its priority and constructs the value.
AllocateNode(t) ==
  /\ Go(t, "allocating", "push")
  /\ LeaveFree
  /\ LET b == CHOOSE c \in Blocks : c \notin live
         n == IF free.first # Null THEN free.first ELSE <<b, 1>>
     IN  /\ TakeFree \/ TakeFromBlock(b)
         /\ node' = [node EXCEPT ![t] = n]
         /\ filled' = filled \cup {n}
         /\ \E p \in Priorities, first \in BOOLEAN :
              entry' = [entry EXCEPT ![n] =
                          [priority |-> p, insertFirst |-> first, stamp |-> 0]]
  /\ UNCHANGED <<queue, pushes, begun>>

PushEnter(t) ==
  /\ Go(t, "push", "pushing")
  /\ EnterQueue(t)
  /\ UNCHANGED <<listVars, dataVars, node, begun>>

\* Mutant: an equal that was pushed first goes behind a later push.
BeforeStrict(m, n) == entry[m].priority < entry[n].priority

\* Does the entry of m stay in front of the entry of n?
Before(m, n) == IF entry[n].insertFirst
                THEN entry[m].priority < entry[n].priority
                ELSE entry[m].priority <= entry[n].priority

\* The last node of the leading run that stays in front of n
WalkEnd(n) ==
  LET q == List(queue.first)
  IN  q[CHOOSE i \in DOMAIN q :
          /\ \A j \in 2..i : Before(q[j], n)
          /\ i = Len(q) \/ ~Before(q[i + 1], n)]

PushNode(t) ==
  LET n == node[t] IN
  /\ Go(t, "pushing", "idle")
  /\ LeaveQueue
  /\ \/ /\ queue.first = Null
        /\ queue' = [first |-> n, last |-> n]
        /\ next' = [next EXCEPT ![n] = Null]
     \/ /\ queue.first # Null /\ ~Before(queue.first, n)
        /\ queue' = [queue EXCEPT !.first = n]
        /\ next' = [next EXCEPT ![n] = queue.first]
     \/ /\ queue.first # Null /\ Before(queue.first, n) /\ Before(queue.last, n)
        /\ queue' = [queue EXCEPT !.last = n]
        /\ next' = [next EXCEPT ![n] = Null, ![queue.last] = n]
     \/ /\ queue.first # Null /\ Before(queue.first, n) /\ ~Before(queue.last, n)
        /\ next' = [next EXCEPT ![n] = next[WalkEnd(n)], ![WalkEnd(n)] = n]
        /\ UNCHANGED queue
  /\ entry' = [entry EXCEPT ![n].stamp = pushes]
  /\ pushes' = pushes + 1
  /\ node' = [node EXCEPT ![t] = Null]
  /\ UNCHANGED <<free, live, used, filled, begun>>

(***************************************************************************)
(* pop_direct(): pop, dispose, free                                        *)
(***************************************************************************)

\* popNode's effect on the list
Unlink ==
  /\ queue.first # Null
  /\ queue' = IF queue.first = queue.last THEN Empty
              ELSE [queue EXCEPT !.first = next[queue.first]]

Pop(t) ==
  /\ MayStart(t)
  /\ Go(t, "idle", "pop")
  /\ UNCHANGED <<listVars, lockVars, dataVars, node, begun>>

PopEnter(t) ==
  /\ Go(t, "pop", "popping")
  /\ EnterQueue(t)
  /\ UNCHANGED <<listVars, dataVars, node, begun>>

PopNothing(t) ==
  /\ queue.first = Null
  /\ Go(t, "popping", "idle")
  /\ LeaveQueue
  /\ UNCHANGED <<listVars, dataVars, node, begun>>

PopNode(t) ==
  /\ Unlink
  /\ Go(t, "popping", "dispose")
  /\ LeaveQueue
  /\ node' = [node EXCEPT ![t] = queue.first]
  /\ next' = [next EXCEPT ![queue.first] = Null]
  /\ UNCHANGED <<free, live, used, dataVars, begun>>

\* Mutant: the value moved from is not destroyed.
DestroyNothing(n) ==
  /\ entry' = [entry EXCEPT ![n] = NoEntry]
  /\ UNCHANGED filled

\* The callback takes the value out of the node, and the value is destroyed.
\* Nothing reads the entry again: it is reset to keep states few.
DestroyValue(n) ==
  /\ filled' = filled \ {n}
  /\ entry' = [entry EXCEPT ![n] = NoEntry]

Dispose(t) ==
  /\ Go(t, "dispose", "free")
  /\ DestroyValue(node[t])
  /\ UNCHANGED <<listVars, lockVars, pushes, node, begun>>

FreeEnter(t) ==
  /\ Go(t, "free", "freeing")
  /\ EnterFree(t)
  /\ UNCHANGED <<listVars, dataVars, node, begun>>

FreeNode(t) ==
  /\ Go(t, "freeing", "idle")
  /\ LeaveFree
  /\ ReturnNode(node[t])
  /\ node' = [node EXCEPT ![t] = Null]
  /\ UNCHANGED <<queue, dataVars, begun>>

(***************************************************************************)
(* clear(): both lock interfaces are swapped for no-ops BEFORE the mutexes *)
(* they stood for are taken, and put back after those are released.        *)
(***************************************************************************)
ClearDisable(t) ==
  /\ ClearRaces \/ \A u \in Threads : pc[u] = "idle"
  /\ \A u \in Threads : pc[u] \notin ClearPc
  /\ Go(t, "idle", "clearLockFree")
  /\ freeLocks' = FALSE /\ queueLocks' = FALSE
  /\ UNCHANGED <<listVars, queueMutex, freeMutex, dataVars, node, begun>>

ClearLockFree(t) ==
  /\ freeMutex = NoThread
  /\ Go(t, "clearLockFree", "clearLockQueue")
  /\ freeMutex' = t
  /\ UNCHANGED <<listVars, queueLocks, freeLocks, queueMutex, dataVars, node,
                 begun>>

ClearLockQueue(t) ==
  /\ queueMutex = NoThread
  /\ Go(t, "clearLockQueue", "clearing")
  /\ queueMutex' = t
  /\ UNCHANGED <<listVars, queueLocks, freeLocks, freeMutex, dataVars, node,
                 begun>>

\* One round of the loop: popNode, destroy the value, freeNode
ClearNode(t) ==
  /\ pc[t] = "clearing"
  /\ Unlink
  /\ DestroyValue(queue.first)
  /\ ReturnNode(queue.first)
  /\ UNCHANGED <<lockVars, pushes, pc, node, begun>>

ClearUnlock(t) ==
  /\ queue.first = Null
  /\ Go(t, "clearing", "clearRestore")
  /\ freeMutex' = NoThread /\ queueMutex' = NoThread
  /\ UNCHANGED <<listVars, queueLocks, freeLocks, dataVars, node, begun>>

ClearRestore(t) ==
  /\ Go(t, "clearRestore", "idle")
  /\ freeLocks' = TRUE /\ queueLocks' = TRUE
  /\ UNCHANGED <<listVars, queueMutex, freeMutex, dataVars, node, begun>>

Next ==
  \E t \in Threads :
    \/ Push(t) \/ AllocateEnter(t) \/ AllocateNode(t) \/ PushEnter(t)
    \/ PushNode(t)
    \/ Pop(t) \/ PopEnter(t) \/ PopNothing(t) \/ PopNode(t) \/ Dispose(t)
    \/ FreeEnter(t) \/ FreeNode(t)
    \/ ClearDisable(t) \/ ClearLockFree(t) \/ ClearLockQueue(t)
    \/ ClearNode(t) \/ ClearUnlock(t) \/ ClearRestore(t)

Spec == Init /\ [][Next]_vars

(***************************************************************************)
(* Properties                                                              *)
(***************************************************************************)

\* The types of all variables.
TypeOK ==
  /\ queue \in [first : Node \cup {Null}, last : Node \cup {Null}]
  /\ free \in [first : Node \cup {Null}, last : Node \cup {Null}]
  /\ queueLocks \in BOOLEAN /\ freeLocks \in BOOLEAN
  /\ queueMutex \in Threads \cup {NoThread}
  /\ freeMutex \in Threads \cup {NoThread}
  /\ next \in [Node \cup {Null} -> Node \cup {Null}] /\ next[Null] = Null
  /\ entry \in [Node -> [priority : Int, insertFirst : BOOLEAN, stamp : Nat]]
  /\ filled \subseteq Node /\ live \subseteq Blocks
  /\ used \in [Blocks -> 0..StorageNodes]
  /\ pc \in [Threads -> Pc] /\ node \in [Threads -> Node \cup {Null}]
  /\ begun \in 0..MaxPushes /\ pushes \in 0..MaxPushes

\* "node lifecycle" (SPMemPriorityQueue.h:307-316): every node of the object
\* and of every live block is in exactly one place, the free list, the sorted
\* list or one thread's hands, and nothing links to a deleted block.
NodesConserved ==
  LET hands == {node[t] : t \in Threads} \ {Null}
  IN  /\ UNION {NodesOf(b) : b \in live \cup {NoBlock}} =
           InList(free.first) \cup InList(queue.first) \cup hands
      /\ InList(free.first) \cap InList(queue.first) = {}
      /\ hands \cap (InList(free.first) \cup InList(queue.first)) = {}
      /\ \A t, u \in Threads : node[t] = node[u] /\ node[t] # Null => t = u

\* The last pointers, which appends go through, are the ends of their lists.
LastIsLast ==
  \A l \in {queue, free} :
    IF l.first = Null THEN l.last = Null
    ELSE List(l.first)[Len(List(l.first))] = l.last

\* "skip preallocated nodes, that should be first in free list" (line 421),
\* which the removal of a block relies on.
PreallocatedFirst ==
  LET f == List(free.first)
  IN  \A i, j \in DOMAIN f : i < j /\ BlockOf(f[j]) = NoBlock => BlockOf(f[i]) = NoBlock

\* Both lists are in order: an append finds the end of its list, and what is
\* preallocated comes first, after any history of pushes, pops and frees.
ListsInOrder == LastIsLast /\ PreallocatedFirst

\* A block is alive exactly while some node of it is out of the free list, and
\* `used` counts those nodes: it is deleted neither too early nor never.
UsedExact ==
  \A b \in Blocks :
    /\ used[b] = IF b \in live THEN Cardinality(NodesOf(b) \ InList(free.first))
                               ELSE 0
    /\ b \in live <=> used[b] > 0

\* Storage holds a live value exactly from `fill` to `dispose`, so that every
\* constructed value is destroyed once.
FilledExact ==
  filled = InList(queue.first) \cup
             {node[t] : t \in {u \in Threads : pc[u] \in {"push", "pushing", "dispose"}}}

\* Nothing outlives its use or goes before: neither blocks nor values.
LifetimesExact == UsedExact /\ FilledExact

\* The lists are guarded: "allocate (blocking) ... push (blocking) ... pop
\* (blocking) ... free (blocking)" (lines 307-316).
Blocking ==
  \A t, u \in Threads : t # u =>
    /\ pc[t] \in {"pushing", "popping", "clearing"} =>
         pc[u] \notin {"pushing", "popping", "clearing"}
    /\ pc[t] \in {"allocating", "freeing", "clearing"} =>
         pc[u] \notin {"allocating", "freeing", "clearing"}

\* The linked list implements the ordered sequence: a push takes effect in
\* PushNode, a pop in PopNode or in a round of clear().
Pending == LET l == List(queue.first) IN [i \in DOMAIN l |-> entry[l[i]]]

Ordered == INSTANCE OrderedQueue WITH queue <- Pending

ImplementsOrderedQueue == Ordered!Spec
=============================================================================
