----------------------- MODULE ThreadPoolCancelProofs -----------------------
(***************************************************************************)
(* Proofs about a ThreadPool whose cancel() overlaps no perform() call     *)
(* (Racing = FALSE), for every set of workers, clients and tasks.  A raced *)
(* pool has none of these properties: run PoolRunAfterCancel.              *)
(***************************************************************************)
EXTENDS ThreadPoolProofs

\* Every task of a fresh pool is unanswered, and cancel() has closed nothing.
LEMMA CancelInit == Init => CancelInv
<1> SUFFICES ASSUME Init PROVE CancelInv
  OBVIOUS
<1>1. \A t \in Tasks : ~HeldByWorker(t) /\ ~HeldByClient(t)
  BY PoolAssumption DEF Init, HeldByWorker, HeldByClient
<1>2. Quiet /\ Closed
  BY DEF Init, Quiet, Closed
<1>3. AnswersKnown
  BY <1>1 DEF Init, AnswersKnown, Answers
<1>4. QED
  BY <1>2, <1>3 DEF CancelInv

\* Every step of an unraced pool keeps the account of its answers.
LEMMA CancelNext ==
  ASSUME ~Racing, IInv, CancelInv, Next
  PROVE  CancelInv'
<1> DEFINE Kept == CancelInv'
<1> USE PoolAssumption DEF IInv, TypeOK, Holding, WorkersAlive, WorkersStay,
      OneHolder, HeldIsSubmitted, HeldByWorker, HeldByClient, CancelInv, Quiet,
      Closed, AnswersKnown, Answers, Placed, contextVars, queueVars, workerVars,
      clientVars, cancelVars, taskVars, historyVars, GoWorker, GoClient
<1>1. ASSUME NEW w \in Workers, WorkerCheck(w) PROVE Kept
  BY <1>1 DEF WorkerCheck
<1>2. ASSUME NEW w \in Workers, WorkerPop(w) PROVE Kept
  BY <1>2 DEF WorkerPop, MostUrgent
<1>3. ASSUME NEW w \in Workers, WorkerPopNothing(w) PROVE Kept
  BY <1>3 DEF WorkerPopNothing
<1>4. ASSUME NEW w \in Workers, WorkerLock(w) PROVE Kept
  BY <1>4 DEF WorkerLock
<1>5. ASSUME NEW w \in Workers, WorkerReadFinalized(w) PROVE Kept
  BY <1>5 DEF WorkerReadFinalized
<1>6. ASSUME NEW w \in Workers, WorkerWait(w) PROVE Kept
  BY <1>6 DEF WorkerWait
<1>7. ASSUME NEW w \in Workers, WorkerWake(w) PROVE Kept
  BY <1>7 DEF WorkerWake
<1>8. ASSUME NEW w \in Workers, WorkerExecute(w) PROVE Kept
  BY <1>8 DEF WorkerExecute, Executed
<1>9. ASSUME NEW w \in Workers, WorkerDeliver(w) PROVE Kept
  BY <1>9 DEF WorkerDeliver, HandToComplete
<1>10. ASSUME NEW w \in Workers, WorkerDecrement(w) PROVE Kept
  BY <1>10 DEF WorkerDecrement
<1>11. ASSUME NEW w \in Workers, SpuriousWake(w) PROVE Kept
  BY <1>11 DEF SpuriousWake
<1>12. ASSUME NEW c \in Clients, PerformReadFlags(c) PROVE Kept
  BY <1>12 DEF PerformReadFlags
<1>13. ASSUME NEW c \in Clients, PerformReadLazyEmpty(c) PROVE Kept
  BY <1>13 DEF PerformReadLazyEmpty
<1>14. ASSUME NEW c \in Clients, SpawnLock(c) PROVE Kept
  BY <1>14 DEF SpawnLock
<1>15. ASSUME NEW c \in Clients, SpawnDone(c) PROVE Kept
  BY <1>15 DEF SpawnDone
<1>16. ASSUME NEW c \in Clients, PerformReadEmpty(c) PROVE Kept
  BY <1>16 DEF PerformReadEmpty
<1>17. ASSUME NEW c \in Clients, PerformPrepare(c) PROVE Kept
  BY <1>17 DEF PerformPrepare
<1>18. ASSUME NEW c \in Clients, PerformDecline(c) PROVE Kept
  BY <1>18 DEF PerformDecline, HandToComplete
<1>19. ASSUME NEW c \in Clients, PerformCount(c) PROVE Kept
  BY <1>19 DEF PerformCount
<1>20. ASSUME NEW c \in Clients, PerformPush(c) PROVE Kept
  BY <1>20 DEF PerformPush
<1>21. ASSUME NEW c \in Clients, PerformNotify(c) PROVE Kept
  BY <1>21 DEF PerformNotify, Waiting
<1>22. ASSUME NEW c \in Clients, NEW w \in Workers, SpawnOne(c, w) PROVE Kept
  BY <1>22 DEF SpawnOne
<1>23. ASSUME NEW c \in Clients, NEW t \in Tasks, PerformBegin(c, t) PROVE Kept
  BY <1>23 DEF PerformBegin
<1>24. ASSUME NEW c \in Clients, NEW t \in Tasks, PerformCompleted(c, t) PROVE Kept
  BY <1>24 DEF PerformCompleted, HandToComplete
<1>25. ASSUME CancelBegin PROVE Kept
  BY <1>25 DEF CancelBegin
<1>26. ASSUME CancelReadWorkers PROVE Kept
  BY <1>26 DEF CancelReadWorkers
<1>27. ASSUME CancelNotify PROVE Kept
  BY <1>27 DEF CancelNotify
<1>28. ASSUME CancelJoin PROVE Kept
  BY <1>28 DEF CancelJoin
<1>29. ASSUME CancelSweep PROVE Kept
  BY <1>29 DEF CancelSweep
<1>30. ASSUME CancelClear PROVE Kept
  BY <1>30 DEF CancelClear
<1>31. ASSUME CancelReset PROVE Kept
  BY <1>31 DEF CancelReset
<1>32. ASSUME NEW w \in Workers, CancelStop(w) PROVE Kept
  BY <1>32 DEF CancelStop
<1> HIDE DEF Kept
<1>33. Kept
  BY <1>1, <1>2, <1>3, <1>4, <1>5, <1>6, <1>7, <1>8, <1>9, <1>10,
     <1>11, <1>12, <1>13, <1>14, <1>15, <1>16, <1>17, <1>18, <1>19,
     <1>20, <1>21, <1>22, <1>23, <1>24, <1>25, <1>26, <1>27, <1>28,
     <1>29, <1>30, <1>31, <1>32
     DEF Next, WorkerStep, ClientStep, ClientCall, CancelStep
<1>34. QED
  BY <1>33 DEF Kept

\* The account of the answers stands in every behaviour of an unraced pool.
LEMMA CancelAlways == ~Racing => (Spec => [](IInv /\ CancelInv))
<1> SUFFICES ASSUME ~Racing PROVE Spec => [](IInv /\ CancelInv)
  OBVIOUS
<1>1. IInv /\ CancelInv /\ [Next]_vars => CancelInv'
  <2> SUFFICES ASSUME IInv, CancelInv, [Next]_vars PROVE CancelInv'
    OBVIOUS
  <2>1. CASE Next
    BY <2>1, CancelNext
  <2>2. CASE UNCHANGED vars
    BY <2>2 DEF CancelInv, Quiet, Closed, AnswersKnown, Answers, Placed,
       HeldByWorker, HeldByClient, vars, contextVars, queueVars, workerVars,
       clientVars, cancelVars, taskVars, historyVars
  <2>3. QED
    BY <2>1, <2>2
<1>2. QED
  BY CancelInit, <1>1, InvAlways, PTL DEF Spec

\* No task is answered twice: not by two workers, not by a worker and cancel(),
\* not by a refusing perform() and a worker.
THEOREM TasksAreAnsweredOnce == ~Racing => (Spec => []AnsweredOnce)
<1>1. IInv /\ CancelInv => AnsweredOnce
  <2> SUFFICES ASSUME IInv, CancelInv, NEW t \in Tasks
               PROVE  delivered[t] + completions[t] <= 1
    BY DEF AnsweredOnce
  <2> USE DEF CancelInv, AnswersKnown, Answers
  <2>1. CASE t \notin submitted
    BY <2>1
  <2>2. CASE t \in inputQueue
    BY <2>2
  <2>3. CASE HeldByWorker(t)
    BY <2>3, PoolAssumption DEF HeldByWorker
  <2>4. CASE HeldByClient(t)
    BY <2>4, PoolAssumption DEF HeldByClient
  <2>5. CASE t \in submitted /\ ~Placed(t)
    BY <2>5
  <2>6. QED
    BY <2>1, <2>2, <2>3, <2>4, <2>5 DEF Placed
<1>2. QED
  BY CancelAlways, <1>1, PTL

\* When cancel() has returned, the pool has no workers and no tasks, and every
\* task that was ever prepared has had exactly one answer.
THEOREM CancelIsComplete == ~Racing => (Spec => []CancelLeavesNothing)
<1>1. IInv /\ CancelInv => CancelLeavesNothing
  <2> SUFFICES ASSUME IInv, CancelInv, kpc = "idle", finalized
               PROVE  /\ workers = {} /\ inputQueue = {}
                      /\ \A t \in Tasks : ~HeldByWorker(t)
                      /\ \A t \in submitted : state[t] # "Initial" =>
                           delivered[t] + completions[t] = 1
    BY DEF CancelLeavesNothing
  <2>1. workers = {} /\ inputQueue = {}
    BY DEF CancelInv, Closed
  <2>2. \A t \in Tasks : ~HeldByWorker(t)
    BY <2>1, PoolAssumption DEF IInv, Holding, WorkersAlive, HeldByWorker
  <2>3. \A t \in Tasks : ~HeldByClient(t)
    BY PoolAssumption DEF CancelInv, Quiet, IInv, Holding, HeldByClient
  <2>4. \A t \in submitted : t \in Tasks /\ ~Placed(t)
    BY <2>1, <2>2, <2>3 DEF Placed, IInv, TypeOK
  <2>5. QED
    BY <2>1, <2>2, <2>4 DEF CancelInv, AnswersKnown, Answers
<1>2. QED
  BY CancelAlways, <1>1, PTL

\* Nobody calls the complete interface after cancel() has set it to null.
THEOREM CompleteIsNotNull == ~Racing => (Spec => []NoNullComplete)
<1>1. CancelInv => NoNullComplete
  BY DEF CancelInv, Closed, NoNullComplete
<1>2. QED
  BY CancelAlways, <1>1, PTL

\* A pool that cancel() has returned from starts no worker, lazy or not: the
\* promise of the comment in cancel(), for a caller that does not race it.
THEOREM NothingRunsAfterCancel == ~Racing => (Spec => NoRunAfterCancel)
<1> DEFINE Sealed ==
      [finalized /\ kpc = "idle" => workers' \subseteq workers]_<<finalized, kpc, workers>>
<1>1. IInv /\ CancelInv /\ [Next]_vars => Sealed
  <2> SUFFICES ASSUME IInv, CancelInv, [Next]_vars, finalized, kpc = "idle"
               PROVE  workers' \subseteq workers
    BY Zenon
  <2> USE DEF CancelInv, Quiet, contextVars, queueVars, workerVars, clientVars,
        cancelVars, taskVars, historyVars, GoClient
  <2>1. ASSUME NEW w \in Workers, WorkerStep(w) \/ SpuriousWake(w)
        PROVE  UNCHANGED workers
    BY <2>1 DEF WorkerStep, SpuriousWake, WorkerCheck, WorkerPop,
       WorkerPopNothing, WorkerLock, WorkerReadFinalized, WorkerWait,
       WorkerWake, WorkerExecute, WorkerDeliver, WorkerDecrement
  <2>2. ASSUME NEW c \in Clients PROVE ~ClientStep(c)
    BY DEF ClientStep, PerformReadFlags, PerformReadLazyEmpty, SpawnLock,
       SpawnOne, SpawnDone, PerformReadEmpty, PerformPrepare, PerformDecline,
       PerformCount, PerformPush, PerformNotify
  <2>3. ASSUME NEW c \in Clients, ClientCall(c) PROVE UNCHANGED workers
    BY <2>3 DEF ClientCall, PerformBegin, PerformCompleted
  <2>4. CASE CancelBegin
    BY <2>4 DEF CancelBegin
  <2>5. ~CancelStep
    BY DEF CancelStep, CancelReadWorkers, CancelStop, CancelNotify, CancelJoin,
       CancelSweep, CancelClear, CancelReset
  <2>6. CASE UNCHANGED vars
    BY <2>6 DEF vars
  <2>7. QED
    BY <2>1, <2>2, <2>3, <2>4, <2>5, <2>6 DEF Next
<1>2. QED
  BY CancelAlways, <1>1, PTL DEF Spec, NoRunAfterCancel
=============================================================================
