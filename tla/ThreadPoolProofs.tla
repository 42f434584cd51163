-------------------------- MODULE ThreadPoolProofs --------------------------
(***************************************************************************)
(* Proofs about ThreadPool for every set of workers, clients and tasks,    *)
(* and for both values of Racing.                                          *)
(***************************************************************************)
EXTENDS ThreadPool, FiniteSetTheorems, TLAPS

\* A pool fresh from ThreadPool::init has its types.
LEMMA TypeInit == Init => TypeOK
<1> SUFFICES ASSUME Init PROVE TypeOK
  OBVIOUS
<1>1. wpc \in [Workers -> WorkerPc]
  BY DEF Init, WorkerPc
<1>2. workers \in SUBSET Workers
  BY DEF Init
<1>3. finalized \in BOOLEAN /\ lazyInit \in BOOLEAN /\ complete \in BOOLEAN
      /\ fault \in BOOLEAN
  BY Zenon DEF Init
<1>4. QED
  BY <1>1, <1>2, <1>3 DEF Init, TypeOK, ClientPc, CancelPc, TaskState

\* A call of the complete interface changes two histories only.
LEMMA HandToCompleteType ==
  ASSUME TypeOK, NEW t \in Tasks, HandToComplete(t)
  PROVE  fault' \in BOOLEAN /\ delivered' \in [Tasks -> Nat]
<1>1. CASE complete /\ delivered' = [delivered EXCEPT ![t] = @ + 1]
           /\ UNCHANGED fault
  <2>1. delivered' \in [Tasks -> Nat]
    BY <1>1 DEF TypeOK
  <2>2. QED
    BY <1>1, <2>1, Zenon DEF TypeOK
<1>2. CASE ~complete /\ fault' = TRUE /\ UNCHANGED delivered
  BY <1>2 DEF TypeOK
<1>3. QED
  BY <1>1, <1>2 DEF HandToComplete

\* No step of a worker breaks the types.
LEMMA TypeWorker ==
  ASSUME TypeOK, Holding, NEW w \in Workers, WorkerStep(w) \/ SpuriousWake(w)
  PROVE  TypeOK'
<1> USE PoolAssumption DEF TypeOK, contextVars, queueVars, workerVars,
      clientVars, cancelVars, taskVars, historyVars, GoWorker, WorkerPc
<1>1. CASE WorkerCheck(w)
  BY <1>1 DEF WorkerCheck
<1>2. CASE WorkerPop(w)
  BY <1>2 DEF WorkerPop, MostUrgent
<1>3. CASE WorkerPopNothing(w)
  BY <1>3 DEF WorkerPopNothing
<1>4. CASE WorkerLock(w)
  BY <1>4 DEF WorkerLock
<1>5. CASE WorkerReadFinalized(w)
  BY <1>5 DEF WorkerReadFinalized
<1>6. CASE WorkerWait(w)
  BY <1>6 DEF WorkerWait
<1>7. CASE WorkerWake(w)
  BY <1>7 DEF WorkerWake
<1>8. CASE WorkerExecute(w)
  BY <1>8 DEF WorkerExecute, Executed, TaskState
<1>9. CASE WorkerDeliver(w)
  <2>1. wtask[w] \in Tasks
    BY <1>9 DEF WorkerDeliver, Holding
  <2>2. fault' \in BOOLEAN /\ delivered' \in [Tasks -> Nat]
    BY <1>9, <2>1, HandToCompleteType DEF WorkerDeliver
  <2>3. QED
    BY <1>9, <2>2 DEF WorkerDeliver
<1>10. CASE WorkerDecrement(w)
  BY <1>10 DEF WorkerDecrement
<1>11. CASE SpuriousWake(w)
  BY <1>11 DEF SpuriousWake
<1>12. QED
  BY <1>1, <1>2, <1>3, <1>4, <1>5, <1>6, <1>7, <1>8, <1>9, <1>10, <1>11
     DEF WorkerStep

\* No step of a perform() or performCompleted() call breaks the types.
LEMMA TypeClient ==
  ASSUME TypeOK, Holding, NEW c \in Clients, ClientStep(c) \/ ClientCall(c)
  PROVE  TypeOK'
<1> USE PoolAssumption DEF TypeOK, contextVars, queueVars, workerVars,
      clientVars, cancelVars, taskVars, historyVars, GoClient, ClientPc
<1>1. CASE PerformReadFlags(c)
  BY <1>1 DEF PerformReadFlags
<1>2. CASE PerformReadLazyEmpty(c)
  BY <1>2 DEF PerformReadLazyEmpty
<1>3. CASE SpawnLock(c)
  BY <1>3 DEF SpawnLock
<1>4. ASSUME NEW w \in Workers, SpawnOne(c, w) PROVE TypeOK'
  BY <1>4 DEF SpawnOne, WorkerPc
<1>5. CASE SpawnDone(c)
  BY <1>5 DEF SpawnDone
<1>6. CASE PerformReadEmpty(c)
  BY <1>6 DEF PerformReadEmpty
<1>7. CASE PerformPrepare(c)
  BY <1>7 DEF PerformPrepare, TaskState
<1>8. CASE PerformDecline(c)
  <2>1. ctask[c] \in Tasks
    BY <1>8 DEF PerformDecline, Holding
  <2>2. fault' \in BOOLEAN /\ delivered' \in [Tasks -> Nat]
    BY <1>8, <2>1, HandToCompleteType DEF PerformDecline
  <2>3. QED
    BY <1>8, <2>2 DEF PerformDecline
<1>9. CASE PerformCount(c)
  BY <1>9 DEF PerformCount
<1>10. CASE PerformPush(c)
  <2>1. ctask[c] \in Tasks
    BY <1>10 DEF PerformPush, Holding
  <2>2. QED
    BY <1>10, <2>1 DEF PerformPush
<1>11. CASE PerformNotify(c)
  BY <1>11 DEF PerformNotify, WorkerPc, Waiting
<1>12. ASSUME NEW t \in Tasks, PerformBegin(c, t) PROVE TypeOK'
  BY <1>12 DEF PerformBegin
<1>13. ASSUME NEW t \in Tasks, PerformCompleted(c, t) PROVE TypeOK'
  <2>1. fault' \in BOOLEAN /\ delivered' \in [Tasks -> Nat]
    BY <1>13, HandToCompleteType DEF PerformCompleted
  <2>2. QED
    BY <1>13, <2>1 DEF PerformCompleted
<1>14. QED
  BY <1>1, <1>2, <1>3, <1>4, <1>5, <1>6, <1>7, <1>8, <1>9, <1>10, <1>11,
     <1>12, <1>13 DEF ClientStep, ClientCall

\* No step of cancel() breaks the types.
LEMMA TypeCancel ==
  ASSUME TypeOK, CancelBegin \/ CancelStep
  PROVE  TypeOK'
<1> USE PoolAssumption DEF TypeOK, contextVars, queueVars, workerVars,
      clientVars, cancelVars, taskVars, historyVars, CancelPc
<1>1. CASE CancelBegin
  BY <1>1 DEF CancelBegin
<1>2. CASE CancelReadWorkers
  BY <1>2 DEF CancelReadWorkers
<1>3. ASSUME NEW w \in Workers, CancelStop(w) PROVE TypeOK'
  BY <1>3 DEF CancelStop
<1>4. CASE CancelNotify
  BY <1>4 DEF CancelNotify, WorkerPc
<1>5. CASE CancelJoin
  BY <1>5 DEF CancelJoin, WorkerPc
<1>6. CASE CancelSweep
  BY <1>6 DEF CancelSweep, TaskState
<1>7. CASE CancelClear
  BY <1>7 DEF CancelClear
<1>8. CASE CancelReset
  BY <1>8 DEF CancelReset
<1>9. QED
  BY <1>1, <1>2, <1>3, <1>4, <1>5, <1>6, <1>7, <1>8 DEF CancelStep

\* Where the threads are, what they hold, and who owns the mutex.
LEMMA ControlStep ==
  ASSUME TypeOK, Holding, MutexOwner, WorkersAlive, Next
  PROVE  Holding' /\ MutexOwner' /\ WorkersAlive'
<1> DEFINE Kept == Holding' /\ MutexOwner' /\ WorkersAlive'
<1> USE PoolAssumption DEF TypeOK, Holding, MutexOwner, WorkersAlive, contextVars, queueVars,
      workerVars, clientVars, cancelVars, taskVars, historyVars,
      GoWorker, GoClient
<1>1. ASSUME NEW w \in Workers, WorkerCheck(w) PROVE Kept
  BY <1>1 DEF WorkerCheck
<1>2. ASSUME NEW w \in Workers, WorkerPop(w) PROVE Kept
  BY <1>2 DEF WorkerPop, MostUrgent
<1>3. ASSUME NEW w \in Workers, WorkerPopNothing(w) PROVE Kept
  BY <1>3 DEF WorkerPopNothing
<1>4. ASSUME NEW w \in Workers, WorkerLock(w) PROVE Kept
  BY <1>4 DEF WorkerLock
<1>5. ASSUME NEW w \in Workers, WorkerReadFinalized(w) PROVE Kept
  BY <1>5 DEF WorkerReadFinalized
<1>6. ASSUME NEW w \in Workers, WorkerWait(w) PROVE Kept
  BY <1>6 DEF WorkerWait
<1>7. ASSUME NEW w \in Workers, WorkerWake(w) PROVE Kept
  BY <1>7 DEF WorkerWake
<1>8. ASSUME NEW w \in Workers, WorkerExecute(w) PROVE Kept
  BY <1>8 DEF WorkerExecute
<1>9. ASSUME NEW w \in Workers, WorkerDeliver(w) PROVE Kept
  BY <1>9 DEF WorkerDeliver, HandToComplete
<1>10. ASSUME NEW w \in Workers, WorkerDecrement(w) PROVE Kept
  BY <1>10 DEF WorkerDecrement
<1>11. ASSUME NEW w \in Workers, SpuriousWake(w) PROVE Kept
  BY <1>11 DEF SpuriousWake
<1>12. ASSUME NEW c \in Clients, PerformReadFlags(c) PROVE Kept
  BY <1>12 DEF PerformReadFlags
<1>13. ASSUME NEW c \in Clients, PerformReadLazyEmpty(c) PROVE Kept
  BY <1>13 DEF PerformReadLazyEmpty
<1>14. ASSUME NEW c \in Clients, SpawnLock(c) PROVE Kept
  BY <1>14 DEF SpawnLock
<1>15. ASSUME NEW c \in Clients, SpawnDone(c) PROVE Kept
  BY <1>15 DEF SpawnDone
<1>16. ASSUME NEW c \in Clients, PerformReadEmpty(c) PROVE Kept
  BY <1>16 DEF PerformReadEmpty
<1>17. ASSUME NEW c \in Clients, PerformPrepare(c) PROVE Kept
  BY <1>17 DEF PerformPrepare
<1>18. ASSUME NEW c \in Clients, PerformDecline(c) PROVE Kept
  BY <1>18 DEF PerformDecline, HandToComplete
<1>19. ASSUME NEW c \in Clients, PerformCount(c) PROVE Kept
  BY <1>19 DEF PerformCount
<1>20. ASSUME NEW c \in Clients, PerformPush(c) PROVE Kept
  BY <1>20 DEF PerformPush
<1>21. ASSUME NEW c \in Clients, PerformNotify(c) PROVE Kept
  BY <1>21 DEF PerformNotify, Waiting
<1>22. ASSUME NEW c \in Clients, NEW w \in Workers, SpawnOne(c, w) PROVE Kept
  BY <1>22 DEF SpawnOne
<1>23. ASSUME NEW c \in Clients, NEW t \in Tasks, PerformBegin(c, t) PROVE Kept
  BY <1>23 DEF PerformBegin
<1>24. ASSUME NEW c \in Clients, NEW t \in Tasks, PerformCompleted(c, t) PROVE Kept
  BY <1>24 DEF PerformCompleted, HandToComplete
<1>25. CASE CancelBegin
  BY <1>25 DEF CancelBegin
<1>26. CASE CancelReadWorkers
  BY <1>26 DEF CancelReadWorkers
<1>27. CASE CancelNotify
  BY <1>27 DEF CancelNotify
<1>28. CASE CancelJoin
  BY <1>28 DEF CancelJoin
<1>29. CASE CancelSweep
  BY <1>29 DEF CancelSweep
<1>30. CASE CancelClear
  BY <1>30 DEF CancelClear
<1>31. CASE CancelReset
  BY <1>31 DEF CancelReset
<1>32. ASSUME NEW w \in Workers, CancelStop(w) PROVE Kept
  BY <1>32 DEF CancelStop
<1>33. QED
  BY <1>1, <1>2, <1>3, <1>4, <1>5, <1>6, <1>7, <1>8, <1>9, <1>10, <1>11,
     <1>12, <1>13, <1>14, <1>15, <1>16, <1>17, <1>18, <1>19, <1>20, <1>21,
     <1>22, <1>23, <1>24, <1>25, <1>26, <1>27, <1>28, <1>29, <1>30, <1>31,
     <1>32
     DEF Next, WorkerStep, ClientStep, ClientCall, CancelStep

\* A task stays in one place.
LEMMA HolderStep ==
  ASSUME TypeOK, Holding, HeldIsSubmitted, OneHolder, Next
  PROVE  HeldIsSubmitted' /\ OneHolder'
<1> DEFINE Kept == HeldIsSubmitted' /\ OneHolder'
<1> USE PoolAssumption DEF TypeOK, Holding, HeldIsSubmitted, OneHolder, HeldByWorker, HeldByClient, contextVars, queueVars,
      workerVars, clientVars, cancelVars, taskVars, historyVars,
      GoWorker, GoClient
<1>1. ASSUME NEW w \in Workers, WorkerCheck(w) PROVE Kept
  BY <1>1 DEF WorkerCheck
<1>2. ASSUME NEW w \in Workers, WorkerPop(w) PROVE Kept
  BY <1>2 DEF WorkerPop, MostUrgent
<1>3. ASSUME NEW w \in Workers, WorkerPopNothing(w) PROVE Kept
  BY <1>3 DEF WorkerPopNothing
<1>4. ASSUME NEW w \in Workers, WorkerLock(w) PROVE Kept
  BY <1>4 DEF WorkerLock
<1>5. ASSUME NEW w \in Workers, WorkerReadFinalized(w) PROVE Kept
  BY <1>5 DEF WorkerReadFinalized
<1>6. ASSUME NEW w \in Workers, WorkerWait(w) PROVE Kept
  BY <1>6 DEF WorkerWait
<1>7. ASSUME NEW w \in Workers, WorkerWake(w) PROVE Kept
  BY <1>7 DEF WorkerWake
<1>8. ASSUME NEW w \in Workers, WorkerExecute(w) PROVE Kept
  BY <1>8 DEF WorkerExecute
<1>9. ASSUME NEW w \in Workers, WorkerDeliver(w) PROVE Kept
  BY <1>9 DEF WorkerDeliver, HandToComplete
<1>10. ASSUME NEW w \in Workers, WorkerDecrement(w) PROVE Kept
  BY <1>10 DEF WorkerDecrement
<1>11. ASSUME NEW w \in Workers, SpuriousWake(w) PROVE Kept
  BY <1>11 DEF SpuriousWake
<1>12. ASSUME NEW c \in Clients, PerformReadFlags(c) PROVE Kept
  BY <1>12 DEF PerformReadFlags
<1>13. ASSUME NEW c \in Clients, PerformReadLazyEmpty(c) PROVE Kept
  BY <1>13 DEF PerformReadLazyEmpty
<1>14. ASSUME NEW c \in Clients, SpawnLock(c) PROVE Kept
  BY <1>14 DEF SpawnLock
<1>15. ASSUME NEW c \in Clients, SpawnDone(c) PROVE Kept
  BY <1>15 DEF SpawnDone
<1>16. ASSUME NEW c \in Clients, PerformReadEmpty(c) PROVE Kept
  BY <1>16 DEF PerformReadEmpty
<1>17. ASSUME NEW c \in Clients, PerformPrepare(c) PROVE Kept
  BY <1>17 DEF PerformPrepare
<1>18. ASSUME NEW c \in Clients, PerformDecline(c) PROVE Kept
  BY <1>18 DEF PerformDecline, HandToComplete
<1>19. ASSUME NEW c \in Clients, PerformCount(c) PROVE Kept
  BY <1>19 DEF PerformCount
<1>20. ASSUME NEW c \in Clients, PerformPush(c) PROVE Kept
  BY <1>20 DEF PerformPush
<1>21. ASSUME NEW c \in Clients, PerformNotify(c) PROVE Kept
  BY <1>21 DEF PerformNotify, Waiting
<1>22. ASSUME NEW c \in Clients, NEW w \in Workers, SpawnOne(c, w) PROVE Kept
  BY <1>22 DEF SpawnOne
<1>23. ASSUME NEW c \in Clients, NEW t \in Tasks, PerformBegin(c, t) PROVE Kept
  BY <1>23 DEF PerformBegin
<1>24. ASSUME NEW c \in Clients, NEW t \in Tasks, PerformCompleted(c, t) PROVE Kept
  BY <1>24 DEF PerformCompleted, HandToComplete
<1>25. CASE CancelBegin
  BY <1>25 DEF CancelBegin
<1>26. CASE CancelReadWorkers
  BY <1>26 DEF CancelReadWorkers
<1>27. CASE CancelNotify
  BY <1>27 DEF CancelNotify
<1>28. CASE CancelJoin
  BY <1>28 DEF CancelJoin
<1>29. CASE CancelSweep
  BY <1>29 DEF CancelSweep
<1>30. CASE CancelClear
  BY <1>30 DEF CancelClear
<1>31. CASE CancelReset
  BY <1>31 DEF CancelReset
<1>32. ASSUME NEW w \in Workers, CancelStop(w) PROVE Kept
  BY <1>32 DEF CancelStop
<1>33. QED
  BY <1>1, <1>2, <1>3, <1>4, <1>5, <1>6, <1>7, <1>8, <1>9, <1>10, <1>11,
     <1>12, <1>13, <1>14, <1>15, <1>16, <1>17, <1>18, <1>19, <1>20, <1>21,
     <1>22, <1>23, <1>24, <1>25, <1>26, <1>27, <1>28, <1>29, <1>30, <1>31,
     <1>32
     DEF Next, WorkerStep, ClientStep, ClientCall, CancelStep

\* The counted tasks are finitely many, and 0 means that nothing is queued.
LEMMA CountedFinite ==
  ASSUME TypeOK
  PROVE  /\ IsFiniteSet(Counted) /\ Cardinality(Counted) \in Nat
         /\ Cardinality(Counted) = 0 => inputQueue = {}
<1>1. IsFiniteSet(Counted)
  BY PoolAssumption, FS_Subset DEF Counted
<1>2. Cardinality(Counted) \in Nat
  BY <1>1, FS_CardinalityType
<1>3. inputQueue \subseteq Counted
  BY DEF TypeOK, Counted
<1>4. QED
  BY <1>1, <1>2, <1>3, FS_EmptySet

\* Taking one of the counted tasks away leaves one fewer: the step of --tasksCounter.
LEMMA CountedRemove ==
  ASSUME TypeOK, NEW t \in Counted
  PROVE  Cardinality(Counted \ {t}) = Cardinality(Counted) - 1
  BY CountedFinite, FS_RemoveElement

\* A task that was not counted adds one: the step of ++tasksCounter.
LEMMA CountedAdd ==
  ASSUME TypeOK, NEW t, t \notin Counted
  PROVE  Cardinality(Counted \cup {t}) = Cardinality(Counted) + 1
  BY CountedFinite, FS_AddElement

\* tasksCounter moves exactly when a task enters or leaves the counted ones.
LEMMA CounterStep ==
  ASSUME TypeOK, Holding, HeldIsSubmitted, OneHolder, CounterExact, Next
  PROVE  CounterExact'
<1> DEFINE Same == Counted' = Counted /\ UNCHANGED tasksCounter
<1>0. Same => CounterExact'
  BY DEF CounterExact
<1> USE PoolAssumption DEF TypeOK, Holding, OneHolder, Counted, HeldByWorker,
      HeldByClient, contextVars, queueVars, workerVars, clientVars,
      cancelVars, taskVars, historyVars, GoWorker, GoClient
<1>1. ASSUME NEW w \in Workers, WorkerCheck(w) PROVE Same
  BY <1>1 DEF WorkerCheck
<1>2. ASSUME NEW w \in Workers, WorkerPop(w) PROVE Same
  BY <1>2 DEF WorkerPop, MostUrgent
<1>3. ASSUME NEW w \in Workers, WorkerPopNothing(w) PROVE Same
  BY <1>3 DEF WorkerPopNothing
<1>4. ASSUME NEW w \in Workers, WorkerLock(w) PROVE Same
  BY <1>4 DEF WorkerLock
<1>5. ASSUME NEW w \in Workers, WorkerReadFinalized(w) PROVE Same
  BY <1>5 DEF WorkerReadFinalized
<1>6. ASSUME NEW w \in Workers, WorkerWait(w) PROVE Same
  BY <1>6 DEF WorkerWait
<1>7. ASSUME NEW w \in Workers, WorkerWake(w) PROVE Same
  BY <1>7 DEF WorkerWake
<1>8. ASSUME NEW w \in Workers, WorkerExecute(w) PROVE Same
  BY <1>8 DEF WorkerExecute
<1>9. ASSUME NEW w \in Workers, WorkerDeliver(w) PROVE Same
  BY <1>9 DEF WorkerDeliver, HandToComplete
<1>10. ASSUME NEW w \in Workers, WorkerDecrement(w) PROVE CounterExact'
  <2>1. Counted' = Counted \ {wtask[w]} /\ wtask[w] \in Counted
    BY <1>10 DEF WorkerDecrement
  <2>2. Cardinality(Counted \ {wtask[w]}) = Cardinality(Counted) - 1
    BY <2>1, CountedRemove
  <2>3. QED
    BY <1>10, <2>1, <2>2 DEF WorkerDecrement, CounterExact
<1>11. ASSUME NEW w \in Workers, SpuriousWake(w) PROVE Same
  BY <1>11 DEF SpuriousWake
<1>12. ASSUME NEW c \in Clients, PerformReadFlags(c) PROVE Same
  BY <1>12 DEF PerformReadFlags
<1>13. ASSUME NEW c \in Clients, PerformReadLazyEmpty(c) PROVE Same
  BY <1>13 DEF PerformReadLazyEmpty
<1>14. ASSUME NEW c \in Clients, SpawnLock(c) PROVE Same
  BY <1>14 DEF SpawnLock
<1>15. ASSUME NEW c \in Clients, SpawnDone(c) PROVE Same
  BY <1>15 DEF SpawnDone
<1>16. ASSUME NEW c \in Clients, PerformReadEmpty(c) PROVE Same
  BY <1>16 DEF PerformReadEmpty
<1>17. ASSUME NEW c \in Clients, PerformPrepare(c) PROVE Same
  BY <1>17 DEF PerformPrepare
<1>18. ASSUME NEW c \in Clients, PerformDecline(c) PROVE Same
  BY <1>18 DEF PerformDecline, HandToComplete
<1>19. ASSUME NEW c \in Clients, PerformCount(c) PROVE CounterExact'
  <2>1. Counted' = Counted \cup {ctask[c]} /\ ctask[c] \notin Counted
    BY <1>19 DEF PerformCount
  <2>2. Cardinality(Counted \cup {ctask[c]}) = Cardinality(Counted) + 1
    BY <2>1, CountedAdd
  <2>3. QED
    BY <1>19, <2>1, <2>2 DEF PerformCount, CounterExact
<1>20. ASSUME NEW c \in Clients, PerformPush(c) PROVE Same
  BY <1>20 DEF PerformPush
<1>21. ASSUME NEW c \in Clients, PerformNotify(c) PROVE Same
  BY <1>21 DEF PerformNotify, Waiting
<1>22. ASSUME NEW c \in Clients, NEW w \in Workers, SpawnOne(c, w) PROVE Same
  BY <1>22 DEF SpawnOne
<1>23. ASSUME NEW c \in Clients, NEW t \in Tasks, PerformBegin(c, t) PROVE Same
  BY <1>23 DEF PerformBegin
<1>24. ASSUME NEW c \in Clients, NEW t \in Tasks, PerformCompleted(c, t) PROVE Same
  BY <1>24 DEF PerformCompleted, HandToComplete
<1>25. ASSUME CancelBegin PROVE Same
  BY <1>25 DEF CancelBegin
<1>26. ASSUME CancelReadWorkers PROVE Same
  BY <1>26 DEF CancelReadWorkers
<1>27. ASSUME CancelNotify PROVE Same
  BY <1>27 DEF CancelNotify
<1>28. ASSUME CancelJoin PROVE Same
  BY <1>28 DEF CancelJoin
<1>29. ASSUME CancelSweep PROVE Same
  BY <1>29 DEF CancelSweep
<1>30. ASSUME CancelClear PROVE Same
  BY <1>30 DEF CancelClear
<1>31. ASSUME CancelReset PROVE Same
  BY <1>31 DEF CancelReset
<1>32. ASSUME NEW w \in Workers, CancelStop(w) PROVE Same
  BY <1>32 DEF CancelStop
<1>33. QED
  BY <1>0, <1>1, <1>2, <1>3, <1>4, <1>5, <1>6, <1>7, <1>8, <1>9, <1>10, <1>11,
     <1>12, <1>13, <1>14, <1>15, <1>16, <1>17, <1>18, <1>19, <1>20, <1>21,
     <1>22, <1>23, <1>24, <1>25, <1>26, <1>27, <1>28, <1>29, <1>30, <1>31,
     <1>32
     DEF Next, WorkerStep, ClientStep, ClientCall, CancelStep

\* Nobody sleeps on a queued task.
LEMMA WakeStep ==
  ASSUME TypeOK, MutexOwner, WorkersAlive, SleepyQueueEmpty,
         WorkersStay, CounterExact, NoLostWakeup, Next
  PROVE  SleepyQueueEmpty' /\ WorkersStay' /\ NoLostWakeup'
<1> DEFINE Kept == SleepyQueueEmpty' /\ WorkersStay' /\ NoLostWakeup'
<1> USE PoolAssumption DEF TypeOK, MutexOwner, WorkersAlive, SleepyQueueEmpty, WorkersStay,
      NoLostWakeup, contextVars, queueVars,
      workerVars, clientVars, cancelVars, taskVars, historyVars,
      GoWorker, GoClient
<1>1. ASSUME NEW w \in Workers, WorkerCheck(w) PROVE Kept
  BY <1>1 DEF WorkerCheck
<1>2. ASSUME NEW w \in Workers, WorkerPop(w) PROVE Kept
  BY <1>2 DEF WorkerPop, MostUrgent
<1>3. ASSUME NEW w \in Workers, WorkerPopNothing(w) PROVE Kept
  BY <1>3 DEF WorkerPopNothing
<1>4. ASSUME NEW w \in Workers, WorkerLock(w) PROVE Kept
  <2>1. tasksCounter <= 0 => inputQueue = {}
    BY CountedFinite DEF CounterExact
  <2>2. QED
    BY <1>4, <2>1 DEF WorkerLock
<1>5. ASSUME NEW w \in Workers, WorkerReadFinalized(w) PROVE Kept
  BY <1>5 DEF WorkerReadFinalized
<1>6. ASSUME NEW w \in Workers, WorkerWait(w) PROVE Kept
  BY <1>6 DEF WorkerWait
<1>7. ASSUME NEW w \in Workers, WorkerWake(w) PROVE Kept
  BY <1>7 DEF WorkerWake
<1>8. ASSUME NEW w \in Workers, WorkerExecute(w) PROVE Kept
  BY <1>8 DEF WorkerExecute
<1>9. ASSUME NEW w \in Workers, WorkerDeliver(w) PROVE Kept
  BY <1>9 DEF WorkerDeliver, HandToComplete
<1>10. ASSUME NEW w \in Workers, WorkerDecrement(w) PROVE Kept
  BY <1>10 DEF WorkerDecrement
<1>11. ASSUME NEW w \in Workers, SpuriousWake(w) PROVE Kept
  BY <1>11 DEF SpuriousWake
<1>12. ASSUME NEW c \in Clients, PerformReadFlags(c) PROVE Kept
  BY <1>12 DEF PerformReadFlags
<1>13. ASSUME NEW c \in Clients, PerformReadLazyEmpty(c) PROVE Kept
  BY <1>13 DEF PerformReadLazyEmpty
<1>14. ASSUME NEW c \in Clients, SpawnLock(c) PROVE Kept
  BY <1>14 DEF SpawnLock
<1>15. ASSUME NEW c \in Clients, SpawnDone(c) PROVE Kept
  BY <1>15 DEF SpawnDone
<1>16. ASSUME NEW c \in Clients, PerformReadEmpty(c) PROVE Kept
  BY <1>16 DEF PerformReadEmpty
<1>17. ASSUME NEW c \in Clients, PerformPrepare(c) PROVE Kept
  BY <1>17 DEF PerformPrepare
<1>18. ASSUME NEW c \in Clients, PerformDecline(c) PROVE Kept
  BY <1>18 DEF PerformDecline, HandToComplete
<1>19. ASSUME NEW c \in Clients, PerformCount(c) PROVE Kept
  BY <1>19 DEF PerformCount
<1>20. ASSUME NEW c \in Clients, PerformPush(c) PROVE Kept
  BY <1>20 DEF PerformPush
<1>21. ASSUME NEW c \in Clients, PerformNotify(c) PROVE Kept
  BY <1>21 DEF PerformNotify, Waiting
<1>22. ASSUME NEW c \in Clients, NEW w \in Workers, SpawnOne(c, w) PROVE Kept
  BY <1>22 DEF SpawnOne
<1>23. ASSUME NEW c \in Clients, NEW t \in Tasks, PerformBegin(c, t) PROVE Kept
  BY <1>23 DEF PerformBegin
<1>24. ASSUME NEW c \in Clients, NEW t \in Tasks, PerformCompleted(c, t) PROVE Kept
  BY <1>24 DEF PerformCompleted, HandToComplete
<1>25. CASE CancelBegin
  BY <1>25 DEF CancelBegin
<1>26. CASE CancelReadWorkers
  BY <1>26 DEF CancelReadWorkers
<1>27. CASE CancelNotify
  BY <1>27 DEF CancelNotify
<1>28. CASE CancelJoin
  BY <1>28 DEF CancelJoin
<1>29. CASE CancelSweep
  BY <1>29 DEF CancelSweep
<1>30. CASE CancelClear
  BY <1>30 DEF CancelClear
<1>31. CASE CancelReset
  BY <1>31 DEF CancelReset
<1>32. ASSUME NEW w \in Workers, CancelStop(w) PROVE Kept
  BY <1>32 DEF CancelStop
<1>33. QED
  BY <1>1, <1>2, <1>3, <1>4, <1>5, <1>6, <1>7, <1>8, <1>9, <1>10, <1>11,
     <1>12, <1>13, <1>14, <1>15, <1>16, <1>17, <1>18, <1>19, <1>20, <1>21,
     <1>22, <1>23, <1>24, <1>25, <1>26, <1>27, <1>28, <1>29, <1>30, <1>31,
     <1>32
     DEF Next, WorkerStep, ClientStep, ClientCall, CancelStep

\* The inductive invariant holds of a fresh pool.
LEMMA InvInit == Init => IInv
<1> SUFFICES ASSUME Init PROVE IInv
  OBVIOUS
<1>1. TypeOK
  BY TypeInit
<1>2. Holding /\ HeldIsSubmitted /\ OneHolder
  BY PoolAssumption DEF Init, Holding, HeldIsSubmitted, OneHolder,
     HeldByWorker, HeldByClient
<1>3. MutexOwner /\ WorkersAlive /\ SleepyQueueEmpty /\ WorkersStay
  BY PoolAssumption DEF Init, MutexOwner, WorkersAlive, SleepyQueueEmpty,
     WorkersStay
<1>4. Counted = {}
  BY PoolAssumption DEF Init, Counted, HeldByWorker
<1>5. CounterExact
  BY <1>4, FS_EmptySet DEF Init, CounterExact
<1>6. NoLostWakeup
  BY DEF Init, NoLostWakeup
<1>7. QED
  BY <1>1, <1>2, <1>3, <1>5, <1>6 DEF IInv

\* Every step of workers, callers and cancel() keeps the inductive invariant.
LEMMA InvStep == IInv /\ [Next]_vars => IInv'
<1> SUFFICES ASSUME IInv, [Next]_vars PROVE IInv'
  OBVIOUS
<1>1. CASE Next
  <2>1. TypeOK'
    BY <1>1, TypeWorker, TypeClient, TypeCancel DEF Next, IInv
  <2>2. Holding' /\ MutexOwner' /\ WorkersAlive'
    BY <1>1, ControlStep DEF IInv
  <2>3. HeldIsSubmitted' /\ OneHolder'
    BY <1>1, HolderStep DEF IInv
  <2>4. CounterExact'
    BY <1>1, CounterStep DEF IInv
  <2>5. SleepyQueueEmpty' /\ WorkersStay' /\ NoLostWakeup'
    BY <1>1, WakeStep DEF IInv
  <2>6. QED
    BY <2>1, <2>2, <2>3, <2>4, <2>5 DEF IInv
<1>2. CASE UNCHANGED vars
  BY <1>2 DEF IInv, TypeOK, Holding, HeldIsSubmitted, OneHolder, MutexOwner,
     WorkersAlive, SleepyQueueEmpty, WorkersStay, CounterExact, NoLostWakeup,
     Counted, HeldByWorker, HeldByClient, vars, contextVars, queueVars,
     workerVars, clientVars, cancelVars, taskVars, historyVars
<1>3. QED
  BY <1>1, <1>2

\* The inductive invariant holds in every behaviour, raced or not.
LEMMA InvAlways == Spec => []IInv
  BY InvInit, InvStep, PTL DEF Spec

\* Every variable keeps its type in every behaviour of the pool.
THEOREM TypeCorrect == Spec => []TypeOK
<1>1. IInv => TypeOK
  BY DEF IInv
<1>2. QED
  BY InvAlways, <1>1, PTL

\* No task is ever in two hands: with any number of workers and callers, and
\* cancel() at any moment, a task is popped and executed by one worker only.
THEOREM TasksHaveOneHolder == Spec => []OneHolder
<1>1. IInv => OneHolder
  BY DEF IInv
<1>2. QED
  BY InvAlways, <1>1, PTL

\* tasksCounter is exactly the number of tasks in flight or thrown away, so it
\* never wraps and never reads 0 while a task is queued.
THEOREM CounterIsExact == Spec => []CounterExact
<1>1. IInv => CounterExact
  BY DEF IInv
<1>2. QED
  BY InvAlways, <1>1, PTL

\* A live pool never has a queued task with all workers asleep and no
\* notification on its way.
THEOREM WakeupsAreNotLost == Spec => []NoLostWakeup
<1>1. IInv => NoLostWakeup
  BY DEF IInv
<1>2. QED
  BY InvAlways, <1>1, PTL
=============================================================================
