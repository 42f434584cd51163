--------------------------- MODULE TaskQueueProofs ---------------------------
(***************************************************************************)
(* Proofs about a TaskQueue whose cancel() overlaps no perform() call      *)
(* (Racing = FALSE), for every set of workers, clients, tasks, callbacks,  *)
(* groups, and calls of the owner.                                         *)
(***************************************************************************)
EXTENDS TaskQueue, ThreadPoolProofs, SequenceTheorems

-----------------------------------------------------------------------------
(* The output queues.                                                      *)

\* What is pushed back is in the queue from then on.
LEMMA InAppend ==
  ASSUME NEW S, NEW s \in Seq(S), NEW x \in S
  PROVE  /\ Append(s, x) \in Seq(S)
         /\ \A y : In(y, Append(s, x)) <=> In(y, s) \/ y = x
         /\ Distinct(s) /\ ~In(x, s) => Distinct(Append(s, x))
<1>1. /\ Append(s, x) \in Seq(S) /\ Len(Append(s, x)) = Len(s) + 1
      /\ \A i \in 1..Len(s) : Append(s, x)[i] = s[i]
      /\ Append(s, x)[Len(s) + 1] = x
  BY AppendProperties
<1>2. /\ DOMAIN Append(s, x) = 1..(Len(s) + 1) /\ DOMAIN s = 1..Len(s)
      /\ Len(s) \in Nat
  BY <1>1
<1>3. \A y : In(y, Append(s, x)) <=> In(y, s) \/ y = x
  BY <1>1, <1>2 DEF In
<1>4. Distinct(s) /\ ~In(x, s) => Distinct(Append(s, x))
  BY <1>1, <1>2 DEF In, Distinct
<1>5. QED
  BY <1>1, <1>3, <1>4

\* What is taken from the front is in it no more.
LEMMA InTail ==
  ASSUME NEW S, NEW s \in Seq(S), s # <<>>, Distinct(s)
  PROVE  /\ Tail(s) \in Seq(S) /\ Head(s) \in S /\ In(Head(s), s)
         /\ \A y : In(y, Tail(s)) <=> In(y, s) /\ y # Head(s)
         /\ Distinct(Tail(s))
<1>1. /\ Head(s) \in S /\ Tail(s) \in Seq(S) /\ Len(Tail(s)) = Len(s) - 1
      /\ \A i \in 1..Len(Tail(s)) : Tail(s)[i] = s[i + 1]
  BY HeadTailProperties
<1>2. /\ DOMAIN Tail(s) = 1..(Len(s) - 1) /\ DOMAIN s = 1..Len(s)
      /\ Len(s) \in Nat \ {0} /\ Head(s) = s[1]
  BY <1>1
<1>3. \A y : In(y, Tail(s)) <=> In(y, s) /\ y # Head(s)
  <2>1. ASSUME NEW y, In(y, Tail(s)) PROVE In(y, s) /\ y # Head(s)
    BY <1>1, <1>2, <2>1 DEF In, Distinct
  <2>2. ASSUME NEW y, In(y, s), y # Head(s) PROVE In(y, Tail(s))
    <3>1. PICK i \in 2..Len(s) : s[i] = y
      BY <1>2, <2>2 DEF In
    <3>2. Tail(s)[i - 1] = y /\ i - 1 \in DOMAIN Tail(s)
      BY <1>1, <1>2, <3>1
    <3>3. QED
      BY <3>2 DEF In
  <2>3. QED
    BY <2>1, <2>2
<1>4. Distinct(Tail(s))
  BY <1>1, <1>2 DEF Distinct
<1>5. In(Head(s), s)
  BY <1>2 DEF In
<1>6. QED
  BY <1>1, <1>3, <1>4, <1>5

\* An empty queue has nothing in it.
LEMMA InEmpty == Distinct(<<>>) /\ \A x : ~In(x, <<>>)
<1>1. DOMAIN <<>> = {}
  OBVIOUS
<1>2. QED
  BY <1>1 DEF Distinct, In

-----------------------------------------------------------------------------
(* What a step of the queue is to the pool.                                *)

\* The queue uses the pool as any program does, but for the two steps of
\* update() that complete a task and that wake the workers.
LEMMA PoolPart ==
  ASSUME QueueNext
  PROVE  Next \/ UNCHANGED vars \/ UpdateRunTask \/ UpdateDone
<1>1. ASSUME NEW w \in Workers, WorkerTurn(w) PROVE Next
  BY <1>1 DEF WorkerTurn, Next, QueueNext
<1>2. ASSUME NEW w \in Workers, SpuriousWake(w) PROVE Next
  BY <1>2 DEF Next, QueueNext
<1>3. ASSUME NEW c \in Clients, ClientTurn(c) PROVE Next
  BY <1>3 DEF ClientTurn, Next, QueueNext
<1>4. ASSUME NEW c \in Clients, NEW t \in Tasks, QueuePerform(c, t) \/ PerformOnThread(c, t)
      PROVE  Next
  BY <1>4 DEF QueuePerform, PerformOnThread, ClientCall, Next, QueueNext
<1>5. ASSUME CallCancel \/ CallDestroy PROVE Next
  BY <1>5 DEF CallCancel, CallDestroy, Next, QueueNext
<1>6. ASSUME CancelTurn PROVE Next
  BY <1>6 DEF CancelTurn, Next, QueueNext
<1>7. ASSUME NEW c \in Clients, NEW f \in Callbacks, PerformOnThreadCallback(c, f)
      PROVE  UNCHANGED vars
  BY <1>7 DEF PerformOnThreadCallback
<1>8. ASSUME NEW p \in Threads, OutputWakeup(p) \/ OutputNotify(p) PROVE UNCHANGED vars
  BY <1>8 DEF OutputWakeup, OutputNotify
<1>9. ASSUME CallUpdate \/ CallWaitForAll \/ CallWaitFor \/ CallWait PROVE UNCHANGED vars
  BY <1>9 DEF CallUpdate, CallWaitForAll, CallWaitFor, CallWait, Call
<1>10. ASSUME DispatcherStep PROVE UNCHANGED vars \/ UpdateRunTask \/ UpdateDone
  BY <1>10 DEF DispatcherStep, DestroyUpdate, UpdateSwap, UpdateRunCallback, UpdateRan,
     WaitForAllLoop, WaitForLook, WaitForTimeout, WaitRelock
<1>11. QED
  BY <1>1, <1>2, <1>3, <1>4, <1>5, <1>6, <1>7, <1>8, <1>9, <1>10 DEF QueueNext

\* What update() does to the pool when it completes a task.
LEMMA RunTaskPart ==
  ASSUME TypeOK, QueueTypeOK, UpdateRunTask
  PROVE  \E t \in Tasks, s \in TaskState :
           /\ t = Head(batch) /\ batch # <<>> /\ batch' = Tail(batch)
           /\ state' = [state EXCEPT ![t] = s] /\ s \in Executed
           /\ state[t] \in Executed => s = state[t]
           /\ completions' = [completions EXCEPT ![t] = @ + 1]
           /\ UNCHANGED <<contextVars, queueVars, workerVars, clientVars, cancelVars,
                          historyVars>>
<1>1. Head(batch) \in Tasks /\ batch # <<>>
  BY HeadTailProperties DEF QueueTypeOK, UpdateRunTask
<1> DEFINE t == Head(batch)
<1>2. CASE state[t] \in Executed
  <2>1. state' = [state EXCEPT ![t] = state[t]] /\ state[t] \in TaskState
    BY <1>1, <1>2 DEF UpdateRunTask, TypeOK
  <2>2. QED
    BY <1>1, <1>2, <2>1 DEF UpdateRunTask
<1>3. CASE state[t] \notin Executed
  <2>1. PICK s \in Executed : state' = [state EXCEPT ![t] = s]
    BY <1>3 DEF UpdateRunTask, Executed
  <2>2. s \in TaskState
    BY DEF Executed, TaskState
  <2>3. QED
    BY <1>1, <1>3, <2>1, <2>2 DEF UpdateRunTask
<1>4. QED
  BY <1>2, <1>3

\* The pool's own invariant holds in the queue.
LEMMA PoolInvStep ==
  ASSUME IInv, QueueTypeOK, QueueNext
  PROVE  IInv'
<1>1. CASE Next \/ UNCHANGED vars
  BY <1>1, InvStep
<1>2. CASE UpdateRunTask
  <2>1. PICK t \in Tasks, s \in TaskState :
           /\ state' = [state EXCEPT ![t] = s]
           /\ completions' = [completions EXCEPT ![t] = @ + 1]
           /\ UNCHANGED <<contextVars, queueVars, workerVars, clientVars, cancelVars,
                          historyVars>>
    BY <1>2, RunTaskPart DEF IInv
  <2>2. TypeOK'
    BY <2>1 DEF IInv, TypeOK, contextVars, queueVars, workerVars, clientVars, cancelVars,
       historyVars
  <2>3. QED
    BY <2>1, <2>2 DEF IInv, Holding, HeldIsSubmitted, OneHolder, MutexOwner, WorkersAlive,
       SleepyQueueEmpty, WorkersStay, CounterExact, NoLostWakeup, Counted, HeldByWorker,
       HeldByClient, contextVars, queueVars, workerVars, clientVars, cancelVars, historyVars
<1>3. CASE UpdateDone
  <2>1. /\ wpc' = [w \in Workers |-> IF wpc[w] = "waiting" /\ tasksCounter > 0
                                     THEN "wake" ELSE wpc[w]]
        /\ UNCHANGED <<contextVars, queueVars, continueExec, wtask, clientVars,
                       cancelVars, taskVars, historyVars>>
    BY <1>3 DEF UpdateDone
  <2>2. TypeOK'
    BY <2>1 DEF IInv, TypeOK, WorkerPc, contextVars, queueVars, clientVars, cancelVars,
       taskVars, historyVars
  <2>4. Holding' /\ MutexOwner' /\ WorkersAlive' /\ SleepyQueueEmpty'
    BY <2>1 DEF IInv, TypeOK, Holding, MutexOwner, WorkersAlive, SleepyQueueEmpty, contextVars,
       queueVars, clientVars
  <2>5. HeldIsSubmitted' /\ OneHolder' /\ WorkersStay'
    BY <2>1 DEF IInv, HeldIsSubmitted, OneHolder, WorkersStay, HeldByWorker, HeldByClient,
       contextVars, queueVars, clientVars, cancelVars, historyVars
  <2>6. CounterExact'
    BY <2>1 DEF IInv, CounterExact, Counted, HeldByWorker, queueVars, clientVars, historyVars
  <2>7. NoLostWakeup'
    BY <2>1 DEF IInv, TypeOK, NoLostWakeup, contextVars, queueVars, clientVars
  <2>8. QED
    BY <2>2, <2>4, <2>5, <2>6, <2>7 DEF IInv
<1>4. QED
  BY <1>1, <1>2, <1>3, PoolPart

-----------------------------------------------------------------------------
(* What the pool still holds, and what it has answered.                    *)

\* Nothing that cancel() has closed opens again.
LEMMA ClosedNext ==
  ASSUME ~Racing, IInv, Quiet, Closed, Next
  PROVE  Quiet' /\ Closed'
<1> USE PoolAssumption DEF Quiet, Closed, contextVars, queueVars, workerVars, clientVars,
      cancelVars, taskVars, historyVars
<1>1. ASSUME NEW w \in Workers, WorkerStep(w) \/ SpuriousWake(w)
      PROVE  Quiet' /\ Closed'
  <2>1. UNCHANGED <<finalized, workers, complete, kpc, cpc>>
    BY <1>1 DEF WorkerStep, SpuriousWake, WorkerCheck, WorkerPop, WorkerPopNothing,
       WorkerLock, WorkerReadFinalized, WorkerWait, WorkerWake, WorkerExecute,
       WorkerDeliver, WorkerDecrement
  <2>2. inputQueue' \subseteq inputQueue
    BY <1>1 DEF WorkerStep, SpuriousWake, WorkerCheck, WorkerPop, WorkerPopNothing,
       WorkerLock, WorkerReadFinalized, WorkerWait, WorkerWake, WorkerExecute,
       WorkerDeliver, WorkerDecrement
  <2>3. UNCHANGED fault \/ (~complete /\ wpc[w] = "deliver")
    BY <1>1 DEF WorkerStep, SpuriousWake, WorkerCheck, WorkerPop, WorkerPopNothing,
       WorkerLock, WorkerReadFinalized, WorkerWait, WorkerWake, WorkerExecute,
       WorkerDeliver, WorkerDecrement, HandToComplete, GoWorker
  <2>4. QED
    BY <2>1, <2>2, <2>3 DEF IInv, WorkersAlive
<1>2. ASSUME NEW c \in Clients, ClientStep(c)
      PROVE  Quiet' /\ Closed'
  <2>1. cpc[c] # "idle"
    BY <1>2 DEF ClientStep, PerformReadFlags, PerformReadLazyEmpty, SpawnLock, SpawnOne,
       SpawnDone, PerformReadEmpty, PerformPrepare, PerformDecline, PerformCount,
       PerformPush, PerformNotify, GoClient
  <2>2. ~finalized /\ kpc = "idle" /\ complete
    BY <2>1 DEF IInv, WorkersStay
  <2>3. UNCHANGED <<finalized, complete, kpc>>
    BY <1>2 DEF ClientStep, PerformReadFlags, PerformReadLazyEmpty, SpawnLock, SpawnOne,
       SpawnDone, PerformReadEmpty, PerformPrepare, PerformDecline, PerformCount,
       PerformPush, PerformNotify
  <2>4. UNCHANGED fault \/ ~complete
    BY <1>2 DEF ClientStep, PerformReadFlags, PerformReadLazyEmpty, SpawnLock, SpawnOne,
       SpawnDone, PerformReadEmpty, PerformPrepare, PerformDecline, PerformCount,
       PerformPush, PerformNotify, HandToComplete
  <2>5. QED
    BY <2>2, <2>3, <2>4
<1>3. ASSUME NEW c \in Clients, NEW t \in Tasks, PerformBegin(c, t)
      PROVE  Quiet' /\ Closed'
  BY <1>3 DEF PerformBegin, GoClient, IInv, TypeOK
<1>4. ASSUME NEW c \in Clients, NEW t \in Tasks, PerformCompleted(c, t)
      PROVE  Quiet' /\ Closed'
  BY <1>4 DEF PerformCompleted, HandToComplete
<1>5. ASSUME CancelBegin
      PROVE  Quiet' /\ Closed'
  BY <1>5 DEF CancelBegin
<1>6. ASSUME CancelStep
      PROVE  Quiet' /\ Closed'
  BY <1>6 DEF CancelStep, CancelReadWorkers, CancelStop, CancelNotify, CancelJoin,
     CancelSweep, CancelClear, CancelReset, IInv, WorkersStay
<1>7. QED
  BY <1>1, <1>2, <1>3, <1>4, <1>5, <1>6 DEF Next, ClientCall

\* A step of the pool keeps the account of what is answered.
LEMMA AnswersNext ==
  ASSUME ~Racing, IInv, Quiet, Closed, QueueAnswers, Next
  PROVE  QueueAnswers'
<1> DEFINE Kept == QueueAnswers'
<1> USE PoolAssumption DEF IInv, TypeOK, Holding, WorkersAlive, WorkersStay,
      OneHolder, HeldIsSubmitted, HeldByWorker, HeldByClient, Quiet,
      Closed, QueueAnswers, Answers, Placed, contextVars, queueVars, workerVars,
      clientVars, cancelVars, taskVars, historyVars, GoWorker, GoClient
<1>1. ASSUME NEW w \in Workers, WorkerCheck(w) PROVE Kept
  BY <1>1 DEF WorkerCheck
<1>2. ASSUME NEW w \in Workers, WorkerPop(w) PROVE Kept
  BY <1>2 DEF WorkerPop, MostUrgent
<1>3. ASSUME NEW w \in Workers, WorkerPopNothing(w) PROVE Kept
  BY <1>3 DEF WorkerPopNothing
<1>4. ASSUME NEW w \in Workers, WorkerLock(w) PROVE Kept
  BY <1>4 DEF WorkerLock
<1>5. ASSUME NEW w \in Workers, WorkerReadFinalized(w) PROVE Kept
  BY <1>5 DEF WorkerReadFinalized
<1>6. ASSUME NEW w \in Workers, WorkerWait(w) PROVE Kept
  BY <1>6 DEF WorkerWait
<1>7. ASSUME NEW w \in Workers, WorkerWake(w) PROVE Kept
  BY <1>7 DEF WorkerWake
<1>8. ASSUME NEW w \in Workers, WorkerExecute(w) PROVE Kept
  BY <1>8 DEF WorkerExecute, Executed
<1>9. ASSUME NEW w \in Workers, WorkerDeliver(w) PROVE Kept
  BY <1>9 DEF WorkerDeliver, HandToComplete
<1>10. ASSUME NEW w \in Workers, WorkerDecrement(w) PROVE Kept
  BY <1>10 DEF WorkerDecrement
<1>11. ASSUME NEW w \in Workers, SpuriousWake(w) PROVE Kept
  BY <1>11 DEF SpuriousWake
<1>12. ASSUME NEW c \in Clients, PerformReadFlags(c) PROVE Kept
  BY <1>12 DEF PerformReadFlags
<1>13. ASSUME NEW c \in Clients, PerformReadLazyEmpty(c) PROVE Kept
  BY <1>13 DEF PerformReadLazyEmpty
<1>14. ASSUME NEW c \in Clients, SpawnLock(c) PROVE Kept
  BY <1>14 DEF SpawnLock
<1>15. ASSUME NEW c \in Clients, SpawnDone(c) PROVE Kept
  BY <1>15 DEF SpawnDone
<1>16. ASSUME NEW c \in Clients, PerformReadEmpty(c) PROVE Kept
  BY <1>16 DEF PerformReadEmpty
<1>17. ASSUME NEW c \in Clients, PerformPrepare(c) PROVE Kept
  BY <1>17 DEF PerformPrepare
<1>18. ASSUME NEW c \in Clients, PerformDecline(c) PROVE Kept
  BY <1>18 DEF PerformDecline, HandToComplete
<1>19. ASSUME NEW c \in Clients, PerformCount(c) PROVE Kept
  BY <1>19 DEF PerformCount
<1>20. ASSUME NEW c \in Clients, PerformPush(c) PROVE Kept
  BY <1>20 DEF PerformPush
<1>21. ASSUME NEW c \in Clients, PerformNotify(c) PROVE Kept
  BY <1>21 DEF PerformNotify, Waiting
<1>22. ASSUME NEW c \in Clients, NEW w \in Workers, SpawnOne(c, w) PROVE Kept
  BY <1>22 DEF SpawnOne
<1>23. ASSUME NEW c \in Clients, NEW t \in Tasks, PerformBegin(c, t) PROVE Kept
  BY <1>23 DEF PerformBegin
<1>24. ASSUME NEW c \in Clients, NEW t \in Tasks, PerformCompleted(c, t) PROVE Kept
  BY <1>24 DEF PerformCompleted, HandToComplete
<1>25. ASSUME CancelBegin PROVE Kept
  BY <1>25 DEF CancelBegin
<1>26. ASSUME CancelReadWorkers PROVE Kept
  BY <1>26 DEF CancelReadWorkers
<1>27. ASSUME CancelNotify PROVE Kept
  BY <1>27 DEF CancelNotify
<1>28. ASSUME CancelJoin PROVE Kept
  BY <1>28 DEF CancelJoin
<1>29. ASSUME CancelSweep PROVE Kept
  BY <1>29 DEF CancelSweep
<1>30. ASSUME CancelClear PROVE Kept
  BY <1>30 DEF CancelClear
<1>31. ASSUME CancelReset PROVE Kept
  BY <1>31 DEF CancelReset
<1>32. ASSUME NEW w \in Workers, CancelStop(w) PROVE Kept
  BY <1>32 DEF CancelStop
<1> HIDE DEF Kept
<1>33. Kept
  BY <1>1, <1>2, <1>3, <1>4, <1>5, <1>6, <1>7, <1>8, <1>9, <1>10,
     <1>11, <1>12, <1>13, <1>14, <1>15, <1>16, <1>17, <1>18, <1>19,
     <1>20, <1>21, <1>22, <1>23, <1>24, <1>25, <1>26, <1>27, <1>28,
     <1>29, <1>30, <1>31, <1>32
     DEF Next, WorkerStep, ClientStep, ClientCall, CancelStep
<1>34. QED
  BY <1>33 DEF Kept

\* So do the completions of update().
LEMMA QueueAnswersStep ==
  ASSUME ~Racing, QueueInv, QueueNext
  PROVE  Quiet' /\ Closed' /\ QueueAnswers'
<1>1. CASE Next
  BY <1>1, ClosedNext, AnswersNext DEF QueueInv
<1>2. CASE UNCHANGED vars
  BY <1>2 DEF QueueInv, Quiet, Closed, QueueAnswers, Answers, Placed, HeldByWorker,
     HeldByClient, vars, contextVars, queueVars, workerVars, clientVars, cancelVars,
     taskVars, historyVars
<1>3. CASE UpdateRunTask
  <2>1. PICK t \in Tasks, s \in TaskState :
           /\ t = Head(batch) /\ batch # <<>>
           /\ state' = [state EXCEPT ![t] = s]
           /\ completions' = [completions EXCEPT ![t] = @ + 1]
           /\ UNCHANGED <<contextVars, queueVars, workerVars, clientVars, cancelVars,
                          historyVars>>
    BY <1>3, RunTaskPart DEF QueueInv, QueueTypeOK
  <2>2. In(t, batch)
    BY <2>1, InTail DEF QueueInv, QueueTypeOK, OutputExact
  <2>3. delivered[t] = 1 /\ delivered' = delivered
    BY <2>1, <2>2 DEF QueueInv, OutputExact, historyVars
  <2>4. \A u \in Tasks : u # t => /\ state'[u] = state[u]
                                  /\ completions'[u] = completions[u]
    BY <2>1 DEF QueueInv, QueueTypeOK, TypeOK
  <2>5. \A u \in Tasks, a, b \in Nat : u # t => (Answers(u, a, b)' <=> Answers(u, a, b))
    BY <2>3, <2>4 DEF Answers
  <2>6. Quiet' /\ Closed'
    BY <2>1 DEF QueueInv, Quiet, Closed, contextVars, queueVars, clientVars, cancelVars,
       historyVars
  <2>7. QueueAnswers'
    <3> USE DEF QueueInv, QueueAnswers
    <3>1. /\ UNCHANGED <<submitted, dropped, inputQueue, kpc, wpc, wtask, cpc, ctask>>
          /\ \A u : Placed(u)' <=> Placed(u)
      BY <2>1 DEF Placed, HeldByWorker, HeldByClient, queueVars, workerVars, clientVars,
         cancelVars, historyVars
    <3>2. inputQueue \subseteq Tasks /\ submitted \subseteq Tasks
      BY DEF QueueTypeOK, TypeOK
    <3>3. t \in submitted /\ t \notin inputQueue
      BY <2>3 DEF Answers
    <3>4. \A c \in Clients : ctask[c] # NoTask => ctask[c] # t /\ ctask[c] \in Tasks
      BY <2>3 DEF Answers, QueueTypeOK, TypeOK
    <3>5. \A w \in Workers : wtask[w] # NoTask => wtask[w] \in Tasks
      BY DEF QueueTypeOK, TypeOK
    <3>6. \A w \in Workers : wtask[w] = t => wpc[w] \notin {"exec", "deliver"}
      BY <2>3, <3>5, PoolAssumption DEF Answers
    <3>7. \A u \in Tasks \ submitted' : Answers(u, 0, 0)' /\ state'[u] = "Initial"
      BY <2>4, <2>5, <3>1, <3>3
    <3>8. \A u \in inputQueue' :
            IF kpc' = "clear" THEN Answers(u, 0, 1)' /\ state'[u] = "ExecutedFailed"
            ELSE Answers(u, 0, 0)' /\ state'[u] = "Prepared"
      BY <2>4, <2>5, <3>1, <3>2, <3>3
    <3>9. \A c \in Clients : ctask'[c] # NoTask =>
            Answers(ctask[c], 0, 0)' /\ state'[ctask[c]] = state[ctask[c]]
      BY <2>3, <2>4, <3>1, <3>4 DEF Answers
    <3>10. \A w \in Workers : wtask'[w] # NoTask =>
             CASE wpc[w] = "exec" ->
                    Answers(wtask[w], 0, 0)' /\ state'[wtask[w]] = "Prepared"
               [] wpc[w] = "deliver" ->
                    Answers(wtask[w], 0, 0)' /\ state'[wtask[w]] \in Executed
               [] OTHER -> delivered'[wtask[w]] = 1
      BY <2>3, <2>4, <3>1, <3>5, <3>6 DEF Answers
    <3>11. \A u \in submitted' : ~Placed(u)' =>
             \/ delivered'[u] = 1
             \/ Answers(u, 0, 1)' /\ u \in dropped'
             \/ Answers(u, 0, 0)' /\ state'[u] = "Initial" /\ u \notin dropped'
      BY <2>3, <2>4, <2>5, <3>1, <3>2
    <3>12. QED
      BY <3>1, <3>7, <3>8, <3>9, <3>10, <3>11 DEF Answers
  <2>8. QED
    BY <2>6, <2>7
<1>4. CASE UpdateDone
  <2>1. /\ wpc' = [w \in Workers |-> IF wpc[w] = "waiting" /\ tasksCounter > 0
                                     THEN "wake" ELSE wpc[w]]
        /\ UNCHANGED <<contextVars, queueVars, continueExec, wtask, clientVars,
                       cancelVars, taskVars, historyVars>>
    BY <1>4 DEF UpdateDone
  <2>2. Quiet' /\ Closed'
    BY <2>1 DEF QueueInv, Quiet, Closed, contextVars, queueVars, clientVars, cancelVars,
       historyVars
  <2>3. QueueAnswers'
    BY <2>1 DEF QueueInv, IInv, Holding, QueueAnswers, Answers, Placed, HeldByWorker,
       HeldByClient, contextVars, queueVars, clientVars, cancelVars, taskVars, historyVars
  <2>4. QED
    BY <2>2, <2>3
<1>5. QED
  BY <1>1, <1>2, <1>3, <1>4, PoolPart

-----------------------------------------------------------------------------
(* What a step does to the tasks and to the output.                        *)

taskData == <<state, completions, delivered, outputQueue, batch, groupVars>>

\* A task that is answered the first time goes to the output.
HandsOver(t) ==
  /\ Answers(t, 0, 0) /\ state[t] # "Prepared"
  /\ delivered' = [delivered EXCEPT ![t] = @ + 1]
  /\ outputQueue' = Append(outputQueue, t)
  /\ UNCHANGED <<state, completions, batch, groupVars>>

\* A prepared task is executed.
Executes(t) ==
  /\ Answers(t, 0, 0) /\ state[t] = "Prepared"
  /\ \E s \in Executed : state' = [state EXCEPT ![t] = s]
  /\ UNCHANGED <<completions, delivered, outputQueue, batch, groupVars>>

\* A new task is prepared, or refused.
GetsPrepared(t, ok) ==
  /\ Answers(t, 0, 0) /\ state[t] = "Initial"
  /\ state' = [state EXCEPT ![t] = IF ok THEN "Prepared" ELSE "ExecutedFailed"]
  /\ Prepares(t, ok)
  /\ UNCHANGED <<completions, delivered, outputQueue, batch, groupCompleted>>

\* Prepared tasks are cancelled.
Cancels(T) ==
  /\ \A t \in T : Answers(t, 0, 0) /\ state[t] = "Prepared"
  /\ state' = [t \in Tasks |-> IF t \in T THEN "ExecutedFailed" ELSE state[t]]
  /\ completions' = [t \in Tasks |-> completions[t] + IF t \in T THEN 1 ELSE 0]
  /\ HandleCompleted(T)
  /\ UNCHANGED <<delivered, outputQueue, batch, groupAdded, refused>>

\* The first task of the batch is completed.
Completes(t) ==
  /\ batch # <<>> /\ t = Head(batch) /\ batch' = Tail(batch)
  /\ completions' = [completions EXCEPT ![t] = @ + 1]
  /\ HandleCompleted({t})
  /\ IF state[t] \in Executed THEN UNCHANGED <<state, groupAdded, refused>>
     ELSE \E ok \in BOOLEAN, s \in Executed :
            /\ Prepares(t, ok)
            /\ state' = [state EXCEPT ![t] = IF ok THEN s ELSE "ExecutedFailed"]
  /\ UNCHANGED <<delivered, outputQueue>>

\* The output becomes the batch.
TakesOutput ==
  /\ batch = <<>> /\ batch' = outputQueue /\ outputQueue' = <<>>
  /\ UNCHANGED <<state, completions, delivered, groupVars>>

\* What a worker does: it executes its task and hands it over.
LEMMA WorkerEffect ==
  ASSUME QueueInv, NEW w \in Workers, WorkerTurn(w)
  PROVE  \/ UNCHANGED taskData
         \/ wtask[w] \in Tasks /\ (HandsOver(wtask[w]) \/ Executes(wtask[w]))
<1> USE DEF taskData, GoWorker, contextVars, queueVars, workerVars, clientVars,
      cancelVars, taskVars, historyVars, outputVars, performVars, dispatchVars,
      groupVars, callbackVars, ownVars
<1>1. WorkerStep(w)
  BY DEF WorkerTurn
<1>2. CASE WorkerDeliver(w)
  <2>1. wpc[w] = "deliver" /\ wtask[w] \in Tasks /\ wtask[w] # NoTask
    BY <1>2 DEF WorkerDeliver, QueueInv, IInv, TypeOK, Holding
  <2>2. complete
    BY <2>1 DEF QueueInv, IInv, Closed, WorkersAlive
  <2>3. Answers(wtask[w], 0, 0) /\ state[wtask[w]] \in Executed
    BY <2>1 DEF QueueInv, QueueAnswers
  <2>4. /\ delivered' = [delivered EXCEPT ![wtask[w]] = @ + 1]
        /\ UNCHANGED <<state, completions>>
    BY <1>2, <2>2 DEF WorkerDeliver, HandToComplete
  <2>5. outputQueue' = Append(outputQueue, wtask[w]) /\ UNCHANGED <<batch, groupVars>>
    BY <2>1, <2>2 DEF WorkerTurn, PushTask
  <2>6. QED
    BY <2>1, <2>3, <2>4, <2>5 DEF HandsOver, Executed
<1>3. CASE WorkerExecute(w)
  <2>1. wpc[w] = "exec" /\ wtask[w] \in Tasks /\ wtask[w] # NoTask
    BY <1>3 DEF WorkerExecute, QueueInv, IInv, TypeOK, Holding
  <2>2. Answers(wtask[w], 0, 0) /\ state[wtask[w]] = "Prepared"
    BY <2>1 DEF QueueInv, QueueAnswers
  <2>3. UNCHANGED ownVars
    BY <2>1 DEF WorkerTurn
  <2>4. QED
    BY <1>3, <2>1, <2>2, <2>3 DEF WorkerExecute, Executes
<1>4. CASE ~WorkerDeliver(w) /\ ~WorkerExecute(w)
  <2>1. wpc[w] # "deliver" /\ UNCHANGED <<state, completions, delivered>>
    BY <1>1, <1>4 DEF WorkerStep, WorkerCheck, WorkerPop, WorkerPopNothing, WorkerLock,
       WorkerReadFinalized, WorkerWait, WorkerWake, WorkerDecrement
  <2>2. QED
    BY <2>1 DEF WorkerTurn
<1>5. QED
  BY <1>2, <1>3, <1>4

\* What a perform() call does: it prepares its task, or hands a refused one over.
LEMMA ClientEffect ==
  ASSUME QueueInv, NEW c \in Clients, ClientTurn(c)
  PROVE  \/ UNCHANGED taskData
         \/ /\ ctask[c] \in Tasks
            /\ HandsOver(ctask[c]) \/ \E ok \in BOOLEAN : GetsPrepared(ctask[c], ok)
<1> USE DEF taskData, GoClient, contextVars, queueVars, workerVars, clientVars,
      cancelVars, taskVars, historyVars, outputVars, performVars, dispatchVars,
      groupVars, callbackVars, ownVars
<1>1. ClientStep(c)
  BY DEF ClientTurn
<1>2. CASE PerformDecline(c)
  <2>1. cpc[c] = "decline" /\ ctask[c] \in Tasks /\ ctask[c] # NoTask
    BY <1>2 DEF PerformDecline, QueueInv, IInv, TypeOK, Holding
  <2>2. complete
    BY <2>1 DEF QueueInv, Closed, Quiet
  <2>3. Answers(ctask[c], 0, 0) /\ state[ctask[c]] = "ExecutedFailed"
    BY <2>1 DEF QueueInv, QueueAnswers
  <2>4. /\ delivered' = [delivered EXCEPT ![ctask[c]] = @ + 1]
        /\ UNCHANGED <<state, completions>>
    BY <1>2, <2>2 DEF PerformDecline, HandToComplete
  <2>5. outputQueue' = Append(outputQueue, ctask[c]) /\ UNCHANGED <<batch, groupVars>>
    BY <2>1, <2>2 DEF ClientTurn, PushTask
  <2>6. QED
    BY <2>1, <2>3, <2>4, <2>5 DEF HandsOver
<1>3. CASE PerformPrepare(c)
  <2>1. cpc[c] = "prepare" /\ ctask[c] \in Tasks /\ ctask[c] # NoTask
    BY <1>3 DEF PerformPrepare, QueueInv, IInv, TypeOK, Holding
  <2>2. Answers(ctask[c], 0, 0) /\ state[ctask[c]] = "Initial"
    BY <2>1 DEF QueueInv, QueueAnswers
  <2>3. PICK ok \in BOOLEAN :
          /\ state' = [state EXCEPT ![ctask[c]] = IF ok THEN "Prepared" ELSE "ExecutedFailed"]
          /\ UNCHANGED <<completions, delivered>>
    BY <1>3 DEF PerformPrepare
  <2>4. /\ Prepares(ctask[c], state'[ctask[c]] = "Prepared")
        /\ UNCHANGED <<outputQueue, batch, groupCompleted>>
    BY <2>1 DEF ClientTurn
  <2>5. state'[ctask[c]] = "Prepared" <=> ok
    BY <2>1, <2>3 DEF QueueInv, IInv, TypeOK
  <2>6. Prepares(ctask[c], ok)
    BY <2>4, <2>5 DEF Prepares
  <2>7. QED
    BY <2>1, <2>2, <2>3, <2>4, <2>6 DEF GetsPrepared
<1>4. CASE ~PerformDecline(c) /\ ~PerformPrepare(c)
  <2>1. cpc[c] \notin {"decline", "prepare"} /\ UNCHANGED <<state, completions, delivered>>
    BY <1>1, <1>4 DEF ClientStep, PerformReadFlags, PerformReadLazyEmpty, SpawnLock, SpawnOne,
       SpawnDone, PerformReadEmpty, PerformCount, PerformPush, PerformNotify
  <2>2. UNCHANGED ownVars
    BY <2>1 DEF ClientTurn
  <2>3. QED
    BY <2>1, <2>2
<1>5. QED
  BY <1>2, <1>3, <1>4

\* performCompleted() hands its task over as it is.
LEMMA CompletedEffect ==
  ASSUME ~Racing, QueueInv, NEW c \in Clients, NEW t \in Tasks, PerformOnThread(c, t)
  PROVE  HandsOver(t)
<1>1. t \notin submitted /\ complete /\ HandToComplete(t) /\ UNCHANGED taskVars
  BY DEF PerformOnThread, PerformCompleted, QueueInv, Closed
<1>2. Answers(t, 0, 0) /\ state[t] = "Initial"
  BY <1>1 DEF QueueInv, QueueAnswers
<1>3. PushTask(c, t)
  BY <1>1 DEF PerformOnThread
<1>4. QED
  BY <1>1, <1>2, <1>3 DEF HandsOver, HandToComplete, PushTask, taskVars, dispatchVars,
     callbackVars

\* cancel() completes what is still queued and prepared.
LEMMA CancelEffect ==
  ASSUME QueueInv, CancelTurn
  PROVE  \E T \in SUBSET Tasks : Cancels(T) /\ (T # {} => CancelSweep)
<1> DEFINE T == {t \in Tasks : completions'[t] > completions[t]}
<1>1. HandleCompleted(T) /\ UNCHANGED <<delivered, outputQueue, batch, groupAdded, refused>>
  <2>1. UNCHANGED delivered
    BY DEF CancelTurn, CancelStep, CancelReadWorkers, CancelStop, CancelNotify, CancelJoin,
       CancelSweep, CancelClear, CancelReset, historyVars
  <2>2. QED
    BY <2>1 DEF CancelTurn, outputVars, dispatchVars
<1>2. completions \in [Tasks -> Nat] /\ state \in [Tasks -> TaskState]
  BY DEF QueueInv, IInv, TypeOK
<1>3. CASE CancelSweep
  <2> DEFINE S == {t \in inputQueue : state[t] = "Prepared"}
  <2>1. kpc = "sweep" /\ inputQueue \subseteq Tasks
    BY <1>3 DEF CancelSweep, QueueInv, IInv, TypeOK
  <2>2. /\ state' = [t \in Tasks |-> IF t \in S THEN "ExecutedFailed" ELSE state[t]]
        /\ completions' = [t \in Tasks |-> completions[t] + IF t \in S THEN 1 ELSE 0]
    BY <1>3 DEF CancelSweep
  <2>3. \A t \in S : Answers(t, 0, 0) /\ state[t] = "Prepared"
    BY <2>1 DEF QueueInv, QueueAnswers
  <2>4. S \in SUBSET Tasks
    BY <2>1
  <2> HIDE DEF S
  <2>5. T = S
    BY <1>2, <2>2, <2>4
  <2>6. QED
    BY <1>1, <1>3, <2>2, <2>3, <2>4, <2>5 DEF Cancels
<1>4. CASE ~CancelSweep
  <2>1. UNCHANGED taskVars
    BY <1>4 DEF CancelTurn, CancelStep, CancelReadWorkers, CancelStop, CancelNotify,
       CancelJoin, CancelClear, CancelReset
  <2>2. T = {}
    BY <1>2, <2>1 DEF taskVars
  <2>3. /\ state' = [t \in Tasks |-> state[t]]
        /\ completions' = [t \in Tasks |-> completions[t] + 0]
    BY <1>2, <2>1 DEF taskVars
  <2>4. Cancels({})
    BY <1>1, <2>2, <2>3 DEF Cancels
  <2>5. QED
    BY <2>4
<1>5. QED
  BY <1>3, <1>4

\* update() completes the first of what it has taken.
LEMMA RunTaskEffect ==
  ASSUME QueueInv, UpdateRunTask
  PROVE  Head(batch) \in Tasks /\ Completes(Head(batch))
<1> DEFINE t == Head(batch)
<1>1. batch # <<>> /\ t \in Tasks
  BY HeadTailProperties DEF UpdateRunTask, QueueInv, QueueTypeOK
<1>2. /\ completions' = [completions EXCEPT ![t] = @ + 1]
      /\ HandleCompleted({t}) /\ batch' = Tail(batch)
      /\ UNCHANGED <<delivered, outputQueue>>
  BY DEF UpdateRunTask, historyVars, outputVars
<1>3. CASE state[t] \in Executed
  BY <1>1, <1>2, <1>3 DEF UpdateRunTask, Completes
<1>4. CASE state[t] \notin Executed
  <2>1. PICK ok \in BOOLEAN, s \in Executed :
          /\ Prepares(t, ok)
          /\ state' = [state EXCEPT ![t] = IF ok THEN s ELSE "ExecutedFailed"]
    BY <1>4 DEF UpdateRunTask
  <2>2. QED
    BY <1>1, <1>2, <1>4, <2>1 DEF Completes
<1>5. QED
  BY <1>1, <1>3, <1>4

\* Every step of the queue is one of these, or leaves the tasks alone.
LEMMA Effects ==
  ASSUME ~Racing, QueueInv, QueueNext
  PROVE  \/ UNCHANGED taskData
         \/ \E t \in Tasks : HandsOver(t)
         \/ \E t \in Tasks : Executes(t)
         \/ \E t \in Tasks, ok \in BOOLEAN : GetsPrepared(t, ok)
         \/ \E T \in SUBSET Tasks : Cancels(T)
         \/ \E t \in Tasks : Completes(t)
         \/ TakesOutput
<1> USE DEF taskData, contextVars, queueVars, workerVars, clientVars, cancelVars, taskVars,
      historyVars, vars, outputVars, performVars, dispatchVars, groupVars, callbackVars,
      ownVars
<1>1. ASSUME NEW w \in Workers, SpuriousWake(w), UNCHANGED ownVars PROVE UNCHANGED taskData
  BY <1>1 DEF SpuriousWake
<1>2. ASSUME NEW c \in Clients, NEW t \in Tasks, QueuePerform(c, t) PROVE UNCHANGED taskData
  BY <1>2 DEF QueuePerform, PerformBegin
<1>3. ASSUME NEW c \in Clients, NEW f \in Callbacks, PerformOnThreadCallback(c, f)
      PROVE  UNCHANGED taskData
  BY <1>3 DEF PerformOnThreadCallback, PushCallback
<1>4. ASSUME NEW p \in Threads, OutputWakeup(p) \/ OutputNotify(p) PROVE UNCHANGED taskData
  BY <1>4 DEF OutputWakeup, OutputNotify
<1>5. ASSUME CallUpdate \/ CallWaitForAll \/ CallWaitFor \/ CallWait PROVE UNCHANGED taskData
  BY <1>5 DEF CallUpdate, CallWaitForAll, CallWaitFor, CallWait, Call
<1>6. ASSUME CallCancel \/ CallDestroy PROVE UNCHANGED taskData
  BY <1>6 DEF CallCancel, CallDestroy, CancelBegin
<1>7. ASSUME UpdateSwap PROVE TakesOutput
  BY <1>7 DEF UpdateSwap, TakesOutput, Dispatch, QueueInv, OwnerInv
<1>8. ASSUME DispatcherStep, ~UpdateSwap, ~UpdateRunTask PROVE UNCHANGED taskData
  BY <1>8 DEF DispatcherStep, DestroyUpdate, UpdateRunCallback, UpdateRan, UpdateDone,
     WaitForAllLoop, WaitForLook, WaitForTimeout, WaitRelock
<1> HIDE DEF taskData, contextVars, queueVars, workerVars, clientVars, cancelVars, taskVars,
      historyVars, vars, outputVars, performVars, dispatchVars, groupVars, callbackVars,
      ownVars
<1>9. QED
  BY <1>1, <1>2, <1>3, <1>4, <1>5, <1>6, <1>7, <1>8, WorkerEffect, ClientEffect,
     CompletedEffect, CancelEffect, RunTaskEffect DEF QueueNext

\* The output holds what is answered and not completed, whatever happens.
LEMMA OutputStep ==
  ASSUME ~Racing, QueueInv, QueueNext
  PROVE  /\ OutputExact' /\ AnsweredStates'
         /\ outputQueue' \in Seq(Tasks) /\ batch' \in Seq(Tasks)
<1> DEFINE Kept == /\ OutputExact' /\ AnsweredStates'
                   /\ outputQueue' \in Seq(Tasks) /\ batch' \in Seq(Tasks)
<1>1. /\ OutputExact /\ AnsweredStates
      /\ outputQueue \in Seq(Tasks) /\ batch \in Seq(Tasks)
      /\ state \in [Tasks -> TaskState] /\ completions \in [Tasks -> Nat]
      /\ delivered \in [Tasks -> Nat]
  BY DEF QueueInv, QueueTypeOK, TypeOK
<1>2. CASE UNCHANGED taskData
  BY <1>1, <1>2 DEF taskData, groupVars, OutputExact, AnsweredStates
<1>3. ASSUME NEW t \in Tasks, HandsOver(t) PROVE Kept
  <2>1. ~In(t, outputQueue) /\ ~In(t, batch)
    BY <1>1, <1>3 DEF OutputExact, HandsOver, Answers
  <2>2. /\ outputQueue' \in Seq(Tasks)
        /\ \A y : In(y, outputQueue') <=> In(y, outputQueue) \/ y = t
        /\ Distinct(outputQueue')
    BY <1>1, <1>3, <2>1, InAppend DEF OutputExact, HandsOver
  <2>3. /\ delivered'[t] = 1 /\ completions'[t] = 0
        /\ \A u \in Tasks : u # t => delivered'[u] = delivered[u]
        /\ UNCHANGED <<batch, completions, state, refused>>
    BY <1>1, <1>3 DEF HandsOver, Answers, groupVars
  <2>4. OutputExact'
    BY <1>1, <2>1, <2>2, <2>3 DEF OutputExact
  <2>5. AnsweredStates'
    BY <1>1, <1>3, <2>3 DEF AnsweredStates, HandsOver
  <2>6. QED
    BY <1>1, <2>2, <2>3, <2>4, <2>5
<1>4. ASSUME NEW t \in Tasks, Executes(t) PROVE Kept
  <2>1. UNCHANGED <<completions, delivered, outputQueue, batch, refused>>
    BY <1>4 DEF Executes, groupVars
  <2>2. state'[t] \in Executed /\ \A u \in Tasks : u # t => state'[u] = state[u]
    BY <1>1, <1>4 DEF Executes
  <2>3. OutputExact'
    BY <1>1, <2>1 DEF OutputExact
  <2>4. AnsweredStates'
    BY <1>1, <2>1, <2>2 DEF AnsweredStates, Executed
  <2>5. QED
    BY <1>1, <2>1, <2>3, <2>4
<1>5. ASSUME NEW t \in Tasks, NEW ok \in BOOLEAN, GetsPrepared(t, ok) PROVE Kept
  <2>1. /\ UNCHANGED <<completions, delivered, outputQueue, batch>>
        /\ delivered[t] = 0 /\ completions[t] = 0 /\ state[t] = "Initial"
        /\ refused' = IF ok THEN refused ELSE refused \cup {t}
    BY <1>5 DEF GetsPrepared, Prepares, Answers
  <2>2. /\ state'[t] = IF ok THEN "Prepared" ELSE "ExecutedFailed"
        /\ \A u \in Tasks : u # t => state'[u] = state[u]
    BY <1>1, <1>5 DEF GetsPrepared
  <2>3. OutputExact'
    BY <1>1, <2>1 DEF OutputExact
  <2>4. AnsweredStates'
    BY <1>1, <2>1, <2>2 DEF AnsweredStates, Executed
  <2>5. QED
    BY <1>1, <2>1, <2>3, <2>4
<1>6. ASSUME NEW T \in SUBSET Tasks, Cancels(T) PROVE Kept
  <2>1. /\ UNCHANGED <<delivered, outputQueue, batch, refused>>
        /\ \A t \in T : delivered[t] = 0 /\ completions[t] = 0
        /\ \A t \in Tasks : /\ completions'[t] = completions[t] + IF t \in T THEN 1 ELSE 0
                            /\ state'[t] = IF t \in T THEN "ExecutedFailed" ELSE state[t]
    BY <1>6 DEF Cancels, Answers
  <2>2. OutputExact'
    BY <1>1, <2>1 DEF OutputExact
  <2>3. AnsweredStates'
    BY <1>1, <2>1 DEF AnsweredStates, Executed
  <2>4. QED
    BY <1>1, <2>1, <2>2, <2>3
<1>7. ASSUME NEW t \in Tasks, Completes(t) PROVE Kept
  <2>1. /\ batch' \in Seq(Tasks) /\ In(t, batch) /\ Distinct(batch')
        /\ \A y : In(y, batch') <=> In(y, batch) /\ y # t
    BY <1>1, <1>7, InTail DEF Completes, OutputExact
  <2>2. delivered[t] = 1 /\ completions[t] = 0 /\ ~In(t, outputQueue)
    BY <1>1, <2>1 DEF OutputExact
  <2>3. /\ completions'[t] = 1 /\ UNCHANGED <<delivered, outputQueue>>
        /\ \A u \in Tasks : u # t => completions'[u] = completions[u]
    BY <1>1, <1>7, <2>2 DEF Completes
  <2>4. /\ state'[t] \in Executed /\ \A u \in Tasks : u # t => state'[u] = state[u]
        /\ refused' \subseteq refused \cup {t}
    BY <1>1, <1>7 DEF Completes, Prepares, Executed
  <2>5. OutputExact'
    BY <1>1, <2>1, <2>2, <2>3 DEF OutputExact
  <2>6. AnsweredStates'
    BY <1>1, <2>2, <2>3, <2>4 DEF AnsweredStates, Executed
  <2>7. QED
    BY <1>1, <2>1, <2>3, <2>5, <2>6
<1>8. CASE TakesOutput
  <2>1. OutputExact'
    BY <1>1, <1>8, InEmpty DEF TakesOutput, OutputExact
  <2>2. AnsweredStates'
    BY <1>1, <1>8 DEF TakesOutput, AnsweredStates, groupVars
  <2>3. QED
    BY <1>1, <1>8, <2>1, <2>2 DEF TakesOutput
<1>9. QED
  BY <1>2, <1>3, <1>4, <1>5, <1>6, <1>7, <1>8, Effects

-----------------------------------------------------------------------------
(* The counters of the group.                                              *)

\* The group's tasks that it still waits for, and those it counted off though
\* it had never counted them.
Awaited  == {t \in Group \ refused : state[t] # "Initial" /\ completions[t] = 0}
Overpaid == {t \in Group \cap refused : completions[t] > 0}

\* They are finitely many.
LEMMA GroupFinite ==
  /\ IsFiniteSet(Awaited) /\ Cardinality(Awaited) \in Nat
  /\ IsFiniteSet(Overpaid) /\ Cardinality(Overpaid) \in Nat
<1>1. IsFiniteSet(Tasks) /\ Group \subseteq Tasks
  BY PoolAssumption, QueueAssumption
<1>2. Awaited \in SUBSET Tasks /\ Overpaid \in SUBSET Tasks
  BY <1>1 DEF Awaited, Overpaid
<1>3. QED
  BY <1>1, <1>2, FS_Subset, FS_CardinalityType

\* The counters balance against these two sets through every step.
LEMMA GroupStep ==
  ASSUME ~Racing, QueueInv, QueueNext
  PROVE  GroupCounts' /\ groupAdded' \in Nat /\ groupCompleted' \in Nat
<1> DEFINE Kept == GroupCounts' /\ groupAdded' \in Nat /\ groupCompleted' \in Nat
<1> DEFINE Bal(a, c, A, O) == a - c = Cardinality(A) - Cardinality(O)
<1>1. /\ OutputExact /\ AnsweredStates /\ batch \in Seq(Tasks)
      /\ state \in [Tasks -> TaskState] /\ completions \in [Tasks -> Nat]
      /\ delivered \in [Tasks -> Nat]
      /\ refused \subseteq Tasks /\ Group \subseteq Tasks
  BY QueueAssumption DEF QueueInv, QueueTypeOK, TypeOK
<1>2. /\ Bal(groupAdded, groupCompleted, Awaited, Overpaid)
      /\ groupAdded \in Nat /\ groupCompleted \in Nat
  BY DEF QueueInv, QueueTypeOK, GroupCounts, Awaited, Overpaid
<1>3. /\ IsFiniteSet(Awaited) /\ Cardinality(Awaited) \in Nat
      /\ IsFiniteSet(Overpaid) /\ Cardinality(Overpaid) \in Nat
  BY GroupFinite
<1>4. Bal(groupAdded', groupCompleted', Awaited', Overpaid') => GroupCounts'
  BY DEF GroupCounts, Awaited, Overpaid
<1>5. ASSUME UNCHANGED <<groupAdded, groupCompleted>>, Awaited' = Awaited, Overpaid' = Overpaid
      PROVE  Kept
  BY <1>2, <1>4, <1>5
<1>6. CASE UNCHANGED taskData
  BY <1>5, <1>6 DEF taskData, groupVars, Awaited, Overpaid
<1>7. ASSUME NEW t \in Tasks, HandsOver(t) PROVE Kept
  BY <1>5, <1>7 DEF HandsOver, groupVars, Awaited, Overpaid
<1>8. ASSUME NEW t \in Tasks, Executes(t) PROVE Kept
  <2>1. /\ UNCHANGED <<completions, groupAdded, groupCompleted, refused>>
        /\ \A u \in Tasks : state'[u] # "Initial" <=> state[u] # "Initial"
    BY <1>1, <1>8 DEF Executes, Executed, groupVars
  <2>2. Awaited' = Awaited /\ Overpaid' = Overpaid
    BY <1>1, <2>1 DEF Awaited, Overpaid
  <2>3. QED
    BY <1>5, <2>1, <2>2
<1>9. ASSUME NEW t \in Tasks, NEW ok \in BOOLEAN, GetsPrepared(t, ok) PROVE Kept
  <2>1. /\ UNCHANGED <<completions, groupCompleted>>
        /\ completions[t] = 0 /\ state[t] = "Initial" /\ t \notin refused
        /\ Prepares(t, ok)
    BY <1>1, <1>9 DEF GetsPrepared, Answers, AnsweredStates, Executed
  <2>2. /\ state'[t] # "Initial"
        /\ \A u \in Tasks : u # t => state'[u] = state[u]
    BY <1>1, <1>9 DEF GetsPrepared
  <2>3. t \notin Awaited /\ Overpaid' = Overpaid
    BY <1>1, <2>1 DEF Awaited, Overpaid, Prepares
  <2>4. Awaited' = IF ok /\ t \in Group THEN Awaited \cup {t} ELSE Awaited
    BY <1>1, <2>1, <2>2 DEF Awaited, Prepares
  <2>5. CASE ok /\ t \in Group
    <3>1. Cardinality(Awaited') = Cardinality(Awaited) + 1
      BY <1>3, <2>3, <2>4, <2>5, FS_AddElement
    <3>2. groupAdded' = groupAdded + 1
      BY <2>1, <2>5 DEF Prepares
    <3>3. groupCompleted' = groupCompleted /\ Overpaid' = Overpaid
      BY <2>1, <2>3
    <3>4. QED
      BY <1>2, <1>3, <1>4, <3>1, <3>2, <3>3
  <2>6. CASE ~(ok /\ t \in Group)
    BY <1>5, <2>1, <2>3, <2>4, <2>6 DEF Prepares
  <2>7. QED
    BY <2>5, <2>6
<1>10. ASSUME NEW T \in SUBSET Tasks, Cancels(T) PROVE Kept
  <2>1. /\ UNCHANGED <<groupAdded, refused>>
        /\ groupCompleted' = groupCompleted + Cardinality(T \cap Group)
        /\ \A t \in T : /\ completions[t] = 0 /\ state[t] = "Prepared" /\ t \notin refused
                        /\ completions'[t] = 1
        /\ \A t \in Tasks \ T : completions'[t] = completions[t] /\ state'[t] = state[t]
    <3>1. \A t \in T : completions[t] = 0 /\ state[t] = "Prepared"
      BY <1>10 DEF Cancels, Answers
    <3>2. \A t \in T : t \notin refused
      BY <1>1, <3>1 DEF AnsweredStates, Executed
    <3>3. QED
      BY <1>1, <1>10, <3>1, <3>2 DEF Cancels, HandleCompleted
  <2>2. T \cap Group \in SUBSET Awaited
    BY <1>1, <2>1 DEF Awaited
  <2>3. Awaited' = Awaited \ (T \cap Group) /\ Overpaid' = Overpaid
    BY <1>1, <2>1 DEF Awaited, Overpaid
  <2>4. IsFiniteSet(T \cap Group) /\ Cardinality(T \cap Group) \in Nat
    BY <1>3, <2>2, FS_Subset, FS_CardinalityType
  <2>5. Cardinality(Awaited') = Cardinality(Awaited) - Cardinality(T \cap Group)
    <3>1. Awaited \cap (T \cap Group) = T \cap Group
      BY <2>2
    <3>2. Cardinality(Awaited \ (T \cap Group))
            = Cardinality(Awaited) - Cardinality(Awaited \cap (T \cap Group))
      BY <1>3, FS_Difference
    <3>3. QED
      BY <2>3, <3>1, <3>2
  <2>6. QED
    BY <1>2, <1>3, <1>4, <2>1, <2>3, <2>4, <2>5
<1>11. ASSUME NEW t \in Tasks, Completes(t) PROVE Kept
  <2>1. In(t, batch)
    BY <1>1, <1>11, InTail DEF Completes, OutputExact
  <2>2. delivered[t] = 1 /\ completions[t] = 0 /\ state[t] # "Prepared"
    BY <1>1, <2>1 DEF OutputExact, AnsweredStates
  <2>3. /\ completions'[t] = 1
        /\ \A u \in Tasks : u # t => completions'[u] = completions[u] /\ state'[u] = state[u]
    BY <1>1, <1>11, <2>2 DEF Completes
  <2>4. /\ groupCompleted' = groupCompleted + IF t \in Group THEN 1 ELSE 0
        /\ refused' = refused \/ refused' = refused \cup {t}
    <3>1. Cardinality({t} \cap Group) = IF t \in Group THEN 1 ELSE 0
      <4>1. {t} \cap Group = IF t \in Group THEN {t} ELSE {}
        OBVIOUS
      <4>2. QED
        BY <4>1, FS_EmptySet, FS_Singleton
    <3>2. QED
      BY <1>11, <3>1 DEF Completes, HandleCompleted, Prepares
  <2>5. Awaited' = Awaited \ {t}
    BY <1>1, <2>3, <2>4 DEF Awaited
  <2>6. Overpaid' = IF t \in Group \cap refused' THEN Overpaid \cup {t} ELSE Overpaid
    BY <1>1, <2>2, <2>3, <2>4 DEF Overpaid
  <2>7. t \notin Overpaid
    BY <2>2 DEF Overpaid
  <2>8. Cardinality(Awaited') = Cardinality(Awaited) - IF t \in Awaited THEN 1 ELSE 0
    <3>1. Cardinality(Awaited \ {t})
            = IF t \in Awaited THEN Cardinality(Awaited) - 1 ELSE Cardinality(Awaited)
      BY <1>3, FS_RemoveElement
    <3>2. QED
      BY <1>3, <2>5, <3>1
  <2>9. Cardinality(Overpaid')
          = Cardinality(Overpaid) + IF t \in Group \cap refused' THEN 1 ELSE 0
    <3>1. Cardinality(Overpaid \cup {t}) = Cardinality(Overpaid) + 1
      BY <1>3, <2>7, FS_AddElement
    <3>2. CASE t \in Group \cap refused'
      BY <2>6, <3>1, <3>2
    <3>3. CASE t \notin Group \cap refused'
      BY <1>3, <2>6, <3>3
    <3>4. QED
      BY <3>2, <3>3
  <2>10. CASE t \notin Group
    <3>1. groupAdded' = groupAdded
      BY <1>11, <2>10 DEF Completes, Prepares
    <3>2. t \notin Awaited
      BY <2>10 DEF Awaited
    <3>3. QED
      BY <1>2, <1>3, <1>4, <2>4, <2>8, <2>9, <2>10, <3>1, <3>2
  <2>11. CASE t \in Group /\ state[t] \in Executed
    <3>1. groupAdded' = groupAdded /\ refused' = refused
      BY <1>11, <2>11 DEF Completes
    <3>2. t \in Awaited <=> t \notin refused'
      BY <2>2, <2>11, <3>1 DEF Awaited, Executed
    <3>3. QED
      BY <1>2, <1>3, <1>4, <2>4, <2>8, <2>9, <2>11, <3>1, <3>2
  <2>12. CASE t \in Group /\ state[t] \notin Executed
    <3>1. state[t] = "Initial" /\ t \notin refused
      BY <1>1, <2>2, <2>12 DEF TaskState, Executed, AnsweredStates
    <3>2. t \notin Awaited
      BY <3>1 DEF Awaited
    <3>3. PICK ok \in BOOLEAN : Prepares(t, ok)
      BY <1>11, <2>12 DEF Completes
    <3>4. /\ t \in refused' <=> ~ok
          /\ groupAdded' = groupAdded + IF ok THEN 1 ELSE 0
      BY <1>1, <2>12, <3>1, <3>3 DEF Prepares
    <3>5. QED
      BY <1>2, <1>3, <1>4, <2>4, <2>8, <2>9, <2>12, <3>2, <3>4
  <2>13. QED
    BY <2>10, <2>11, <2>12
<1>12. CASE TakesOutput
  BY <1>5, <1>12 DEF TakesOutput, groupVars, Awaited, Overpaid
<1>13. QED
  BY <1>6, <1>7, <1>8, <1>9, <1>10, <1>11, <1>12, Effects

-----------------------------------------------------------------------------
(* What a step does to the functions given to performOnThread.             *)

callbackData == <<outputCallbacks, cbatch, posted, ran>>

\* A new function goes to the output.
Posts(f) ==
  /\ f \notin posted /\ posted' = posted \cup {f}
  /\ outputCallbacks' = Append(outputCallbacks, f)
  /\ UNCHANGED <<cbatch, ran>>

\* The output becomes the batch.
TakesCallbacks ==
  /\ cbatch = <<>> /\ cbatch' = outputCallbacks /\ outputCallbacks' = <<>>
  /\ UNCHANGED <<posted, ran>>

\* The first function of the batch is run.
RunsCallback ==
  /\ cbatch # <<>> /\ cbatch' = Tail(cbatch)
  /\ ran' = [ran EXCEPT ![Head(cbatch)] = @ + 1]
  /\ UNCHANGED <<outputCallbacks, posted>>

\* Every step of the queue is one of these, or leaves the functions alone.
LEMMA CallbackEffects ==
  ASSUME QueueInv, QueueNext
  PROVE  \/ UNCHANGED callbackData
         \/ \E f \in Callbacks : Posts(f)
         \/ TakesCallbacks
         \/ RunsCallback
<1> USE DEF callbackData, vars, outputVars, performVars, dispatchVars, groupVars,
      callbackVars, ownVars
<1>1. ASSUME NEW p, NEW t, PushTask(p, t) \/ UNCHANGED ownVars PROVE UNCHANGED callbackData
  BY <1>1 DEF PushTask
<1>2. ASSUME NEW w \in Workers, WorkerTurn(w) \/ (SpuriousWake(w) /\ UNCHANGED ownVars)
      PROVE  UNCHANGED callbackData
  BY <1>1, <1>2 DEF WorkerTurn
<1>3. ASSUME NEW c \in Clients, ClientTurn(c) PROVE UNCHANGED callbackData
  <2>1. CASE cpc[c] = "decline" /\ complete
    BY <1>1, <1>3, <2>1 DEF ClientTurn
  <2>2. CASE cpc[c] = "prepare"
    BY <1>3, <2>2 DEF ClientTurn
  <2>3. CASE ~(cpc[c] = "decline" /\ complete) /\ cpc[c] # "prepare"
    BY <1>3, <2>3 DEF ClientTurn
  <2>4. QED
    BY <2>1, <2>2, <2>3
<1>4. ASSUME NEW c \in Clients, NEW t \in Tasks, QueuePerform(c, t) \/ PerformOnThread(c, t)
      PROVE  UNCHANGED callbackData
  BY <1>1, <1>4 DEF QueuePerform, PerformOnThread
<1>5. ASSUME NEW c \in Clients, NEW f \in Callbacks, PerformOnThreadCallback(c, f)
      PROVE  Posts(f)
  BY <1>5 DEF PerformOnThreadCallback, PushCallback, Posts
<1>6. ASSUME NEW p \in Threads, OutputWakeup(p) \/ OutputNotify(p)
      PROVE  UNCHANGED callbackData
  BY <1>6 DEF OutputWakeup, OutputNotify
<1>7. ASSUME \/ CallUpdate \/ CallWaitForAll \/ CallWaitFor \/ CallWait \/ CallCancel
             \/ CallDestroy \/ CancelTurn
      PROVE  UNCHANGED callbackData
  BY <1>7 DEF CallUpdate, CallWaitForAll, CallWaitFor, CallWait, CallCancel, CallDestroy,
     Call, CancelTurn
<1>8. ASSUME UpdateSwap PROVE TakesCallbacks
  BY <1>8 DEF UpdateSwap, TakesCallbacks, Dispatch, QueueInv, OwnerInv
<1>9. ASSUME UpdateRunCallback PROVE RunsCallback
  BY <1>9 DEF UpdateRunCallback, RunsCallback
<1>10. ASSUME DispatcherStep, ~UpdateSwap, ~UpdateRunCallback PROVE UNCHANGED callbackData
  BY <1>10 DEF DispatcherStep, DestroyUpdate, UpdateRunTask, UpdateRan, UpdateDone,
     WaitForAllLoop, WaitForLook, WaitForTimeout, WaitRelock
<1>11. QED
  BY <1>2, <1>3, <1>4, <1>5, <1>6, <1>7, <1>8, <1>9, <1>10 DEF QueueNext

\* What was posted and has not run is in the output, whatever happens.
LEMMA CallbacksStep ==
  ASSUME QueueInv, QueueNext
  PROVE  /\ CallbacksExact'
         /\ outputCallbacks' \in Seq(Callbacks) /\ cbatch' \in Seq(Callbacks)
         /\ posted' \in SUBSET Callbacks /\ ran' \in [Callbacks -> Nat]
<1> DEFINE Kept == /\ CallbacksExact'
                   /\ outputCallbacks' \in Seq(Callbacks) /\ cbatch' \in Seq(Callbacks)
                   /\ posted' \in SUBSET Callbacks /\ ran' \in [Callbacks -> Nat]
<1>1. /\ CallbacksExact
      /\ outputCallbacks \in Seq(Callbacks) /\ cbatch \in Seq(Callbacks)
      /\ posted \in SUBSET Callbacks /\ ran \in [Callbacks -> Nat]
  BY DEF QueueInv, QueueTypeOK
<1>2. CASE UNCHANGED callbackData
  BY <1>1, <1>2 DEF callbackData, CallbacksExact
<1>3. ASSUME NEW f \in Callbacks, Posts(f) PROVE Kept
  <2>1. ~In(f, outputCallbacks) /\ ~In(f, cbatch) /\ ran[f] = 0
    BY <1>1, <1>3 DEF CallbacksExact, Posts
  <2>2. /\ outputCallbacks' \in Seq(Callbacks)
        /\ \A y : In(y, outputCallbacks') <=> In(y, outputCallbacks) \/ y = f
        /\ Distinct(outputCallbacks')
    BY <1>1, <1>3, <2>1, InAppend DEF CallbacksExact, Posts
  <2>3. QED
    BY <1>1, <1>3, <2>1, <2>2 DEF CallbacksExact, Posts
<1>4. CASE TakesCallbacks
  <2>1. Distinct(<<>>) /\ \A f : ~In(f, <<>>)
    BY InEmpty
  <2>2. QED
    BY <1>1, <1>4, <2>1 DEF CallbacksExact, TakesCallbacks
<1>5. CASE RunsCallback
  <2>1. PICK f \in Callbacks : f = Head(cbatch)
    BY <1>1, <1>5, InTail DEF RunsCallback, CallbacksExact
  <2>2. /\ cbatch' \in Seq(Callbacks) /\ In(f, cbatch) /\ Distinct(cbatch')
        /\ \A y : In(y, cbatch') <=> In(y, cbatch) /\ y # f
    BY <1>1, <1>5, <2>1, InTail DEF RunsCallback, CallbacksExact
  <2>3. f \in posted /\ ran[f] = 0 /\ ~In(f, outputCallbacks)
    BY <1>1, <2>2 DEF CallbacksExact
  <2>4. /\ ran'[f] = 1 /\ ran' \in [Callbacks -> Nat]
        /\ \A g \in Callbacks : g # f => ran'[g] = ran[g]
    BY <1>1, <1>5, <2>1, <2>3 DEF RunsCallback
  <2>5. CallbacksExact'
    BY <1>1, <1>5, <2>2, <2>3, <2>4 DEF CallbacksExact, RunsCallback
  <2>6. QED
    BY <1>1, <1>5, <2>2, <2>4, <2>5 DEF RunsCallback
<1>6. QED
  BY <1>2, <1>3, <1>4, <1>5, CallbackEffects

-----------------------------------------------------------------------------
(* The owner thread.                                                       *)

\* What the workers and the clients do leaves the owner where it is, and does
\* not happen in a queue that is destroyed.
LEMMA OthersStep ==
  ASSUME QueueInv
  PROVE  /\ \A w \in Workers : WorkerTurn(w) \/ (SpuriousWake(w) /\ UNCHANGED ownVars) =>
              dcall # "destroy" /\ UNCHANGED <<dispatchVars, kpc>>
         /\ \A c \in Clients : ClientTurn(c) => dcall # "destroy" /\ UNCHANGED <<dispatchVars, kpc>>
         /\ \A c \in Clients, t \in Tasks : QueuePerform(c, t) \/ PerformOnThread(c, t) =>
              dcall # "destroy" /\ UNCHANGED <<dispatchVars, kpc>>
         /\ \A c \in Clients, f \in Callbacks : PerformOnThreadCallback(c, f) =>
              dcall # "destroy" /\ UNCHANGED <<dispatchVars, kpc>>
<1>0. /\ IInv /\ Quiet /\ OwnerInv
  BY DEF QueueInv
<1>1. ASSUME NEW w \in Workers, WorkerTurn(w) \/ (SpuriousWake(w) /\ UNCHANGED ownVars)
      PROVE  dcall # "destroy" /\ UNCHANGED <<dispatchVars, kpc>>
  <2>1. wpc[w] # "none" /\ UNCHANGED kpc
    BY <1>1 DEF WorkerTurn, WorkerStep, SpuriousWake, WorkerCheck, WorkerPop,
       WorkerPopNothing, WorkerLock, WorkerReadFinalized, WorkerWait, WorkerWake,
       WorkerExecute, WorkerDeliver, WorkerDecrement, GoWorker, cancelVars
  <2>2. dcall # "destroy"
    BY <1>0, <2>1 DEF IInv, WorkersAlive, OwnerInv
  <2>3. UNCHANGED dispatchVars
    BY <1>1 DEF WorkerTurn, PushTask, ownVars
  <2>4. QED
    BY <2>1, <2>2, <2>3
<1>2. ASSUME NEW c \in Clients, ClientTurn(c)
      PROVE  dcall # "destroy" /\ UNCHANGED <<dispatchVars, kpc>>
  <2>1. cpc[c] # "idle" /\ UNCHANGED kpc
    BY <1>2 DEF ClientTurn, ClientStep, PerformReadFlags, PerformReadLazyEmpty, SpawnLock,
       SpawnOne, SpawnDone, PerformReadEmpty, PerformPrepare, PerformDecline, PerformCount,
       PerformPush, PerformNotify, GoClient, cancelVars
  <2>2. dcall # "destroy"
    BY <1>0, <2>1 DEF Quiet, OwnerInv
  <2>3. UNCHANGED dispatchVars
    <3>1. CASE cpc[c] = "decline" /\ complete
      BY <1>2, <3>1 DEF ClientTurn, PushTask
    <3>2. CASE cpc[c] = "prepare"
      BY <1>2, <3>2 DEF ClientTurn
    <3>3. CASE ~(cpc[c] = "decline" /\ complete) /\ cpc[c] # "prepare"
      BY <1>2, <3>3 DEF ClientTurn, ownVars
    <3>4. QED
      BY <3>1, <3>2, <3>3
  <2>4. QED
    BY <2>1, <2>2, <2>3
<1>3. ASSUME NEW c \in Clients, NEW t \in Tasks, QueuePerform(c, t) \/ PerformOnThread(c, t)
      PROVE  dcall # "destroy" /\ UNCHANGED <<dispatchVars, kpc>>
  BY <1>3 DEF QueuePerform, PerformOnThread, PerformBegin, PerformCompleted, PushTask, Alive,
     ownVars, cancelVars
<1>4. ASSUME NEW c \in Clients, NEW f \in Callbacks, PerformOnThreadCallback(c, f)
      PROVE  dcall # "destroy" /\ UNCHANGED <<dispatchVars, kpc>>
  BY <1>4 DEF PerformOnThreadCallback, PushCallback, Alive, vars, cancelVars
<1>5. QED
  BY <1>1, <1>2, <1>3, <1>4

\* The owner keeps its own order, and destroys the queue only once.
LEMMA OwnerStep ==
  ASSUME ~Racing, QueueInv, QueueNext
  PROVE  OwnerInv'
<1> USE DEF OwnerInv, dispatchVars
<1>0. IInv /\ Quiet /\ Closed /\ OwnerInv
  BY DEF QueueInv
<1>1. ASSUME dcall # "destroy", UNCHANGED <<dispatchVars, kpc>> PROVE OwnerInv'
  BY <1>0, <1>1
<1>2. ASSUME NEW p \in Threads, OutputWakeup(p) \/ OutputNotify(p) PROVE OwnerInv'
  BY <1>0, <1>2 DEF OutputWakeup, OutputNotify, vars, contextVars, queueVars, cancelVars,
     outputVars
<1>3. ASSUME CallUpdate \/ CallWaitForAll \/ CallWaitFor \/ CallWait PROVE OwnerInv'
  <2>1. PICK name \in {"update", "waitForAll", "waitFor", "wait"},
             at \in {"swap", "look", "sleep"} : Call(name, at)
    BY <1>3 DEF CallUpdate, CallWaitForAll, CallWaitFor, CallWait
  <2>2. /\ dpc = "idle" /\ dpc' = at /\ dcall' = name /\ kpc = "idle"
        /\ UNCHANGED <<kpc, batch, cbatch>>
    BY <2>1 DEF Call, Dispatch, vars, cancelVars
  <2>3. QED
    BY <1>0, <2>2
<1>4. ASSUME CallCancel PROVE OwnerInv'
  BY <1>0, <1>4 DEF CallCancel, CancelBegin, ownVars
<1>5. ASSUME CallDestroy PROVE OwnerInv'
  BY <1>0, <1>5 DEF CallDestroy, CancelBegin, Dispatch, queueVars, outputVars
<1>6. ASSUME CancelTurn PROVE OwnerInv'
  <2>1. UNCHANGED <<outputVars, dispatchVars>> /\ kpc # "idle"
    BY <1>6 DEF CancelTurn, CancelStep, CancelReadWorkers, CancelStop, CancelNotify,
       CancelJoin, CancelSweep, CancelClear, CancelReset
  <2>2. UNCHANGED finalized /\ workers' \subseteq workers /\ inputQueue' \subseteq inputQueue
    BY <1>6 DEF CancelTurn, CancelStep, CancelReadWorkers, CancelStop, CancelNotify,
       CancelJoin, CancelSweep, CancelClear, CancelReset, contextVars, queueVars
  <2>3. QED
    BY <1>0, <2>1, <2>2 DEF outputVars
<1>7. ASSUME DispatcherStep PROVE OwnerInv'
  <2>1. UNCHANGED <<finalized, workers, inputQueue, kpc>>
    BY <1>7 DEF DispatcherStep, DestroyUpdate, UpdateSwap, UpdateRunTask, UpdateRunCallback,
       UpdateRan, UpdateDone, WaitForAllLoop, WaitForLook, WaitForTimeout, WaitRelock, vars,
       contextVars, queueVars, cancelVars
  <2>2. CASE DestroyUpdate
    BY <1>0, <2>1, <2>2 DEF DestroyUpdate, Dispatch, outputVars
  <2>3. CASE UpdateSwap
    BY <1>0, <2>1, <2>3 DEF UpdateSwap, Dispatch
  <2>4. CASE UpdateRunTask
    BY <1>0, <2>1, <2>4 DEF UpdateRunTask, outputVars
  <2>5. CASE UpdateRunCallback
    BY <1>0, <2>1, <2>5 DEF UpdateRunCallback, outputVars
  <2>6. CASE UpdateRan
    BY <1>0, <2>1, <2>6 DEF UpdateRan, Dispatch, outputVars
  <2>7. CASE UpdateDone
    BY <1>0, <2>1, <2>7 DEF UpdateDone, Dispatch, outputVars
  <2>8. CASE WaitForAllLoop \/ WaitForLook \/ WaitForTimeout \/ WaitRelock
    BY <1>0, <2>1, <2>8 DEF WaitForAllLoop, WaitForLook, WaitForTimeout, WaitRelock, Dispatch,
       outputVars
  <2>9. QED
    BY <1>7, <2>2, <2>3, <2>4, <2>5, <2>6, <2>7, <2>8 DEF DispatcherStep
<1> HIDE DEF OwnerInv, dispatchVars
<1>8. QED
  BY <1>1, <1>2, <1>3, <1>4, <1>5, <1>6, <1>7, OthersStep DEF QueueNext

\* The remaining variables keep their types.
LEMMA OutputTypes ==
  ASSUME QueueInv, QueueNext
  PROVE  /\ outputCounter' \in Nat /\ outputHeld' \in BOOLEAN /\ woken' \in BOOLEAN
         /\ opc' \in [Threads -> OutputPc] /\ refused' \in SUBSET Tasks
         /\ dpc' \in DispatcherPc /\ dcall' \in DispatcherCall
<1> DEFINE Kept == /\ outputCounter' \in Nat /\ outputHeld' \in BOOLEAN /\ woken' \in BOOLEAN
                   /\ opc' \in [Threads -> OutputPc] /\ refused' \in SUBSET Tasks
                   /\ dpc' \in DispatcherPc /\ dcall' \in DispatcherCall
<1> USE DEF outputVars, performVars, dispatchVars, groupVars, callbackVars, ownVars, OutputPc,
      DispatcherPc, DispatcherCall
<1>0. /\ outputCounter \in Nat /\ outputHeld \in BOOLEAN /\ woken \in BOOLEAN
      /\ opc \in [Threads -> OutputPc] /\ refused \in SUBSET Tasks
      /\ dpc \in DispatcherPc /\ dcall \in DispatcherCall
      /\ wtask \in [Workers -> Tasks \cup {NoTask}]
      /\ ctask \in [Clients -> Tasks \cup {NoTask}]
  BY DEF QueueInv, QueueTypeOK, TypeOK
<1>1. ASSUME UNCHANGED <<outputCounter, outputHeld, woken, opc, refused, dpc, dcall>>
      PROVE  Kept
  BY <1>0, <1>1
<1>2. ASSUME NEW p \in Threads, NEW t, PushTask(p, t) PROVE Kept
  BY <1>0, <1>2 DEF PushTask
<1>3. ASSUME NEW w \in Workers, WorkerTurn(w) \/ (SpuriousWake(w) /\ UNCHANGED ownVars)
      PROVE  Kept
  <2>1. w \in Threads
    BY DEF Threads
  <2>2. QED
    BY <1>1, <1>2, <1>3, <2>1 DEF WorkerTurn
<1>4. ASSUME NEW c \in Clients, ClientTurn(c) PROVE Kept
  <2>1. c \in Threads
    BY DEF Threads
  <2>2. CASE cpc[c] = "decline" /\ complete
    BY <1>2, <1>4, <2>1, <2>2 DEF ClientTurn
  <2>3. CASE cpc[c] = "prepare"
    <3>1. cpc[c] # "idle" /\ cpc[c] # "notify" /\ ctask[c] \in Tasks
      BY <1>0, <2>3 DEF QueueInv, IInv, Holding
    <3>2. QED
      BY <1>0, <1>4, <2>3, <3>1 DEF ClientTurn, Prepares
  <2>4. CASE ~(cpc[c] = "decline" /\ complete) /\ cpc[c] # "prepare"
    BY <1>1, <1>4, <2>4 DEF ClientTurn
  <2>5. QED
    BY <2>2, <2>3, <2>4
<1>5. ASSUME NEW c \in Clients, NEW t \in Tasks, QueuePerform(c, t) \/ PerformOnThread(c, t)
      PROVE  Kept
  <2>1. c \in Threads
    BY DEF Threads
  <2>2. QED
    BY <1>1, <1>2, <1>5, <2>1 DEF QueuePerform, PerformOnThread
<1>6. ASSUME NEW c \in Clients, NEW f \in Callbacks, PerformOnThreadCallback(c, f) PROVE Kept
  <2>1. c \in Threads
    BY DEF Threads
  <2>2. QED
    BY <1>0, <1>6, <2>1 DEF PerformOnThreadCallback, PushCallback
<1>7. ASSUME NEW p \in Threads, OutputWakeup(p) \/ OutputNotify(p) PROVE Kept
  BY <1>0, <1>7 DEF OutputWakeup, OutputNotify
<1>8. ASSUME CallUpdate \/ CallWaitForAll \/ CallWaitFor \/ CallWait PROVE Kept
  BY <1>0, <1>8 DEF CallUpdate, CallWaitForAll, CallWaitFor, CallWait, Call, Dispatch
<1>9. ASSUME CallCancel \/ CallDestroy \/ CancelTurn PROVE Kept
  BY <1>0, <1>9 DEF CallCancel, CallDestroy, CancelTurn, Dispatch
<1>10. ASSUME UpdateRunTask PROVE Kept
  <2>1. Head(batch) \in Tasks
    BY <1>10, HeadTailProperties DEF UpdateRunTask, QueueInv, QueueTypeOK
  <2>2. QED
    BY <1>0, <1>10, <2>1 DEF UpdateRunTask, Prepares
<1>11. ASSUME DispatcherStep, ~UpdateRunTask PROVE Kept
  <2>1. UNCHANGED <<woken, opc, refused, dcall>>
    BY <1>11 DEF DispatcherStep, DestroyUpdate, UpdateSwap, UpdateRunCallback, UpdateRan,
       UpdateDone, WaitForAllLoop, WaitForLook, WaitForTimeout, WaitRelock
  <2>2. outputCounter' \in Nat /\ outputHeld' \in BOOLEAN
    <3>1. CASE UpdateSwap
      <4>1. outputCounter' = 0 /\ outputHeld' = outputHeld
        BY <3>1 DEF UpdateSwap
      <4>2. QED
        BY <1>0, <4>1
    <3>2. CASE WaitRelock
      <4>1. outputCounter' = outputCounter /\ outputHeld' = TRUE
        BY <3>2 DEF WaitRelock
      <4>2. QED
        BY <1>0, <4>1
    <3>3. CASE ~UpdateSwap /\ ~WaitRelock
      <4>1. UNCHANGED outputVars
        BY <1>11, <3>3 DEF DispatcherStep, DestroyUpdate, UpdateRunCallback, UpdateRan,
           UpdateDone, WaitForAllLoop, WaitForLook, WaitForTimeout
      <4>2. QED
        BY <1>0, <4>1
    <3>4. QED
      BY <3>1, <3>2, <3>3
  <2>3. CASE DestroyUpdate \/ UpdateSwap \/ UpdateRunCallback \/ UpdateRan \/ UpdateDone
    BY <1>0, <2>1, <2>2, <2>3 DEF DestroyUpdate, UpdateSwap, UpdateRunCallback, UpdateRan,
       UpdateDone, Dispatch
  <2>4. CASE WaitForAllLoop \/ WaitForLook \/ WaitForTimeout \/ WaitRelock
    BY <1>0, <2>1, <2>2, <2>4 DEF WaitForAllLoop, WaitForLook, WaitForTimeout, WaitRelock,
       Dispatch
  <2>5. QED
    BY <1>11, <2>3, <2>4 DEF DispatcherStep
<1> HIDE DEF Kept
<1>12. Kept
  BY <1>3, <1>4, <1>5, <1>6, <1>7, <1>8, <1>9, <1>10, <1>11 DEF QueueNext
<1>13. QED
  BY <1>12 DEF Kept

-----------------------------------------------------------------------------
(* The invariant.                                                          *)

\* A queue begins with nothing in it and nobody at work.
LEMMA QueueInvInit == QueueInit => QueueInv
<1> SUFFICES ASSUME QueueInit PROVE QueueInv
  OBVIOUS
<1>1. Init /\ IInv /\ TypeOK
  BY InvInit, TypeInit DEF QueueInit
<1>2. QueueTypeOK
  <2>1. <<>> \in Seq(Tasks) /\ <<>> \in Seq(Callbacks)
    OBVIOUS
  <2>2. QED
    BY <1>1, <2>1 DEF QueueInit, QueueTypeOK, OutputPc, DispatcherPc, DispatcherCall
<1>3. Quiet /\ Closed
  BY <1>1 DEF Init, Quiet, Closed
<1>4. OutputExact /\ CallbacksExact
  BY <1>1, InEmpty DEF QueueInit, Init, OutputExact, CallbacksExact
<1>5. QueueAnswers
  BY <1>1 DEF Init, QueueAnswers, Answers
<1>6. AnsweredStates /\ OwnerInv
  BY <1>1 DEF QueueInit, Init, AnsweredStates, OwnerInv
<1>7. GroupCounts
  <2>1. Awaited = {} /\ Overpaid = {}
    BY <1>1, QueueAssumption DEF QueueInit, Init, Awaited, Overpaid
  <2>2. groupAdded - groupCompleted = Cardinality(Awaited) - Cardinality(Overpaid)
    BY <2>1, FS_EmptySet DEF QueueInit
  <2>3. QED
    BY <2>2 DEF GroupCounts, Awaited, Overpaid
<1>8. QED
  BY <1>1, <1>2, <1>3, <1>4, <1>5, <1>6, <1>7 DEF QueueInv

\* A step that changes nothing keeps it.
LEMMA QueueInvStutter == QueueInv /\ UNCHANGED allVars => QueueInv'
<1> SUFFICES ASSUME QueueInv, UNCHANGED allVars PROVE QueueInv'
  OBVIOUS
<1>1. UNCHANGED vars /\ UNCHANGED ownVars
  BY DEF allVars
<1>2. IInv'
  BY <1>1, InvStep DEF QueueInv
<1>3. QueueTypeOK'
  BY <1>1, <1>2 DEF QueueInv, QueueTypeOK, IInv, ownVars, outputVars, performVars,
     dispatchVars, groupVars, callbackVars
<1>4. (Quiet /\ Closed /\ QueueAnswers)'
  BY <1>1 DEF QueueInv, Quiet, Closed, QueueAnswers, Answers, Placed, HeldByWorker,
     HeldByClient, vars, contextVars, queueVars, workerVars, clientVars, cancelVars,
     taskVars, historyVars
<1>5. (OutputExact /\ CallbacksExact /\ AnsweredStates /\ OwnerInv /\ GroupCounts)'
  BY <1>1 DEF QueueInv, OutputExact, CallbacksExact, AnsweredStates, OwnerInv, GroupCounts,
     vars, contextVars, queueVars, cancelVars, taskVars, historyVars, ownVars, outputVars,
     dispatchVars, groupVars, callbackVars
<1>6. QED
  BY <1>2, <1>3, <1>4, <1>5 DEF QueueInv

\* Every step of a queue whose cancel() overlaps no perform() keeps it.
LEMMA QueueInvStep == ~Racing /\ QueueInv /\ [QueueNext]_allVars => QueueInv'
<1> SUFFICES ASSUME ~Racing, QueueInv, QueueNext PROVE QueueInv'
  BY QueueInvStutter
<1>1. IInv'
  BY PoolInvStep DEF QueueInv
<1>2. QueueTypeOK'
  BY <1>1, OutputStep, CallbacksStep, GroupStep, OutputTypes DEF IInv, QueueTypeOK
<1>3. QED
  BY <1>1, <1>2, QueueAnswersStep, OutputStep, CallbacksStep, GroupStep, OwnerStep DEF QueueInv

\* So it holds for good.
LEMMA QueueInvAlways == ~Racing => (QueueSpec => []QueueInv)
<1> SUFFICES ASSUME ~Racing PROVE QueueSpec => []QueueInv
  OBVIOUS
<1>1. QueueInv /\ [QueueNext]_allVars => QueueInv'
  BY QueueInvStep
<1>2. QED
  BY QueueInvInit, <1>1, PTL DEF QueueSpec

-----------------------------------------------------------------------------
(* What follows from it.                                                   *)

\* Every variable keeps its type in every behaviour of the queue.
THEOREM QueueTypeCorrect == ~Racing => (QueueSpec => []QueueTypeOK)
<1> SUFFICES ASSUME ~Racing PROVE QueueSpec => []QueueTypeOK
  OBVIOUS
<1>1. QueueInv => QueueTypeOK
  BY DEF QueueInv
<1>2. QED
  BY QueueInvAlways, <1>1, PTL

\* A task is completed once, and only executed; a function runs once; and the
\* group's counters balance (Task::run, handleCompleted, update(), cancel()).
THEOREM CompletionsAreOnce == ~Racing => (QueueSpec => []CompletedOnce)
<1> SUFFICES ASSUME ~Racing PROVE QueueSpec => []CompletedOnce
  OBVIOUS
<1>1. QueueInv => CompletedOnce
  BY DEF QueueInv, AnsweredStates, CallbacksExact, CompletedOnce
<1>2. QED
  BY QueueInvAlways, <1>1, PTL

\* With no worker and no call left a submitted task is in the output, has
\* been completed, or was never prepared; ~TaskQueue finds the output empty.
THEOREM DestructorLeavesNothing == ~Racing => (QueueSpec => []DestroyedClean)
<1> SUFFICES ASSUME ~Racing PROVE QueueSpec => []DestroyedClean
  OBVIOUS
<1>1. QueueInv => DestroyedClean
  <2> SUFFICES ASSUME QueueInv, dpc = "gone" PROVE DestroyedClean
    BY DEF DestroyedClean
  <2>1. /\ finalized /\ workers = {} /\ inputQueue = {}
        /\ outputQueue = <<>> /\ outputCallbacks = <<>> /\ batch = <<>> /\ cbatch = <<>>
    BY DEF QueueInv, OwnerInv
  <2>2. \A t \in Tasks : ~In(t, outputQueue) /\ ~In(t, batch)
    BY <2>1, InEmpty
  <2>3. \A f \in Callbacks : ~In(f, outputCallbacks) /\ ~In(f, cbatch)
    BY <2>1, InEmpty
  <2>4. \A t \in Tasks : ~Placed(t)
    BY <2>1, PoolAssumption DEF QueueInv, IInv, Holding, WorkersAlive, Quiet, Placed,
       HeldByWorker, HeldByClient
  <2>5. \A t \in Tasks : delivered[t] = 1 => completions[t] = 1
    BY <2>2 DEF QueueInv, OutputExact, AnsweredStates
  <2>6. submitted \subseteq Tasks /\ posted \subseteq Callbacks
    BY DEF QueueInv, QueueTypeOK, TypeOK
  <2>7. \A t \in submitted : state[t] # "Initial" => completions[t] = 1
    BY <2>4, <2>5, <2>6 DEF QueueInv, QueueAnswers, Answers
  <2>8. \A f \in posted : ran[f] = 1
    BY <2>3, <2>6 DEF QueueInv, CallbacksExact
  <2>9. QED
    BY <2>1, <2>7, <2>8 DEF DestroyedClean
<1>2. QED
  BY QueueInvAlways, <1>1, PTL

\* When waitForAll() reads a zero tasksCounter nothing is queued or in a
\* worker's hands: what was called before and is not executed was never prepared.
THEOREM WaitForAllIsABarrier == ~Racing => (QueueSpec => WaitForAllBarrier)
<1> SUFFICES ASSUME ~Racing PROVE QueueSpec => WaitForAllBarrier
  OBVIOUS
<1> DEFINE Barrier == dpc = "loop" /\ dpc' = "idle" =>
               \A t \in submitted :
                 ~HeldByClient(t) /\ delivered[t] = 0 => state[t] = "Initial"
<1>1. QueueInv /\ [QueueNext]_allVars => Barrier
  <2> SUFFICES ASSUME QueueInv, [QueueNext]_allVars, dpc = "loop", dpc' = "idle",
                      NEW t \in submitted, ~HeldByClient(t), delivered[t] = 0
               PROVE  state[t] = "Initial"
    OBVIOUS
  <2>1. QueueNext
    BY DEF allVars, ownVars, dispatchVars
  <2>2. WaitForAllLoop
    <3>1. DispatcherStep
      BY <2>1, OthersStep DEF QueueNext, dispatchVars, OutputWakeup, OutputNotify, CallUpdate,
         CallWaitForAll, CallWaitFor, CallWait, Call, CallCancel, CallDestroy, CancelTurn,
         Dispatch, ownVars
    <3>2. QED
      BY <3>1 DEF DispatcherStep, DestroyUpdate, UpdateSwap, UpdateRunTask, UpdateRunCallback,
         UpdateRan, UpdateDone, WaitForLook, WaitForTimeout, WaitRelock, Dispatch, dispatchVars
  <2>3. tasksCounter = 0
    BY <2>2 DEF WaitForAllLoop, Dispatch
  <2>4. Counted = {}
    BY <2>3, CountedFinite, FS_EmptySet DEF QueueInv, IInv, CounterExact
  <2>5. t \in Tasks /\ t \notin inputQueue /\ t \notin dropped /\ ~HeldByWorker(t)
    BY <2>4 DEF QueueInv, QueueTypeOK, TypeOK, Counted
  <2>6. QED
    BY <2>5 DEF QueueInv, QueueAnswers, Answers, Placed
<1>2. QED
  BY QueueInvAlways, <1>1, PTL DEF QueueSpec, WaitForAllBarrier

-----------------------------------------------------------------------------
(* The refinement of TaskLedger.                                           *)

\* A perform() call is about to hand over a task whose preparation failed.
Declined(t) == \E c \in Clients : ctask[c] = t /\ cpc[c] = "decline"

\* Where a task stands in the ledger.
StatusFacts(t) ==
  /\ completions[t] = 1 => LedgerStatus(t) = "completed"
  /\ completions[t] = 0 /\ delivered[t] = 1 => LedgerStatus(t) = "answered"
  /\ Declined(t) => Answers(t, 0, 0) /\ ~HeldByWorker(t) /\ LedgerStatus(t) = "answered"
  /\ Answers(t, 0, 0) /\ HeldByWorker(t) => ~Declined(t) /\ LedgerStatus(t) = "running"
  /\ Answers(t, 0, 0) /\ ~HeldByWorker(t) /\ ~Declined(t) =>
       LedgerStatus(t) = IF state[t] = "Prepared" THEN "accepted" ELSE "new"

\* The invariant tells it, of every task,
LEMMA StatusKnown ==
  ASSUME QueueInv, NEW t \in Tasks
  PROVE  StatusFacts(t) /\ (Answers(t, 0, 0) \/ completions[t] = 1 \/
                            (completions[t] = 0 /\ delivered[t] = 1))
<1>1. /\ delivered[t] \in {0, 1} /\ completions[t] \in {0, 1} /\ t # NoTask
  BY PoolAssumption DEF QueueInv, AnsweredStates
<1>2. Declined(t) => Answers(t, 0, 0) /\ state[t] = "ExecutedFailed"
  BY <1>1 DEF QueueInv, QueueAnswers, Declined
<1>3. HeldByWorker(t) => ~Declined(t)
  BY DEF QueueInv, IInv, OneHolder, HeldByClient, Declined
<1>4. QED
  BY <1>1, <1>2, <1>3 DEF StatusFacts, LedgerStatus, Answers, Declined

\* before a step and after it.
LEMMA StatusKnownNext ==
  ASSUME QueueInv', NEW t \in Tasks
  PROVE  StatusFacts(t)' /\ (Answers(t, 0, 0)' \/ completions'[t] = 1 \/
                             (completions'[t] = 0 /\ delivered'[t] = 1))
<1>1. /\ delivered'[t] \in {0, 1} /\ completions'[t] \in {0, 1} /\ t # NoTask
  BY PoolAssumption DEF QueueInv, AnsweredStates
<1>2. Declined(t)' => Answers(t, 0, 0)' /\ state'[t] = "ExecutedFailed"
  BY <1>1 DEF QueueInv, QueueAnswers, Declined
<1>3. HeldByWorker(t)' => ~Declined(t)'
  BY DEF QueueInv, IInv, OneHolder, HeldByClient, Declined
<1>4. QED
  BY <1>1, <1>2, <1>3 DEF StatusFacts, LedgerStatus, Answers, Declined

\* A step does nothing to a task.
Untouched(t) ==
  /\ state'[t] = state[t] /\ completions'[t] = completions[t] /\ delivered'[t] = delivered[t]
  /\ HeldByWorker(t)' <=> HeldByWorker(t)
  /\ Declined(t)' <=> Declined(t)

\* Then it leaves the task's status alone.
LEMMA UntouchedStatus ==
  ASSUME QueueInv, QueueInv', NEW t \in Tasks, Untouched(t)
  PROVE  LedgerStatus(t)' = LedgerStatus(t)
  BY StatusKnown, StatusKnownNext DEF StatusFacts, Untouched, Answers

\* A step that touches one task moves that task.
LEMMA OneMoves ==
  ASSUME NEW t \in Tasks, NEW from, NEW to,
         LedgerStatus(t) = from, LedgerStatus(t)' = to,
         \A u \in Tasks : u # t => LedgerStatus(u)' = LedgerStatus(u)
  PROVE  Ledger!Move(t, from, to)
  BY DEF Ledger!Move

\* A step that touches none, with the queue as open as before, is a stutter.
LEMMA NoneMoves ==
  ASSUME QueueInv, QueueInv', \A t \in Tasks : Untouched(t), UNCHANGED finalized
  PROVE  UNCHANGED Ledger!vars
<1>1. \A t \in Tasks : LedgerStatus(t)' = LedgerStatus(t)
  BY UntouchedStatus
<1>2. QED
  BY <1>1 DEF Ledger!vars

\* A worker takes its task from "accepted" to "answered".
LEMMA WorkerRefines ==
  ASSUME QueueInv, QueueInv', NEW w \in Workers,
         WorkerTurn(w) \/ (SpuriousWake(w) /\ UNCHANGED ownVars)
  PROVE  Ledger!Next \/ UNCHANGED Ledger!vars
<1> USE DEF GoWorker, contextVars, queueVars, workerVars, clientVars, cancelVars, taskVars,
      historyVars
<1>1. /\ WorkerStep(w) \/ SpuriousWake(w)
      /\ wtask \in [Workers -> Tasks \cup {NoTask}] /\ wpc \in [Workers -> WorkerPc]
      /\ state \in [Tasks -> TaskState] /\ delivered \in [Tasks -> Nat]
      /\ inputQueue \subseteq Tasks /\ workers \subseteq Workers
  BY DEF WorkerTurn, QueueInv, QueueTypeOK, TypeOK
<1>2. CASE WorkerPop(w)
  <2>1. PICK t \in inputQueue :
          /\ wtask' = [wtask EXCEPT ![w] = t] /\ wpc[w] = "pop"
          /\ UNCHANGED <<state, completions, delivered, cpc, ctask, finalized>>
    BY <1>2 DEF WorkerPop, MostUrgent
  <2>2. t \in Tasks /\ t # NoTask /\ wtask[w] = NoTask /\ ~HeldByWorker(t) /\ ~HeldByClient(t)
    BY <1>1, <2>1, PoolAssumption DEF QueueInv, IInv, Holding, OneHolder
  <2>3. Answers(t, 0, 0) /\ state[t] = "Prepared"
    <3>1. kpc # "clear"
      BY <2>1 DEF QueueInv, IInv, Closed, WorkersAlive
    <3>2. QED
      BY <2>1, <3>1 DEF QueueInv, QueueAnswers
  <2>4. HeldByWorker(t)' /\ wtask'[w] = t
    BY <1>1, <2>1 DEF HeldByWorker
  <2>5. \A u \in Tasks : u # t => Untouched(u)
    BY <1>1, <2>1, <2>2, PoolAssumption DEF Untouched, HeldByWorker, Declined
  <2>6. ~Declined(t)
    BY <2>2 DEF Declined, HeldByClient
  <2>7. LedgerStatus(t) = "accepted"
    BY <2>2, <2>3, <2>6, StatusKnown DEF StatusFacts
  <2>8. LedgerStatus(t)' = "running"
    BY <2>1, <2>2, <2>3, <2>4, StatusKnownNext DEF StatusFacts, Answers
  <2>9. Ledger!Move(t, "accepted", "running")
    BY <2>2, <2>5, <2>7, <2>8, OneMoves, UntouchedStatus
  <2>10. Cardinality(Ledger!In("running")) < Cardinality(Workers)
    <3> DEFINE R == Ledger!In("running")
               Holder == [u \in R |-> CHOOSE v \in Workers : wtask[v] = u]
               Others == Workers \ {w}
    <3>1. \A u \in R : u \in Tasks /\ LedgerStatus(u) = "running"
      BY DEF Ledger!In
    <3>2. \A u \in R : HeldByWorker(u)
      BY <3>1, StatusKnown DEF StatusFacts
    <3>3. \A u \in R : Holder[u] \in Workers /\ wtask[Holder[u]] = u
      BY <3>2 DEF HeldByWorker
    <3>4. \A u \in R : Holder[u] # w
      BY <2>2, <3>1, <3>3, PoolAssumption
    <3>5. Holder \in Injection(R, Others)
      <4>1. Holder \in [R -> Others]
        BY <3>3, <3>4
      <4>2. \A u, v \in R : Holder[u] = Holder[v] => u = v
        BY <3>3
      <4>3. QED
        BY <4>1, <4>2 DEF Injection, IsInjective
    <3>6. IsFiniteSet(Others) /\ Cardinality(Others) = Cardinality(Workers) - 1
          /\ Cardinality(Workers) \in Nat
      BY PoolAssumption, FS_RemoveElement, FS_CardinalityType
    <3> HIDE DEF R, Holder, Others
    <3>7. IsFiniteSet(R) /\ Cardinality(R) <= Cardinality(Others)
      BY <3>5, <3>6, FS_Injection
    <3>8. Cardinality(R) \in Nat
      BY <3>7, FS_CardinalityType
    <3>9. Cardinality(R) < Cardinality(Workers)
      BY <3>6, <3>7, <3>8
    <3>10. QED
      BY <3>9 DEF R
  <2>11. Ledger!Start(t)
    <3>1. Ledger!Cardinality(Ledger!In("running")) = Cardinality(Ledger!In("running"))
      BY DEF Ledger!Cardinality, Cardinality
    <3>2. QED
      BY <2>1, <2>9, <2>10, <3>1 DEF Ledger!Start
  <2>12. QED
    BY <2>2, <2>11 DEF Ledger!Next
<1>3. CASE WorkerDeliver(w)
  <2>1. PICK t \in Tasks : t = wtask[w] /\ wpc[w] = "deliver" /\ t # NoTask
    BY <1>1, <1>3 DEF WorkerDeliver, QueueInv, IInv, Holding
  <2>2. Answers(t, 0, 0) /\ HeldByWorker(t)
    BY <2>1 DEF QueueInv, QueueAnswers, HeldByWorker
  <2>3. complete
    BY <2>1 DEF QueueInv, IInv, Closed, WorkersAlive
  <2>4. /\ delivered' = [delivered EXCEPT ![t] = @ + 1]
        /\ UNCHANGED <<state, completions, wtask, cpc, ctask, finalized>>
    BY <1>3, <2>1, <2>3 DEF WorkerDeliver, HandToComplete
  <2>5. \A u \in Tasks : u # t => Untouched(u)
    BY <1>1, <2>1, <2>4 DEF Untouched, HeldByWorker, Declined
  <2>6. LedgerStatus(t) = "running"
    BY <2>1, <2>2, StatusKnown DEF StatusFacts
  <2>7. LedgerStatus(t)' = "answered"
    <3>1. delivered'[t] = 1 /\ completions'[t] = 0
      BY <1>1, <2>1, <2>2, <2>4 DEF Answers
    <3>2. QED
      BY <2>1, <3>1, StatusKnownNext DEF StatusFacts
  <2>8. Ledger!Move(t, "running", "answered")
    BY <2>1, <2>5, <2>6, <2>7, OneMoves, UntouchedStatus
  <2>9. QED
    BY <2>1, <2>4, <2>8 DEF Ledger!Next, Ledger!Finish
<1>4. CASE WorkerExecute(w)
  <2>1. PICK t \in Tasks : t = wtask[w] /\ wpc[w] = "exec" /\ t # NoTask
    BY <1>1, <1>4 DEF WorkerExecute, QueueInv, IInv, Holding
  <2>2. Answers(t, 0, 0) /\ HeldByWorker(t)
    BY <2>1 DEF QueueInv, QueueAnswers, HeldByWorker
  <2>3. /\ UNCHANGED <<completions, delivered, wtask, cpc, ctask, finalized>>
        /\ \A u \in Tasks : u # t => state'[u] = state[u]
    BY <1>1, <1>4, <2>1 DEF WorkerExecute
  <2>4. \A u \in Tasks : u # t => Untouched(u)
    BY <2>3 DEF Untouched, HeldByWorker, Declined
  <2>5. Answers(t, 0, 0)' /\ HeldByWorker(t)'
    BY <2>2, <2>3 DEF Answers, HeldByWorker
  <2>6. LedgerStatus(t) = "running" /\ LedgerStatus(t)' = "running"
    BY <2>1, <2>2, <2>5, StatusKnown, StatusKnownNext DEF StatusFacts
  <2>7. \A u \in Tasks : LedgerStatus(u)' = LedgerStatus(u)
    BY <2>4, <2>6, UntouchedStatus
  <2>8. QED
    BY <2>3, <2>7 DEF Ledger!vars
<1>5. CASE WorkerDecrement(w)
  <2>1. PICK t \in Tasks : t = wtask[w] /\ wpc[w] = "dec" /\ t # NoTask
    BY <1>1, <1>5 DEF WorkerDecrement, QueueInv, IInv, Holding
  <2>2. delivered[t] = 1
    BY <2>1 DEF QueueInv, QueueAnswers
  <2>3. /\ wtask' = [wtask EXCEPT ![w] = NoTask]
        /\ UNCHANGED <<state, completions, delivered, cpc, ctask, finalized>>
    BY <1>5 DEF WorkerDecrement
  <2>4. \A u \in Tasks : u # t => Untouched(u)
    BY <1>1, <2>1, <2>3, PoolAssumption DEF Untouched, HeldByWorker, Declined
  <2>5. completions[t] \in {0, 1}
    BY <2>1 DEF QueueInv, AnsweredStates
  <2>6. LedgerStatus(t)' = LedgerStatus(t)
    BY <2>1, <2>2, <2>3, <2>5, StatusKnown, StatusKnownNext DEF StatusFacts
  <2>7. \A u \in Tasks : LedgerStatus(u)' = LedgerStatus(u)
    BY <2>4, <2>6, UntouchedStatus
  <2>8. QED
    BY <2>3, <2>7 DEF Ledger!vars
<1>6. CASE ~WorkerPop(w) /\ ~WorkerDeliver(w) /\ ~WorkerExecute(w) /\ ~WorkerDecrement(w)
  <2>1. UNCHANGED <<state, completions, delivered, wtask, cpc, ctask, finalized>>
    BY <1>1, <1>6 DEF WorkerStep, SpuriousWake, WorkerCheck, WorkerPopNothing, WorkerLock,
       WorkerReadFinalized, WorkerWait, WorkerWake
  <2>2. \A t \in Tasks : Untouched(t)
    BY <2>1 DEF Untouched, HeldByWorker, Declined
  <2>3. QED
    BY <2>1, <2>2, NoneMoves
<1>7. QED
  BY <1>2, <1>3, <1>4, <1>5, <1>6

\* A perform() call accepts its task, or answers it at once.
LEMMA ClientRefines ==
  ASSUME QueueInv, QueueInv', NEW c \in Clients, ClientTurn(c)
  PROVE  Ledger!Next \/ UNCHANGED Ledger!vars
<1> USE DEF GoClient, contextVars, queueVars, workerVars, clientVars, cancelVars, taskVars,
      historyVars
<1>1. /\ ClientStep(c) /\ cpc[c] # "idle"
      /\ ctask \in [Clients -> Tasks \cup {NoTask}] /\ cpc \in [Clients -> ClientPc]
      /\ state \in [Tasks -> TaskState] /\ delivered \in [Tasks -> Nat]
      /\ UNCHANGED <<wtask, completions>>
  BY DEF ClientTurn, QueueInv, QueueTypeOK, TypeOK, ClientStep, PerformReadFlags,
     PerformReadLazyEmpty, SpawnLock, SpawnOne, SpawnDone, PerformReadEmpty, PerformPrepare,
     PerformDecline, PerformCount, PerformPush, PerformNotify
<1>2. ~finalized /\ UNCHANGED finalized
  <2>1. ~finalized
    BY <1>1 DEF QueueInv, Quiet
  <2>2. QED
    BY <1>1, <2>1 DEF ClientStep, PerformReadFlags, PerformReadLazyEmpty, SpawnLock, SpawnOne,
       SpawnDone, PerformReadEmpty, PerformPrepare, PerformDecline, PerformCount, PerformPush,
       PerformNotify
<1>3. CASE PerformPrepare(c)
  <2>1. PICK t \in Tasks : t = ctask[c] /\ cpc[c] = "prepare" /\ t # NoTask
    BY <1>1, <1>3 DEF PerformPrepare, QueueInv, IInv, Holding
  <2>2. /\ Answers(t, 0, 0) /\ state[t] = "Initial" /\ ~HeldByWorker(t)
        /\ \A d \in Clients : ctask[d] = t => d = c
    BY <2>1 DEF QueueInv, QueueAnswers, IInv, OneHolder, HeldByClient
  <2>3. LedgerStatus(t) = "new"
    BY <2>1, <2>2, StatusKnown DEF StatusFacts, Declined
  <2>4. PICK ok \in BOOLEAN :
          /\ cpc' = [cpc EXCEPT ![c] = IF ok THEN "count" ELSE "decline"]
          /\ state' = [state EXCEPT ![t] = IF ok THEN "Prepared" ELSE "ExecutedFailed"]
          /\ UNCHANGED <<delivered, ctask>>
    BY <1>3, <2>1 DEF PerformPrepare
  <2>5. \A u \in Tasks : u # t => Untouched(u)
    <3>1. \A u \in Tasks : u # t => (Declined(u)' <=> Declined(u))
      BY <1>1, <2>1, <2>4 DEF Declined
    <3>2. QED
      BY <1>1, <2>4, <3>1 DEF Untouched, HeldByWorker
  <2>6. Answers(t, 0, 0)' /\ ~HeldByWorker(t)'
    BY <1>1, <2>2, <2>4 DEF Answers, HeldByWorker
  <2>7. CASE ok
    <3>1. ~Declined(t)' /\ state'[t] = "Prepared"
      BY <1>1, <2>1, <2>2, <2>4, <2>7 DEF Declined
    <3>2. LedgerStatus(t)' = "accepted"
      BY <2>6, <3>1, StatusKnownNext DEF StatusFacts
    <3>3. Ledger!Accept(t)
      BY <1>2, <2>3, <2>5, <3>2, OneMoves, UntouchedStatus DEF Ledger!Accept
    <3>4. QED
      BY <3>3 DEF Ledger!Next
  <2>8. CASE ~ok
    <3>1. Declined(t)'
      BY <1>1, <2>1, <2>4, <2>8 DEF Declined
    <3>2. LedgerStatus(t)' = "answered"
      BY <3>1, StatusKnownNext DEF StatusFacts
    <3>3. Ledger!Bypass(t)
      BY <1>2, <2>3, <2>5, <3>2, OneMoves, UntouchedStatus DEF Ledger!Bypass
    <3>4. QED
      BY <3>3 DEF Ledger!Next
  <2>9. QED
    BY <2>7, <2>8
<1>4. CASE PerformDecline(c)
  <2>1. PICK t \in Tasks : t = ctask[c] /\ cpc[c] = "decline" /\ t # NoTask
    BY <1>1, <1>4 DEF PerformDecline, QueueInv, IInv, Holding
  <2>2. Declined(t) /\ Answers(t, 0, 0)
    BY <2>1 DEF QueueInv, QueueAnswers, Declined
  <2>3. complete
    BY <1>2 DEF QueueInv, Closed
  <2>4. /\ delivered' = [delivered EXCEPT ![t] = @ + 1]
        /\ ctask' = [ctask EXCEPT ![c] = NoTask]
        /\ cpc' = [cpc EXCEPT ![c] = "idle"]
        /\ UNCHANGED state
    BY <1>4, <2>1, <2>3 DEF PerformDecline, HandToComplete
  <2>5. \A u \in Tasks : u # t => Untouched(u)
    <3>1. \A u \in Tasks : u # t => (Declined(u)' <=> Declined(u))
      BY <1>1, <2>1, <2>4 DEF Declined
    <3>2. QED
      BY <1>1, <2>1, <2>4, <3>1 DEF Untouched, HeldByWorker
  <2>6. delivered'[t] = 1 /\ completions'[t] = 0
    BY <1>1, <2>1, <2>2, <2>4 DEF Answers
  <2>7. LedgerStatus(t)' = LedgerStatus(t)
    BY <2>2, <2>6, StatusKnown, StatusKnownNext DEF StatusFacts
  <2>8. \A u \in Tasks : LedgerStatus(u)' = LedgerStatus(u)
    BY <2>5, <2>7, UntouchedStatus
  <2>9. QED
    BY <1>2, <2>8 DEF Ledger!vars
<1>5. CASE ~PerformPrepare(c) /\ ~PerformDecline(c)
  <2>1. UNCHANGED <<state, delivered>> /\ cpc[c] # "decline" /\ cpc'[c] # "decline"
    BY <1>1, <1>5 DEF ClientStep, PerformReadFlags, PerformReadLazyEmpty, SpawnLock, SpawnOne,
       SpawnDone, PerformReadEmpty, PerformCount, PerformPush, PerformNotify
  <2>2. \A d \in Clients : d # c => cpc'[d] = cpc[d] /\ ctask'[d] = ctask[d]
    BY <1>1, <1>5 DEF ClientStep, PerformReadFlags, PerformReadLazyEmpty, SpawnLock, SpawnOne,
       SpawnDone, PerformReadEmpty, PerformCount, PerformPush, PerformNotify
  <2>3. \A u \in Tasks : Declined(u)' <=> Declined(u)
    BY <2>1, <2>2 DEF Declined
  <2>4. \A u \in Tasks : Untouched(u)
    BY <1>1, <2>1, <2>3 DEF Untouched, HeldByWorker
  <2>5. QED
    BY <1>2, <2>4, NoneMoves
<1>6. QED
  BY <1>3, <1>4, <1>5

\* A call begins with a task that is new; performCompleted() answers it.
LEMMA CallRefines ==
  ASSUME ~Racing, QueueInv, QueueInv', NEW c \in Clients, NEW t \in Tasks,
         QueuePerform(c, t) \/ PerformOnThread(c, t)
  PROVE  Ledger!Next \/ UNCHANGED Ledger!vars
<1> USE DEF GoClient, contextVars, queueVars, workerVars, clientVars, cancelVars, taskVars,
      historyVars
<1>1. /\ ctask \in [Clients -> Tasks \cup {NoTask}] /\ cpc \in [Clients -> ClientPc]
      /\ delivered \in [Tasks -> Nat]
  BY DEF QueueInv, QueueTypeOK, TypeOK
<1>2. CASE QueuePerform(c, t)
  <2>1. /\ UNCHANGED <<state, completions, delivered, wtask, finalized>>
        /\ cpc[c] = "idle" /\ cpc'[c] # "decline"
        /\ \A d \in Clients : d # c => cpc'[d] = cpc[d] /\ ctask'[d] = ctask[d]
    BY <1>1, <1>2 DEF QueuePerform, PerformBegin
  <2>2. \A u \in Tasks : Untouched(u)
    BY <2>1 DEF Untouched, HeldByWorker, Declined
  <2>3. QED
    BY <2>1, <2>2, NoneMoves
<1>3. CASE PerformOnThread(c, t)
  <2>1. /\ HandsOver(t) /\ t \notin submitted /\ ~finalized
        /\ UNCHANGED <<wtask, cpc, ctask, finalized>>
    BY <1>3, CompletedEffect DEF PerformOnThread, PerformCompleted
  <2>2. /\ Answers(t, 0, 0) /\ state[t] = "Initial" /\ ~HeldByWorker(t) /\ ~HeldByClient(t)
        /\ delivered' = [delivered EXCEPT ![t] = @ + 1]
        /\ UNCHANGED <<state, completions>>
    BY <2>1 DEF HandsOver, QueueInv, QueueAnswers, IInv, HeldIsSubmitted
  <2>3. \A u \in Tasks : u # t => Untouched(u)
    BY <1>1, <2>1, <2>2 DEF Untouched, HeldByWorker, Declined
  <2>4. LedgerStatus(t) = "new"
    BY <2>2, StatusKnown DEF StatusFacts, Declined, HeldByClient
  <2>5. delivered'[t] = 1 /\ completions'[t] = 0
    BY <1>1, <2>2 DEF Answers
  <2>6. LedgerStatus(t)' = "answered"
    BY <2>5, StatusKnownNext DEF StatusFacts
  <2>7. Ledger!Bypass(t)
    BY <2>1, <2>3, <2>4, <2>6, OneMoves, UntouchedStatus DEF Ledger!Bypass
  <2>8. QED
    BY <2>7 DEF Ledger!Next
<1>4. QED
  BY <1>2, <1>3

\* cancel() closes the ledger, and completes what no worker has taken.
LEMMA CancelRefines ==
  ASSUME QueueInv, QueueInv', CallCancel \/ CallDestroy \/ CancelTurn
  PROVE  Ledger!Next \/ UNCHANGED Ledger!vars
<1> USE DEF contextVars, queueVars, workerVars, clientVars, cancelVars, taskVars, historyVars
<1>1. CASE CallCancel \/ CallDestroy
  <2>1. finalized' = TRUE /\ UNCHANGED <<state, completions, delivered, wtask, cpc, ctask>>
    BY <1>1 DEF CallCancel, CallDestroy, CancelBegin
  <2>2. \A u \in Tasks : Untouched(u)
    BY <2>1 DEF Untouched, HeldByWorker, Declined
  <2>3. CASE finalized
    BY <2>1, <2>2, <2>3, NoneMoves
  <2>4. CASE ~finalized
    <3>1. \A u \in Tasks : LedgerStatus(u)' = LedgerStatus(u)
      BY <2>2, UntouchedStatus
    <3>2. Ledger!Close
      BY <2>1, <2>4, <3>1 DEF Ledger!Close
    <3>3. QED
      BY <3>2 DEF Ledger!Next
  <2>5. QED
    BY <2>3, <2>4 DEF QueueInv, QueueTypeOK, TypeOK
<1>2. ASSUME CancelTurn PROVE UNCHANGED <<delivered, wtask, cpc, ctask, finalized>>
  BY <1>2 DEF CancelTurn, CancelStep, CancelReadWorkers, CancelStop, CancelNotify,
     CancelJoin, CancelSweep, CancelClear, CancelReset
<1>3. CASE CancelTurn /\ ~CancelSweep
  <2>1. UNCHANGED <<state, completions>>
    BY <1>3 DEF CancelTurn, CancelStep, CancelReadWorkers, CancelStop, CancelNotify,
       CancelJoin, CancelClear, CancelReset
  <2>2. \A u \in Tasks : Untouched(u)
    BY <1>2, <1>3, <2>1 DEF Untouched, HeldByWorker, Declined
  <2>3. QED
    BY <1>2, <1>3, <2>2, NoneMoves
<1>4. CASE CancelTurn /\ CancelSweep
  <2> DEFINE S == {t \in inputQueue : state[t] = "Prepared"}
  <2>1. /\ kpc = "sweep"
        /\ state' = [t \in Tasks |-> IF t \in S THEN "ExecutedFailed" ELSE state[t]]
        /\ completions' = [t \in Tasks |-> completions[t] + IF t \in S THEN 1 ELSE 0]
    BY <1>4 DEF CancelSweep
  <2>2. /\ finalized /\ workers = {} /\ \A c \in Clients : cpc[c] = "idle"
        /\ completions \in [Tasks -> Nat] /\ inputQueue \subseteq Tasks
    BY <2>1 DEF QueueInv, QueueTypeOK, TypeOK, IInv, WorkersStay, Quiet, Closed
  <2>3. \A t \in Tasks : ~HeldByWorker(t) /\ ~HeldByClient(t)
    BY <2>2, PoolAssumption DEF QueueInv, IInv, Holding, WorkersAlive, HeldByWorker,
       HeldByClient
  <2>4. \A t \in Tasks : ~Declined(t)
    BY <2>3 DEF Declined, HeldByClient
  <2>5. \A t \in Tasks : t \in S => Answers(t, 0, 0) /\ LedgerStatus(t) = "accepted"
    BY <2>1, <2>2, <2>3, <2>4, StatusKnown DEF QueueInv, QueueAnswers, StatusFacts
  <2>6. \A t \in Tasks : LedgerStatus(t) = "accepted" => t \in S
    <3> SUFFICES ASSUME NEW t \in Tasks, t \notin S PROVE LedgerStatus(t) # "accepted"
      OBVIOUS
    <3>1. CASE Answers(t, 0, 0)
      <4>1. state[t] # "Prepared"
        BY <2>3, <3>1 DEF QueueInv, QueueAnswers, Placed, Answers
      <4>2. QED
        BY <2>3, <2>4, <3>1, <4>1, StatusKnown DEF StatusFacts
    <3>2. CASE ~Answers(t, 0, 0)
      BY <3>2, StatusKnown DEF StatusFacts
    <3>3. QED
      BY <3>1, <3>2
  <2>7. \A t \in Tasks : t \in S => LedgerStatus(t)' = "completed"
    <3> SUFFICES ASSUME NEW t \in Tasks, t \in S PROVE LedgerStatus(t)' = "completed"
      OBVIOUS
    <3>1. completions'[t] = 1
      BY <2>1, <2>2, <2>5 DEF Answers
    <3>2. QED
      BY <3>1, StatusKnownNext DEF StatusFacts
  <2>8. \A t \in Tasks : t \notin S => LedgerStatus(t)' = LedgerStatus(t)
    <3> SUFFICES ASSUME NEW t \in Tasks, t \notin S PROVE LedgerStatus(t)' = LedgerStatus(t)
      OBVIOUS
    <3>1. state'[t] = state[t] /\ completions'[t] = completions[t]
      BY <2>1, <2>2
    <3>2. Untouched(t)
      BY <1>2, <1>4, <3>1 DEF Untouched, HeldByWorker, Declined
    <3>3. QED
      BY <3>2, UntouchedStatus
  <2>9. \A t \in Tasks : LedgerStatus(t) # "running"
    BY <2>3, StatusKnown DEF StatusFacts
  <2> HIDE DEF S
  <2>10. CASE S \cap Tasks = {}
    <3>1. \A t \in Tasks : LedgerStatus(t)' = LedgerStatus(t)
      BY <2>8, <2>10
    <3>2. QED
      BY <1>2, <1>4, <3>1 DEF Ledger!vars
  <2>11. CASE S \cap Tasks # {}
    <3>1. Ledger!In("accepted") = S \cap Tasks
      BY <2>5, <2>6 DEF Ledger!In
    <3>2. Ledger!In("running") = {}
      BY <2>9 DEF Ledger!In
    <3>3. \A t \in Tasks : LedgerStatus(t)' = IF t \in S \cap Tasks THEN "completed"
                                              ELSE LedgerStatus(t)
      BY <2>7, <2>8
    <3>4. Ledger!CancelAll
      BY <1>2, <1>4, <2>2, <2>11, <3>1, <3>2, <3>3 DEF Ledger!CancelAll
    <3>5. QED
      BY <3>4 DEF Ledger!Next
  <2>12. QED
    BY <2>10, <2>11
<1>5. QED
  BY <1>1, <1>3, <1>4

\* update() completes what was answered.
LEMMA DispatcherRefines ==
  ASSUME QueueInv, QueueInv', DispatcherStep
  PROVE  Ledger!Next \/ UNCHANGED Ledger!vars
<1>1. CASE UpdateRunTask
  <2>1. PICK t \in Tasks : t = Head(batch) /\ Completes(t)
    BY <1>1, RunTaskEffect
  <2>2. UNCHANGED <<delivered, wtask, cpc, ctask, finalized>>
    BY <1>1 DEF UpdateRunTask, contextVars, workerVars, clientVars, historyVars
  <2>3. In(t, batch)
    BY <2>1, InTail DEF Completes, QueueInv, QueueTypeOK, OutputExact
  <2>4. delivered[t] = 1 /\ completions[t] = 0
    BY <2>3 DEF QueueInv, OutputExact
  <2>5. /\ completions'[t] = 1
        /\ \A u \in Tasks : u # t => state'[u] = state[u] /\ completions'[u] = completions[u]
    <3>1. state \in [Tasks -> TaskState] /\ completions \in [Tasks -> Nat]
      BY DEF QueueInv, QueueTypeOK, TypeOK
    <3>2. completions' = [completions EXCEPT ![t] = @ + 1]
      BY <2>1 DEF Completes
    <3>3. \A u \in Tasks : u # t => state'[u] = state[u]
      BY <2>1, <3>1 DEF Completes
    <3>4. QED
      BY <2>4, <3>1, <3>2, <3>3
  <2>6. \A u \in Tasks : u # t => Untouched(u)
    BY <2>2, <2>5 DEF Untouched, HeldByWorker, Declined
  <2>7. LedgerStatus(t) = "answered" /\ LedgerStatus(t)' = "completed"
    BY <2>4, <2>5, StatusKnown, StatusKnownNext DEF StatusFacts
  <2>8. Ledger!Complete(t)
    BY <2>2, <2>6, <2>7, OneMoves, UntouchedStatus DEF Ledger!Complete
  <2>9. QED
    BY <2>8 DEF Ledger!Next
<1>2. CASE ~UpdateRunTask
  <2>1. UNCHANGED <<state, completions, delivered, wtask, cpc, ctask, finalized>>
    BY <1>2 DEF DispatcherStep, DestroyUpdate, UpdateSwap, UpdateRunCallback, UpdateRan,
       UpdateDone, WaitForAllLoop, WaitForLook, WaitForTimeout, WaitRelock, vars, contextVars,
       workerVars, clientVars, taskVars, historyVars
  <2>2. \A u \in Tasks : Untouched(u)
    BY <2>1 DEF Untouched, HeldByWorker, Declined
  <2>3. QED
    BY <2>1, <2>2, NoneMoves
<1>3. QED
  BY <1>1, <1>2

\* A step that leaves the pool alone is a stutter of the ledger.
LEMMA PoolStutter ==
  ASSUME QueueInv, QueueInv', UNCHANGED vars
  PROVE  UNCHANGED Ledger!vars
<1>1. UNCHANGED <<state, completions, delivered, wtask, cpc, ctask, finalized>>
  BY DEF vars, contextVars, workerVars, clientVars, taskVars, historyVars
<1>2. \A u \in Tasks : Untouched(u)
  BY <1>1 DEF Untouched, HeldByWorker, Declined
<1>3. QED
  BY <1>1, <1>2, NoneMoves

\* Every step of the queue is a step of the ledger or a stutter.
LEMMA StepRefines ==
  ~Racing /\ QueueInv /\ QueueInv' /\ [QueueNext]_allVars => [Ledger!Next]_(Ledger!vars)
<1> SUFFICES ASSUME ~Racing, QueueInv, QueueInv', [QueueNext]_allVars
             PROVE  Ledger!Next \/ UNCHANGED Ledger!vars
  OBVIOUS
<1>1. CASE UNCHANGED allVars
  BY <1>1, PoolStutter DEF allVars
<1>2. ASSUME NEW c \in Clients, NEW f \in Callbacks, PerformOnThreadCallback(c, f)
      PROVE  UNCHANGED vars
  BY <1>2 DEF PerformOnThreadCallback
<1>3. ASSUME NEW p \in Threads, OutputWakeup(p) \/ OutputNotify(p) PROVE UNCHANGED vars
  BY <1>3 DEF OutputWakeup, OutputNotify
<1>4. ASSUME CallUpdate \/ CallWaitForAll \/ CallWaitFor \/ CallWait PROVE UNCHANGED vars
  BY <1>4 DEF CallUpdate, CallWaitForAll, CallWaitFor, CallWait, Call
<1>5. QED
  BY <1>1, <1>2, <1>3, <1>4, PoolStutter, WorkerRefines, ClientRefines, CallRefines,
     CancelRefines, DispatcherRefines DEF QueueNext

\* At first every task is new and the ledger is open.
LEMMA InitRefines == QueueInit => Ledger!Init
<1> SUFFICES ASSUME QueueInit PROVE Ledger!Init
  OBVIOUS
<1>1. QueueInv /\ Init
  BY QueueInvInit DEF QueueInit
<1>2. \A t \in Tasks : Answers(t, 0, 0) /\ state[t] = "Initial" /\ ~HeldByWorker(t)
                       /\ ~Declined(t)
  BY <1>1, PoolAssumption DEF Init, Answers, HeldByWorker, Declined
<1>3. \A t \in Tasks : LedgerStatus(t) = "new"
  BY <1>1, <1>2, StatusKnown DEF StatusFacts
<1>4. QED
  BY <1>1, <1>3 DEF Init, Ledger!Init

\* The queue implements the ledger: whatever the workers, the callers and the
\* owner do, each task is accepted, run by one worker and completed once.
THEOREM QueueImplementsLedger == ~Racing => (QueueSpec => ImplementsLedger)
<1> SUFFICES ASSUME ~Racing PROVE QueueSpec => ImplementsLedger
  OBVIOUS
<1>1. QueueInv /\ QueueInv' /\ [QueueNext]_allVars => [Ledger!Next]_(Ledger!vars)
  BY StepRefines
<1>2. QED
  BY QueueInvAlways, InitRefines, <1>1, PTL DEF QueueSpec, ImplementsLedger, Ledger!Spec
=============================================================================
