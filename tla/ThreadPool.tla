----------------------------- MODULE ThreadPool -----------------------------
(***************************************************************************)
(* stappler::thread::ThreadPool (threads/SPThreadPool.cc): a fixed set of  *)
(* worker threads that take prepared tasks from one shared queue, execute  *)
(* them and hand them to the pool's `complete` interface.  Any thread may  *)
(* call perform(); one owner thread calls cancel().                        *)
(*                                                                         *)
(* inputMutexQueue guards the queue and the condition variable             *)
(* inputCondition.  tasksCounter, finalized and the workers vector are     *)
(* read WITHOUT it, so every such read is a step of its own here.          *)
(*                                                                         *)
(* The queue is the set of queued tasks: a pop takes a task of the lowest  *)
(* priority value; the order among equals, the memory of the nodes and the *)
(* locking inside the container are the subject of module PriorityQueue.   *)
(***************************************************************************)
EXTENDS Integers, FiniteSets

CONSTANTS
  Workers,     \* the info.threadCount worker threads
  Clients,     \* the threads that call perform()
  Tasks,       \* the task objects; each is passed to the pool at most once
  Priority,    \* Task::getPriority(): lower is served first
  NoTask,      \* a null Rc<Task>
  NoThread,    \* inputMutexQueue is free
  Racing       \* TRUE: cancel() may start while perform() calls are running

ASSUME PoolAssumption ==
  /\ Workers # {} /\ IsFiniteSet(Workers)
  /\ IsFiniteSet(Tasks)
  /\ Workers \cap Clients = {}
  /\ NoThread \notin Workers \cup Clients
  /\ NoTask \notin Tasks
  /\ Priority \in [Tasks -> Int]
  /\ Racing \in BOOLEAN

VARIABLES
  finalized,      \* WorkerContext::finalized
  lazyInit,       \* the LazyInit bit of info.flags
  complete,       \* info.complete is not null
  workers,        \* WorkerContext::workers
  tasksCounter,   \* WorkerContext::tasksCounter
  inputQueue,     \* the tasks in WorkerContext::inputQueue
  inputMutex,     \* the owner of inputMutexQueue
  continueExec,   \* Thread::_continueExecution of each worker
  wpc, wtask,     \* where each worker is, and the task it holds
  cpc, ctask,     \* where each perform() call is, and the task it holds
  toSpawn,        \* the iterations left of the loop of spawn()
  kpc, toStop,    \* where cancel() is, and the stop() calls it has left
  state,          \* Task::_state
  submitted,      \* history: tasks passed to the pool
  dropped,        \* history: tasks thrown away by inputQueue.clear()
  delivered,      \* history: how often a task went to info.complete
  completions,    \* how often a task's complete callbacks have run
  fault           \* a virtual call through a null info.complete was made

contextVars == <<finalized, lazyInit, complete, workers>>
queueVars   == <<tasksCounter, inputQueue, inputMutex>>
workerVars  == <<continueExec, wpc, wtask>>
clientVars  == <<cpc, ctask, toSpawn>>
cancelVars  == <<kpc, toStop>>
taskVars    == <<state, completions>>
historyVars == <<submitted, dropped, delivered, fault>>
vars == <<contextVars, queueVars, workerVars, clientVars, cancelVars,
          taskVars, historyVars>>

TaskState == {"Initial", "Prepared", "ExecutedSuccessful", "ExecutedFailed"}
Executed  == {"ExecutedSuccessful", "ExecutedFailed"}

\* The places a worker, a perform() call and cancel() can be at.
WorkerPc == {"none", "loop", "pop", "lock", "final", "willWait", "waiting",
             "wake", "exec", "deliver", "dec", "exited"}
ClientPc == {"idle", "flags", "lazyEmpty", "spawnLock", "spawning", "empty",
             "prepare", "decline", "count", "push", "notify"}
CancelPc == {"idle", "check", "stop", "notify", "join", "sweep", "clear",
             "reset"}

(***************************************************************************)
(* Initial states: the pool after ThreadPool::init, lazy or with its       *)
(* workers spawned.                                                        *)
(***************************************************************************)
Init ==
  /\ finalized = FALSE
  /\ lazyInit \in BOOLEAN
  /\ complete = TRUE
  /\ workers = IF lazyInit THEN {} ELSE Workers
  /\ tasksCounter = 0
  /\ inputQueue = {}
  /\ inputMutex = NoThread
  /\ continueExec = [w \in Workers |-> TRUE]
  /\ wpc = [w \in Workers |-> IF lazyInit THEN "none" ELSE "loop"]
  /\ wtask = [w \in Workers |-> NoTask]
  /\ cpc = [c \in Clients |-> "idle"]
  /\ ctask = [c \in Clients |-> NoTask]
  /\ toSpawn = {}
  /\ kpc = "idle"
  /\ toStop = {}
  /\ state = [t \in Tasks |-> "Initial"]
  /\ completions = [t \in Tasks |-> 0]
  /\ submitted = {}
  /\ dropped = {}
  /\ delivered = [t \in Tasks |-> 0]
  /\ fault = FALSE

(***************************************************************************)
(* Helpers                                                                 *)
(***************************************************************************)
GoWorker(w, from, to) == wpc[w] = from /\ wpc' = [wpc EXCEPT ![w] = to]
GoClient(c, from, to) == cpc[c] = from /\ cpc' = [cpc EXCEPT ![c] = to]

\* info.complete->perform(task): the interface takes the task, or the call
\* goes through a null pointer and the program is gone.
HandToComplete(t) ==
  \/ complete /\ delivered' = [delivered EXCEPT ![t] = @ + 1] /\ UNCHANGED fault
  \/ ~complete /\ fault' = TRUE /\ UNCHANGED delivered

Waiting == {w \in Workers : wpc[w] = "waiting"}

\* What pop_direct may take: a task of the lowest priority value.
MostUrgent == {t \in inputQueue :
                 \A u \in inputQueue : Priority[t] <= Priority[u]}

(***************************************************************************)
(* Worker::worker(), called in a loop by the thread until it returns false *)
(***************************************************************************)

\* if (!_continueExecution.test_and_set()) return false;
WorkerCheck(w) ==
  /\ GoWorker(w, "loop", IF continueExec[w] THEN "pop" ELSE "exited")
  /\ continueExec' = [continueExec EXCEPT ![w] = TRUE]
  /\ UNCHANGED <<contextVars, queueVars, wtask, clientVars, cancelVars,
                 taskVars, historyVars>>

\* Mutant: popTask looks at the head and leaves it in the queue.
WorkerPeek(w) ==
  /\ inputMutex = NoThread
  /\ GoWorker(w, "pop", "exec")
  /\ \E t \in MostUrgent : wtask' = [wtask EXCEPT ![w] = t]
  /\ UNCHANGED <<contextVars, queueVars, continueExec, clientVars, cancelVars,
                 taskVars, historyVars>>

\* popTask() finds a task.
WorkerPop(w) ==
  /\ inputMutex = NoThread
  /\ GoWorker(w, "pop", "exec")
  /\ \E t \in MostUrgent :
       /\ inputQueue' = inputQueue \ {t}
       /\ wtask' = [wtask EXCEPT ![w] = t]
  /\ UNCHANGED <<contextVars, tasksCounter, inputMutex, continueExec,
                 clientVars, cancelVars, taskVars, historyVars>>

\* popTask() finds nothing.
WorkerPopNothing(w) ==
  /\ inputMutex = NoThread
  /\ inputQueue = {}
  /\ GoWorker(w, "pop", "lock")
  /\ UNCHANGED <<contextVars, queueVars, continueExec, wtask, clientVars,
                 cancelVars, taskVars, historyVars>>

\* Mutant: the worker goes to sleep without asking for tasks in flight.
WorkerLockUnasked(w) ==
  /\ inputMutex = NoThread
  /\ GoWorker(w, "lock", "final")
  /\ inputMutex' = w
  /\ UNCHANGED <<contextVars, tasksCounter, inputQueue, continueExec, wtask,
                 clientVars, cancelVars, taskVars, historyVars>>

\* Lock inputMutexQueue and read tasksCounter: tasks are in flight, so unlock
\* and come again, or stay in the critical section on the way to wait().
WorkerLock(w) ==
  /\ inputMutex = NoThread
  /\ GoWorker(w, "lock", IF tasksCounter > 0 THEN "loop" ELSE "final")
  /\ inputMutex' = IF tasksCounter > 0 THEN NoThread ELSE w
  /\ UNCHANGED <<contextVars, tasksCounter, inputQueue, continueExec, wtask,
                 clientVars, cancelVars, taskVars, historyVars>>

\* WorkerContext::wait reads finalized, still under the mutex.
WorkerReadFinalized(w) ==
  /\ GoWorker(w, "final", IF finalized THEN "loop" ELSE "willWait")
  /\ inputMutex' = IF finalized THEN NoThread ELSE inputMutex
  /\ UNCHANGED <<contextVars, tasksCounter, inputQueue, continueExec, wtask,
                 clientVars, cancelVars, taskVars, historyVars>>

\* inputCondition.wait(lock): unlock and sleep in one step, no predicate.
WorkerWait(w) ==
  /\ GoWorker(w, "willWait", "waiting")
  /\ inputMutex' = NoThread
  /\ UNCHANGED <<contextVars, tasksCounter, inputQueue, continueExec, wtask,
                 clientVars, cancelVars, taskVars, historyVars>>

\* A condition variable may wake a waiter that nobody notified.
SpuriousWake(w) ==
  /\ GoWorker(w, "waiting", "wake")
  /\ UNCHANGED <<contextVars, queueVars, continueExec, wtask, clientVars,
                 cancelVars, taskVars, historyVars>>

\* A woken worker locks the mutex again, and unlocks it as worker() returns.
WorkerWake(w) ==
  /\ inputMutex = NoThread
  /\ GoWorker(w, "wake", "loop")
  /\ UNCHANGED <<contextVars, queueVars, continueExec, wtask, clientVars,
                 cancelVars, taskVars, historyVars>>

\* task->execute(): the callbacks run only in state Prepared.
WorkerExecute(w) ==
  /\ GoWorker(w, "exec", "deliver")
  /\ \E result \in Executed :
       state' = IF state[wtask[w]] = "Prepared"
                THEN [state EXCEPT ![wtask[w]] = result] ELSE state
  /\ UNCHANGED <<contextVars, queueVars, continueExec, wtask, clientVars,
                 cancelVars, completions, historyVars>>

\* onMainThreadWorker: hand the task over ...
WorkerDeliver(w) ==
  /\ GoWorker(w, "deliver", "dec")
  /\ HandToComplete(wtask[w])
  /\ UNCHANGED <<contextVars, queueVars, continueExec, wtask, clientVars,
                 cancelVars, taskVars, submitted, dropped>>

\* Mutant: the task is never counted off.
WorkerForget(w) ==
  /\ GoWorker(w, "dec", "loop")
  /\ wtask' = [wtask EXCEPT ![w] = NoTask]
  /\ UNCHANGED <<contextVars, queueVars, continueExec, clientVars, cancelVars,
                 taskVars, historyVars>>

\* ... and only then count it as done.
WorkerDecrement(w) ==
  /\ GoWorker(w, "dec", "loop")
  /\ tasksCounter' = tasksCounter - 1
  /\ wtask' = [wtask EXCEPT ![w] = NoTask]
  /\ UNCHANGED <<contextVars, inputQueue, inputMutex, continueExec, clientVars,
                 cancelVars, taskVars, historyVars>>

(***************************************************************************)
(* ThreadPool::perform(task), on a client thread                           *)
(***************************************************************************)

\* Mutant: perform() does not look at finalized.
PerformBeginAnyway(c, t) ==
  /\ t \notin submitted
  /\ submitted' = submitted \cup {t}
  /\ GoClient(c, "idle", "flags")
  /\ ctask' = [ctask EXCEPT ![c] = t]
  /\ UNCHANGED <<contextVars, queueVars, workerVars, toSpawn, cancelVars,
                 taskVars, dropped, delivered, fault>>

\* if (finalized) return ErrorInvalidArguemnt;
PerformBegin(c, t) ==
  /\ t \notin submitted
  /\ submitted' = submitted \cup {t}
  /\ GoClient(c, "idle", IF finalized THEN "idle" ELSE "flags")
  /\ ctask' = [ctask EXCEPT ![c] = IF finalized THEN NoTask ELSE t]
  /\ UNCHANGED <<contextVars, queueVars, workerVars, toSpawn, cancelVars,
                 taskVars, dropped, delivered, fault>>

\* hasFlag(info.flags, LazyInit) ...
PerformReadFlags(c) ==
  /\ GoClient(c, "flags", IF lazyInit THEN "lazyEmpty" ELSE "empty")
  /\ UNCHANGED <<contextVars, queueVars, workerVars, ctask, toSpawn,
                 cancelVars, taskVars, historyVars>>

\* ... && workers.empty()
PerformReadLazyEmpty(c) ==
  /\ GoClient(c, "lazyEmpty", IF workers = {} THEN "spawnLock" ELSE "empty")
  /\ UNCHANGED <<contextVars, queueVars, workerVars, ctask, toSpawn,
                 cancelVars, taskVars, historyVars>>

\* spawn() locks inputMutexQueue and asks again.
SpawnLock(c) ==
  /\ inputMutex = NoThread
  /\ GoClient(c, "spawnLock", IF workers = {} THEN "spawning" ELSE "empty")
  /\ inputMutex' = IF workers = {} THEN c ELSE NoThread
  /\ toSpawn' = IF workers = {} THEN Workers ELSE toSpawn
  /\ UNCHANGED <<contextVars, tasksCounter, inputQueue, workerVars, ctask,
                 cancelVars, taskVars, historyVars>>

\* workers.push_back(worker); worker->run();
SpawnOne(c, w) ==
  /\ cpc[c] = "spawning"
  /\ w \in toSpawn
  /\ toSpawn' = toSpawn \ {w}
  /\ workers' = workers \cup {w}
  /\ wpc' = [wpc EXCEPT ![w] = "loop"]
  /\ continueExec' = [continueExec EXCEPT ![w] = TRUE]
  /\ UNCHANGED <<finalized, lazyInit, complete, queueVars, wtask, cpc, ctask,
                 cancelVars, taskVars, historyVars>>

\* info.flags &= ~LazyInit; unlock
SpawnDone(c) ==
  /\ toSpawn = {}
  /\ GoClient(c, "spawning", "empty")
  /\ lazyInit' = FALSE
  /\ inputMutex' = NoThread
  /\ UNCHANGED <<finalized, complete, workers, tasksCounter, inputQueue,
                 workerVars, ctask, toSpawn, cancelVars, taskVars, historyVars>>

\* if (workers.empty()) return ErrorInvalidArguemnt;
PerformReadEmpty(c) ==
  /\ GoClient(c, "empty", IF workers = {} THEN "idle" ELSE "prepare")
  /\ ctask' = [ctask EXCEPT ![c] = IF workers = {} THEN NoTask ELSE @]
  /\ UNCHANGED <<contextVars, queueVars, workerVars, toSpawn, cancelVars,
                 taskVars, historyVars>>

\* task->prepare() succeeds, or a prepare callback refuses.
PerformPrepare(c) ==
  \E ok \in BOOLEAN :
    /\ GoClient(c, "prepare", IF ok THEN "count" ELSE "decline")
    /\ state' = [state EXCEPT ![ctask[c]] =
                   IF ok THEN "Prepared" ELSE "ExecutedFailed"]
    /\ UNCHANGED <<contextVars, queueVars, workerVars, ctask, toSpawn,
                   cancelVars, completions, historyVars>>

\* Mutant: no return behind the refusal, so the task is queued as well.
PerformDeclineOn(c) ==
  /\ GoClient(c, "decline", "count")
  /\ HandToComplete(ctask[c])
  /\ UNCHANGED <<contextVars, queueVars, workerVars, ctask, toSpawn, cancelVars,
                 taskVars, submitted, dropped>>

\* Mutant: the refused task is counted off, though it was never counted.
PerformDeclineDecrement(c) ==
  /\ GoClient(c, "decline", "idle")
  /\ HandToComplete(ctask[c])
  /\ ctask' = [ctask EXCEPT ![c] = NoTask]
  /\ tasksCounter' = tasksCounter - 1
  /\ UNCHANGED <<contextVars, inputQueue, inputMutex, workerVars, toSpawn,
                 cancelVars, taskVars, submitted, dropped>>

\* info.complete->perform(move(task)); return Declined;
PerformDecline(c) ==
  /\ GoClient(c, "decline", "idle")
  /\ HandToComplete(ctask[c])
  /\ ctask' = [ctask EXCEPT ![c] = NoTask]
  /\ UNCHANGED <<contextVars, queueVars, workerVars, toSpawn, cancelVars,
                 taskVars, submitted, dropped>>

\* ++tasksCounter, before the task can be seen in the queue
PerformCount(c) ==
  /\ GoClient(c, "count", "push")
  /\ tasksCounter' = tasksCounter + 1
  /\ UNCHANGED <<contextVars, inputQueue, inputMutex, workerVars, ctask,
                 toSpawn, cancelVars, taskVars, historyVars>>

\* inputQueue.push(...), which takes and releases inputMutexQueue
PerformPush(c) ==
  /\ inputMutex = NoThread
  /\ GoClient(c, "push", "notify")
  /\ inputQueue' = inputQueue \cup {ctask[c]}
  /\ ctask' = [ctask EXCEPT ![c] = NoTask]
  /\ UNCHANGED <<contextVars, tasksCounter, inputMutex, workerVars, toSpawn,
                 cancelVars, taskVars, historyVars>>

\* Mutant: no notify_one() behind the push.
PerformNotifyNobody(c) ==
  /\ GoClient(c, "notify", "idle")
  /\ UNCHANGED <<contextVars, queueVars, workerVars, ctask, toSpawn, cancelVars,
                 taskVars, historyVars>>

\* inputCondition.notify_one(), without the mutex; return Ok;
PerformNotify(c) ==
  /\ GoClient(c, "notify", "idle")
  /\ \/ \E w \in Waiting : wpc' = [wpc EXCEPT ![w] = "wake"]
     \/ Waiting = {} /\ UNCHANGED wpc
  /\ UNCHANGED <<contextVars, queueVars, continueExec, wtask, ctask, toSpawn,
                 cancelVars, taskVars, historyVars>>

\* performCompleted(task): straight to the complete interface, with no look
\* at finalized.  A caller that does not race cancel() does not call it
\* on a cancelled pool.
PerformCompleted(c, t) ==
  /\ cpc[c] = "idle"
  /\ t \notin submitted
  /\ Racing \/ ~finalized
  /\ submitted' = submitted \cup {t}
  /\ HandToComplete(t)
  /\ UNCHANGED <<contextVars, queueVars, workerVars, clientVars, cancelVars,
                 taskVars, dropped>>

(***************************************************************************)
(* ThreadPool::cancel(), also run by the destructor: it may come twice     *)
(***************************************************************************)

\* finalized = true;
CancelBegin ==
  /\ kpc = "idle"
  /\ Racing \/ \A c \in Clients : cpc[c] = "idle"
  /\ kpc' = "check"
  /\ finalized' = TRUE
  /\ UNCHANGED <<lazyInit, complete, workers, queueVars, workerVars,
                 clientVars, toStop, taskVars, historyVars>>

\* if (!workers.empty())
CancelReadWorkers ==
  /\ kpc = "check"
  /\ kpc' = IF workers = {} THEN "sweep" ELSE "stop"
  /\ toStop' = workers
  /\ UNCHANGED <<contextVars, queueVars, workerVars, clientVars, taskVars,
                 historyVars>>

\* it->stop(): clear the worker's _continueExecution
CancelStop(w) ==
  /\ kpc = "stop"
  /\ w \in toStop
  /\ toStop' = toStop \ {w}
  /\ continueExec' = [continueExec EXCEPT ![w] = FALSE]
  /\ kpc' = IF toStop = {w} THEN "notify" ELSE "stop"
  /\ UNCHANGED <<contextVars, queueVars, wpc, wtask, clientVars, taskVars,
                 historyVars>>

\* Mutant: notify_one() where all have to wake.
CancelNotifyOne ==
  /\ kpc = "notify"
  /\ kpc' = "join"
  /\ \/ \E w \in Waiting : wpc' = [wpc EXCEPT ![w] = "wake"]
     \/ Waiting = {} /\ UNCHANGED wpc
  /\ UNCHANGED <<contextVars, queueVars, continueExec, wtask, clientVars,
                 toStop, taskVars, historyVars>>

\* inputCondition.notify_all(), without the mutex
CancelNotify ==
  /\ kpc = "notify"
  /\ kpc' = "join"
  /\ wpc' = [w \in Workers |-> IF wpc[w] = "waiting" THEN "wake" ELSE wpc[w]]
  /\ UNCHANGED <<contextVars, queueVars, continueExec, wtask, clientVars,
                 toStop, taskVars, historyVars>>

\* Mutant: cancel() does not wait for the workers.
CancelJoinNobody ==
  /\ kpc = "join"
  /\ kpc' = "sweep"
  /\ workers' = {}
  /\ UNCHANGED <<finalized, lazyInit, complete, queueVars, workerVars,
                 clientVars, toStop, taskVars, historyVars>>

\* waitStopped() and delete each worker, workers.clear()
CancelJoin ==
  /\ kpc = "join"
  /\ \A w \in workers : wpc[w] = "exited"
  /\ kpc' = "sweep"
  /\ wpc' = [w \in Workers |-> IF w \in workers THEN "none" ELSE wpc[w]]
  /\ workers' = {}
  /\ UNCHANGED <<finalized, lazyInit, complete, queueVars, continueExec, wtask,
                 clientVars, toStop, taskVars, historyVars>>

\* Mutant: the queued tasks are dropped without being cancelled.
CancelSweepNothing ==
  /\ kpc = "sweep"
  /\ inputMutex = NoThread
  /\ kpc' = "clear"
  /\ UNCHANGED <<contextVars, queueVars, workerVars, clientVars, toStop,
                 taskVars, historyVars>>

\* Mutant: cancelled tasks get a state of their own.
CancelSweepNewState ==
  /\ kpc = "sweep"
  /\ inputMutex = NoThread
  /\ kpc' = "clear"
  /\ state' = [t \in Tasks |-> IF t \in inputQueue THEN "Cancelled" ELSE state[t]]
  /\ UNCHANGED <<contextVars, queueVars, workerVars, clientVars, toStop,
                 completions, historyVars>>

\* foreach holds inputMutexQueue while it cancels every queued task.
\* Task::cancel acts in state Prepared only: failed, and completed here.
CancelSweep ==
  /\ kpc = "sweep"
  /\ inputMutex = NoThread
  /\ kpc' = "clear"
  /\ LET cancelled == {t \in inputQueue : state[t] = "Prepared"} IN
       /\ state' = [t \in Tasks |-> IF t \in cancelled
                                    THEN "ExecutedFailed" ELSE state[t]]
       /\ completions' = [t \in Tasks |-> completions[t] +
                            IF t \in cancelled THEN 1 ELSE 0]
  /\ UNCHANGED <<contextVars, queueVars, workerVars, clientVars, toStop,
                 historyVars>>

\* inputQueue.clear(), a critical section of its own
CancelClear ==
  /\ kpc = "clear"
  /\ inputMutex = NoThread
  /\ kpc' = "reset"
  /\ dropped' = dropped \cup inputQueue
  /\ inputQueue' = {}
  /\ UNCHANGED <<contextVars, tasksCounter, inputMutex, workerVars, clientVars,
                 toStop, taskVars, submitted, delivered, fault>>

\* info.complete = nullptr; info.ref = nullptr;
CancelReset ==
  /\ kpc = "reset"
  /\ kpc' = "idle"
  /\ complete' = FALSE
  /\ UNCHANGED <<finalized, lazyInit, workers, queueVars, workerVars,
                 clientVars, toStop, taskVars, historyVars>>

(***************************************************************************)
(* The specification.  A null call ends the program.                       *)
(***************************************************************************)
WorkerStep(w) ==
  \/ WorkerCheck(w) \/ WorkerPop(w) \/ WorkerPopNothing(w) \/ WorkerLock(w)
  \/ WorkerReadFinalized(w) \/ WorkerWait(w) \/ WorkerWake(w)
  \/ WorkerExecute(w) \/ WorkerDeliver(w) \/ WorkerDecrement(w)

ClientStep(c) ==
  \/ PerformReadFlags(c) \/ PerformReadLazyEmpty(c) \/ SpawnLock(c)
  \/ \E w \in Workers : SpawnOne(c, w)
  \/ SpawnDone(c) \/ PerformReadEmpty(c) \/ PerformPrepare(c)
  \/ PerformDecline(c) \/ PerformCount(c) \/ PerformPush(c) \/ PerformNotify(c)

ClientCall(c) ==
  \E t \in Tasks : PerformBegin(c, t) \/ PerformCompleted(c, t)

CancelStep ==
  \/ CancelReadWorkers \/ (\E w \in Workers : CancelStop(w)) \/ CancelNotify
  \/ CancelJoin \/ CancelSweep \/ CancelClear \/ CancelReset

Next ==
  /\ ~fault
  /\ \/ \E w \in Workers : WorkerStep(w) \/ SpuriousWake(w)
     \/ \E c \in Clients : ClientStep(c) \/ ClientCall(c)
     \/ CancelBegin
     \/ CancelStep

Spec == Init /\ [][Next]_vars

\* What the operating system's scheduling gives: every thread that can go on
\* does.  Nothing is promised of spurious wakeups, of calls nobody made, or of
\* a mutex that is taken again and again before a waiter gets it.
Fairness ==
  /\ \A w \in Workers : WF_vars(~fault /\ WorkerStep(w))
  /\ \A c \in Clients : WF_vars(~fault /\ ClientStep(c))
  /\ WF_vars(~fault /\ CancelStep)

FairSpec == Spec /\ Fairness

(***************************************************************************)
(* Properties                                                              *)
(***************************************************************************)

\* The types of all variables.
TypeOK ==
  /\ finalized \in BOOLEAN /\ lazyInit \in BOOLEAN /\ complete \in BOOLEAN
  /\ fault \in BOOLEAN
  /\ workers \in SUBSET Workers /\ toSpawn \in SUBSET Workers
  /\ toStop \in SUBSET Workers
  /\ tasksCounter \in Int
  /\ inputQueue \in SUBSET Tasks /\ submitted \in SUBSET Tasks
  /\ dropped \in SUBSET Tasks
  /\ inputMutex \in Workers \cup Clients \cup {NoThread}
  /\ continueExec \in [Workers -> BOOLEAN]
  /\ wpc \in [Workers -> WorkerPc] /\ wtask \in [Workers -> Tasks \cup {NoTask}]
  /\ cpc \in [Clients -> ClientPc] /\ ctask \in [Clients -> Tasks \cup {NoTask}]
  /\ kpc \in CancelPc
  /\ state \in [Tasks -> TaskState]
  /\ completions \in [Tasks -> Nat] /\ delivered \in [Tasks -> Nat]

HeldByWorker(t) == \E w \in Workers : wtask[w] = t
HeldByClient(t) == \E c \in Clients : ctask[c] = t

\* Every task a thread holds or the queue holds is in exactly one place: it
\* is never popped by two workers, nor popped while its perform() call still
\* has it.  (worker(), perform(), popTask: SPThreadPool.cc:98-124, 190-231)
OneHolder ==
  /\ \A w, v \in Workers : wtask[w] = wtask[v] /\ wtask[w] # NoTask => w = v
  /\ \A c, d \in Clients : ctask[c] = ctask[d] /\ ctask[c] # NoTask => c = d
  /\ \A t \in Tasks : HeldByWorker(t) => ~HeldByClient(t)
  /\ \A t \in inputQueue : ~HeldByWorker(t) /\ ~HeldByClient(t)
  /\ \A t \in dropped : ~HeldByWorker(t) /\ ~HeldByClient(t) /\ t \notin inputQueue

\* The tasks that tasksCounter stands for: about to be queued, queued, in a
\* worker's hands, or thrown away by cancel(), which forgets to count them off.
Counted ==
  {t \in Tasks : \/ t \in inputQueue \cup dropped
                 \/ HeldByWorker(t)
                 \/ \E c \in Clients : cpc[c] = "push" /\ ctask[c] = t}

\* tasksCounter is exact at every step, so the size_t never wraps below zero
\* and no worker reads 0 while a task is queued (SPThreadPool.cc:111, 210, 222).
CounterExact == tasksCounter = Cardinality(Counted)

\* No lost wakeup: while the pool is live, a queued task is never left with
\* all workers asleep unless the notify_one() of its push is still to come
\* (SPThreadPool.cc:109-117 against 210-212).
NoLostWakeup ==
  inputQueue # {} /\ ~finalized =>
    \/ \E w \in workers : wpc[w] # "waiting"
    \/ \E c \in Clients : cpc[c] = "notify"

\* A task is answered at most once: handed to the complete interface, or
\* completed by cancel(), never both and never twice.
AnsweredOnce == \A t \in Tasks : delivered[t] + completions[t] <= 1

\* When cancel() has returned nothing is left behind: no workers, no queued
\* or held task, and every task that was prepared has had its answer.
CancelLeavesNothing ==
  kpc = "idle" /\ finalized =>
    /\ workers = {} /\ inputQueue = {}
    /\ \A t \in Tasks : ~HeldByWorker(t)
    /\ \A t \in submitted : state[t] # "Initial" =>
         delivered[t] + completions[t] = 1

\* The complete interface is never called once cancel() has reset it.
NoNullComplete == ~fault

\* "remove lazy-init flag to prevent run-after-cancel" (SPThreadPool.cc:159):
\* once cancel() has returned no worker is started.
NoRunAfterCancel ==
  [][finalized /\ kpc = "idle" => workers' \subseteq workers]_<<finalized, kpc, workers>>

\* A queued task reaches the complete interface, unless the pool is cancelled.
QueuedIsDelivered ==
  \A t \in Tasks : t \in inputQueue ~> (delivered[t] > 0 \/ finalized)

\* "stop all workers" (SPThreadPool.h:75): cancel() returns.
CancelReturns == kpc = "check" ~> kpc = "idle"

\* cancel() returns whenever its notify_all() does not fall between a
\* worker's look at finalized and that worker's wait (SPThreadPool.cc:144-148).
CancelReturnsUnlessRaced ==
  (kpc = "notify" /\ \A w \in Workers : wpc[w] # "willWait") ~> kpc = "idle"

(***************************************************************************)
(* The inductive invariant behind the safety properties.  It does not      *)
(* depend on Racing: it holds however perform() and cancel() interleave.   *)
(***************************************************************************)

\* A worker holds a task from pop to decrement, a call from begin to push.
Holding ==
  /\ \A w \in Workers : wtask[w] # NoTask <=> wpc[w] \in {"exec", "deliver", "dec"}
  /\ \A c \in Clients : ctask[c] # NoTask <=> cpc[c] \notin {"idle", "notify"}

\* No task anywhere that was not passed in, so a new call brings a new task.
HeldIsSubmitted ==
  /\ inputQueue \cup dropped \subseteq submitted
  /\ \A t \in Tasks : HeldByWorker(t) \/ HeldByClient(t) => t \in submitted

\* Who is in the critical section of inputMutexQueue.
MutexOwner ==
  /\ \A w \in Workers : inputMutex = w <=> wpc[w] \in {"final", "willWait"}
  /\ \A c \in Clients : inputMutex = c <=> cpc[c] = "spawning"

\* A thread exists exactly while it is in the vector.
WorkersAlive ==
  /\ \A w \in Workers : w \in workers <=> wpc[w] # "none"
  /\ toSpawn \cap workers = {}

\* A worker on its way to sleep has seen an empty queue, and keeps it empty.
SleepyQueueEmpty ==
  \A w \in Workers : wpc[w] \in {"final", "willWait"} => inputQueue = {}

\* Before cancel() the vector, once seen non-empty, stays non-empty.
WorkersStay ==
  /\ kpc # "idle" => finalized
  /\ ~finalized => \/ workers # {}
                   \/ /\ inputQueue = {}
                      /\ \A c \in Clients :
                           cpc[c] \notin {"prepare", "decline", "count", "push"}

IInv ==
  /\ TypeOK /\ Holding /\ HeldIsSubmitted /\ OneHolder
  /\ MutexOwner /\ WorkersAlive /\ SleepyQueueEmpty /\ WorkersStay
  /\ CounterExact /\ NoLostWakeup

(***************************************************************************)
(* What IInv lacks for the properties of a pool whose cancel() overlaps no *)
(* perform(), and only for that: where each task's answer stands.          *)
(***************************************************************************)

\* No call is under way once cancel() has begun.
Quiet == finalized => \A c \in Clients : cpc[c] = "idle"

\* What cancel() has closed stays closed.
Closed ==
  /\ kpc \in {"sweep", "clear", "reset"} => workers = {}
  /\ kpc = "reset" => inputQueue = {}
  /\ kpc = "idle" /\ finalized => workers = {} /\ inputQueue = {}
  /\ ~complete => finalized /\ workers = {}
  /\ ~fault

Answers(t, d, c) == delivered[t] = d /\ completions[t] = c

Placed(t) == t \in inputQueue \/ HeldByWorker(t) \/ HeldByClient(t)

\* Whoever has a task knows whether it is answered; one that nobody has is
\* answered once, if it was ever prepared.
AnswersKnown ==
  /\ \A t \in Tasks \ submitted : Answers(t, 0, 0) /\ state[t] = "Initial"
  /\ \A t \in inputQueue :
       IF kpc = "clear" THEN Answers(t, 0, 1)
       ELSE Answers(t, 0, 0) /\ state[t] = "Prepared"
  /\ \A c \in Clients : ctask[c] # NoTask =>
       /\ Answers(ctask[c], 0, 0)
       /\ cpc[c] \in {"count", "push"} => state[ctask[c]] = "Prepared"
       /\ cpc[c] \notin {"decline", "count", "push"} =>
            state[ctask[c]] = "Initial"
  /\ \A w \in Workers : wtask[w] # NoTask =>
       Answers(wtask[w], IF wpc[w] = "dec" THEN 1 ELSE 0, 0)
  /\ \A t \in submitted : ~Placed(t) =>
       \/ Answers(t, 1, 0) \/ Answers(t, 0, 1)
       \/ Answers(t, 0, 0) /\ state[t] = "Initial"

CancelInv == Quiet /\ Closed /\ AnswersKnown
=============================================================================
