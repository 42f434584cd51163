----------------------------- MODULE TaskQueue ------------------------------
(***************************************************************************)
(* stappler::thread::TaskQueue (threads/SPThreadTaskQueue.cc): a thread    *)
(* pool whose `complete` interface is an output queue.  Workers put done   *)
(* tasks there; the owner thread (the dispatcher) takes them out with      *)
(* update() or by waiting, and runs their completion callbacks.            *)
(*                                                                         *)
(* The module adds the output side to ThreadPool: a step of the pool that  *)
(* calls info.complete->perform is the push into outputQueue as well, and  *)
(* its thread goes on only after the wakeup() and notify_one() that follow.*)
(***************************************************************************)
EXTENDS ThreadPool, Sequences

CONSTANTS
  Callbacks,   \* functions given to performOnThread
  Group,       \* the tasks that share a TaskGroup
  Calls        \* the calls the owner thread makes: a subset of DispatcherCall

DispatcherCall == {"update", "wait", "waitFor", "waitForAll", "cancel", "destroy"}

ASSUME QueueAssumption == Calls \subseteq DispatcherCall /\ Group \subseteq Tasks

VARIABLES
  outputQueue,      \* OutputContext::outputQueue
  outputCallbacks,  \* OutputContext::outputCallbacks
  outputCounter,    \* OutputContext::outputCounter
  outputHeld,       \* outputMutex stays locked by a blocked wait()
  opc,              \* where each thread is inside OutputContext::perform
  woken,            \* wakeup() was called since the owner last looked
  dpc, dcall,       \* where the owner thread is, and in which call
  batch, cbatch,    \* what update() has taken out and not yet run
  posted,           \* history: callbacks given to performOnThread
  ran,              \* how often each callback has run
  groupAdded,       \* TaskGroup::_added
  groupCompleted,   \* TaskGroup::_completed
  refused           \* history: tasks a prepare callback has refused

outputVars   == <<outputQueue, outputCallbacks, outputCounter, outputHeld>>
performVars  == <<opc, woken>>
dispatchVars == <<dpc, dcall, batch, cbatch>>
groupVars == <<groupAdded, groupCompleted, refused>>
callbackVars == <<posted, ran, groupVars>>
ownVars == <<outputVars, performVars, dispatchVars, callbackVars>>
allVars == <<vars, ownVars>>

Threads == Workers \cup Clients
OutputPc == {"none", "wakeup", "notify"}
DispatcherPc == {"idle", "swap", "run", "recount", "loop", "look", "sleep",
                 "woken", "relock", "closing", "gone"}

QueueInit ==
  /\ Init
  /\ outputQueue = <<>> /\ outputCallbacks = <<>>
  /\ outputCounter = 0 /\ outputHeld = FALSE
  /\ opc = [p \in Threads |-> "none"] /\ woken = FALSE
  /\ dpc = "idle" /\ dcall = "update"
  /\ batch = <<>> /\ cbatch = <<>>
  /\ posted = {} /\ ran = [f \in Callbacks |-> 0]
  /\ groupAdded = 0 /\ groupCompleted = 0 /\ refused = {}

(***************************************************************************)
(* OutputContext::perform, on a worker or a client thread                  *)
(***************************************************************************)

\* lock; outputQueue.push_back(task); ++outputCounter; unlock
PushTask(p, t) ==
  /\ ~outputHeld
  /\ outputQueue' = Append(outputQueue, t)
  /\ outputCounter' = outputCounter + 1
  /\ opc' = [opc EXCEPT ![p] = "wakeup"]
  /\ UNCHANGED <<outputCallbacks, outputHeld, woken, dispatchVars, callbackVars>>

\* lock; outputCallbacks.emplace_back(func); ++outputCounter; unlock
PushCallback(p, f) ==
  /\ ~outputHeld
  /\ outputCallbacks' = Append(outputCallbacks, f)
  /\ outputCounter' = outputCounter + 1
  /\ opc' = [opc EXCEPT ![p] = "wakeup"]
  /\ posted' = posted \cup {f}
  /\ UNCHANGED <<outputQueue, outputHeld, woken, dispatchVars, ran, groupVars>>

\* Mutant: the dispatcher is not told.
OutputNoWakeup(p) ==
  /\ opc[p] = "wakeup"
  /\ opc' = [opc EXCEPT ![p] = "notify"]
  /\ UNCHANGED <<vars, outputVars, woken, dispatchVars, callbackVars>>

\* wakeup();
OutputWakeup(p) ==
  /\ opc[p] = "wakeup"
  /\ opc' = [opc EXCEPT ![p] = "notify"]
  /\ woken' = TRUE
  /\ UNCHANGED <<vars, outputVars, dispatchVars, callbackVars>>

\* outputCondition.notify_one(), without the mutex
OutputNotify(p) ==
  /\ opc[p] = "notify"
  /\ opc' = [opc EXCEPT ![p] = "none"]
  /\ dpc' = IF dpc = "sleep" THEN "woken" ELSE dpc
  /\ UNCHANGED <<vars, outputVars, woken, dcall, batch, cbatch, callbackVars>>

\* Task::prepare() tells the group of a task that may run, and of no other.
Prepares(t, ok) ==
  /\ groupAdded' = IF ok /\ t \in Group THEN groupAdded + 1 ELSE groupAdded
  /\ refused' = IF ok THEN refused ELSE refused \cup {t}

\* Task::handleCompleted() tells it of every task.
HandleCompleted(T) == groupCompleted' = groupCompleted + Cardinality(T \cap Group)

\* The steps of the pool, joined with the push where they call the interface.
WorkerTurn(w) ==
  /\ opc[w] = "none"
  /\ WorkerStep(w)
  /\ IF wpc[w] = "deliver" /\ complete
     THEN PushTask(w, wtask[w]) ELSE UNCHANGED ownVars

ClientTurn(c) ==
  /\ opc[c] = "none"
  /\ ClientStep(c)
  /\ CASE cpc[c] = "decline" /\ complete -> PushTask(c, ctask[c])
       [] cpc[c] = "prepare" ->
            /\ Prepares(ctask[c], state'[ctask[c]] = "Prepared")
            /\ UNCHANGED <<outputVars, performVars, dispatchVars, posted, ran,
                           groupCompleted>>
       [] OTHER -> UNCHANGED ownVars

\* Nobody calls a queue that is being destroyed.
Alive == dpc \notin {"closing", "gone"} /\ dcall # "destroy"

QueuePerform(c, t) ==
  Alive /\ opc[c] = "none" /\ PerformBegin(c, t) /\ UNCHANGED ownVars

PerformOnThread(c, t) ==
  /\ Alive /\ opc[c] = "none"
  /\ PerformCompleted(c, t)
  /\ IF complete THEN PushTask(c, t) ELSE UNCHANGED ownVars

PerformOnThreadCallback(c, f) ==
  /\ Alive /\ opc[c] = "none" /\ cpc[c] = "idle"
  /\ complete /\ ~finalized
  /\ f \notin posted
  /\ PushCallback(c, f)
  /\ UNCHANGED vars

(***************************************************************************)
(* The owner thread: update(), wait(), wait(interval), waitForAll(),       *)
(* cancel() and the destructor, one call at a time                         *)
(***************************************************************************)
Dispatch(from, to) == dpc = from /\ dpc' = to

Call(name, at) ==
  /\ name \in Calls
  /\ kpc = "idle"
  /\ Dispatch("idle", at)
  /\ dcall' = name
  /\ UNCHANGED <<vars, outputVars, opc, batch, cbatch, callbackVars>>

\* The host's event loop calls update() when wakeup() asked it to.
CallUpdate == woken /\ woken' = FALSE /\ Call("update", "swap")

\* waitForAll() begins with an update().
CallWaitForAll == Call("waitForAll", "swap") /\ UNCHANGED woken

CallWaitFor == Call("waitFor", "look") /\ UNCHANGED woken

\* wait(count): outputCondition.wait(lock) with no predicate
CallWait == Call("wait", "sleep") /\ UNCHANGED woken

CallCancel ==
  /\ "cancel" \in Calls
  /\ dpc = "idle"
  /\ CancelBegin
  /\ UNCHANGED ownVars

\* The last reference is gone: the workers each hold one, and so does every
\* task in the queues, so the destructor comes after a cancel() and an update().
CallDestroy ==
  /\ "destroy" \in Calls
  /\ Dispatch("idle", "closing")
  /\ CancelBegin
  /\ workers = {} /\ inputQueue = {} /\ outputQueue = <<>>
  /\ \A p \in Threads : opc[p] = "none"
  /\ dcall' = "destroy"
  /\ UNCHANGED <<outputVars, performVars, batch, cbatch, callbackVars>>

\* Mutant: the destructor does not update.
DestroyNoUpdate ==
  /\ kpc = "idle"
  /\ Dispatch("closing", "gone")
  /\ UNCHANGED <<vars, outputVars, performVars, dcall, batch, cbatch, callbackVars>>

\* ~TaskQueue: after cancel(), update(nullptr)
DestroyUpdate ==
  /\ kpc = "idle"
  /\ Dispatch("closing", "swap")
  /\ UNCHANGED <<vars, outputVars, performVars, dcall, batch, cbatch, callbackVars>>

\* Mutant: the output queue is copied and stays as it is.
UpdateCopy ==
  /\ ~outputHeld
  /\ Dispatch("swap", "run")
  /\ batch' = outputQueue /\ cbatch' = outputCallbacks
  /\ UNCHANGED <<vars, outputVars, performVars, dcall, callbackVars>>

\* update() takes everything out in one critical section.
UpdateSwap ==
  /\ ~outputHeld
  /\ Dispatch("swap", "run")
  /\ batch' = outputQueue /\ cbatch' = outputCallbacks
  /\ outputQueue' = <<>> /\ outputCallbacks' = <<>>
  /\ outputCounter' = 0
  /\ UNCHANGED <<vars, outputHeld, performVars, dcall, callbackVars>>

\* task->run(): the stages that are still to come, then handleCompleted
UpdateRunTask ==
  /\ dpc = "run" /\ batch # <<>>
  /\ LET t == Head(batch) IN
       /\ IF state[t] \in Executed THEN UNCHANGED <<state, groupAdded, refused>>
          ELSE \E ok \in BOOLEAN, result \in Executed :
                 /\ Prepares(t, ok)
                 /\ state' = [state EXCEPT ![t] = IF ok THEN result
                                                 ELSE "ExecutedFailed"]
       /\ completions' = [completions EXCEPT ![t] = @ + 1]
       /\ HandleCompleted({t})
  /\ batch' = Tail(batch)
  /\ UNCHANGED <<contextVars, queueVars, workerVars, clientVars, cancelVars,
                 historyVars, outputVars, performVars, dpc, dcall, cbatch,
                 posted, ran>>

\* Mutant: every callback is counted off once more.
UpdateRunCallbackCount ==
  /\ dpc = "run" /\ batch = <<>> /\ cbatch # <<>>
  /\ ran' = [ran EXCEPT ![Head(cbatch)] = @ + 1]
  /\ cbatch' = Tail(cbatch)
  /\ outputCounter' = outputCounter - 1
  /\ UNCHANGED <<vars, outputQueue, outputCallbacks, outputHeld, performVars,
                 dpc, dcall, batch, posted, groupVars>>

\* The callbacks come after all the tasks.
UpdateRunCallback ==
  /\ dpc = "run" /\ batch = <<>> /\ cbatch # <<>>
  /\ ran' = [ran EXCEPT ![Head(cbatch)] = @ + 1]
  /\ cbatch' = Tail(cbatch)
  /\ UNCHANGED <<vars, outputVars, performVars, dpc, dcall, batch, posted,
                 groupVars>>

UpdateRan ==
  /\ batch = <<>> /\ cbatch = <<>>
  /\ Dispatch("run", "recount")
  /\ UNCHANGED <<vars, outputVars, performVars, dcall, batch, cbatch, callbackVars>>

\* if (tasksCounter > 0) inputCondition.notify_all(); and update() returns.
UpdateDone ==
  /\ Dispatch("recount", CASE dcall = "waitForAll" -> "loop"
                           [] dcall = "destroy" -> "gone"
                           [] OTHER -> "idle")
  /\ wpc' = [w \in Workers |-> IF wpc[w] = "waiting" /\ tasksCounter > 0
                               THEN "wake" ELSE wpc[w]]
  /\ UNCHANGED <<contextVars, queueVars, continueExec, wtask, clientVars,
                 cancelVars, taskVars, historyVars, outputVars, performVars,
                 dcall, batch, cbatch, callbackVars>>

\* Mutant: an empty input queue is taken for the end of all work.
WaitForAllQueue ==
  /\ Dispatch("loop", IF inputQueue = {} THEN "idle" ELSE "look")
  /\ UNCHANGED <<vars, outputVars, performVars, dcall, batch, cbatch, callbackVars>>

\* while (tasksCounter != 0) wait(iv);
WaitForAllLoop ==
  /\ Dispatch("loop", IF tasksCounter = 0 THEN "idle" ELSE "look")
  /\ UNCHANGED <<vars, outputVars, performVars, dcall, batch, cbatch, callbackVars>>

\* wait(iv): with something in the output queue update at once, or sleep.
\* A notified sleeper looks again: that is the predicate of wait_for.
WaitForLook ==
  /\ ~outputHeld
  /\ dcall \in {"waitFor", "waitForAll"}
  /\ dpc \in {"look", "woken"}
  /\ dpc' = IF outputCounter > 0 THEN "swap" ELSE "sleep"
  /\ UNCHANGED <<vars, outputVars, performVars, dcall, batch, cbatch, callbackVars>>

\* The interval is over: wait_for returns what the predicate says now.
WaitForTimeout ==
  /\ dcall \in {"waitFor", "waitForAll"}
  /\ Dispatch("sleep", IF outputCounter > 0 THEN "swap"
                       ELSE IF dcall = "waitForAll" THEN "loop" ELSE "idle")
  /\ UNCHANGED <<vars, outputVars, performVars, dcall, batch, cbatch, callbackVars>>

\* wait(count) wakes with outputMutex locked and calls update(), which locks
\* the same std::mutex again: the thread blocks itself and never unlocks.
WaitRelock ==
  /\ dcall = "wait"
  /\ ~outputHeld
  /\ Dispatch("woken", "relock")
  /\ outputHeld' = TRUE
  /\ UNCHANGED <<vars, outputQueue, outputCallbacks, outputCounter, performVars,
                 dcall, batch, cbatch, callbackVars>>

(***************************************************************************)
(* The specification                                                       *)
(***************************************************************************)
DispatcherStep ==
  \/ DestroyUpdate \/ UpdateSwap \/ UpdateRunTask \/ UpdateRunCallback
  \/ UpdateRan \/ UpdateDone \/ WaitForAllLoop \/ WaitForLook
  \/ WaitForTimeout \/ WaitRelock

\* Cancelled tasks are completed here, on the owner's thread.
CancelTurn ==
  /\ CancelStep
  /\ HandleCompleted({t \in Tasks : completions'[t] > completions[t]})
  /\ UNCHANGED <<outputVars, performVars, dispatchVars, posted, ran, groupAdded,
                 refused>>

QueueNext ==
  /\ ~fault
  /\ \/ \E w \in Workers : WorkerTurn(w) \/ (SpuriousWake(w) /\ UNCHANGED ownVars)
     \/ \E c \in Clients :
          \/ ClientTurn(c)
          \/ \E t \in Tasks : QueuePerform(c, t) \/ PerformOnThread(c, t)
          \/ \E f \in Callbacks : PerformOnThreadCallback(c, f)
     \/ \E p \in Threads : OutputWakeup(p) \/ OutputNotify(p)
     \/ CallUpdate \/ CallWaitForAll \/ CallWaitFor \/ CallWait
     \/ CallCancel \/ CallDestroy
     \/ DispatcherStep
     \/ CancelTurn

QueueSpec == QueueInit /\ [][QueueNext]_allVars

\* Threads that can go on do, and the host calls update() when woken up: its
\* loop gets there even if it spends most of its time in other calls.
QueueFairness ==
  /\ \A w \in Workers : WF_allVars(~fault /\ WorkerTurn(w))
  /\ \A c \in Clients : WF_allVars(~fault /\ ClientTurn(c))
  /\ \A p \in Threads : WF_allVars(~fault /\ (OutputWakeup(p) \/ OutputNotify(p)))
  /\ WF_allVars(~fault /\ DispatcherStep)
  /\ SF_allVars(~fault /\ CallUpdate)
  /\ WF_allVars(~fault /\ CancelTurn)

QueueFairSpec == QueueSpec /\ QueueFairness

(***************************************************************************)
(* Properties                                                              *)
(***************************************************************************)

\* The types of the variables the queue adds to the pool.
QueueTypeOK ==
  /\ TypeOK
  /\ outputQueue \in Seq(Tasks) /\ batch \in Seq(Tasks)
  /\ outputCallbacks \in Seq(Callbacks) /\ cbatch \in Seq(Callbacks)
  /\ outputCounter \in Nat
  /\ outputHeld \in BOOLEAN /\ woken \in BOOLEAN
  /\ opc \in [Threads -> OutputPc]
  /\ dpc \in DispatcherPc /\ dcall \in DispatcherCall
  /\ posted \in SUBSET Callbacks /\ ran \in [Callbacks -> Nat]
  /\ groupAdded \in Nat /\ groupCompleted \in Nat /\ refused \in SUBSET Tasks

\* The group's counters tell how many of its tasks are under way, but for those
\* refused in preparation: they are counted as completed and never as added, so
\* the counters may meet, or cross, while others still run (SPThreadTask.cc:184).
GroupCounts ==
  groupAdded - groupCompleted =
      Cardinality({t \in Group \ refused : state[t] # "Initial" /\ completions[t] = 0})
    - Cardinality({t \in Group \cap refused : completions[t] > 0})

\* The completion callbacks of a task run at most once, whether by update()
\* or by cancel(), and never before the task has been executed or has failed;
\* a function given to performOnThread runs at most once; and the group counts
\* each completion once, however the task came to it.
CompletedOnce ==
  /\ \A t \in Tasks : /\ completions[t] <= 1
                      /\ completions[t] = 1 => state[t] \in Executed
  /\ \A f \in Callbacks : ran[f] <= 1
  /\ GroupCounts

\* waitForAll() is a barrier for execution: when it returns, every task whose
\* perform() call is over has been executed, though its completion callbacks
\* may still be waiting in the output queue (SPThreadTaskQueue.cc:129-133,
\* SPThreadPool.cc:221-222).
WaitForAllBarrier ==
  [][dpc = "loop" /\ dpc' = "idle" =>
       \A t \in submitted :
         ~HeldByClient(t) /\ delivered[t] = 0 => state[t] = "Initial"]_allVars

\* The destructor leaves no task prepared and unanswered, and no function
\* that was posted and never run (SPThreadTaskQueue.cc:64-67).
DestroyedClean ==
  dpc = "gone" =>
    /\ \A t \in submitted : state[t] # "Initial" => completions[t] = 1
    /\ \A f \in posted : ran[f] = 1
    /\ workers = {}

\* Whatever reaches the output queue of a queue that is not cancelled is
\* completed, by a host that need only call update() after a wakeup(): the
\* order push, wakeup(), swap loses nothing (SPThreadTaskQueue.cc:36-43, 92-111).
WakeupCompletes ==
  \A t \in Tasks : delivered[t] > 0 ~> completions[t] > 0

\* waitForAll() returns when nobody cancels the queue under it: no wakeup of
\* the workers or of the owner is lost for longer than one interval.
WaitForAllReturns == dpc = "loop" ~> dpc = "idle"

(***************************************************************************)
(* The queue implements TaskLedger                                         *)
(***************************************************************************)
LedgerStatus(t) ==
  CASE completions[t] > 0                               -> "completed"
    [] completions[t] = 0 /\ (delivered[t] > 0 \/ \E c \in Clients :
                                 ctask[c] = t /\ cpc[c] = "decline") -> "answered"
    [] completions[t] = 0 /\ delivered[t] = 0 /\ HeldByWorker(t)     -> "running"
    [] completions[t] = 0 /\ delivered[t] = 0 /\ ~HeldByWorker(t)
         /\ state[t] = "Prepared"                       -> "accepted"
    [] OTHER                                            -> "new"

Ledger == INSTANCE TaskLedger WITH
  Threads <- Cardinality(Workers),
  status  <- [t \in Tasks |-> LedgerStatus(t)],
  open    <- ~finalized

\* Every task is accepted, run by one worker and completed exactly once, as
\* the abstract ledger has it.
ImplementsLedger == Ledger!Spec

(***************************************************************************)
(* The inductive invariant behind the safety properties and the            *)
(* refinement, on top of the pool's IInv, Quiet and Closed.                *)
(***************************************************************************)
In(x, s) == \E i \in DOMAIN s : s[i] = x
Distinct(s) == \A i, j \in DOMAIN s : s[i] = s[j] => i = j

\* What was handed over and not completed yet is in the output, once.
OutputExact ==
  /\ Distinct(outputQueue) /\ Distinct(batch)
  /\ \A t \in Tasks :
       /\ ~(In(t, outputQueue) /\ In(t, batch))
       /\ In(t, outputQueue) \/ In(t, batch)
            <=> delivered[t] = 1 /\ completions[t] = 0

\* So is a function that was posted and has not run yet.
CallbacksExact ==
  /\ Distinct(outputCallbacks) /\ Distinct(cbatch)
  /\ \A f \in Callbacks :
       /\ ~(In(f, outputCallbacks) /\ In(f, cbatch))
       /\ In(f, outputCallbacks) \/ In(f, cbatch) <=> f \in posted /\ ran[f] = 0
       /\ ran[f] \in {0, 1} /\ (f \notin posted => ran[f] = 0)

\* The tasks that the pool still holds, and those it has answered.
QueueAnswers ==
  /\ \A t \in Tasks \ submitted : Answers(t, 0, 0) /\ state[t] = "Initial"
  /\ \A t \in inputQueue :
       IF kpc = "clear" THEN Answers(t, 0, 1) /\ state[t] = "ExecutedFailed"
       ELSE Answers(t, 0, 0) /\ state[t] = "Prepared"
  /\ \A c \in Clients : ctask[c] # NoTask =>
       /\ Answers(ctask[c], 0, 0)
       /\ state[ctask[c]] = CASE cpc[c] \in {"count", "push"} -> "Prepared"
                              [] cpc[c] = "decline" -> "ExecutedFailed"
                              [] OTHER -> "Initial"
  /\ \A w \in Workers : wtask[w] # NoTask =>
       CASE wpc[w] = "exec" ->
              Answers(wtask[w], 0, 0) /\ state[wtask[w]] = "Prepared"
         [] wpc[w] = "deliver" ->
              Answers(wtask[w], 0, 0) /\ state[wtask[w]] \in Executed
         [] OTHER -> delivered[wtask[w]] = 1
  /\ \A t \in submitted : ~Placed(t) =>
       \/ delivered[t] = 1
       \/ Answers(t, 0, 1) /\ t \in dropped
       \/ Answers(t, 0, 0) /\ state[t] = "Initial" /\ t \notin dropped

\* What an answer tells of the state.
AnsweredStates ==
  \A t \in Tasks : /\ delivered[t] \in {0, 1} /\ completions[t] \in {0, 1}
                   /\ delivered[t] = 1 => state[t] # "Prepared"
                   /\ completions[t] = 1 => state[t] \in Executed
                   /\ t \in refused => state[t] \in Executed

\* update() runs what it took before it goes on; cancel() is a call of its own;
\* and a queue that is destroyed has nobody left to use it.
OwnerInv ==
  /\ dpc # "run" => batch = <<>> /\ cbatch = <<>>
  /\ kpc # "idle" => dpc \in {"idle", "closing"}
  /\ dpc \in {"closing", "gone"} => dcall = "destroy"
  /\ dcall = "destroy" =>
       /\ dpc \in {"closing", "swap", "run", "recount", "gone"}
       /\ finalized /\ workers = {} /\ inputQueue = {} /\ outputQueue = <<>>
       /\ dpc \in {"run", "recount", "gone"} => outputCallbacks = <<>>

QueueInv ==
  /\ IInv /\ QueueTypeOK /\ Quiet /\ Closed
  /\ OutputExact /\ CallbacksExact /\ QueueAnswers /\ AnsweredStates /\ OwnerInv
  /\ GroupCounts
=============================================================================
