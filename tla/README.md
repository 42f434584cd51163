# A TLA+ model of libstappler-core

libstappler-core is a C++ toolkit: memory pools, containers, threads, an event loop, and above them
databases, networking, documents and graphics. This directory models the parts where threads and callbacks meet, the task
system and the event loop, and checks the models with TLC and TLAPS.

```
tlc -workers 2 -config PoolSafety.cfg MCThreadPool.tla     # one run; PROJECT.json lists them all
tlapm ThreadPoolProofs.tla                                  # the proofs of one module
```

## 1. The system

### Components

| component | state | operations | interacts with | what makes it correct |
|---|---|---|---|---|
| `thread::ThreadPool` (`threads/SPThreadPool.*`) | input queue, `tasksCounter`, `finalized`, `workers`, condition variable | `perform`, `performCompleted`, worker loop, lazy `spawn`, `cancel` | pops from a `PriorityQueue`, hands tasks to a `PerformInterface` | no task lost, doubled or stuck; counter exact; no lost wakeup; `cancel` ends and leaves nothing |
| `thread::Task`, `TaskGroup` (`SPThreadTask.*`) | task state, callbacks, group counters | `prepare`, `execute`, `run`, `handleCompleted`, `cancel` | run by workers, dispatcher and `cancel` | executed at most once, completed exactly once |
| `thread::TaskQueue` (`SPThreadTaskQueue.*`) | output queue, callbacks, counter, condition variable | `update`, `wait`, `wait(interval)`, `waitForAll`, `performOnThread`, destructor | is a pool whose complete interface is its own output context; calls `wakeup` of the host | completions on the owner's thread, once; `waitForAll` a barrier that returns; clean destruction |
| `memory::PriorityQueue` (`core/memory/SPMemPriorityQueue.h`) | free list, sorted list, blocks, lock interfaces | `push`, `pop_direct`, `pop_prefix`, `foreach`, `clear`, destructor | the input queue of the pool | order, node conservation, blocks freed exactly when unused, mutual exclusion |
| `thread::Thread` (`SPThread.*`) | `_running`, `_continueExecution`, ids | `run`, `stop`, `waitRunning`, `waitStopped`, destructor | base of the pool's workers and of others | starts once, is joined once |
| `event::Handle`, `HandleClass` (`event/SPEventHandle.*`, `event/detail/SPEventHandleClass.*`) | status, counters of registered, running and suspended handles | `run`, `suspend`, `resume`, `cancel`, `reset` | completions re-enter; counters tell the queue when all is suspended | counters exact on every path, one final completion |
| `event::QueueData`, `PlatformQueueData` (`event/detail/SPEventQueueData.*`) | run contexts (a stack), suspendable and pending handles | `run`, `wakeup`, `suspendAll`, `resumeAll`, `stopContext` | all handles of a loop | a nested run returns for its own wakeup and keeps the outer one's |
| `PerformEngine`, `ThreadHandle` | pending blocks, two vectors behind a mutex | `perform`, `performAll`, `runAllTasks` | other threads post into a loop | posted work runs once, in the loop's thread |
| `event::Looper` (`event/SPEventLooper.*`) | the thread's loop, its buses, its thread pool | `performOnThread`, `performAsync`, cleanup | tells its buses, joins its pool's workers and cancels its `Queue`, all under one mutex | teardown ends, and where it does not is known |
| `event::Bus`, `BusDelegate` (`event/SPEventBus.*`) | listeners by category and by looper; delegate state | `addListener`, `removeListener`, `dispatchEvent`, `invalidate` | `Looper` under two mutexes | no delivery to a finalized delegate, tables that agree, lock-order cycles known |
| epoll, io_uring and other backends (`event/platform`) | kernel objects | submit, poll, cancel | `QueueData` | wakeups reach the loop |
| memory pools, allocator, `Ref`, containers (`core/memory`, `core/utils`) | pool tree, cleanups, counts | allocate, clear, destroy, retain, release | everything | cleanups once, counts exact |
| `db` and the rest (`sql`, `network`, `data`, `document`, ...) | -- | -- | -- | parsing, rendering, I/O; see PROJECT.json |

### Behaviours that are hard

* `ThreadPool` reads `finalized`, the flags, `workers` and `tasksCounter` without the mutex that guards the queue.
  `cancel()` notifies without it too.
* Completion travels over three threads: caller, worker, owner. Each hand-over is a push in a critical section, then a
  wakeup outside it.
* The container under the pool replaces its locks at run time.
* In the event module every completion may re-enter the handle, the queue or the bus that calls it, and the looper and the
  bus hold a mutex each while they call each other; the looper holds its own while it joins workers whose tasks may call the bus.

PROJECT.json lists the hazards one by one, each at its line, with the properties that cover it or the reason why none does
yet.

## 2. The modules

| module | models | lines |
|---|---|---|
| `ThreadPool` | worker loop, `perform`, `spawn`, `cancel`; the task's state | `SPThreadPool.cc`, `SPThreadTask.cc` |
| `ThreadPoolProofs` | inductive invariant and four theorems of `ThreadPool` | |
| `ThreadPoolCancelProofs` | four more, of a pool that is cancelled between calls | |
| `TaskLedger` | abstract: each task accepted, run by one worker, completed once | |
| `TaskQueue` | extends `ThreadPool` by the output side and the owner's calls | `SPThreadTaskQueue.cc` |
| `TaskQueueProofs` | its invariants, the barrier, and that it implements `TaskLedger` | |
| `OrderedQueue`, `OrderedQueueProofs` | abstract: an ordered sequence with two ways to insert; its order proved | |
| `PriorityQueue` | nodes, links, blocks, lock interfaces | `SPMemPriorityQueue.h` |
| `PriorityQueueProofs` | its safety, and that the linked list implements `OrderedQueue` | |
| `Mailbox` | abstract: what is posted to a loop runs there once, and in order where an order is kept | |
| `EventLoop` | posts and wakeups from other threads, the kernel's reads, nested runs and polls | `SPEvent-uring.cc`, `SPEventThreadHandle-uring.cc`, `SPEventEventFd.cc`, `SPEventQueueData.cc` |
| `EventLoopProofs` | its safety, and that it implements `Mailbox` | |
| `EventHandle` | timers: status, what is armed, the queue's counters, re-entrant completions | `SPEventHandle.cc`, `SPEventHandleClass.cc`, `SPEventTimer-uring.cc`, `SPEventQueueData.cc` |
| `EventHandleProofs` | type, statuses, counters and release of the timers | |
| `EventBus` | the bus, its delegates, and loopers that end with their pools | `SPEventBus.cc`, `SPEventLooper.cc`, `SPThreadPool.cc` |
| `EventBusProofs` | type, tables, finalization, and that crossed mutexes stay crossed | |
| `MC*` | instances for TLC | |

Operators whose comment begins with "Mutant:" are not part of the specification. Each is a definition as a plausible bug would have
it, and stands in front of the definition it varies; PROJECT.json says which property notices.

### ThreadPool

Three kinds of process: workers (`wpc`), calls of `perform` by clients (`cpc`), and `cancel` (`kpc`). An action is the code
between two points where another thread can interfere: one unlocked read or write, or one critical section. So
`perform()` is twelve actions: the read of `finalized`, of the flags, of `workers`, the spawn in its critical section, the second
read of `workers`, `prepare`, `++tasksCounter`, the push, the notification, or the refusal. Of the worker, `WorkerLock` holds `inputMutexQueue`
from its test of the counter through the read of `finalized` to the wait, because the code does. Inside `spawn` each
`workers.push_back` and `run` is a step, because `workers.empty()` is read outside the mutex. Joins wait for `exited`.

* The queue is a set. A pop takes any task with the least priority value: which of several equals is served first depends on the
  pushing thread's `first` argument, which no property of the pool depends on. `OrderedQueue` has it.
* `execute` may succeed or fail, `prepare` may succeed or fail; the callbacks' own effects are left out.
* `complete` turning null (end of `cancel`) is a state; a call through it sets `fault` and ends the program.
* Each task object is passed in once. `prepare()` refuses a second use with a warning.
* `Racing = FALSE` says that the owner calls `cancel()` only while no `perform()` is running (new calls of it may begin during and after, new `performCompleted()` may not); `TRUE` puts no
  restriction on either. The code gives no rule, and both are checked.
* A worker vector being read while another thread pushes into it is a data race in C++. The model gives the read the outcomes
  "empty" and "not empty", by the step it falls into.

### TaskQueue

`outputQueue`, `outputCallbacks` and `outputCounter` change in one critical section per push. A pool step that calls the complete
interface is joined with that push, and the calling thread then has to pass `OutputWakeup` and `OutputNotify` before it
goes on. The owner thread makes one call at a time out of `Calls`; the destructor runs when nothing refers to the queue any
more (workers and queued tasks hold references). `wait(interval)` is `WaitForLook`, `WaitForTimeout` and the predicate's
re-check. `wait(count)` has no predicate and re-locks `outputMutex` inside `update()`: the model has the owner stuck in `relock`
with the mutex held, as with a non-recursive mutex.

The tasks of `Group` share a `TaskGroup`. `Prepares` and `HandleCompleted` are its two counters, inside of whatever step prepares or completes a task: `perform` on a
caller's thread, `update` and `cancel` on the owner's. A task refused in preparation is counted as completed and never as added; `GroupCounts`, a part of
`CompletedOnce`, says that nothing else makes the counters differ from the tasks under way.

The refinement maps a task to its standing in `TaskLedger`: `completed` once its completion has run, `answered` between the
complete interface and that, `running` in a worker's hands, `accepted` once prepared. `open` is `~finalized`.

### PriorityQueue

Nodes are pairs (block, index); block 0 is `_preallocated`. `push` is allocate (enter, take and fill), push (enter, link); `pop_direct` is pop (enter, unlink),
dispose, free (enter, return). Entering a list asks its lock interface as it is set at that moment; the body of a critical
section is one action, its boundaries are others, so that `Blocking` can see two threads inside. `clear` has its own steps for swapping the
interfaces, locking, each round, unlocking and restoring. Left out: `foreach` (it changes nothing; `ThreadPool` has its use), `pop_prefix` (the same
steps with the callback at the end), `setLocking` with one mutex for both lists, and the reading of a lock interface torn between
function and pointer. An entry is reset when its value is destroyed, to keep states few.

The refinement maps the chain from `_queue.first` to the sequence of `OrderedQueue`: pushes take effect in `PushNode`, pops in `PopNode` or in a
round of `clear`.

### The three models of the event module

The event module is modelled in three cuts, because their hazards do not meet: `EventLoop` has all the concurrency and no program
that touches handles, `EventHandle` has a program that does everything it may with handles and no other thread, `EventBus` has
several loops and takes from each only that it runs what was posted. What `EventLoop` shows (`ImplementsMailbox`) is what
`EventBus` uses (`inbox`, without an order).

**Lapses.** Each of these models reaches states that the code does not mean to reach. The variable `lapses` records, as
history, by which road; a property that such a road breaks excepts it by name, so that it says: this holds, and nothing *else* can break it. The lapses are
listed in section 3, and each is a hazard of PROJECT.json.

### EventLoop

One looper on io_uring. Other threads post (`Post`: the handle's mutex covers queue and eventfd, so one step; tasks and callbacks go to a vector each, and `performAll` passes on all tasks
before all callbacks) and wake it (`Mark` and
`Signal`: flags, then eventfd). The kernel takes submissions in order (`sq`), holds reads (`inflight`), and appends completions (`cq`);
whether it has multishot reads is chosen at the start. This part is external: it is written from how the engine uses it. The loop's thread is a `stack` of run and poll
contexts and of the loops of `runAllTasks()`; a task may call `run()` or `poll()` again, so everything nests.
A looper has two `PerformEngine`s: the thread handle's (`engine`), which takes what other threads have posted, and the queue itself (`local`), which takes what work posts on
the loop's own thread inside of a notification (`IsWithinNotify`; elsewhere `performOnThread` goes the way of other threads) and runs it behind that notification (`ThenTasks`). `NotifyThread` is
`notify` with `performAll` up to its loop, `RunTask` one round of either engine, in which a task may post one piece of work and then call, `TasksReturn` what comes behind it; between them
everything else can happen, which is what the code allows. `NotifyWake` is the whole of a wakeup: the read renewed, the flags exchanged, the innermost context stopped, for a graceful one
with `suspendAll`. Stale completions are told by three bits of the timeline, as in the code.

The refinement maps what waits in one of the three queues to `waiting`, and the pairs of posts by other threads that are of one kind and wait one before the other to `ahead` (`Earlier`).
What the loop's own work posts has no order: it takes another way in.

Left out: runs and waits with a time limit; `cancel()` of the queue (`stopRootContext`); the wakeup timeout; a task that posts several times or
after its nested call; refusals by the kernel and a full ring; epoll, whose eventfds are polled, and the futex variant.

### EventHandle

Timers on io_uring, each set to a finite number of expirations. An action of the program may fall between runs or inside any completion (`frames` are the completions under way). `Cancel`
sets the final status and calls the completion; `CancelEnd` is the rest of `cancel()`, which depends on whether the status is still the same.
`Expire` is the last expiration, `Tick` one before. `Suspend`, `Stopped`, `RunQueue` and `Forced` are a graceful stop, its end, the next start and a stop at once.
`armed` counts live submissions; `released` is history. Left out: infinite timers (the same without `Expire`), handles pending on another handle, `runHandle` on a paused
handle, submissions that fail, teardown.

### EventBus

The threads are the loopers and the workers of their pools. `op` is what a thread waits for: the bus's mutex (`Waiting`), or, with that in its hands inside of `addListener` or `removeListener`, the mutex
of a looper. `dispatchEvent` collects (`Dispatch`) and then posts looper by
looper (`Send`). A delivery is a frame: `HandleEvent` begins a callback, `HandleEnd` ends it, and in between the callback may call the bus or poll its
looper. What is delivered to a looper may overtake what was posted before: `performOnThread` has two ways in, and nothing orders them.

`Data::cleanup` holds the looper's mutex from `Cleanup` to `Gone`, in the order of the code: it polls (callbacks run, `Polled` ends it); `invalidateLooper`, which needs the bus's mutex, and the pool's
`cancel`, which sets its flags and notifies (`Leave`, one step, since nothing is waited for in between); the join (`Joined`, when every worker has ended); the queue's cancel, whose completions are the
program's code again (life `closing`); `Gone`. A worker is what `ThreadPool` says in detail, as far as it can hold the join up: in a task (`Work` to `Worked`), where it may call the bus like any thread;
past its look at `finalized` and before the wait (`empty`); asleep. `life` of a looper past `leaving` is the pool's `finalized`.

Left out: more than one category or bus; destructors of the bus and of delegates; a second `invalidate()` of one delegate (it would find the delegate finalized, or make its state `Invalidated` once more with
nothing left to let go); that a looper's pool is created at the first task, and again for tasks scheduled after its cancel (line 94 then joins that one in the same way); its cancel by `WakeupFlags::SuspendThreads` at the end of a run
(`SPEventLooper.cc:238`), which holds no mutex; a looper destroyed by another thread than its own.

## 3. The runs

| run | bounds | result |
|---|---|---|
| `PoolSafety` | 2 workers, 2 callers, 3 tasks of 2 priorities, `Racing = FALSE` | 122,293 states (symmetry), all hold, no deadlock |
| `PoolLiveness` | 2 workers, 2 callers, 2 tasks, fair | both liveness properties hold |
| `PoolCancelHang` | 2 workers, 1 caller, 2 tasks, fair | **violated**: `cancel` hangs |
| `PoolRunAfterCancel` | 2 workers, 2 callers, 2 tasks, `Racing = TRUE` | **violated**: workers started after `cancel` |
| `QueueSafety` | 2 workers, 1 caller, 2 tasks, 1 callback, every owner call, both tasks in one group | 1,125,102 states (symmetry), all hold, `TaskLedger` implemented |
| `QueueWait` | 1 worker, 1 caller, 2 tasks, fair, no cancel | 82,138 states, both hold |
| `NodesSafety` | 2 threads, 1 preallocated node, blocks of 2, 4 pushes, 2 priorities | 167,904 states, all hold, `OrderedQueue` implemented |
| `NodesClear` | 2 threads, `clear` unrestricted | **violated**: two threads inside a list |
| `LoopDelivery` | 2 posts from outside (a task, a callback), 2 wakeups (graceful; as the run says), 3 of these in all, 1 post by work on the loop, 2 calls of run or poll, stack of 4, 1 buffer, fair | 309,441 states, all hold, `Mailbox` implemented |
| `HandlesSafety` | 2 timers of 1 or 2 expirations, 6 calls, completions nested twice | 44,829 states (symmetry), all hold |
| `HandlesReset` | the same with 2 calls | **violated**: a graceful stop waits for ever |
| `BusSafety` | 2 loopers, one with a worker in its pool, 3 delegates (two on one looper), 3 calls, callbacks nested twice, fair | 100,781 states, all hold |

**Why these bounds.** Two workers and two callers are what a lost wakeup, a double pop and a race of two lazy spawns need; the third task
lets one be queued, one be held and one be refused at once, and differs in priority. With one preallocated node and blocks of two, four pushes fill the object, open two blocks,
and give them back in either order, so every branch of `freeNode` runs, including a free list with nodes of both blocks. A queue
of three entries reaches all insertion cases, the walk in the middle included. For the ordering of any length there is a proof.

In the loop, a stack of four holds a run, the two task lists of a notification and a nested call (whose own lists come on top); two calls are one run inside another, or two in a row, and
each of the four lapses is reached with them (three calls, 624,091 states, were run once without liveness); the third of the posts and wakeups is what meets a loop that the first two
have stopped and started again. One buffer makes the multishot read end after its first completion (`Buffers` is `TARGET_BUFFER_COUNT`, which is larger in the code: more
only delays that). For handles, six calls are a reset inside a completion inside a completion with three calls before or after; each lapse needs at most
three. For the bus, three calls are two listeners added and one removed, or one added with an event and an invalidation. Each lapse and each way to cross the mutexes needs three at most, with one worker:
it adds a listener of its own looper, or waits for the bus while the other looper adds or removes one there. Four calls were run once without the worker and with all properties (112,262 states), and with it and all but liveness (603,243 states), and show nothing new. The bounds `MaxOutside`, `MaxCalls`, `MaxDepth`
and `MaxPushes` are the only ones; they are guards of the actions named after them in each module.

**The event runs.** `LoopDelivery`: `NoLostPostUnlessLapsed` says that posted work has somebody on the way to announce it, `RunCanBeWoken` that a running run
is listening, `WakeupStopsRun` and `PostedIsRun` that it ends and runs what it should, and `ImplementsMailbox` that nothing is run twice or out of order however `runAllTasks` is re-entered.
`PostedIsRun` excepts work that a task has posted before it calls `run()`: it sits in the queue's engine, which the nested run empties only behind some other event, since `Looper::run`
empties the thread handle's engine alone (`SPEventLooper.cc:230`).
`HandlesSafety`: what is armed, counted and released agrees with the status after every history of calls. `BusSafety`: the tables agree whenever the bus's mutex is free (`TablesAgree`), a delegate has
its callback exactly as long as it should (`FinalizedExact`, `InvalidateFinalizes`).
The pool of the one looper is there for its end: `CleanupEnds` says that a looper's end hangs only in the states `Deadlocked`, which are of two kinds. `Missed`: the pool's notification has gone by a worker that sleeps after it, finding 1 met from here. `Crossed`: a thread has the bus's mutex and waits for the
looper's, while the cleanup that holds it waits for that thread, because it is the looper itself (in a callback of the poll, or in a completion that the queue's cancel runs) or a worker that is being joined, or because `invalidateLooper`, the looper's callback or a worker that is being joined waits
for the bus's mutex. Each of these is reached in the run, and without any one of them `CleanupEnds` fails. `CrossedForGood` says the exception is not too wide: such a state is never left, so the looper does not end.

**Deadlock.** TLC's check is on for the pool and the nodes. In the nodes' run it says that the two locks never block each other. In the
pool it says little, since sleeping workers may wake spuriously; there `CancelReturns` and `QueuedIsDelivered` are what finds a hang. It is off in `PoolRunAfterCancel`, where a null call ends the
program; in the queue's runs, where a destroyed queue and an owner in `relock` are ends; and in the event runs, which end when the bounded calls are used up
(what could hang there is what their liveness properties, or `GracefulStopEnds`, are about).

**Fairness.** Weak fairness for each worker, each caller, each pushing thread and the owner inside a call: the operating system
schedules a thread that can go on. None for spurious wakeups, for starting calls, or for `cancel`. The mutexes get no fairness of their own.
`QueueWait` adds strong fairness for `update()` after a `wakeup()`: the host's loop does call it, between its other calls. That is
an assumption on the host, not the code. In `LoopDelivery` the loop's thread goes on, the kernel takes what is submitted and completes what it can, and a thread in the middle of
`wakeup()` writes its eventfd; nobody has to post, wake or call. In `BusSafety` each thread goes on, and callbacks and tasks return; nobody has to call, to push a task or to wake a worker without a notification. The timeout of `wait_for` is part of the owner's fairness: time passes.

### What the violations show

1. **`cancel()` can hang** (`SPThreadPool.cc:170`). A worker holds the mutex, reads `finalized` as false; `cancel()` sets it and notifies without
   the mutex; the worker waits; `waitStopped()` never returns. `CancelReturnsUnlessRaced` shows that this window is the only one.
2. **Workers after `cancel()`** (`SPThreadPool.cc:195`), against the comment at line 159. Needs a lazy pool whose first `perform()` overlaps `cancel()`.
   With `Racing = TRUE` the properties that are proved only for `~Racing` fail as well: a task pushed between `foreach` and `clear` is thrown away without an
   answer (`CancelLeavesNothing`), one that `foreach` has cancelled is popped by a late worker before `clear` and completed again (`AnsweredOnce`), and
   `info.complete` may be called when null (`NoNullComplete`). They are one finding: `cancel` must not overlap `perform`.
3. **`PriorityQueue::clear()` beside other operations** (`SPMemPriorityQueue.h:181`): locks are disabled before they are taken.
   The pool meets it only when `perform()` overlaps `cancel()`. `ThreadPool` takes `clear` as a critical section, so it speaks of a
   pool whose container is sound.
4. **A timer that is reset in its last completion** (`SPEventHandle.cc:127`) is resumed by `cancel()` although it was never counted as suspended. `suspendedHandles` is then one too low, and
   the next graceful stop waits for an equality that does not come. It needs one timer and two calls.

`~PriorityQueue` with values left (`SPMemPriorityQueue.h:118`) goes on over a link it has given back; it is not modelled. The pool clears first and is safe.

### The lapses

| lapse | what happens | where |
|---|---|---|
| `postDropped` | a completion that emptied the eventfd is stale: the post waits until another comes | `SPEvent-uring.cc:543` |
| `wakeupDropped` | the same for a wakeup: a graceful stop ends with the first report, an old read is still under way in the next run and takes its wakeup | `SPEvent-uring.cc:516` |
| `orphaned` | a nested run is stopped gracefully: the outer run goes on with everything suspended | `SPEventQueueData.cc:402` |
| `overwritten` | a task stops its loop gracefully in a nested run; the notification then sets the status to Ok | `SPEventThreadHandle-uring.cc:412` |
| `resumedStopped` | `resume()` while the queue is stopped: counted off, still suspended | `SPEventHandle.cc:84` |
| `cancelledSuspended` | `cancel()` of a handle the system has suspended: stays counted | `SPEventHandleClass.cc:54` |
| `resetExpired` | a timer reset in its last completion (finding 4) | `SPEventHandle.cc:127` |
| `resetStopped` | the same in a stopped queue: it can not be resumed and is not released | `SPEventHandle.cc:134` |
| `touchedInside`, `resetReleased` | the program resumes or cancels a timer it has just reset in its last completion, or resets one released before | `SPEventHandle.cc:231` |
| `nested` | a callback that polls is called again: an invalidation finalizes it while it runs, or is forgotten | `SPEventBus.cc:90` |
| `addedLate` | a listener is added to a looper that has ended meanwhile | `SPEventBus.cc:193` |
| `postedLate` | an event is posted to a looper that has ended meanwhile; the model drops it | `SPEventBus.cc:155` |

## 4. The proofs

Each theorem holds for every value of the constants its module's assumptions allow: finite sets of workers and tasks (`PoolAssumption`), a group of the tasks and any of
the owner's calls (`QueueAssumption`), finite sets of timers, of delegates (`HandlesAssumption`, `CountsAssumption`, `BoundsAssumption`, `LooperOfAssumption`), workers that are no loopers (`PoolOfAssumption`), any posts, flags and a positive number of buffers
(`InnerAssumption`, `FlagsAssumption`, `BuffersAssumption`), integers as priorities, at least one preallocated node and blocks of two or more (`QueueNodesAssumption`). Clients, threads of the priority queue, callbacks, wakers, loopers, their workers and posts may be infinite sets. The bounds on calls are any numbers, so they bound nothing.

**The pool** (`ThreadPoolProofs`, for both values of `Racing`): `TypeCorrect`, `TasksHaveOneHolder` (`OneHolder`), `CounterIsExact` (`CounterExact`), `WakeupsAreNotLost` (`NoLostWakeup`).
None of the last three is inductive. `IInv` adds what they lean on: who holds a task at which place (`Holding`), that queued and held tasks
were submitted before (`HeldIsSubmitted`: a new call brings a new task), who is in the critical section (`MutexOwner`), that a thread
exists exactly while it is in the vector (`WorkersAlive`), that a worker on its way into `wait()` keeps the queue empty
(`SleepyQueueEmpty`, from the exact counter: it read 0 under the mutex), and that a live pool once seen with workers keeps
them (`WorkersStay`). The lemmas follow these parts, with one step per action.

**A pool cancelled between calls** (`ThreadPoolCancelProofs`): `TasksAreAnsweredOnce`, `CancelIsComplete`, `CompleteIsNotNull`, `NothingRunsAfterCancel`. They have the form
`~Racing => (Spec => ...)`: no `perform()` is under way when `cancel()` begins, and none is known to be wrong otherwise but by finding 2. `CancelInv` says what that rule buys: no call is past its first test
once `finalized` is set (`Quiet`); what `cancel()` has emptied stays empty at each of its places (`Closed`); and whoever has a task, the queue, a worker, a caller or nobody, determines how often it was answered
(`AnswersKnown`).

**The queue** (`TaskQueueProofs`, with the same hypothesis): `QueueTypeCorrect`, `CompletionsAreOnce` (`CompletedOnce` with the group's counters), `DestructorLeavesNothing`, `WaitForAllIsABarrier`, and
`QueueImplementsLedger`, the refinement of `TaskLedger`. `QueueInv` extends the pool's invariant to the output side: a task is in `outputQueue` or in the batch `update()` has swapped out exactly while it is handed over and
not completed (`OutputExact`), the same of callbacks, and a queue in its destructor has nothing left that could fill it again (`OwnerInv`). The refinement goes action by action: a pool step that answers a task is `Finish` or
`Bypass`, `update()`'s round is `Complete`, `cancel()`'s sweep is `CancelAll`, and all else leaves every standing as it was.

**The loop** (`EventLoopProofs`): `TypeCorrect`, `RunsCanBeWoken` (`RunCanBeWoken`), `PostsAreAnnounced` (`NoLostPostUnlessLapsed`), `LoopImplementsMailbox`. The properties speak of a kernel read that is somewhere; the invariant
says where. `Served`: a handle that is Ok has a read of its present serial, taken or submitted, with no cancellation of that serial behind it in the ring, or the completion that ends it is still to be handled. `Resumed`: the queue
is running or everything is suspended. `NoRunStranded`: a stopped queue has no run on the stack, but an orphaned one. `Announced`: a post has its eventfd set, or a completion has emptied it and is still to come. The invariants except the same lapses
as the properties, and `overwritten` turns out to be why `suspendedHandles` has no bound there: a handle that is suspended twice is counted twice. Serial numbers wrap at 8, and nothing in the proof needs them to be distinct.
The refinement rests on `WorkInv` alone: a post waits in one place, in the queue of its kind. A round of `runAllTasks()` is `Run` or, if its task posts, `RunAndPost`; that it takes a first one in the order is
what `Earlier` comes to for the head of `engine`.

**The handles** (`EventHandleProofs`): `TypeCorrect`, `ArmedExactly` (`ArmedIffOk`), `HandlesReleasedOnce`, `SuspendedIsExact`, `GracefulStopFinds` (`GracefulStopEndsUnlessLapsed`), and `PausedIsKept`, an action property. Completions nest, so the
invariant is about the stack of frames: a handle has one last completion under way at most (`OneCompletion`), a handle whose completion is under way is still registered (`Owned`), and `suspendedHandles` counts the suspended ones even in the
middle of `cancel()` (`SuspendedCounted`).

**The bus** (`EventBusProofs`): `TypeCorrect`, `TablesStayTogether` (`TablesAgree`), `FinalizedOnlyWhenDone` (`FinalizedExact`), and `CrossedStays` (`CrossedForGood`), an action property. `TablesBetween` says how the tables differ in each state in which a thread waits for a looper's mutex with the bus's in its hands; `OneInBus`
that there is one such thread. For `CrossedStays` that thread is stuck, as the looper's mutex is not free, so nobody who waits for the bus's goes on (`HeldStep`), and the looper does not end either: who waits is in the program's code (`WaitsInProgram`), and a looper past its join has no worker
in a task (`WorkersJoined`; `HeldBack`, `HeldInLeave`).

**The ordered sequence** (`OrderedQueueProofs`): `OrderIsKept`: from any priorities that are integers, any pushes of both kinds and any pops
keep the queue `Sorted` and `FairWithinPriority`. The strengthening says that the stamps in the queue are those of earlier pushes.
`LinkedListOrdered` carries it to the linked list through `QueueIsOrdered`.

**The linked list** (`PriorityQueueProofs`): `TypeCorrect`, `ListsAreGuarded` (`Blocking`), `NodesNotLost` (`NodesConserved`), `ListsOrdered` (`ListsInOrder`), `LifetimesHeld` (`LifetimesExact`), `QueueIsOrdered`, the refinement of
`OrderedQueue`, and from it `LinkedListOrdered`: the list itself is always sorted, and fair within a priority. They have the form `~ClearRaces => (Spec => ...)`: `clear()` runs alone, for beside other operations the locks do not hold (finding 3). The argument has four layers.
*Chains*: `s` is the list from `first` when each cell's link is the next cell and none comes twice (`Chain`); then `List` returns `s` (`ListOfChain`, by the least index at which the recursion could differ), and inserting a node, taking the first, and
leaving out those of a block give chains again (`ChainInsert`, `ChainTail`, `ChainPick`; the last enumerates the positions that stay in increasing order). *The store* (`Store`): both lists with their last pointers, the preallocated nodes
in front, every node of a live block in one list or in the hands of a thread, `used` counting those out of the free list. One lemma for each thing the code does to it: `StoreTake`, `StoreNew`, `StoreGive`, `StoreDrop`, `StorePush`, `StoreUnlink`;
`StoreDrop` is the block's deletion, which no longer finds a node of the block in use because the count is exact (`CountedLast`). *Locks* (`LocksOK`): a mutex is owned by the thread in its section, and the locks are disabled exactly for a `clear()` that is alone.
*Steps* (`IInv`): besides, a thread has a node exactly while it pushes or has popped one (`HandsOK`), priorities do not fall along the list (`ByPriority`, without which the walk of `pushNode` would stop at the wrong place: `WalkEndIs`), and there are no
more live blocks than pushes that got their node (`PushesCounted`, so that the model's bounded set of blocks always has one to allocate).

Every inductive invariant was checked by TLC on its run before it was proved.

**Only model-checked:** all liveness (`QueuedIsDelivered`, `CancelReturnsUnlessRaced`, `WaitForAllReturns`, `WakeupCompletes`, `WakeupStopsRun`, `PostedIsRun`, `InvalidateFinalizes`, `CleanupEnds`), which is beyond the prover.
That nothing runs after a `cancel()` between calls (`NoRunAfterCancel`) is proved and not run, since it follows from the same test in `perform()` that finding 2 is about.
Of the pool with `Racing = TRUE` no passing run is made: TLC's part of it is `PoolRunAfterCancel`, the proved part `ThreadPoolProofs`.

## 5. What is not modelled

Whole components: see the table in section 1 and `status` in PROJECT.json. Inside the modelled ones, besides what section 2 names: references and the memory pools tasks allocate from;
names, tags and logging; callbacks that call back into the queue (`foreach` holds `inputMutexQueue` while `Task::cancel` runs completions, so such a
callback can block itself); `TaskQueue::lock()`/`unlock()`; an interval shorter than one look; the destructor of `PriorityQueue`, of the bus and of delegates (reference counts would have to be
modelled with them). Of the event module: epoll, kqueue, IOCP and the other engines; timed runs and the wakeup timeout; pollable handles and files.

Most of the repository's lines are not concurrent and keep no protocol: fonts and tables as data, vendored cryptography, text formats, layout, SQL text. A model of them
would be their code again.

## 6. Plan

1. `PriorityQueue` with one mutex for both lists (`setLocking`).
2. Further modules: the life cycle of `Thread`, timed runs in `EventLoop`.
