------------------------------ MODULE EventLoop ------------------------------
(***************************************************************************)
(* A Looper on the io_uring engine: other threads post work to it and wake *)
(* it up, the kernel reads two eventfds for it, and the loop's thread runs *)
(* contexts (run and poll), which the work it executes may nest.           *)
(*                                                                         *)
(* Two handles exist, as in every looper: "thread" (ThreadEventFdHandle),  *)
(* which brings posted work, and "wake" (EventFdURingHandle), which brings *)
(* wakeups.  Time-limited runs and cancel() are left out; see README.md.   *)
(***************************************************************************)
EXTENDS Naturals, FiniteSets, SequencesExt

CONSTANTS Posts,      \* pieces of work, each posted once
          Inner,      \* those that work on the loop's thread posts
          IsTask(_),  \* a post is a thread::Task, or else a callback
          Wakers,     \* calls of wakeup() by other threads
          WakeFlags,  \* the flags such a call may pass
          RunFlags,   \* the wakeup flags a run may be given
          Buffers,    \* TARGET_BUFFER_COUNT
          MaxOutside, \* bound: posts and wakeups together
          MaxCalls,   \* bound: calls of run() and poll()
          MaxDepth    \* bound: contexts and task lists on the loop's stack

ASSUME InnerAssumption == Inner \subseteq Posts
ASSUME BuffersAssumption == Buffers \in Nat \ {0}
ASSUME FlagsAssumption ==
  WakeFlags \cup RunFlags \subseteq SUBSET {"Graceful", "ContextDefault"}

Handles == {"thread", "wake"}

VARIABLES
  outputQueue,      \* ThreadHandle's tasks, under its mutex
  outputCallbacks,  \* and its callbacks
  engine,     \* pending blocks of the thread handle's PerformEngine
  local,      \* pending blocks of the queue, a PerformEngine as well
  started,    \* the posts that have been run
  waker,      \* how far each wakeup() has come
  wakeValue,  \* eventValue: flags of the wakeups not yet taken
  fd,         \* the handle's eventfd counter is not zero
  sq,         \* submitted, not yet taken by the kernel
  inflight,   \* reads the kernel is waiting for
  cq,         \* completions, oldest first
  multishot,  \* the kernel has multishot reads (chosen once)
  buffers,    \* provided buffers left for the multishot read
  status,     \* Handle::_status
  timeline,   \* Handle::_timeline, as far as completions carry it
  running,    \* QueueData::_running
  suspendedHandles,
  stack,      \* what the loop's thread is in, innermost last
  calls,      \* counts calls, for the bound
  lapses      \* history: what has already gone wrong (see the properties)

kernelVars == <<sq, inflight, cq, fd>>
handleVars == <<buffers, status, timeline, running, suspendedHandles>>
wakeVars   == <<waker, wakeValue>>
workVars   == <<outputQueue, outputCallbacks, engine, local, started>>
vars == <<workVars, wakeVars, kernelVars, multishot, handleVars, stack, calls, lapses>>

\* A run or poll on the stack, or the loop of runAllTasks() on one of the two
\* engines with what follows it: nothing, "armed" (the handle's status is set to
\* Ok) or "run".
Context(mode, flags) ==
  [is |-> mode, state |-> "Running", flags |-> flags, woken |-> FALSE]
TaskList(of, then, flags) ==
  [is |-> of, state |-> then, flags |-> flags, woken |-> FALSE]
QueueList == TaskList("queue tasks", "return", {})

Contexts == {"run", "poll"}
Top == Last(stack)
InContext == stack # <<>> /\ Top.is \in Contexts
InTasks(of) == stack # <<>> /\ Top.is = of

\* _performEnabled: QueueData::notify() is on the stack.
IsWithinNotify == \E i \in DOMAIN stack : stack[i].is = "queue tasks"

Init ==
  /\ outputQueue = <<>> /\ outputCallbacks = <<>>
  /\ engine = <<>> /\ local = <<>> /\ started = {}
  /\ waker = [w \in Wakers |-> "idle"] /\ wakeValue = {}
  /\ fd = [h \in Handles |-> FALSE]
  /\ sq = <<>> /\ cq = <<>>
  /\ inflight = {[h |-> h, serial |-> 0] : h \in Handles}
  /\ multishot \in BOOLEAN /\ buffers = Buffers
  /\ status = [h \in Handles |-> "Ok"] /\ timeline = [h \in Handles |-> 0]
  /\ running = TRUE /\ suspendedHandles = 0
  /\ stack = <<>> /\ calls = 0 /\ lapses = {}

-----------------------------------------------------------------------------
(* Other threads.                                                          *)

\* performAll() passes the tasks on before the callbacks.
Delivered == outputQueue \o outputCallbacks

Arrived == Range(outputQueue) \cup Range(outputCallbacks)
Waiting == Range(local) \cup Range(engine) \cup Arrived
Posted == started \cup Waiting

MoreOutside ==
  Cardinality(Posted \ Inner) + Cardinality({w \in Wakers : waker[w] # "idle"}) < MaxOutside

\* Queue and eventfd_write together, under the handle's mutex.
Perform(p) ==
  /\ IF IsTask(p)
     THEN outputQueue' = Append(outputQueue, p) /\ UNCHANGED outputCallbacks
     ELSE outputCallbacks' = Append(outputCallbacks, p) /\ UNCHANGED outputQueue
  /\ fd' = [fd EXCEPT !["thread"] = TRUE]

\* performOnThread() from another thread.
Post(p) ==
  /\ p \notin Posted \cup Inner /\ MoreOutside
  /\ Perform(p)
  /\ UNCHANGED <<engine, local, started, wakeVars, sq, inflight, cq, multishot,
                 handleVars, stack, calls, lapses>>

\* wakeup(): the flags are or-ed into eventValue ...
Mark(w) ==
  /\ waker[w] = "idle" /\ MoreOutside
  /\ \E f \in WakeFlags : wakeValue' = wakeValue \cup f
  /\ waker' = [waker EXCEPT ![w] = "marked"]
  /\ UNCHANGED <<workVars, kernelVars, multishot, handleVars, stack, calls, lapses>>

\* ... and then the eventfd is written.
Signal(w) ==
  /\ waker[w] = "marked"
  /\ waker' = [waker EXCEPT ![w] = "done"]
  /\ fd' = [fd EXCEPT !["wake"] = TRUE]
  /\ stack' = LET runs == {i \in DOMAIN stack : stack[i].is \in Contexts}
                  top == CHOOSE i \in runs : \A j \in runs : j <= i
              IN  IF runs # {} /\ stack[top].is = "run" /\ stack[top].state = "Running"
                  THEN [stack EXCEPT ![top].woken = TRUE] ELSE stack
  /\ UNCHANGED <<workVars, wakeValue, sq, inflight, cq, multishot, handleVars, calls,
                 lapses>>

-----------------------------------------------------------------------------
(* The kernel.                                                             *)

\* A cancellation ends the read and is itself reported.  The -ECANCELED of the
\* read carries a stale serial, which nothing acts on, and is left out.
KernelTakes ==
  /\ sq # <<>>
  /\ LET r == [h |-> Head(sq).h, serial |-> Head(sq).serial] IN
     \/ /\ Head(sq).op = "read"
        /\ inflight' = inflight \cup {r} /\ UNCHANGED cq
     \/ /\ Head(sq).op = "cancel"
        /\ inflight' = inflight \ {r}
        /\ cq' = Append(cq, [is |-> "suspended"])
  /\ sq' = Tail(sq)
  /\ UNCHANGED <<workVars, wakeVars, fd, multishot, handleVars, stack, calls, lapses>>

Complete(r, res, more) ==
  /\ cq' = Append(cq, [is |-> res, h |-> r.h, serial |-> r.serial, more |-> more])
  /\ inflight' = IF more THEN inflight ELSE inflight \ {r}

Multishot(h) == multishot /\ h = "thread"

\* A read takes the whole counter; only a multishot read stays.
KernelReads(r) ==
  /\ fd[r.h]
  /\ Multishot(r.h) => buffers > 0
  /\ Complete(r, "data", Multishot(r.h))
  /\ fd' = [fd EXCEPT ![r.h] = FALSE]
  /\ buffers' = IF Multishot(r.h) THEN buffers - 1 ELSE buffers
  /\ UNCHANGED <<workVars, wakeVars, sq, multishot, status, timeline, running,
                 suspendedHandles, stack, calls, lapses>>

\* A multishot read with no buffer left ends and leaves the counter alone.
KernelNoBuffers(r) ==
  /\ fd[r.h] /\ Multishot(r.h) /\ buffers = 0
  /\ Complete(r, "nobufs", FALSE)
  /\ UNCHANGED <<workVars, wakeVars, fd, sq, multishot, handleVars, stack, calls, lapses>>

-----------------------------------------------------------------------------
(* The loop's thread.                                                      *)

Read(h) == [op |-> "read", h |-> h, serial |-> timeline[h]]
Cancel(h) == [op |-> "cancel", h |-> h, serial |-> timeline[h]]
InOrder(H) ==
  (IF "thread" \in H THEN <<"thread">> ELSE <<>>) \o (IF "wake" \in H THEN <<"wake">> ELSE <<>>)
\* Mutant: the wake handle is not read again.
ReadsOfThread(H) == IF "thread" \in H THEN <<Read("thread")>> ELSE <<>>
Reads(H) == [i \in DOMAIN InOrder(H) |-> Read(InOrder(H)[i])]
Cancels(H) == [i \in DOMAIN InOrder(H) |-> Cancel(InOrder(H)[i])]

\* Mutant: handles that run are resumed and counted off too.
ResumeAllAgain ==
  /\ running' = TRUE
  /\ status' = [h \in Handles |-> "Ok"]
  /\ suspendedHandles' = suspendedHandles - Cardinality(Handles)
  /\ sq' = sq \o Reads(Handles)
  /\ buffers' = Buffers
  /\ UNCHANGED timeline

\* resumeAll(): a read for every suspended handle, whose buffers are new.
ResumeAll ==
  LET H == IF running THEN {} ELSE {h \in Handles : status[h] = "Suspended"} IN
  /\ running' = TRUE
  /\ status' = [h \in Handles |-> IF h \in H THEN "Ok" ELSE status[h]]
  /\ suspendedHandles' = suspendedHandles - Cardinality(H)
  /\ sq' = sq \o Reads(H)
  /\ buffers' = IF "thread" \in H THEN Buffers ELSE buffers
  /\ UNCHANGED timeline

Enter(context, outer) == ResumeAll /\ stack' = Append(outer, context)

\* Looper::run() first runs what an interrupted runAllTasks() has left.
CallRun ==
  \E f \in RunFlags :
    IF engine' = <<>> THEN Enter(Context("run", f), stack)
    ELSE /\ stack' = Append(stack, TaskList("thread tasks", "run", f))
         /\ UNCHANGED <<sq, handleVars>>

CallPoll == Enter(Context("poll", {}), stack)

\* A call by the thread itself, outside of any other.
Call ==
  /\ stack = <<>> /\ calls < MaxCalls
  /\ calls' = calls + 1
  /\ UNCHANGED <<workVars, wakeVars, fd, inflight, cq, multishot, lapses>>
  /\ CallRun \/ CallPoll

\* doPoll() has the next completion.
Handling(c) == InContext /\ cq # <<>> /\ c = Head(cq) /\ cq' = Tail(cq)

\* What follows a notification: runAllTasks() on the queue's own engine.
ThenTasks(s) == IF local = <<>> THEN s ELSE Append(s, QueueList)

Live(c) == c.serial = timeline[c.h] /\ status[c.h] = "Ok"

\* A stale completion has taken the counter: what it stood for is lost when
\* nothing else announces it.
Loss(c) ==
  IF c.is # "data" \/ fd[c.h] THEN {}
  ELSE IF c.h = "thread" THEN (IF Delivered = <<>> THEN {} ELSE {"postDropped"})
  ELSE IF Top.is = "run" /\ Top.state = "Running" THEN {"wakeupDropped"} ELSE {}

\* A completion of an earlier submission is dropped.
DropStale ==
  \E c \in Range(cq) :
    /\ Handling(c) /\ c.is # "suspended" /\ ~Live(c)
    /\ lapses' = lapses \cup Loss(c)
    /\ UNCHANGED <<workVars, wakeVars, sq, inflight, fd, multishot, handleVars, stack, calls>>

\* Mutant: the callbacks are not passed on.
ReceiveTasks ==
  /\ engine' = engine \o outputQueue
  /\ outputQueue' = <<>> /\ outputCallbacks' = <<>>

\* performAll(), as far as the loop over what it has passed on.
Receive ==
  /\ engine' = engine \o Delivered
  /\ outputQueue' = <<>> /\ outputCallbacks' = <<>>

\* Posted work arrives; a single read is renewed.
NotifyThread ==
  \E c \in Range(cq) :
    /\ Handling(c) /\ c.is = "data" /\ c.h = "thread" /\ Live(c)
    /\ Receive
    /\ lapses' = lapses \ {"postDropped"}
    /\ sq' = IF c.more THEN sq ELSE Append(sq, Read("thread"))
    /\ stack' = stack \o
         <<QueueList, TaskList("thread tasks", IF c.more THEN "armed" ELSE "return", {})>>
    /\ UNCHANGED <<local, started, wakeVars, inflight, fd, multishot, handleVars, calls>>

\* Mutant: the read that has ended is not renewed.
NotifyNoBuffersEnds ==
  \E c \in Range(cq) :
    /\ Handling(c) /\ c.is = "nobufs" /\ Live(c)
    /\ UNCHANGED <<workVars, wakeVars, sq, inflight, fd, multishot, handleVars, stack,
                   calls, lapses>>

\* Mutant: it is renewed without its buffers.
NotifyNoBuffersKept ==
  \E c \in Range(cq) :
    /\ Handling(c) /\ c.is = "nobufs" /\ Live(c)
    /\ sq' = Append(sq, Read("thread"))
    /\ UNCHANGED <<workVars, wakeVars, inflight, fd, multishot, handleVars, stack, calls,
                   lapses>>

\* The multishot read has run out of buffers: they are provided again.
NotifyNoBuffers ==
  \E c \in Range(cq) :
    /\ Handling(c) /\ c.is = "nobufs" /\ Live(c)
    /\ sq' = Append(sq, Read("thread"))
    /\ buffers' = Buffers
    /\ stack' = ThenTasks(stack)
    /\ UNCHANGED <<workVars, wakeVars, inflight, fd, multishot, status, timeline,
                   running, suspendedHandles, calls, lapses>>

Flags == IF "ContextDefault" \in wakeValue THEN Top.flags ELSE wakeValue

\* Mutant: a context is stopped only by a report that may not come.
StopLater(state) == [stack EXCEPT ![Len(stack)].state = "Stopping"]

\* A nested context takes the wakeup of the ones around it.
Stop(state) ==
  [i \in DOMAIN stack |-> IF i = Len(stack) THEN [stack[i] EXCEPT !.state = state]
                         ELSE [stack[i] EXCEPT !.woken = FALSE]]

\* A wakeup takes all flags and stops the innermost context: at once, or when
\* every handle has been suspended.  It leaves one that is not running alone.
NotifyWake ==
  \E c \in Range(cq) :
    /\ Handling(c) /\ c.is = "data" /\ c.h = "wake" /\ Live(c)
    /\ wakeValue' = {}
    /\ IF Top.state = "Running" /\ "Graceful" \in Flags
       THEN LET H == {h \in Handles : status[h] = "Ok"} IN
            /\ sq' = Append(sq, Read("wake")) \o Cancels(H)
            /\ running' = FALSE
            /\ status' = [h \in Handles |-> "Suspended"]
            /\ timeline' = [h \in Handles |-> IF h \in H THEN (timeline[h] + 1) % 8
                                               ELSE timeline[h]]
            /\ suspendedHandles' = suspendedHandles + Cardinality(H)
            /\ stack' = ThenTasks(Stop("Stopping"))
            /\ lapses' = IF \E i \in 1..Len(stack) - 1 :
                              stack[i].is = "run" /\ stack[i].state = "Running"
                         THEN lapses \cup {"orphaned"} ELSE lapses
       ELSE /\ sq' = Append(sq, Read("wake"))
            /\ stack' = ThenTasks(IF Top.state = "Running" THEN Stop("Stopped") ELSE stack)
            /\ UNCHANGED <<running, status, timeline, suspendedHandles, lapses>>
    /\ UNCHANGED <<workVars, waker, inflight, fd, multishot, buffers, calls>>

\* A cancellation is reported: the last one ends a graceful stop.
NotifySuspended ==
  \E c \in Range(cq) :
    /\ Handling(c) /\ c.is = "suspended"
    /\ stack' = IF suspendedHandles = Cardinality(Handles) /\ Top.state = "Stopping"
                THEN [stack EXCEPT ![Len(stack)].state = "Stopped"] ELSE stack
    /\ UNCHANGED <<workVars, wakeVars, sq, inflight, fd, multishot, handleVars, calls, lapses>>

\* doPoll() finds nothing more, and the context ends.
Return ==
  /\ InContext /\ cq = <<>>
  /\ Top.is = "poll" \/ Top.state = "Stopped"
  /\ stack' = Front(stack)
  /\ UNCHANGED <<workVars, wakeVars, kernelVars, multishot, handleVars, calls, lapses>>

\* performOnThread() on the loop's own thread: to the queue's engine from inside
\* of a notification, or else as from outside.
PerformNext(P) ==
  IF IsWithinNotify \/ P = <<>>
  THEN UNCHANGED <<outputQueue, outputCallbacks, fd>> ELSE Perform(Head(P))

\* runAllTasks() runs the next block, which may post work and then call run() or
\* poll().
RunTask ==
  \E P \in {<<>>} \cup {<<p>> : p \in Inner \ Posted} :
    LET more == IF IsWithinNotify THEN P ELSE <<>> IN
    /\ \/ /\ InTasks("thread tasks") /\ engine # <<>>
          /\ engine' = Tail(engine) /\ started' = started \cup {Head(engine)}
          /\ local' = local \o more
       \/ /\ InTasks("queue tasks") /\ local # <<>>
          /\ local' = Tail(local) \o more /\ started' = started \cup {Head(local)}
          /\ UNCHANGED engine
    /\ PerformNext(P)
    /\ UNCHANGED <<wakeVars, inflight, cq, multishot, lapses>>
    /\ \/ UNCHANGED <<sq, handleVars, stack, calls>>
       \/ /\ calls < MaxCalls /\ Len(stack) < MaxDepth
          /\ calls' = calls + 1
          /\ CallRun \/ CallPoll

\* runAllTasks() is through.  After a multishot completion notify() now sets
\* the status to Ok, whatever the tasks have done to the handle.
TasksReturn ==
  /\ \/ InTasks("thread tasks") /\ engine = <<>> /\ Top.state # "run"
     \/ InTasks("queue tasks") /\ local = <<>>
  /\ stack' = Front(stack)
  /\ IF Top.state = "armed"
     THEN /\ status' = [status EXCEPT !["thread"] = "Ok"]
          /\ lapses' = IF status["thread"] = "Ok" THEN lapses
                       ELSE lapses \cup {"overwritten"}
     ELSE UNCHANGED <<status, lapses>>
  /\ UNCHANGED <<workVars, wakeVars, kernelVars, multishot, buffers, timeline, running,
                 suspendedHandles, calls>>

TasksRun ==
  /\ InTasks("thread tasks") /\ engine = <<>> /\ Top.state = "run"
  /\ Enter(Context("run", Top.flags), Front(stack))
  /\ UNCHANGED <<workVars, wakeVars, fd, inflight, cq, multishot, calls, lapses>>

LoopStep ==
  \/ DropStale \/ NotifyThread \/ NotifyNoBuffers \/ NotifyWake \/ NotifySuspended
  \/ Return \/ RunTask \/ TasksReturn \/ TasksRun

KernelStep == KernelTakes \/ \E r \in inflight : KernelReads(r) \/ KernelNoBuffers(r)

Next ==
  \/ \E p \in Posts : Post(p)
  \/ \E w \in Wakers : Mark(w) \/ Signal(w)
  \/ KernelStep \/ Call \/ LoopStep

Spec == Init /\ [][Next]_vars

\* The loop's thread and the kernel go on, and a wakeup() that was begun ends.
\* Nobody is bound to post, to wake or to call.
FairSpec ==
  /\ Spec
  /\ WF_vars(LoopStep) /\ WF_vars(KernelTakes)
  /\ \A h \in Handles :
       WF_vars(\E r \in inflight : r.h = h /\ (KernelReads(r) \/ KernelNoBuffers(r)))
  /\ \A w \in Wakers : WF_vars(Signal(w))

-----------------------------------------------------------------------------
(* Properties.                                                             *)

Submissions == [op : {"read", "cancel"}, h : Handles, serial : 0..7]
Completions ==
  [is : {"suspended"}]
  \cup [is : {"data"}, h : {"thread"}, serial : 0..7, more : BOOLEAN]
  \cup [is : {"nobufs"}, h : {"thread"}, serial : 0..7, more : {FALSE}]
  \cup [is : {"data"}, h : {"wake"}, serial : 0..7, more : {FALSE}]
Frames ==
  [is : Contexts \cup {"thread tasks", "queue tasks"},
   state : {"Running", "Stopping", "Stopped", "return", "armed", "run"},
   flags : SUBSET {"Graceful", "ContextDefault"}, woken : BOOLEAN]

ControlOK ==
  /\ waker \in [Wakers -> {"idle", "marked", "done"}]
  /\ wakeValue \subseteq {"Graceful", "ContextDefault"}
  /\ fd \in [Handles -> BOOLEAN]
  /\ inflight \subseteq [h : Handles, serial : 0..7]
  /\ sq \in Seq(Submissions) /\ cq \in Seq(Completions)
  /\ multishot \in BOOLEAN /\ buffers \in 0..Buffers
  /\ status \in [Handles -> {"Ok", "Suspended"}]
  /\ timeline \in [Handles -> 0..7]
  /\ running \in BOOLEAN
  /\ suspendedHandles \in IF "overwritten" \in lapses THEN Nat ELSE 0..2
  /\ stack \in Seq(Frames)
  /\ lapses \subseteq {"postDropped", "wakeupDropped", "orphaned", "overwritten"}

WorkOK ==
  /\ outputQueue \in Seq(Posts) /\ outputCallbacks \in Seq(Posts)
  /\ engine \in Seq(Posts) /\ local \in Seq(Posts) /\ started \subseteq Posts

\* Every variable keeps its type; in particular suspendedHandles, a size_t,
\* stays between none and all of the handles, unless a suspended handle has been
\* marked as running and is then suspended a second time.
TypeOK == WorkOK /\ ControlOK

Listening(h) ==
  LET r == [h |-> h, serial |-> timeline[h]] IN
  \/ r \in inflight
  \/ \E i \in DOMAIN sq : sq[i] = Read(h)
       /\ ~\E j \in DOMAIN sq : sq[j] = Cancel(h) /\ j > i
Arriving(h) == \E c \in Range(cq) : c.is # "suspended" /\ c.h = h

\* Posted work is never forgotten: a completion is on its way to the loop, or
\* the eventfd is set and is read now or when the loop runs again.
NoLostPost ==
  Delivered # <<>> =>
    \/ Arriving("thread")
    \/ fd["thread"] /\ (status["thread"] = "Suspended" \/ Listening("thread"))

\* The same, unless a completion that carried it has been dropped as stale, or
\* the status of a suspended handle has been overwritten.
NoLostPostUnlessLapsed ==
  NoLostPost \/ lapses \cap {"postDropped", "overwritten"} # {}

\* A run that goes on can be woken up: its wake handle is being read, or a
\* wakeup is on its way to it.
RunCanBeWoken ==
  InContext /\ Top.is = "run" /\ Top.state = "Running" /\ "orphaned" \notin lapses =>
    /\ running
    /\ status["wake"] = "Ok"
    /\ Listening("wake") \/ \E c \in Range(cq) : c.is = "data" /\ c.h = "wake" /\ Live(c)

\* What makes the two above inductive.  A handle that is Ok has a read: taken
\* or submitted, with no cancellation behind it, or its end is under way.
Uncancelled(h, i) == \A j \in DOMAIN sq : j > i => sq[j] # Cancel(h)
Reading(h) ==
  \/ [h |-> h, serial |-> timeline[h]] \in inflight /\ Uncancelled(h, 0)
  \/ \E i \in DOMAIN sq : sq[i] = Read(h) /\ Uncancelled(h, i)
Ending(h) ==
  \E i \in DOMAIN cq : /\ cq[i].is # "suspended" /\ cq[i].h = h
                       /\ cq[i].serial = timeline[h] /\ ~cq[i].more
Served ==
  \A h \in Handles : status[h] = "Ok" /\ (h = "wake" \/ "overwritten" \notin lapses) =>
    Reading(h) \/ Ending(h)

\* Everything is resumed while the queue runs, and suspended while it does not.
Resumed ==
  /\ running => \A h \in Handles : status[h] = "Ok"
  /\ ~running => /\ status["wake"] = "Suspended"
                 /\ status["thread"] = "Suspended" \/ "overwritten" \in lapses

\* The counter is exact; a handle suspended twice is counted twice.
Suspended == {h \in Handles : status[h] = "Suspended"}
CountOK ==
  /\ suspendedHandles \in Nat /\ Cardinality(Suspended) <= suspendedHandles
  /\ "overwritten" \in lapses \/ suspendedHandles = Cardinality(Suspended)

\* A stopped queue has no run that goes on, but one that was orphaned.
RunsIn(s) == \E i \in DOMAIN s : s[i].is = "run" /\ s[i].state = "Running"
NoRunStranded == running \/ "orphaned" \in lapses \/ ~RunsIn(stack)

\* Somebody announces what was posted: the eventfd, or what has emptied it.
Carried == \E i \in DOMAIN cq : cq[i].is = "data" /\ cq[i].h = "thread"
Announced == Delivered # <<>> => "postDropped" \in lapses \/ fd["thread"] \/ Carried

IInv ==
  ControlOK /\ Served /\ Resumed /\ CountOK /\ NoRunStranded /\ Announced

\* The innermost run, when it has been woken up.
Woken ==
  \E i \in DOMAIN stack :
    stack[i].woken /\ \A j \in i + 1..Len(stack) : stack[j].is # "run"

\* A run woken up while it was the innermost context ends, unless one of its
\* tasks calls run() meanwhile: the nested run may take the wakeup.
WakeupStopsRun == Woken ~> ~Woken \/ lapses \ {"postDropped"} # {}

\* Work posted to a loop that does not end its call is run, unless it is
\* forgotten in one of the ways above, or the task that has posted it waits in a
\* nested run(), where nothing but another event lets it go first.
PostedIsRun ==
  \A p \in Posts :
    (p \in Arrived \cup Range(local))
      ~> \/ p \in started \/ stack = <<>> \/ lapses # {}
         \/ p \in Range(local) /\ InContext /\ Top.is = "run"

\* The order that is kept: of two posts of one kind by other threads.
Ordered(q, p) == q \notin Inner /\ p \notin Inner /\ (IsTask(q) <=> IsTask(p))
Before(s, q, p) == \E i, j \in DOMAIN s : i < j /\ s[i] = q /\ s[j] = p
Ahead(q, p) ==
  \/ Before(engine, q, p) \/ Before(outputQueue, q, p) \/ Before(outputCallbacks, q, p)
  \/ q \in Range(engine) /\ p \in Arrived
Earlier == {x \in Posts \X Posts : Ordered(x[1], x[2]) /\ Ahead(x[1], x[2])}

\* Everything posted runs once, through three queues and every nesting of
\* runAllTasks(); what other threads post runs in order within its kind.
MailboxOf == INSTANCE Mailbox WITH
  waiting <- Waiting, ahead <- Earlier, done <- started
ImplementsMailbox == MailboxOf!Spec

\* What makes it so: a post waits in one place only, in the queue of its kind,
\* and only the loop's own work waits in the queue's engine.
WorkInv ==
  /\ WorkOK
  /\ IsInjective(local) /\ IsInjective(engine)
  /\ IsInjective(outputQueue) /\ IsInjective(outputCallbacks)
  /\ Range(local) \cap (Range(engine) \cup Arrived) = {}
  /\ Range(engine) \cap Arrived = {}
  /\ Range(local) \subseteq Inner
  /\ \A p \in Range(outputQueue) : IsTask(p)
  /\ \A p \in Range(outputCallbacks) : ~IsTask(p)
=============================================================================
