------------------------------ MODULE EventBus ------------------------------
(***************************************************************************)
(* A Bus, the delegates that listen to it, and the loopers they listen on. *)
(* Every looper is a thread that handles what is posted to it, calls back  *)
(* the program, and may end while others use the bus.                      *)
(*                                                                         *)
(* A looper's mutex is held for one step by attachBus() and detachBus(),   *)
(* and by Data::cleanup() from its beginning to its end, so also while it  *)
(* joins the workers of the looper's thread pool, whose tasks may call the *)
(* bus; the bus's mutex is held while an addListener() or removeListener() *)
(* waits for a looper.  One category is modelled, the program keeps the    *)
(* bus itself alive, and calls invalidate() once for a delegate.           *)
(***************************************************************************)
EXTENDS Naturals, Sequences, FiniteSets, SequencesExt

CONSTANTS Loopers,      \* the loopers, each the thread it runs on
          Workers,      \* the threads of the loopers' thread pools
          PoolOf,       \* the looper a worker belongs to
          Delegates,    \* the bus delegates
          LooperOf,     \* the looper a delegate listens on
          MaxCalls,     \* bound: calls by the program
          MaxDepth      \* bound: callbacks nested by polling inside of them

ASSUME LooperOfAssumption == LooperOf \in [Delegates -> Loopers]
ASSUME PoolOfAssumption == PoolOf \in [Workers -> Loopers] /\ Loopers \cap Workers = {}
ASSUME BoundsAssumption ==
  IsFiniteSet(Delegates) /\ MaxCalls \in Nat /\ MaxDepth \in Nat \ {0}

VARIABLES
  life,        \* of a looper: alive, then in cleanup(): cleaning (it polls),
               \* leaving its buses, joining its workers, closing; gone
  inbox,       \* what has been posted to a looper
  frames,      \* the deliveries a looper is handling, innermost last
  worker,      \* of a worker: idle, task (runs one), empty (it has found the
               \* queue empty and the pool not finalized), asleep, ended
  op,          \* what a thread waits for: the bus's mutex, or with that in its
               \* hands the mutex of a looper
  sending,     \* what dispatchEvent() has collected and not posted yet
  listeners, byCategory, loopers, inLooper,   \* the bus's tables
  attached,    \* the delegates with _bus set
  buses,       \* the loopers with the bus in their set
  state,       \* BusDelegate::_state
  callable,    \* the delegates with an owner and a callback
  asked,       \* history: the delegates invalidate() was called for
  invalid,     \* history: those it has taken effect for
  calls,       \* counts calls, for the bound
  lapses       \* history: hazards that have happened (see the properties)

tableVars == <<listeners, byCategory, loopers, inLooper, attached, buses>>
stateVars == <<state, callable, asked, invalid>>
loopVars  == <<life, inbox, frames, worker>>
vars == <<loopVars, op, sending, tableVars, stateVars, calls, lapses>>

Threads == Loopers \cup Workers

None == <<"none">>
Waiting == <<"bus">>   \* for the bus's mutex

Init ==
  /\ life = [l \in Loopers |-> "alive"] /\ inbox = [l \in Loopers |-> {}]
  /\ frames = [l \in Loopers |-> <<>>] /\ worker = [w \in Workers |-> "idle"]
  /\ op = [t \in Threads |-> None] /\ sending = [t \in Threads |-> {}]
  /\ listeners = {} /\ byCategory = {} /\ loopers = {} /\ inLooper = {}
  /\ attached = {} /\ buses = {}
  /\ state = [d \in Delegates |-> "Pending"] /\ callable = Delegates
  /\ asked = {} /\ invalid = {} /\ calls = 0 /\ lapses = {}

BusFree == \A t \in Threads : op[t] \in {None, Waiting}
LooperFree(l) == life[l] \in {"alive", "gone"}
ToLeave(l) == life[l] \in {"alive", "cleaning", "leaving"}
Of(l) == {d \in Delegates : LooperOf[d] = l}
Own(l) == {l} \cup {w \in Workers : PoolOf[w] = l}

\* A thread runs the program's code: a looper outside of deliveries (in its loop,
\* the poll of its cleanup, or the completions that cleanup cancels) or in a
\* callback, a worker in a task.
Calling(l) == frames[l] # <<>> /\ Last(frames[l]).calling
Handles(l) ==
  \/ frames[l] = <<>> /\ life[l] \in {"alive", "cleaning", "closing"}
  \/ Calling(l)
Program(t) ==
  /\ op[t] = None /\ sending[t] = {}
  /\ \/ t \in Loopers /\ Handles(t)
     \/ t \in Workers /\ worker[t] = "task"

Counted == calls < MaxCalls /\ calls' = calls + 1

\* A call takes the bus's mutex, or has to wait for it first ...
Locks(t) == BusFree /\ (Program(t) \/ op[t] = Waiting) /\ Counted

WaitForBus(t) ==
  /\ Program(t) /\ ~BusFree
  /\ op' = [op EXCEPT ![t] = Waiting]
  /\ UNCHANGED <<loopVars, sending, tableVars, stateVars, calls, lapses>>

\* ... and may find nothing to do: the delegate is attached already, or is not.
NothingToDo(t) ==
  /\ op[t] = Waiting /\ BusFree
  /\ op' = [op EXCEPT ![t] = None]
  /\ UNCHANGED <<loopVars, sending, tableVars, stateVars, calls, lapses>>

-----------------------------------------------------------------------------
(* addListener() and removeListener().                                     *)

\* The tables of the bus, under its mutex.  The first delegate of a looper makes
\* the bus known to it, which takes the looper's mutex.
Added(d) ==
  /\ inLooper' = inLooper \cup {d}
  /\ listeners' = listeners \cup {d}
  /\ attached' = attached \cup {d}

AddListener(t, d) ==
  /\ Locks(t) /\ d \notin attached
  /\ life[LooperOf[d]] # "gone" \/ op[t] = Waiting
  /\ byCategory' = byCategory \cup {d}
  /\ loopers' = loopers \cup {LooperOf[d]}
  /\ IF LooperOf[d] \in loopers
     THEN Added(d) /\ op' = [op EXCEPT ![t] = None]
     ELSE /\ op' = [op EXCEPT ![t] = <<"attach", d>>]
          /\ UNCHANGED <<inLooper, listeners, attached>>
  /\ UNCHANGED <<loopVars, sending, buses, stateVars, lapses>>

\* Mutant: attachBus() does not take the looper's mutex.
AttachAnyway(t) ==
  \E d \in Delegates :
    /\ op[t] = <<"attach", d>>
    /\ op' = [op EXCEPT ![t] = None]
    /\ buses' = buses \cup {LooperOf[d]}
    /\ Added(d)
    /\ UNCHANGED <<loopVars, sending, byCategory, loopers, stateVars, calls, lapses>>

Attach(t) ==
  \E d \in Delegates :
    /\ op[t] = <<"attach", d>> /\ LooperFree(LooperOf[d])
    /\ op' = [op EXCEPT ![t] = None]
    /\ buses' = buses \cup {LooperOf[d]}
    /\ Added(d)
    /\ lapses' = IF life[LooperOf[d]] = "gone" THEN lapses \cup {"addedLate"} ELSE lapses
    /\ UNCHANGED <<loopVars, sending, byCategory, loopers, stateVars, calls>>

\* The last delegate of a looper takes the bus from it.
RemoveListener(t, d) ==
  /\ Locks(t) /\ d \in attached
  /\ attached' = attached \ {d}
  /\ byCategory' = byCategory \ {d}
  /\ inLooper' = inLooper \ {d}
  /\ IF inLooper \cap Of(LooperOf[d]) = {d}
     THEN op' = [op EXCEPT ![t] = <<"detach", d>>] /\ UNCHANGED listeners
     ELSE listeners' = listeners \ {d} /\ op' = [op EXCEPT ![t] = None]
  /\ UNCHANGED <<loopVars, sending, loopers, buses, stateVars, lapses>>

\* Mutant: the looper is not erased from the bus's table.
DetachKeeps(t) ==
  \E d \in Delegates :
    /\ op[t] = <<"detach", d>> /\ LooperFree(LooperOf[d])
    /\ op' = [op EXCEPT ![t] = None]
    /\ buses' = buses \ {LooperOf[d]} /\ listeners' = listeners \ {d}
    /\ UNCHANGED <<loopVars, sending, loopers, byCategory, inLooper, attached, stateVars, calls,
                   lapses>>

Detach(t) ==
  \E d \in Delegates :
    /\ op[t] = <<"detach", d>> /\ LooperFree(LooperOf[d])
    /\ op' = [op EXCEPT ![t] = None]
    /\ buses' = buses \ {LooperOf[d]}
    /\ loopers' = loopers \ {LooperOf[d]}
    /\ listeners' = listeners \ {d}
    /\ UNCHANGED <<loopVars, sending, byCategory, inLooper, attached, stateVars, calls, lapses>>

-----------------------------------------------------------------------------
(* dispatchEvent(), delivery and invalidate().                             *)

\* A post to a looper that is gone is a use after free; the model drops it.
Posted(l, what) ==
  /\ inbox' = IF life[l] = "gone" THEN inbox ELSE [inbox EXCEPT ![l] = @ \cup {what}]
  /\ lapses' = IF life[l] = "gone" THEN lapses \cup {"postedLate"} ELSE lapses

\* The listeners are collected under the mutex, per looper ...
Dispatch(t) ==
  /\ Locks(t) /\ op' = [op EXCEPT ![t] = None]
  /\ sending' = [sending EXCEPT ![t] =
       {<<l, [do |-> "event", to |-> byCategory \cap Of(l), nr |-> calls]>> :
           l \in {LooperOf[d] : d \in byCategory}}]
  /\ UNCHANGED <<loopVars, tableVars, stateVars, lapses>>

\* ... and posted to each looper without it.
Send(t) ==
  \E s \in sending[t] :
    /\ sending' = [sending EXCEPT ![t] = @ \ {s}]
    /\ Posted(s[1], s[2])
    /\ UNCHANGED <<life, frames, worker, op, tableVars, stateVars, calls>>

Finalize(d) ==
  /\ callable' = callable \ {d}
  /\ state' = [state EXCEPT ![d] = "Finalized"]

\* Mutant: the callback is dropped while it runs.
DoInvalidateNow(d) == invalid' = invalid \cup {d} /\ Finalize(d)

\* invalidate() on the delegate's thread: a running callback is let finish.
DoInvalidate(d) ==
  /\ invalid' = invalid \cup {d}
  /\ IF state[d] = "Pending" THEN Finalize(d)
     ELSE state' = [state EXCEPT ![d] = "Invalidated"] /\ UNCHANGED callable

Invalidate(t, d) ==
  /\ Program(t) /\ Counted /\ d \notin asked /\ life[LooperOf[d]] # "gone"
  /\ asked' = asked \cup {d}
  /\ IF LooperOf[d] = t
     THEN DoInvalidate(d) /\ UNCHANGED <<inbox, lapses>>
     ELSE /\ Posted(LooperOf[d], [do |-> "invalidate", to |-> {d}, nr |-> 0])
          /\ UNCHANGED <<state, callable, invalid>>
  /\ UNCHANGED <<life, frames, worker, op, sending, tableVars>>

\* The looper takes something posted, in a callback when that polls.
Deliver(t) ==
  /\ op[t] = None /\ sending[t] = {}
  /\ \/ frames[t] = <<>> /\ life[t] \in {"alive", "cleaning"}
     \/ Calling(t) /\ Len(frames[t]) < MaxDepth
  /\ \E m \in inbox[t] :
       /\ inbox' = [inbox EXCEPT ![t] = @ \ {m}]
       /\ IF m.do = "event"
          THEN /\ \E todo \in SetToSeqs(m.to) :
                    frames' = [frames EXCEPT ![t] = Append(@, [todo |-> todo, calling |-> FALSE])]
               /\ UNCHANGED <<state, callable, invalid>>
          ELSE (\E d \in m.to : DoInvalidate(d)) /\ UNCHANGED frames
  /\ UNCHANGED <<life, worker, op, sending, tableVars, asked, calls, lapses>>

\* Mutant: an event with no delegate left to handle it stays.
HandledAll(s) == Append(Front(s), [todo |-> Tail(Last(s).todo), calling |-> FALSE])

Handled(s) == LET f == Last(s) IN
  IF Len(f.todo) = 1 THEN Front(s)
  ELSE Append(Front(s), [todo |-> Tail(f.todo), calling |-> FALSE])

Running(d) ==
  Cardinality({i \in DOMAIN frames[LooperOf[d]] :
    LET f == frames[LooperOf[d]][i] IN f.calling /\ Head(f.todo) = d})

\* handleEvent(): the callback is called unless the delegate was finalized.
HandleEvent(t) ==
  /\ frames[t] # <<>> /\ ~Calling(t)
  /\ LET d == Head(Last(frames[t]).todo) IN
     IF d \in callable
     THEN /\ state' = [state EXCEPT ![d] = "Active"]
          /\ frames' = [frames EXCEPT ![t][Len(frames[t])].calling = TRUE]
          /\ lapses' = IF Running(d) > 0 THEN lapses \cup {"nested"} ELSE lapses
     ELSE frames' = [frames EXCEPT ![t] = Handled(@)] /\ UNCHANGED <<state, lapses>>
  /\ UNCHANGED <<life, inbox, worker, op, sending, tableVars, callable, asked, invalid, calls>>

\* Mutant: the state becomes Pending whatever it was.
HandleEndPending(t) ==
  /\ Calling(t) /\ op[t] = None /\ sending[t] = {}
  /\ state' = [state EXCEPT ![Head(Last(frames[t]).todo)] = "Pending"]
  /\ frames' = [frames EXCEPT ![t] = Handled(@)]
  /\ UNCHANGED <<life, inbox, worker, op, sending, tableVars, callable, asked, invalid, calls, lapses>>

\* The callback returns.
HandleEnd(t) ==
  /\ Calling(t) /\ op[t] = None /\ sending[t] = {}
  /\ LET d == Head(Last(frames[t]).todo) IN
     IF state[d] = "Invalidated" THEN Finalize(d)
     ELSE state' = [state EXCEPT ![d] = "Pending"] /\ UNCHANGED callable
  /\ frames' = [frames EXCEPT ![t] = Handled(@)]
  /\ UNCHANGED <<life, inbox, worker, op, sending, tableVars, asked, invalid, calls, lapses>>

-----------------------------------------------------------------------------
(* The end of a looper: Data::cleanup(), with the looper's mutex held.     *)

Cleanup(l) ==
  /\ life[l] = "alive" /\ frames[l] = <<>> /\ op[l] = None /\ sending[l] = {}
  /\ life' = [life EXCEPT ![l] = "cleaning"]
  /\ UNCHANGED <<inbox, frames, worker, op, sending, tableVars, stateVars, calls, lapses>>

\* It polls for what is ready; what is left, or posted later, is thrown away.
Polled(l) ==
  /\ life[l] = "cleaning" /\ frames[l] = <<>> /\ op[l] = None /\ sending[l] = {}
  /\ life' = [life EXCEPT ![l] = "leaving"]
  /\ UNCHANGED <<inbox, frames, worker, op, sending, tableVars, stateVars, calls, lapses>>

\* The pool is finalized, and notifies the workers that are asleep.
StopPool(l) ==
  worker' = [w \in Workers |-> IF PoolOf[w] = l /\ worker[w] = "asleep" THEN "idle"
                               ELSE worker[w]]

\* Mutant: the bus is asked although the looper does not know it.
LeaveAlways(l) ==
  /\ life[l] = "leaving" /\ BusFree
  /\ life' = [life EXCEPT ![l] = "joining"] /\ StopPool(l)
  /\ loopers' = loopers \ {l} /\ buses' = buses \ {l}
  /\ listeners' = listeners \ Of(l) /\ byCategory' = byCategory \ Of(l)
  /\ inLooper' = inLooper \ Of(l) /\ attached' = attached \ Of(l)
  /\ UNCHANGED <<inbox, frames, op, sending, stateVars, calls, lapses>>

\* invalidateLooper(): the bus, if the looper knows it, forgets its delegates.
\* Then the pool is cancelled.
Leave(l) ==
  /\ life[l] = "leaving"
  /\ life' = [life EXCEPT ![l] = "joining"] /\ StopPool(l)
  /\ IF l \in buses
     THEN /\ BusFree
          /\ loopers' = loopers \ {l} /\ buses' = buses \ {l}
          /\ listeners' = listeners \ Of(l) /\ byCategory' = byCategory \ Of(l)
          /\ inLooper' = inLooper \ Of(l) /\ attached' = attached \ Of(l)
     ELSE UNCHANGED tableVars
  /\ UNCHANGED <<inbox, frames, op, sending, stateVars, calls, lapses>>

\* All workers have ended.
Joined(l) ==
  /\ life[l] = "joining" /\ \A w \in Workers : PoolOf[w] = l => worker[w] = "ended"
  /\ life' = [life EXCEPT ![l] = "closing"]
  /\ UNCHANGED <<inbox, frames, worker, op, sending, tableVars, stateVars, calls, lapses>>

\* The queue is cancelled, and the mutex free.
Gone(l) ==
  /\ life[l] = "closing" /\ op[l] = None /\ sending[l] = {}
  /\ life' = [life EXCEPT ![l] = "gone"] /\ inbox' = [inbox EXCEPT ![l] = {}]
  /\ UNCHANGED <<frames, worker, op, sending, tableVars, stateVars, calls, lapses>>

-----------------------------------------------------------------------------
(* The workers: what ThreadPool says in detail, as far as they hold a join *)
(* up.  A cancelled pool still has a worker that is in a round end it.     *)

Stopped(w) == ~ToLeave(PoolOf[w])

Becomes(w, s) ==
  /\ worker' = [worker EXCEPT ![w] = s]
  /\ UNCHANGED <<life, inbox, frames, op, sending, tableVars, stateVars, calls, lapses>>

\* A task is taken from the queue.
Work(w) == worker[w] = "idle" /\ Becomes(w, "task")

\* It has been executed, and handed over.
Worked(w) ==
  /\ worker[w] = "task" /\ op[w] = None /\ sending[w] = {}
  /\ Becomes(w, IF Stopped(w) THEN "ended" ELSE "idle")

\* There is none.
Empty(w) == worker[w] = "idle" /\ Becomes(w, IF Stopped(w) THEN "ended" ELSE "empty")

Sleep(w) == worker[w] = "empty" /\ Becomes(w, "asleep")

\* A task is pushed, or the worker wakes for no reason.
Wake(w) == worker[w] = "asleep" /\ Becomes(w, "idle")

Step(t) == Attach(t) \/ Detach(t) \/ Send(t) \/ NothingToDo(t)

LooperStep(l) ==
  \/ Deliver(l) \/ HandleEvent(l)
  \/ Polled(l) \/ Leave(l) \/ Joined(l) \/ Gone(l)

WorkerStep(w) == Worked(w) \/ Empty(w) \/ Sleep(w)

Call(t) ==
  \/ WaitForBus(t) \/ Dispatch(t)
  \/ \E d \in Delegates : AddListener(t, d) \/ RemoveListener(t, d) \/ Invalidate(t, d)

Next ==
  \/ \E t \in Threads : Step(t) \/ Call(t)
  \/ \E l \in Loopers : LooperStep(l) \/ HandleEnd(l) \/ Cleanup(l)
  \/ \E w \in Workers : WorkerStep(w) \/ Work(w) \/ Wake(w)

Spec == Init /\ [][Next]_vars

\* Threads go on, and callbacks and tasks return; nobody is bound to call, to
\* push a task, or to wake up without being notified.
FairSpec ==
  /\ Spec
  /\ \A t \in Threads : WF_vars(Step(t))
  /\ \A l \in Loopers : WF_vars(LooperStep(l)) /\ WF_vars(HandleEnd(l))
  /\ \A w \in Workers : WF_vars(WorkerStep(w))

-----------------------------------------------------------------------------
(* Properties.                                                             *)

\* The bus's mutex is in the hands of a thread that waits for the mutex of l,
\* which cleanup() holds, and the cleanup waits for that thread: it or a worker
\* it has to join is that thread, or waits for the bus's mutex, or
\* invalidateLooper() needs that.
Crossed(l) ==
  ~LooperFree(l) /\
    \E t \in Threads :
      /\ op[t] \in {"attach", "detach"} \X Of(l)
      /\ \/ t \in Own(l)
         \/ \E u \in Own(l) : op[u] = Waiting
         \/ life[l] = "leaving" /\ l \in buses

\* cancel() has notified the workers before one of them sleeps (see CancelReturns
\* of ThreadPool).
Missed(l) ==
  life[l] = "joining" /\
    \E w \in Workers : PoolOf[w] = l /\ worker[w] \in {"empty", "asleep"}

Deadlocked == \E l \in Loopers : Crossed(l) \/ Missed(l)

Messages ==
  [do : {"event", "invalidate"}, to : SUBSET Delegates, nr : 0 .. MaxCalls]

Frames == [todo : Seq(Delegates) \ {<<>>}, calling : BOOLEAN]

\* The tables hold delegates and loopers, and threads wait only as they may.
TypeOK ==
  /\ life \in [Loopers -> {"alive", "cleaning", "leaving", "joining", "closing", "gone"}]
  /\ worker \in [Workers -> {"idle", "task", "empty", "asleep", "ended"}]
  /\ inbox \in [Loopers -> SUBSET Messages]
  /\ frames \in [Loopers -> Seq(Frames)] /\ \A l \in Loopers : Len(frames[l]) <= MaxDepth
  /\ sending \in [Threads -> SUBSET (Loopers \X Messages)]
  /\ op \in [Threads -> {None, Waiting} \cup ({"attach", "detach"} \X Delegates)]
  /\ UNION {listeners, byCategory, inLooper, attached, callable, asked, invalid}
       \subseteq Delegates
  /\ loopers \cup buses \subseteq Loopers
  /\ state \in [Delegates -> {"Pending", "Active", "Invalidated", "Finalized"}]
  /\ calls \in 0 .. MaxCalls
  /\ lapses \subseteq {"nested", "postedLate", "addedLate"}

\* While nobody is inside of addListener() or removeListener(), the four tables
\* of listeners hold the same delegates, the bus lists exactly the loopers these
\* listen on, and exactly those know the bus, which their end relies on: no
\* raw pointer to a looper that has gone is left, unless a listener was added
\* while it was ending.
TablesAgree ==
  BusFree =>
    /\ listeners = attached /\ byCategory = attached /\ inLooper = attached
    /\ loopers = {LooperOf[d] : d \in attached}
    /\ buses = loopers
    /\ "addedLate" \notin lapses => \A l \in loopers : life[l] # "gone"

\* A delegate has its owner and its callback until it is invalidated, then until
\* its callback returns, and no longer ("_state == Pending" in invalidate() is to
\* mean that no callback runs) - unless a callback that polled was called again.
FinalizedExact ==
  "nested" \notin lapses =>
    \A d \in Delegates : d \in callable <=> d \notin invalid \/ Running(d) > 0

\* A delegate that is asked to be invalidated ends, so that it does not keep its
\* owner, unless its looper ends before it can handle that.
InvalidateFinalizes ==
  \A d \in Delegates :
    d \in asked ~> \/ d \notin callable \/ life[LooperOf[d]] # "alive"
                   \/ "nested" \in lapses \/ Deadlocked

\* A looper that ends does end, and lets those who wait for its mutex go on, but
\* for the deadlocks above.
CleanupEnds ==
  \A l \in Loopers : life[l] = "cleaning" ~> life[l] = "gone" \/ Deadlocked

\* They are not too much to except: mutexes that have been taken across each other
\* are never given back, by nobody's step, and the looper never ends.
CrossedForGood ==
  [][\A l \in Loopers : Crossed(l) => Crossed(l)']_vars

-----------------------------------------------------------------------------
(* The inductive invariant behind TablesAgree, FinalizedExact and           *)
(* CrossedForGood.                                                         *)

\* Whatever reaches a looper, and whatever it handles, is for its delegates.
MessagesTo(l) ==
  [do : {"event", "invalidate"}, to : (SUBSET Of(l)) \ {{}}, nr : 0 .. MaxCalls]
FramesOf(l) == [todo : Seq(Of(l)) \ {<<>>}, calling : BOOLEAN]

Addressed ==
  /\ \A l \in Loopers :
       inbox[l] \subseteq MessagesTo(l) /\ frames[l] \in Seq(FramesOf(l))
  /\ \A t \in Threads : \A s \in sending[t] :
       s[1] \in Loopers /\ s[2] \in MessagesTo(s[1]) /\ s[2].do = "event"

\* What the tables lack of each other, and have too much, while a thread waits
\* in addListener() or removeListener(); and only one thread does.
Adding   == {d \in Delegates : \E t \in Threads : op[t] = <<"attach", d>>}
Removing == {d \in Delegates : \E t \in Threads : op[t] = <<"detach", d>>}

OneInBus ==
  \A t, u \in Threads : {op[t], op[u]} \cap {None, Waiting} = {} => t = u

\* Who waits does so in the program's code, which cleanup() lets end.
WaitsInProgram ==
  \A t \in Threads : op[t] # None =>
    \/ t \in Loopers /\ Handles(t)
    \/ t \in Workers /\ worker[t] = "task"

\* Whoever has joined the workers has none left that runs a task.
WorkersJoined ==
  \A w \in Workers : life[PoolOf[w]] \in {"closing", "gone"} => worker[w] = "ended"

TablesBetween ==
  /\ listeners = attached \cup Removing
  /\ byCategory = attached \cup Adding
  /\ inLooper = attached
  /\ loopers = {LooperOf[d] : d \in attached \cup Adding \cup Removing}
  /\ buses = {LooperOf[d] : d \in attached \cup Removing}
  /\ \A d \in Adding \cup Removing, e \in attached : LooperOf[d] # LooperOf[e]
  /\ "addedLate" \notin lapses => \A l \in buses : ToLeave(l)

\* invalidate() acts once: a request that is on its way has not been acted on.
InvalidateOnce ==
  /\ invalid \subseteq asked
  /\ \A l \in Loopers : \A m \in inbox[l] : m.do = "invalidate" =>
       \E d \in asked \ invalid : m = [do |-> "invalidate", to |-> {d}, nr |-> 0]

\* The callbacks of d that a looper is in.
RunsIn(s, d) == {i \in DOMAIN s : s[i].calling /\ Head(s[i].todo) = d}
Runs(d) == RunsIn(frames[LooperOf[d]], d)

\* The state of a delegate tells whether its callback runs, and once.
StateExact ==
  "nested" \notin lapses =>
    \A d \in Delegates :
      /\ \A i, j \in Runs(d) : i = j
      /\ Runs(d) # {} <=> state[d] \in {"Active", "Invalidated"}
      /\ d \in callable <=> state[d] # "Finalized"
      /\ d \in invalid <=> state[d] \in {"Invalidated", "Finalized"}

IInv ==
  /\ TypeOK /\ Addressed /\ OneInBus /\ WaitsInProgram /\ WorkersJoined
  /\ TablesBetween /\ InvalidateOnce /\ StateExact
=============================================================================
