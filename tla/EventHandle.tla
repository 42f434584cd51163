----------------------------- MODULE EventHandle -----------------------------
(***************************************************************************)
(* Timers of an event queue on io_uring: the status of each handle, what   *)
(* is armed in the ring for it, and the counters by which a graceful stop  *)
(* knows that every handle is suspended.                                   *)
(*                                                                         *)
(* Everything here runs on the queue's thread.  What makes it hard is that *)
(* completions call the program back, which may pause, resume, reset or    *)
(* cancel any handle, the one being completed included, in the middle of   *)
(* an operation.                                                           *)
(***************************************************************************)
EXTENDS Integers, FiniteSets, SequencesExt

CONSTANTS Handles,    \* the timers
          Counts,     \* the expirations a timer may be set to
          MaxCalls,   \* bound: operations the program calls
          MaxDepth    \* bound: completions nested in one another

ASSUME CountsAssumption == Counts \subseteq Nat \ {0}
ASSUME HandlesAssumption == IsFiniteSet(Handles) /\ MaxCalls \in Nat

Final == {"Done", "ErrorCancelled"}

VARIABLES
  status,     \* Handle::_status
  armed,      \* live submissions in the ring, by the current serial
  left,       \* expirations still to come: count - value
  registered, \* QueueData::_suspendableHandles
  pending,    \* QueueData::_pendingHandles
  running,    \* QueueData::_running
  runningHandles, suspendedHandles,   \* the queue's counters
  context,    \* the run context: "none", "run" or "stopping"
  frames,     \* the completions being called, innermost last
  released,   \* history: times cancelFn was called
  calls,      \* counts calls, for the bound
  lapses      \* history: uses that upset the counters (see the properties)

handleVars == <<status, armed, left>>
queueVars == <<registered, pending, running, runningHandles, context>>
vars == <<handleVars, queueVars, suspendedHandles, frames, released, calls, lapses>>

Init ==
  /\ status = [h \in Handles |-> "Pending"] /\ armed = [h \in Handles |-> 0]
  /\ left \in [Handles -> Counts]
  /\ registered = {} /\ pending = {} /\ running = TRUE
  /\ runningHandles = 0 /\ suspendedHandles = 0
  /\ context = "none" /\ frames = <<>>
  /\ released = [h \in Handles |-> 0] /\ calls = 0 /\ lapses = {}

\* Mutant: what is armed stays armed when the status drops.
BecomeArmed(h, s, a) ==
  /\ status' = [status EXCEPT ![h] = s]
  /\ armed' = [armed EXCEPT ![h] = IF s = "Ok" THEN a ELSE @]

Become(h, s, a) ==
  /\ status' = [status EXCEPT ![h] = s]
  /\ armed' = [armed EXCEPT ![h] = a]

\* rearm() arms a handle only while the queue is running.
Rearm(h) == IF running THEN Become(h, "Ok", armed[h] + 1)
                       ELSE Become(h, "Suspended", armed[h])

-----------------------------------------------------------------------------
(* Operations of the program, from a completion, from posted work or       *)
(* between runs.                                                           *)

Calls == /\ context # "stopping" /\ calls < MaxCalls /\ calls' = calls + 1

\* h is in its last completion and has been reset there.
WasReset(h) ==
  \E i \in DOMAIN frames : frames[i].h = h /\ frames[i].st \in Final /\ status[h] # frames[i].st

\* runHandle(): now, or when the queue runs again.
Run(h) ==
  /\ Calls /\ status[h] = "Pending" /\ h \notin pending
  /\ IF running
     THEN /\ Become(h, "Ok", 1)
          /\ registered' = registered \cup {h}
          /\ runningHandles' = runningHandles + 1
          /\ UNCHANGED pending
     ELSE pending' = pending \cup {h}
          /\ UNCHANGED <<status, armed, registered, runningHandles>>
  /\ UNCHANGED <<left, running, context, suspendedHandles, frames, released, lapses>>

\* pause(): a handle the system has suspended stays counted and only changes
\* its status, so that resumeAll() will leave it.
Pause(h) ==
  /\ Calls
  /\ \/ /\ status[h] = "Ok" /\ Become(h, "Declined", 0)
        /\ suspendedHandles' = suspendedHandles + 1
     \/ /\ status[h] = "Suspended" /\ Become(h, "Declined", armed[h])
        /\ UNCHANGED suspendedHandles
  /\ UNCHANGED <<left, queueVars, frames, released, lapses>>

\* resume(): the counter drops before rearm() finds out whether the queue runs.
Resume(h) ==
  /\ Calls /\ status[h] \in {"Suspended", "Declined"} /\ h \in registered
  /\ suspendedHandles' = suspendedHandles - 1
  /\ Rearm(h)
  /\ lapses' = lapses \cup (IF running THEN {} ELSE {"resumedStopped"})
                      \cup (IF WasReset(h) THEN {"touchedInside"} ELSE {})
  /\ UNCHANGED <<left, queueVars, frames, released>>

\* reset() with a new count.  An armed timer is armed anew; one that is done
\* becomes paused, which the cancel() it is in will notice.
ResetTimer(h) ==
  /\ Calls
  /\ \E n \in Counts : left' = [left EXCEPT ![h] = n]
  /\ status' = [status EXCEPT ![h] = IF @ = "Done" THEN "Declined" ELSE @]
  /\ lapses' = IF status[h] = "Done" /\ h \notin registered
               THEN lapses \cup {"resetReleased"} ELSE lapses
  /\ UNCHANGED <<armed, queueVars, suspendedHandles, frames, released>>

\* Mutant: a handle that is done may be cancelled again.
CancellableDone == {"Ok", "Suspended", "Declined", "Done"}

Cancellable == {"Ok", "Suspended", "Declined"}

\* cancel(): a running timer is suspended first.  The completion is called with
\* the final status set, and what follows depends on what it does (CancelEnd).
Finish(h, st, from, counted) ==
  /\ status' = [status EXCEPT ![h] = st]
  /\ frames' = Append(frames, [h |-> h, st |-> st, from |-> from, counted |-> counted])

Cancel(h) ==
  /\ Calls /\ Len(frames) < MaxDepth
  /\ status[h] \in Cancellable
  /\ \E st \in Final :
       Finish(h, st, IF status[h] = "Suspended" THEN "Suspended" ELSE "Declined", TRUE)
  /\ armed' = [armed EXCEPT ![h] = IF status[h] = "Ok" THEN 0 ELSE @]
  /\ suspendedHandles' = suspendedHandles + (IF status[h] = "Ok" THEN 1 ELSE 0)
  /\ lapses' = IF WasReset(h) THEN lapses \cup {"touchedInside"} ELSE lapses
  /\ UNCHANGED <<left, queueVars, released>>

\* Mutants: the released handle stays counted; every one is taken off.
OffCounterNever(f) == 0
OffCounterAlways(f) == 1

\* Only a handle that was paused is taken off the counter of suspended handles.
OffCounter(f) == IF f.from = "Declined" THEN 1 ELSE 0

\* The completion left the status alone: the handle is released.
Release(f) ==
  /\ status[f.h] = f.st
  /\ suspendedHandles' = suspendedHandles - OffCounter(f)
  /\ registered' = registered \ {f.h}
  /\ runningHandles' = runningHandles - 1
  /\ released' = [released EXCEPT ![f.h] = @ + 1]
  /\ lapses' = IF f.from = "Suspended" /\ f.counted
               THEN lapses \cup {"cancelledSuspended"} ELSE lapses
  /\ UNCHANGED <<handleVars, pending, running, context>>

\* The completion reset it: the earlier status is put back and resumed from.  A
\* handle that can not be resumed keeps the final status and is not released.
Revive(f) ==
  /\ status[f.h] # f.st
  /\ IF f.h \in registered
     THEN /\ suspendedHandles' = suspendedHandles - 1
          /\ IF running THEN Become(f.h, "Ok", armed[f.h] + 1)
                        ELSE Become(f.h, f.st, armed[f.h])
     ELSE Become(f.h, f.st, armed[f.h]) /\ UNCHANGED suspendedHandles
  /\ lapses' = lapses \cup (IF f.counted THEN {} ELSE {"resetExpired"})
                      \cup (IF running THEN {} ELSE {"resetStopped"})
  /\ UNCHANGED <<left, queueVars, released>>

CancelEnd ==
  /\ frames # <<>> /\ Last(frames).st \in Final
  /\ frames' = Front(frames)
  /\ Release(Last(frames)) \/ Revive(Last(frames))
  /\ UNCHANGED calls

Call(h) == Run(h) \/ Pause(h) \/ Resume(h) \/ ResetTimer(h) \/ Cancel(h)

-----------------------------------------------------------------------------
(* The queue.                                                              *)

\* A timer expires.  Before the last expiration it stays armed, or is armed
\* again, and its completion is called.
Tick(h) ==
  /\ context = "run" /\ frames = <<>>
  /\ status[h] = "Ok" /\ armed[h] > 0 /\ left[h] > 1
  /\ left' = [left EXCEPT ![h] = @ - 1]
  /\ frames' = <<[h |-> h, st |-> "tick", from |-> "Ok", counted |-> FALSE]>>
  /\ UNCHANGED <<status, armed, queueVars, suspendedHandles, released, calls, lapses>>

TickEnd ==
  /\ frames # <<>> /\ Last(frames).st = "tick"
  /\ frames' = Front(frames)
  /\ UNCHANGED <<handleVars, queueVars, suspendedHandles, released, calls, lapses>>

\* The last expiration: notify() has set the status to Suspended, which counts
\* nowhere, and cancels the timer as Done.
Expire(h) ==
  /\ context = "run" /\ frames = <<>>
  /\ status[h] = "Ok" /\ armed[h] > 0 /\ left[h] = 1
  /\ left' = [left EXCEPT ![h] = 0]
  /\ armed' = [armed EXCEPT ![h] = @ - 1]
  /\ Finish(h, "Done", "Suspended", FALSE)
  /\ UNCHANGED <<queueVars, suspendedHandles, released, calls, lapses>>

\* Mutant: what the program has paused is resumed too.
ToResumeAll == {h \in registered : status[h] \in {"Suspended", "Declined"}}

ToResume == {h \in registered : status[h] = "Suspended"}

\* run(): resumeAll() resumes what is suspended and starts what is pending.
RunQueue ==
  LET S == IF running THEN {} ELSE ToResume
      P == IF running THEN {} ELSE pending
  IN
  /\ context = "none" /\ frames = <<>>
  /\ status' = [h \in Handles |-> IF h \in S \cup P THEN "Ok" ELSE status[h]]
  /\ armed' = [h \in Handles |-> IF h \in S \cup P THEN armed[h] + 1 ELSE armed[h]]
  /\ suspendedHandles' = suspendedHandles - Cardinality(S)
  /\ runningHandles' = runningHandles + Cardinality(P)
  /\ registered' = registered \cup P /\ pending' = pending \ P
  /\ running' = TRUE /\ context' = "run"
  /\ UNCHANGED <<left, frames, released, calls, lapses>>

\* A graceful wakeup: suspendAll() disarms every handle that is armed ...
Suspend ==
  LET S == {h \in registered : status[h] = "Ok"} IN
  /\ context = "run" /\ frames = <<>>
  /\ status' = [h \in Handles |-> IF h \in S THEN "Suspended" ELSE status[h]]
  /\ armed' = [h \in Handles |-> IF h \in S THEN 0 ELSE armed[h]]
  /\ suspendedHandles' = suspendedHandles + Cardinality(S)
  /\ running' = FALSE /\ context' = "stopping"
  /\ UNCHANGED <<left, registered, pending, runningHandles, frames, released, calls, lapses>>

\* ... and run() returns when all handles are counted as suspended.
Stopped ==
  /\ context = "stopping" /\ suspendedHandles = runningHandles
  /\ context' = "none"
  /\ UNCHANGED <<handleVars, registered, pending, running, runningHandles,
                 suspendedHandles, frames, released, calls, lapses>>

\* Mutant: the context that ended is left as it was stopped.
ForcedStopped ==
  /\ context = "run" /\ frames = <<>>
  /\ context' = "stopped"
  /\ UNCHANGED <<handleVars, registered, pending, running, runningHandles,
                 suspendedHandles, frames, released, calls, lapses>>

\* A forced wakeup ends run() at once.
Forced ==
  /\ context = "run" /\ frames = <<>>
  /\ context' = "none"
  /\ UNCHANGED <<handleVars, registered, pending, running, runningHandles,
                 suspendedHandles, frames, released, calls, lapses>>

Next ==
  \/ \E h \in Handles : Call(h) \/ Tick(h) \/ Expire(h)
  \/ CancelEnd \/ TickEnd \/ RunQueue \/ Suspend \/ Stopped \/ Forced

Spec == Init /\ [][Next]_vars

-----------------------------------------------------------------------------
(* Properties.                                                             *)

\* Every variable keeps its type.
TypeOK ==
  /\ status \in [Handles -> {"Pending", "Ok", "Suspended", "Declined"} \cup Final]
  /\ armed \in [Handles -> Nat] /\ left \in [Handles -> Nat]
  /\ registered \subseteq Handles /\ pending \subseteq Handles /\ running \in BOOLEAN
  /\ runningHandles \in Int /\ suspendedHandles \in Int
  /\ context \in {"none", "run", "stopping"}
  /\ released \in [Handles -> Nat] /\ calls \in 0..MaxCalls

\* The program has resumed or cancelled a timer it had just reset in its last
\* completion, or has reset one that was released long ago.
Misused == lapses \cap {"touchedInside", "resetReleased"} # {}

\* A handle is armed in the ring exactly while its status says so, and once,
\* through pause(), resume(), reset() and cancel() from any completion.
ArmedIffOk ==
  ~Misused => \A h \in Handles : armed[h] = IF status[h] = "Ok" THEN 1 ELSE 0

\* Outside of completions suspendedHandles is exact, through nested completions
\* and stops, unless one of the calls named in lapses has upset it.
SuspendedExact ==
  frames = <<>> /\ lapses = {} =>
    suspendedHandles =
      Cardinality({h \in registered : status[h] \in {"Suspended", "Declined"}})

\* A graceful stop waits for all handles to be suspended, and once they are the
\* counters say so.
GracefulStopEnds == context = "stopping" => suspendedHandles = runningHandles

\* The same, unless one of the calls named in lapses has upset the counters.
GracefulStopEndsUnlessLapsed == lapses = {} => GracefulStopEnds

\* A handle is released once, when its final status is settled, and is then in
\* no list and armed nowhere; until then the queue counts it as running.
ReleasedOnce ==
  ~Misused =>
    /\ runningHandles = Cardinality(registered)
    /\ \A h \in Handles :
         /\ released[h] <= 1
         /\ released[h] = 1 => h \notin registered /\ armed[h] = 0 /\ status[h] \in Final
         /\ status[h] \in Final /\ (\A i \in DOMAIN frames : frames[i].h # h)
              /\ "resetStopped" \notin lapses => released[h] = 1

\* What the program has paused only the program arms again: neither the end of
\* a run nor the start of the next one does.
PausedStaysPaused ==
  [][\A h \in Handles :
       status[h] = "Declined" /\ status'[h] # "Declined" => calls' # calls \/ frames # <<>>]_vars

-----------------------------------------------------------------------------
(* The inductive invariant behind these properties: what a completion on   *)
(* the stack says of its handle, and whom the counters stand for.          *)

Frame == [h : Handles, st : Final \cup {"tick"},
          from : {"Ok", "Suspended", "Declined"}, counted : BOOLEAN]

\* A cancelled timer that the counter did not stand for was about to expire.
FramesOK ==
  /\ frames \in Seq(Frame)
  /\ \A i \in DOMAIN frames :
       IF frames[i].st \in Final
       THEN frames[i].from # "Ok" /\ (frames[i].from = "Declined" => frames[i].counted)
       ELSE ~frames[i].counted

\* Only a handle that was never run waits for the queue to run.
PendingOK ==
  /\ \A h \in pending : status[h] = "Pending"
  /\ \A i \in DOMAIN frames : status[frames[i].h] # "Pending"

LastCompletion(h) == {i \in DOMAIN frames : frames[i].h = h /\ frames[i].st \in Final}

\* A handle is in one last completion at a time, the queue still has it, and
\* nothing but a reset has touched it there.
OneCompletion ==
  ~Misused =>
    \A h \in Handles : \A i \in LastCompletion(h) :
      /\ \A j \in LastCompletion(h) : i = j
      /\ h \in registered
      /\ status[h] = frames[i].st \/ status[h] = "Declined"

\* The queue has a handle from its first run until it is released, and counts
\* it; a final status means a completion, a release, or a reset while stopped.
Owned ==
  ~Misused =>
    /\ runningHandles = Cardinality(registered)
    /\ \A h \in Handles :
         /\ status[h] = "Pending" => h \notin registered
         /\ status[h] \in {"Ok", "Suspended", "Declined"} => h \in registered
         /\ released[h] = IF status[h] = "Pending" \/ h \in registered THEN 0 ELSE 1
         /\ h \in registered /\ status[h] \in Final /\ LastCompletion(h) = {} =>
              "resetStopped" \in lapses

\* The handles suspendedHandles stands for: in a last completion those that
\* were counted when it began, elsewhere those suspended or paused.
Counted ==
  {h \in registered :
     IF LastCompletion(h) = {} THEN status[h] \in {"Suspended", "Declined"}
     ELSE \E i \in LastCompletion(h) : frames[i].counted}

SuspendedCounted == lapses = {} => suspendedHandles = Cardinality(Counted)

\* Nothing runs while the queue stops, and nothing is armed.
StoppingOK ==
  context = "stopping" =>
    /\ frames = <<>>
    /\ lapses = {} => \A h \in registered : status[h] \in {"Suspended", "Declined"}

IInv ==
  /\ TypeOK /\ FramesOK /\ PendingOK /\ OneCompletion /\ ArmedIffOk
  /\ Owned /\ SuspendedCounted /\ StoppingOK
=============================================================================
