------------------------- MODULE EventHandleProofs -------------------------
(***************************************************************************)
(* Proofs about EventHandle for every finite set of timers, every set of   *)
(* counts, and every bound on calls and on the nesting of completions.     *)
(***************************************************************************)
EXTENDS EventHandle, FiniteSetTheorems, SequenceTheorems, TLAPS

-----------------------------------------------------------------------------
(* The stack of completions.                                               *)

\* A frame is the completion of a handle.
LEMMA FrameType ==
  ASSUME NEW f \in Frame
  PROVE  /\ f.h \in Handles /\ f.counted \in BOOLEAN
         /\ f.from \in {"Ok", "Suspended", "Declined"}
  BY DEF Frame

\* So is everything on the stack.
LEMMA FramesType ==
  ASSUME FramesOK
  PROVE  /\ DOMAIN frames = 1..Len(frames) /\ Len(frames) \in Nat
         /\ \A i \in DOMAIN frames : frames[i] \in Frame /\ frames[i].h \in Handles
<1>1. DOMAIN frames = 1..Len(frames) /\ Len(frames) \in Nat
      /\ \A i \in DOMAIN frames : frames[i] \in Frame
  BY DEF FramesOK
<1>2. QED
  BY <1>1, FrameType

\* The completion begun last is on the stack.
LEMMA LastFrame ==
  ASSUME FramesOK, frames # <<>>
  PROVE  /\ Len(frames) \in DOMAIN frames /\ Last(frames) = frames[Len(frames)]
         /\ Last(frames) \in Frame /\ Last(frames).h \in Handles
<1>1. Len(frames) \in DOMAIN frames
  BY DEF FramesOK
<1>2. QED
  BY <1>1, FramesType DEF Last

\* A completion that begins is in its handle's last completions if it is one.
LEMMA PushFrame ==
  ASSUME FramesOK, NEW f \in Frame, frames' = Append(frames, f)
  PROVE  /\ frames' \in Seq(Frame)
         /\ Len(frames) \in Nat
         /\ DOMAIN frames' = 1..(Len(frames) + 1) /\ DOMAIN frames = 1..Len(frames)
         /\ frames'[Len(frames) + 1] = f
         /\ \A i \in DOMAIN frames : frames'[i] = frames[i]
         /\ \A h \in Handles :
              LastCompletion(h)' = IF f.h = h /\ f.st \in Final
                                   THEN LastCompletion(h) \cup {Len(frames) + 1}
                                   ELSE LastCompletion(h)
<1>1. /\ frames' \in Seq(Frame) /\ Len(frames') = Len(frames) + 1
      /\ \A i \in 1..Len(frames) : frames'[i] = frames[i]
      /\ frames'[Len(frames) + 1] = f
  BY AppendProperties DEF FramesOK
<1>2. DOMAIN frames' = 1..(Len(frames) + 1) /\ DOMAIN frames = 1..Len(frames)
      /\ Len(frames) \in Nat
  BY <1>1 DEF FramesOK
<1>3. QED
  BY <1>1, <1>2 DEF LastCompletion

\* A completion that ends leaves the ones below it as they were.
LEMMA PopFrame ==
  ASSUME FramesOK, frames # <<>>, frames' = Front(frames)
  PROVE  /\ frames' \in Seq(Frame)
         /\ DOMAIN frames' = DOMAIN frames \ {Len(frames)}
         /\ \A i \in DOMAIN frames' : frames'[i] = frames[i]
         /\ \A h \in Handles : LastCompletion(h)' = LastCompletion(h) \ {Len(frames)}
<1>1. Len(frames) \in Nat \ {0} /\ DOMAIN frames = 1..Len(frames)
  BY DEF FramesOK
<1>2. \A i \in 1..(Len(frames) - 1) : frames[i] \in Frame
  BY <1>1 DEF FramesOK
<1>3. /\ frames' \in Seq(Frame) /\ Len(frames') = Len(frames) - 1
      /\ \A i \in 1..(Len(frames) - 1) : frames'[i] = frames[i]
  BY <1>1, <1>2, SubSeqProperties DEF Front
<1>4. DOMAIN frames' = 1..(Len(frames) - 1)
  BY <1>3
<1>5. QED
  BY <1>1, <1>3, <1>4 DEF LastCompletion

\* The last completion that cancel() begins is counted as suspended.
LEMMA CancelFrame ==
  ASSUME NEW h \in Handles, Cancel(h)
  PROVE  \E f \in Frame : /\ frames' = Append(frames, f) /\ f.h = h /\ f.st \in Final
                          /\ f.from # "Ok" /\ f.counted
                          /\ status' = [status EXCEPT ![h] = f.st]
<1>1. PICK st \in Final, from \in {"Suspended", "Declined"} : Finish(h, st, from, TRUE)
  BY DEF Cancel
<1> DEFINE f == [h |-> h, st |-> st, from |-> from, counted |-> TRUE]
<1>2. f \in Frame
  BY DEF Frame
<1>3. QED
  BY <1>1, <1>2 DEF Finish

\* The one that the last expiration begins is not.
LEMMA ExpireFrame ==
  ASSUME NEW h \in Handles, Expire(h)
  PROVE  \E f \in Frame : /\ frames' = Append(frames, f) /\ f.h = h /\ f.st \in Final
                          /\ f.from = "Suspended" /\ ~f.counted
                          /\ status' = [status EXCEPT ![h] = f.st]
<1> DEFINE f == [h |-> h, st |-> "Done", from |-> "Suspended", counted |-> FALSE]
<1>1. f \in Frame /\ f.st \in Final
  BY DEF Frame, Final
<1>2. QED
  BY <1>1 DEF Expire, Finish

\* Completions that begin and end have the shape of frames.
LEMMA FramesStep ==
  ASSUME FramesOK, Next
  PROVE  FramesOK'
<1>1. ASSUME NEW f \in Frame, frames' = Append(frames, f),
             IF f.st \in Final
             THEN f.from # "Ok" /\ (f.from = "Declined" => f.counted)
             ELSE ~f.counted
      PROVE  FramesOK'
  BY <1>1, PushFrame DEF FramesOK
<1>2. ASSUME NEW h \in Handles, Cancel(h) PROVE FramesOK'
  BY <1>1, <1>2, CancelFrame
<1>3. ASSUME NEW h \in Handles, Expire(h) PROVE FramesOK'
  BY <1>1, <1>3, ExpireFrame
<1>4. ASSUME NEW h \in Handles, Tick(h) PROVE FramesOK'
  BY <1>4 DEF Tick, FramesOK, Frame, Final
<1>5. CASE CancelEnd \/ TickEnd
  BY <1>5, PopFrame DEF CancelEnd, TickEnd, FramesOK
<1>6. CASE UNCHANGED frames
  BY <1>6 DEF FramesOK
<1>7. QED
  BY <1>2, <1>3, <1>4, <1>5, <1>6
     DEF Next, Call, Run, Pause, Resume, ResetTimer, RunQueue, Suspend,
         Stopped, Forced

-----------------------------------------------------------------------------
(* Types.                                                                  *)

\* Every variable keeps its type.
LEMMA TypeStep ==
  ASSUME TypeOK, FramesOK, Next
  PROVE  TypeOK'
<1> USE HandlesAssumption, CountsAssumption DEF TypeOK, Final, Calls, Become,
      handleVars, queueVars
<1>1. ASSUME NEW h \in Handles, Run(h) PROVE TypeOK'
  BY <1>1 DEF Run
<1>2. ASSUME NEW h \in Handles, Pause(h) PROVE TypeOK'
  BY <1>2 DEF Pause
<1>3. ASSUME NEW h \in Handles, Resume(h) PROVE TypeOK'
  BY <1>3 DEF Resume, Rearm
<1>4. ASSUME NEW h \in Handles, ResetTimer(h) PROVE TypeOK'
  BY <1>4 DEF ResetTimer
<1>5. ASSUME NEW h \in Handles, Cancel(h) PROVE TypeOK'
  <2>1. PICK st \in Final : status' = [status EXCEPT ![h] = st]
    BY <1>5 DEF Cancel, Finish
  <2>2. QED
    BY <1>5, <2>1 DEF Cancel
<1>6. CASE CancelEnd
  <2>1. PICK f \in Frame : f.st \in Final /\ (Release(f) \/ Revive(f))
    BY <1>6, LastFrame DEF CancelEnd
  <2>2. calls' = calls
    BY <1>6 DEF CancelEnd
  <2>3. f.h \in Handles
    BY FrameType
  <2>4. CASE Release(f)
    BY <2>2, <2>3, <2>4 DEF Release, OffCounter
  <2>5. CASE Revive(f)
    BY <2>1, <2>2, <2>3, <2>5 DEF Revive
  <2>6. QED
    BY <2>1, <2>4, <2>5
<1>7. ASSUME NEW h \in Handles, Tick(h) PROVE TypeOK'
  BY <1>7 DEF Tick
<1>8. CASE TickEnd
  BY <1>8 DEF TickEnd
<1>9. ASSUME NEW h \in Handles, Expire(h) PROVE TypeOK'
  BY <1>9 DEF Expire, Finish
<1>10. \A S \in SUBSET Handles : Cardinality(S) \in Nat
  BY FS_Subset, FS_CardinalityType
<1>11. CASE RunQueue
  BY <1>10, <1>11 DEF RunQueue, ToResume
<1>12. CASE Suspend
  <2> DEFINE S == {h \in registered : status[h] = "Ok"}
  <2>1. Cardinality(S) \in Nat
    BY <1>10
  <2>2. suspendedHandles' = suspendedHandles + Cardinality(S)
    BY <1>12 DEF Suspend
  <2>3. suspendedHandles' \in Int
    BY <2>1, <2>2
  <2>4. QED
    BY <1>12, <2>3 DEF Suspend
<1>13. CASE Stopped
  BY <1>13 DEF Stopped
<1>14. CASE Forced
  BY <1>14 DEF Forced
<1>15. QED
  BY <1>1, <1>2, <1>3, <1>4, <1>5, <1>6, <1>7, <1>8, <1>9, <1>11, <1>12, <1>13,
     <1>14 DEF Next, Call

\* A step of the program other than cancel() begins no completion.
LEMMA CallFrames ==
  ASSUME NEW h \in Handles, Call(h)
  PROVE  Cancel(h) \/ UNCHANGED frames
  BY DEF Call, Run, Pause, Resume, ResetTimer

\* What waits to be run was never run.
LEMMA PendingStep ==
  ASSUME TypeOK, FramesOK, PendingOK, Next
  PROVE  PendingOK'
<1> USE DEF TypeOK, PendingOK, handleVars, queueVars
<1>1. \A i \in DOMAIN frames : frames[i].h \in Handles
  BY FramesType
<1>2. ASSUME NEW h \in Handles, Run(h) PROVE PendingOK'
  BY <1>1, <1>2 DEF Run, Become
<1>3. ASSUME NEW h \in Handles, Pause(h) \/ Resume(h) \/ ResetTimer(h) PROVE PendingOK'
  <2>1. UNCHANGED <<frames, pending>>
    BY <1>3 DEF Pause, Resume, ResetTimer
  <2>2. \A g \in Handles : status'[g] = "Pending" <=> status[g] = "Pending"
    BY <1>3 DEF Pause, Resume, Rearm, Become, ResetTimer
  <2>3. QED
    BY <1>1, <2>1, <2>2
<1>4. ASSUME NEW h \in Handles, Cancel(h) PROVE PendingOK'
  <2>1. PICK f \in Frame : /\ frames' = Append(frames, f) /\ f.h = h /\ f.st \in Final
                           /\ status' = [status EXCEPT ![h] = f.st]
    BY <1>4, CancelFrame
  <2>2. status[h] # "Pending" /\ UNCHANGED pending
    BY <1>4 DEF Cancel, Cancellable
  <2>3. QED
    BY <1>1, <2>1, <2>2, PushFrame DEF Final
<1>5. ASSUME NEW h \in Handles, Expire(h) PROVE PendingOK'
  <2>1. PICK f \in Frame : /\ frames' = Append(frames, f) /\ f.h = h /\ f.st \in Final
                           /\ status' = [status EXCEPT ![h] = f.st]
    BY <1>5, ExpireFrame
  <2>2. status[h] # "Pending" /\ UNCHANGED pending
    BY <1>5 DEF Expire
  <2>3. QED
    BY <1>1, <2>1, <2>2, PushFrame DEF Final
<1>6. CASE CancelEnd
  <2>1. PICK f \in Frame : /\ f.st \in Final /\ status[f.h] # "Pending"
                           /\ Release(f) \/ Revive(f)
    BY <1>6, LastFrame DEF CancelEnd
  <2>2. f.h \in Handles
    BY FrameType
  <2>3. \A g \in Handles : status'[g] = "Pending" <=> status[g] = "Pending"
    BY <2>1, <2>2 DEF Release, Revive, Become, Final
  <2>4. UNCHANGED pending
    BY <2>1 DEF Release, Revive
  <2>5. QED
    BY <1>1, <1>6, <2>3, <2>4, PopFrame DEF CancelEnd
<1>7. CASE TickEnd
  BY <1>7, PopFrame DEF TickEnd
<1>8. ASSUME NEW h \in Handles, Tick(h) PROVE PendingOK'
  BY <1>8 DEF Tick
<1>9. CASE RunQueue
  BY <1>9 DEF RunQueue, ToResume
<1>10. CASE Suspend
  BY <1>10 DEF Suspend
<1>11. CASE Stopped \/ Forced
  BY <1>1, <1>11 DEF Stopped, Forced
<1>12. QED
  BY <1>2, <1>3, <1>4, <1>5, <1>6, <1>7, <1>8, <1>9, <1>10, <1>11 DEF Next, Call

-----------------------------------------------------------------------------
(* Completions and the ring.                                               *)

\* A misuse is never forgotten.
LEMMA MisusedStays ==
  ASSUME Next, Misused
  PROVE  Misused'
<1>1. lapses \subseteq lapses'
  BY DEF Next, Call, Run, Pause, Resume, ResetTimer, Cancel, CancelEnd, Release,
     Revive, Tick, TickEnd, Expire, RunQueue, Suspend, Stopped, Forced
<1>2. QED
  BY <1>1 DEF Misused

\* Only a misuse touches, resumes or cancels a handle in its last completion.
LEMMA Untouched ==
  ASSUME FramesOK, OneCompletion, ~Misused, NEW h \in Handles,
         NEW i \in LastCompletion(h), status[h] # "Done", status[h] # "ErrorCancelled"
  PROVE  status[h] = "Declined" /\ WasReset(h)
  BY DEF OneCompletion, LastCompletion, WasReset, Final

\* Through every step a handle has one last completion at a time, and is armed
\* exactly while its status is Ok.
LEMMA CompletionStep ==
  ASSUME TypeOK, FramesOK, PendingOK, OneCompletion, ArmedIffOk, Owned, Next,
         ~Misused'
  PROVE  OneCompletion' /\ ArmedIffOk'
<1> DEFINE Kept == OneCompletion' /\ ArmedIffOk'
<1>1. ~Misused
  BY MisusedStays
<1>2. ASSUME UNCHANGED frames
      PROVE  \A h \in Handles : LastCompletion(h)' = LastCompletion(h)
  BY <1>2 DEF LastCompletion
<1>3. \A h \in Handles : \A i \in LastCompletion(h) : i \in DOMAIN frames /\ frames[i].st \in Final
  BY DEF LastCompletion
<1> USE <1>1 DEF TypeOK, OneCompletion, ArmedIffOk, Become, handleVars, queueVars
<1>4. ASSUME NEW h \in Handles, Run(h) PROVE Kept
  BY <1>2, <1>3, <1>4 DEF Run, Final
<1>5. ASSUME NEW h \in Handles, Pause(h) PROVE Kept
  BY <1>2, <1>3, <1>5 DEF Pause, Final
<1>6. ASSUME NEW h \in Handles, Resume(h) PROVE Kept
  <2>1. ~WasReset(h)
    BY <1>6 DEF Resume, Misused
  <2>2. LastCompletion(h) = {}
    BY <2>1, <1>6, Untouched DEF Resume
  <2>3. QED
    BY <1>2, <1>6, <2>2 DEF Resume, Rearm
<1>7. ASSUME NEW h \in Handles, ResetTimer(h) PROVE Kept
  BY <1>2, <1>3, <1>7 DEF ResetTimer, Final
<1>8. ASSUME NEW h \in Handles, Cancel(h) PROVE Kept
  <2>1. PICK f \in Frame : /\ frames' = Append(frames, f) /\ f.h = h /\ f.st \in Final
                           /\ status' = [status EXCEPT ![h] = f.st]
    BY <1>8, CancelFrame
  <2>2. ~WasReset(h) /\ status[h] \in Cancellable
    BY <1>8 DEF Cancel, Misused
  <2>3. LastCompletion(h) = {}
    BY <2>2, Untouched DEF Cancellable
  <2>4. h \in registered
    BY <2>2 DEF Owned, Cancellable
  <2>5. OneCompletion'
    BY <1>3, <1>8, <2>1, <2>3, <2>4, PushFrame DEF Cancel
  <2>6. ArmedIffOk'
    BY <1>8, <2>1 DEF Cancel, Final
  <2>7. QED
    BY <2>5, <2>6
<1>9. CASE CancelEnd
  <2>1. Last(frames) = frames[Len(frames)] /\ Last(frames) \in Frame
        /\ Last(frames).h \in Handles /\ Len(frames) \in LastCompletion(Last(frames).h)
    BY <1>9, LastFrame DEF CancelEnd, LastCompletion
  <2>2. PICK f \in Frame : /\ f = frames[Len(frames)] /\ f.h \in Handles
                           /\ Len(frames) \in LastCompletion(f.h)
                           /\ Release(f) \/ Revive(f)
    BY <1>9, <2>1 DEF CancelEnd
  <2>3. f.st \in Final /\ f.h \in registered
    BY <1>3, <2>2
  <2>4. status[f.h] = f.st \/ status[f.h] = "Declined"
    BY <2>2
  <2>5. armed[f.h] = 0
    BY <2>2, <2>3, <2>4 DEF Final
  <2>6. /\ \A h \in Handles : LastCompletion(h)' = LastCompletion(h) \ {Len(frames)}
        /\ DOMAIN frames' \subseteq DOMAIN frames
        /\ \A i \in DOMAIN frames' : frames'[i] = frames[i]
    BY <1>9, PopFrame DEF CancelEnd
  <2>7. LastCompletion(f.h)' = {}
        /\ \A h \in Handles : LastCompletion(h)' \subseteq LastCompletion(h)
        /\ DOMAIN frames' \subseteq DOMAIN frames
        /\ \A i \in DOMAIN frames' : frames'[i] = frames[i]
    BY <2>2, <2>6
  <2>8. \A h \in Handles : \A i \in LastCompletion(h)' : i \in DOMAIN frames'
    BY DEF LastCompletion
  <2>9. CASE Release(f)
    BY <2>2, <2>3, <2>7, <2>8, <2>9 DEF Release
  <2>10. CASE Revive(f)
    <3>1. /\ \A h \in Handles \ {f.h} : status'[h] = status[h] /\ armed'[h] = armed[h]
          /\ armed'[f.h] = IF status'[f.h] = "Ok" THEN 1 ELSE 0
          /\ UNCHANGED registered
      BY <2>2, <2>3, <2>10, <2>5 DEF Revive, Final
    <3>2. ASSUME NEW h \in Handles, NEW i \in LastCompletion(h)'
          PROVE  /\ \A j \in LastCompletion(h)' : i = j
                 /\ h \in registered'
                 /\ status'[h] = frames'[i].st \/ status'[h] = "Declined"
      <4>1. h # f.h /\ i \in LastCompletion(h) /\ frames'[i] = frames[i]
        BY <2>7, <2>8, <3>2
      <4>2. QED
        BY <2>7, <3>1, <4>1
    <3>3. ArmedIffOk'
      BY <2>2, <3>1
    <3>4. QED
      BY <3>2, <3>3 DEF OneCompletion
  <2>11. QED
    BY <2>2, <2>9, <2>10
<1>10. ASSUME NEW h \in Handles, Tick(h) PROVE Kept
  <2>1. \A g \in Handles : LastCompletion(g)' = {}
    BY <1>10 DEF Tick, LastCompletion, Final
  <2>2. QED
    BY <1>10, <2>1 DEF Tick
<1>11. CASE TickEnd
  <2>1. \A h \in Handles : LastCompletion(h)' \subseteq LastCompletion(h)
        /\ \A i \in LastCompletion(h)' : frames'[i] = frames[i]
    BY <1>11, PopFrame DEF TickEnd, LastCompletion
  <2>2. UNCHANGED <<status, armed, registered, lapses>>
    BY <1>11 DEF TickEnd
  <2>3. OneCompletion'
    BY <2>1, <2>2
  <2>4. ArmedIffOk'
    BY <2>2
  <2>5. QED
    BY <2>3, <2>4
<1>12. ASSUME NEW h \in Handles, Expire(h) PROVE Kept
  <2>1. PICK f \in Frame : /\ frames' = Append(frames, f) /\ f.h = h /\ f.st \in Final
                           /\ status' = [status EXCEPT ![h] = f.st]
    BY <1>12, ExpireFrame
  <2>2. \A g \in Handles : LastCompletion(g) = {}
    BY <1>12 DEF Expire, LastCompletion
  <2>3. h \in registered
    BY <1>12 DEF Expire, Owned
  <2>4. /\ LastCompletion(h)' = {Len(frames) + 1} /\ frames'[Len(frames) + 1] = f
        /\ \A g \in Handles : g # h => LastCompletion(g)' = {}
    BY <2>1, <2>2, PushFrame
  <2>5. OneCompletion'
    BY <1>12, <2>1, <2>3, <2>4 DEF Expire
  <2>6. ArmedIffOk'
    BY <1>12, <2>1 DEF Expire, Final
  <2>7. QED
    BY <2>5, <2>6
<1>13. CASE RunQueue
  <2>1. \A h \in Handles : LastCompletion(h)' = {}
    BY <1>13 DEF RunQueue, LastCompletion
  <2>2. \A h \in ToResume \cup pending : status[h] # "Ok"
    BY DEF ToResume, PendingOK
  <2>3. QED
    BY <1>13, <2>1, <2>2 DEF RunQueue
<1>14. CASE Suspend
  <2>1. \A h \in Handles : LastCompletion(h)' = {}
    BY <1>14 DEF Suspend, LastCompletion
  <2>2. \A h \in Handles : status[h] = "Ok" => h \in registered
    BY DEF Owned
  <2>3. QED
    BY <1>14, <2>1, <2>2 DEF Suspend
<1>15. CASE Stopped \/ Forced
  BY <1>2, <1>3, <1>15 DEF Stopped, Forced
<1>16. QED
  BY <1>4, <1>5, <1>6, <1>7, <1>8, <1>9, <1>10, <1>11, <1>12, <1>13, <1>14, <1>15
     DEF Next, Call

-----------------------------------------------------------------------------
(* Ownership and the counters.                                             *)

\* The queue has finitely many handles.
LEMMA Finite ==
  ASSUME NEW S \in SUBSET Handles
  PROVE  IsFiniteSet(S) /\ Cardinality(S) \in Nat
  BY HandlesAssumption, FS_Subset, FS_CardinalityType

\* Two lots of handles that share none are counted together.
LEMMA CardDisjoint ==
  ASSUME NEW S \in SUBSET Handles, NEW T \in SUBSET Handles, S \cap T = {}
  PROVE  Cardinality(S \cup T) = Cardinality(S) + Cardinality(T)
<1>1. IsFiniteSet(S) /\ IsFiniteSet(T) /\ Cardinality(S \cap T) = 0
      /\ Cardinality(S) \in Nat /\ Cardinality(T) \in Nat
  BY Finite, FS_EmptySet
<1>2. Cardinality(S \cup T) = Cardinality(S) + Cardinality(T) - Cardinality(S \cap T)
  BY <1>1, FS_Union
<1>3. QED
  BY <1>1, <1>2

\* Between completions no handle is in its last one.
LEMMA NoCompletion ==
  /\ frames = <<>> => \A h \in Handles : LastCompletion(h) = {}
  /\ frames' = <<>> => \A h \in Handles : LastCompletion(h)' = {}
  BY DEF LastCompletion

\* The queue has each handle from its first run to its release, and counts it.
LEMMA OwnedStep ==
  ASSUME TypeOK, FramesOK, PendingOK, OneCompletion, Owned, Next, ~Misused'
  PROVE  Owned'
<1>1. ~Misused
  BY MisusedStays
<1>2. ASSUME UNCHANGED frames
      PROVE  \A h \in Handles : LastCompletion(h)' = LastCompletion(h)
  BY <1>2 DEF LastCompletion
<1>3. \A h \in Handles : \A i \in LastCompletion(h) : i \in DOMAIN frames /\ frames[i].st \in Final
  BY DEF LastCompletion
<1> USE <1>1 DEF TypeOK, Owned, Become, handleVars, queueVars
<1>4. ASSUME NEW h \in Handles, Run(h) PROVE Owned'
  <2>1. CASE running
    <3>1. /\ registered' = registered \cup {h} /\ h \notin registered
          /\ runningHandles' = runningHandles + 1
      BY <1>4, <2>1 DEF Run
    <3>2. runningHandles' = Cardinality(registered')
      BY <3>1, Finite, FS_AddElement
    <3>3. QED
      BY <1>2, <1>4, <2>1, <3>1, <3>2 DEF Run, Final
  <2>2. CASE ~running
    BY <1>2, <1>4, <2>2 DEF Run
  <2>3. QED
    BY <2>1, <2>2
<1>5. ASSUME NEW h \in Handles, Pause(h) PROVE Owned'
  BY <1>2, <1>5 DEF Pause, Final
<1>6. ASSUME NEW h \in Handles, Resume(h) PROVE Owned'
  BY <1>2, <1>6 DEF Resume, Rearm, Final
<1>7. ASSUME NEW h \in Handles, ResetTimer(h) PROVE Owned'
  BY <1>2, <1>7 DEF ResetTimer, Final, Misused
<1>8. ASSUME NEW h \in Handles, Cancel(h) PROVE Owned'
  <2>1. PICK f \in Frame : /\ frames' = Append(frames, f) /\ f.h = h /\ f.st \in Final
                           /\ status' = [status EXCEPT ![h] = f.st]
    BY <1>8, CancelFrame
  <2>2. LastCompletion(h)' # {}
        /\ \A g \in Handles : LastCompletion(g)' = {} => LastCompletion(g) = {}
    BY <2>1, PushFrame
  <2>3. QED
    BY <1>8, <2>1, <2>2 DEF Cancel, Cancellable, Final
<1>9. CASE CancelEnd
  <2>1. Last(frames) = frames[Len(frames)] /\ Last(frames) \in Frame
        /\ Last(frames).h \in Handles /\ Len(frames) \in LastCompletion(Last(frames).h)
    BY <1>9, LastFrame DEF CancelEnd, LastCompletion
  <2>2. PICK f \in Frame : /\ f = frames[Len(frames)] /\ f.h \in Handles
                           /\ Len(frames) \in LastCompletion(f.h)
                           /\ Release(f) \/ Revive(f)
    BY <1>9, <2>1 DEF CancelEnd
  <2>3. f.st \in Final /\ f.h \in registered
    BY <1>3, <2>2 DEF OneCompletion
  <2>4. \A h \in Handles \ {f.h} : LastCompletion(h)' = LastCompletion(h)
    BY <1>9, <2>2, PopFrame DEF CancelEnd, LastCompletion
  <2>5. CASE Release(f)
    <3>1. registered' = registered \ {f.h} /\ runningHandles' = runningHandles - 1
      BY <2>5 DEF Release
    <3>2. runningHandles' = Cardinality(registered')
      BY <2>3, <3>1, Finite, FS_RemoveElement
    <3>3. QED
      BY <2>2, <2>3, <2>4, <2>5, <3>1, <3>2 DEF Release, Final
  <2>6. CASE Revive(f)
    BY <2>2, <2>3, <2>4, <2>6 DEF Revive, Final
  <2>7. QED
    BY <2>2, <2>5, <2>6
<1>10. ASSUME NEW h \in Handles, Tick(h) PROVE Owned'
  <2>1. \A g \in Handles : LastCompletion(g) = {}
    BY <1>10, NoCompletion DEF Tick
  <2>2. QED
    BY <1>10, <2>1 DEF Tick
<1>11. CASE TickEnd
  <2>1. \A h \in Handles : LastCompletion(h)' = LastCompletion(h)
    BY <1>11, PopFrame, LastFrame DEF TickEnd, LastCompletion, Final
  <2>2. QED
    BY <1>11, <2>1 DEF TickEnd
<1>12. ASSUME NEW h \in Handles, Expire(h) PROVE Owned'
  <2>1. PICK f \in Frame : /\ frames' = Append(frames, f) /\ f.h = h /\ f.st \in Final
                           /\ status' = [status EXCEPT ![h] = f.st]
    BY <1>12, ExpireFrame
  <2>2. LastCompletion(h)' # {}
        /\ \A g \in Handles : LastCompletion(g)' = {} => LastCompletion(g) = {}
    BY <2>1, PushFrame
  <2>3. QED
    BY <1>12, <2>1, <2>2 DEF Expire, Final
<1>13. CASE RunQueue
  <2> DEFINE P == IF running THEN {} ELSE pending
  <2>1. registered' = registered \cup P /\ runningHandles' = runningHandles + Cardinality(P)
    BY <1>13 DEF RunQueue
  <2>2. P \in SUBSET Handles /\ registered \in SUBSET Handles /\ registered \cap P = {}
        /\ registered \cup P \in SUBSET Handles
    BY DEF PendingOK
  <2>3. runningHandles' = Cardinality(registered')
    BY <2>1, <2>2, CardDisjoint
  <2>4. QED
    BY <1>2, <1>13, <2>1, <2>3 DEF RunQueue, PendingOK, ToResume, Final
<1>14. CASE Suspend
  BY <1>2, <1>14 DEF Suspend, Final
<1>15. CASE Stopped \/ Forced
  BY <1>2, <1>15 DEF Stopped, Forced
<1>16. QED
  BY <1>4, <1>5, <1>6, <1>7, <1>8, <1>9, <1>10, <1>11, <1>12, <1>13, <1>14, <1>15
     DEF Next, Call

\* One handle more, one fewer: what the counter does, the counted handles do.
LEMMA CountedMoves ==
  ASSUME SuspendedCounted, TypeOK, lapses = {},
         \/ Counted' = Counted /\ suspendedHandles' = suspendedHandles
         \/ \E h \in Handles \ Counted :
              Counted' = Counted \cup {h} /\ suspendedHandles' = suspendedHandles + 1
         \/ \E h \in Counted :
              Counted' = Counted \ {h} /\ suspendedHandles' = suspendedHandles - 1
  PROVE  SuspendedCounted'
<1>1. Counted \in SUBSET Handles
  BY DEF Counted, TypeOK
<1>2. IsFiniteSet(Counted) /\ Cardinality(Counted) \in Nat
      /\ suspendedHandles = Cardinality(Counted)
  BY <1>1, Finite DEF SuspendedCounted
<1>3. QED
  BY <1>2, FS_AddElement, FS_RemoveElement DEF SuspendedCounted

\* While no call has upset it, suspendedHandles moves with the handles it
\* stands for, in and out of nested completions.
LEMMA CountedStep ==
  ASSUME TypeOK, FramesOK, PendingOK, OneCompletion, Owned, SuspendedCounted, Next,
         lapses' = {}
  PROVE  SuspendedCounted'
<1> DEFINE Same == Counted' = Counted /\ UNCHANGED suspendedHandles
           More(h) == h \notin Counted /\ Counted' = Counted \cup {h}
                      /\ suspendedHandles' = suspendedHandles + 1
           Less(h) == h \in Counted /\ Counted' = Counted \ {h}
                      /\ suspendedHandles' = suspendedHandles - 1
<1>1. lapses = {} /\ ~Misused
  BY MisusedStays DEF Next, Call, Run, Pause, Resume, ResetTimer, Cancel, CancelEnd,
     Release, Revive, Tick, TickEnd, Expire, RunQueue, Suspend, Stopped, Forced,
     Misused
<1>2. ASSUME UNCHANGED frames
      PROVE  \A h \in Handles : LastCompletion(h)' = LastCompletion(h)
  BY <1>2 DEF LastCompletion
<1>3. \A h \in Handles : \A i \in LastCompletion(h) :
        i \in DOMAIN frames /\ frames[i].st \in Final
  BY DEF LastCompletion
<1> USE <1>1 DEF TypeOK, Owned, Become, handleVars, queueVars
<1>4. Counted \subseteq registered /\ Counted' \subseteq registered'
  BY DEF Counted
<1> USE DEF Final
<1>5. ASSUME NEW h \in Handles, Run(h) PROVE Same
  <2>1. LastCompletion(h) = {} /\ h \notin Counted
    BY <1>3, <1>5 DEF Run, OneCompletion, Counted
  <2>2. QED
    BY <1>2, <1>5, <2>1 DEF Run, Counted
<1>6. ASSUME NEW h \in Handles, Pause(h) PROVE Same \/ More(h)
  <2>1. LastCompletion(h) = {}
    BY <1>3, <1>6 DEF Pause, OneCompletion
  <2>2. QED
    BY <1>2, <1>6, <2>1 DEF Pause, Counted
<1>7. ASSUME NEW h \in Handles, Resume(h) PROVE Less(h)
  <2>1. running /\ ~WasReset(h) /\ status[h] \in {"Suspended", "Declined"}
    BY <1>7 DEF Resume
  <2>2. LastCompletion(h) = {}
    BY <2>1, Untouched
  <2>3. QED
    BY <1>2, <1>7, <2>1, <2>2 DEF Resume, Rearm, Counted
<1>8. ASSUME NEW h \in Handles, ResetTimer(h) PROVE Same
  <2>1. status[h] = "Done" => h \in registered /\ LastCompletion(h) # {}
    BY <1>8 DEF ResetTimer
  <2>2. QED
    BY <1>2, <1>8, <2>1 DEF ResetTimer, Counted
<1>9. ASSUME NEW h \in Handles, Cancel(h) PROVE Same \/ More(h)
  <2>1. PICK f \in Frame : /\ frames' = Append(frames, f) /\ f.h = h /\ f.st \in Final
                           /\ f.counted /\ status' = [status EXCEPT ![h] = f.st]
    BY <1>9, CancelFrame
  <2>2. ~WasReset(h) /\ status[h] \in Cancellable
    BY <1>9 DEF Cancel
  <2>3. LastCompletion(h) = {} /\ h \in registered
    BY <2>2, Untouched DEF Cancellable
  <2>4. LastCompletion(h)' = {Len(frames) + 1} /\ frames'[Len(frames) + 1].counted
    BY <2>1, <2>3, PushFrame
  <2>5. \A g \in Handles \ {h} : LastCompletion(g)' = LastCompletion(g)
    BY <2>1, PushFrame
  <2>6. \A g \in Handles : \A i \in LastCompletion(g) : frames'[i] = frames[i]
    BY <1>3, <2>1, PushFrame
  <2>7. ASSUME NEW g \in registered \ {h} PROVE g \in Counted' <=> g \in Counted
    <3>1. /\ g \in Handles \ {h} /\ status'[g] = status[g] /\ g \in registered'
          /\ LastCompletion(g)' = LastCompletion(g)
      BY <1>9, <2>1, <2>5 DEF Cancel
    <3>2. (\E i \in LastCompletion(g)' : frames'[i].counted)
            <=> \E i \in LastCompletion(g) : frames[i].counted
      BY <2>6, <3>1
    <3>3. QED
      BY <3>1, <3>2 DEF Counted
  <2>8. h \in Counted' /\ (h \in Counted <=> status[h] \in {"Suspended", "Declined"})
    BY <1>9, <2>3, <2>4 DEF Cancel, Counted
  <2>9. UNCHANGED registered
    BY <1>9 DEF Cancel
  <2>10. suspendedHandles' = suspendedHandles + (IF h \in Counted THEN 0 ELSE 1)
    BY <1>9, <2>2, <2>8 DEF Cancel, Cancellable
  <2>11. Counted' = Counted \cup {h}
    BY <1>4, <2>3, <2>7, <2>8, <2>9
  <2>12. QED
    BY <2>10, <2>11
<1>10. ASSUME CancelEnd PROVE Same \/ \E h \in Handles : Less(h)
  <2>1. Last(frames) = frames[Len(frames)] /\ Last(frames) \in Frame
        /\ Last(frames).h \in Handles /\ Len(frames) \in LastCompletion(Last(frames).h)
    BY <1>10, LastFrame DEF CancelEnd, LastCompletion
  <2>2. PICK f \in Frame : /\ f = frames[Len(frames)] /\ f.h \in Handles
                           /\ Len(frames) \in LastCompletion(f.h)
                           /\ Release(f) \/ Revive(f)
    BY <1>10, <2>1 DEF CancelEnd
  <2>3. f.h \in registered /\ LastCompletion(f.h) = {Len(frames)}
    BY <2>2 DEF OneCompletion
  <2>4. f.h \in Counted <=> f.counted
    BY <2>2, <2>3 DEF Counted
  <2>5. /\ LastCompletion(f.h)' = {}
        /\ \A h \in Handles \ {f.h} :
             /\ LastCompletion(h)' = LastCompletion(h)
             /\ \A i \in LastCompletion(h) : frames'[i] = frames[i]
    BY <1>10, <2>2, <2>3, PopFrame DEF CancelEnd, LastCompletion
  <2>6. CASE Release(f)
    <3>1. \A h \in registered \ {f.h} : h \in Counted' <=> h \in Counted
      BY <2>5, <2>6 DEF Release, Counted
    <3>2. f.h \notin Counted' /\ registered' = registered \ {f.h}
      BY <2>6 DEF Release, Counted
    <3>3. f.from = "Declined" <=> f.counted
      BY <1>3, <2>2, <2>6, FrameType DEF Release, FramesOK
    <3>4. suspendedHandles' = suspendedHandles - (IF f.h \in Counted THEN 1 ELSE 0)
      BY <2>4, <2>6, <3>3 DEF Release, OffCounter
    <3>5. Counted' = Counted \ {f.h}
      BY <1>4, <3>1, <3>2
    <3>6. CASE f.h \in Counted
      BY <2>2, <3>4, <3>5, <3>6
    <3>7. CASE f.h \notin Counted
      BY <3>4, <3>5, <3>7
    <3>8. QED
      BY <3>6, <3>7
  <2>7. CASE Revive(f)
    <3>1. running /\ f.counted
      BY <2>7 DEF Revive
    <3>2. status' = [status EXCEPT ![f.h] = "Ok"] /\ UNCHANGED registered
          /\ suspendedHandles' = suspendedHandles - 1
      BY <2>3, <2>7, <3>1 DEF Revive
    <3>3. \A h \in registered \ {f.h} : h \in Counted' <=> h \in Counted
      BY <2>5, <3>2 DEF Counted
    <3>4. f.h \notin Counted'
      BY <2>2, <2>5, <3>2 DEF Counted
    <3>5. Less(f.h)
      BY <1>4, <2>4, <3>1, <3>2, <3>3, <3>4
    <3>6. QED
      BY <2>2, <3>5
  <2>8. QED
    BY <2>2, <2>6, <2>7
<1>11. ASSUME NEW h \in Handles, Tick(h) PROVE Same
  <2>1. \A g \in Handles : LastCompletion(g) = {} /\ LastCompletion(g)' = {}
    BY <1>11 DEF Tick, LastCompletion
  <2>2. QED
    BY <1>11, <2>1 DEF Tick, Counted
<1>12. ASSUME TickEnd PROVE Same
  <2>1. \A h \in Handles : /\ LastCompletion(h)' = LastCompletion(h)
                           /\ \A i \in LastCompletion(h) : frames'[i] = frames[i]
    BY <1>12, PopFrame, LastFrame DEF TickEnd, LastCompletion
  <2>2. UNCHANGED <<registered, status, suspendedHandles>>
    BY <1>12 DEF TickEnd
  <2>3. \A h \in registered : h \in Counted' <=> h \in Counted
    BY <2>1, <2>2 DEF Counted
  <2>4. QED
    BY <1>4, <2>2, <2>3
<1>13. ASSUME NEW h \in Handles, Expire(h) PROVE Same
  <2>1. PICK f \in Frame : /\ frames' = Append(frames, f) /\ f.h = h /\ f.st \in Final
                           /\ ~f.counted /\ status' = [status EXCEPT ![h] = f.st]
    BY <1>13, ExpireFrame
  <2>2. \A g \in Handles : LastCompletion(g) = {}
    BY <1>13, NoCompletion DEF Expire
  <2>3. /\ LastCompletion(h)' = {Len(frames) + 1} /\ ~frames'[Len(frames) + 1].counted
        /\ \A g \in Handles \ {h} : LastCompletion(g)' = {}
    BY <2>1, <2>2, PushFrame
  <2>4. QED
    BY <1>13, <2>1, <2>2, <2>3 DEF Expire, Counted
<1>14. CASE RunQueue
  <2> DEFINE S == IF running THEN {} ELSE ToResume
  <2>1. \A h \in Handles : LastCompletion(h) = {} /\ LastCompletion(h)' = {}
    BY <1>14, NoCompletion DEF RunQueue
  <2>2. Counted = Counted' \cup S /\ Counted' \cap S = {}
    BY <1>14, <2>1 DEF RunQueue, ToResume, PendingOK, Counted
  <2>3. Counted' \in SUBSET Handles /\ S \in SUBSET Handles
    BY <2>2, <1>4 DEF ToResume
  <2>4. Cardinality(Counted) = Cardinality(Counted') + Cardinality(S)
    BY <2>2, <2>3, CardDisjoint
  <2>5. suspendedHandles' = suspendedHandles - Cardinality(S)
    BY <1>14 DEF RunQueue
  <2>6. QED
    BY <2>3, <2>4, <2>5, Finite DEF SuspendedCounted
<1>15. CASE Suspend
  <2> DEFINE S == {h \in registered : status[h] = "Ok"}
  <2>1. \A h \in Handles : LastCompletion(h) = {} /\ LastCompletion(h)' = {}
    BY <1>15, NoCompletion DEF Suspend
  <2>2. Counted' = Counted \cup S /\ Counted \cap S = {}
    BY <1>15, <2>1 DEF Suspend, Counted
  <2>3. Counted \in SUBSET Handles /\ S \in SUBSET Handles
    BY <1>4
  <2>4. Cardinality(Counted') = Cardinality(Counted) + Cardinality(S)
    BY <2>2, <2>3, CardDisjoint
  <2>5. suspendedHandles' = suspendedHandles + Cardinality(S)
    BY <1>15 DEF Suspend
  <2>6. QED
    BY <2>4, <2>5 DEF SuspendedCounted
<1>16. ASSUME Stopped \/ Forced PROVE Same
  BY <1>2, <1>16 DEF Stopped, Forced, Counted
<1>17. QED
  BY <1>5, <1>6, <1>7, <1>8, <1>9, <1>10, <1>11, <1>12, <1>13, <1>14, <1>15, <1>16,
     <1>4, CountedMoves DEF Next, Call

-----------------------------------------------------------------------------
(* The theorems.                                                           *)

\* While the queue stops nothing is called back and nothing is armed.
LEMMA StoppingStep ==
  ASSUME TypeOK, FramesOK, PendingOK, OneCompletion, Owned, StoppingOK, Next
  PROVE  StoppingOK'
<1> USE DEF StoppingOK
<1>1. ASSUME NEW h \in Handles, Call(h) PROVE context' = context /\ context # "stopping"
  BY <1>1 DEF Call, Run, Pause, Resume, ResetTimer, Cancel, Calls, queueVars
<1>2. ASSUME NEW h \in Handles, Tick(h) \/ Expire(h)
      PROVE  context' = context /\ context # "stopping"
  BY <1>2 DEF Tick, Expire, queueVars
<1>3. CASE CancelEnd
  BY <1>3 DEF CancelEnd, Release, Revive, queueVars
<1>4. CASE TickEnd
  BY <1>4 DEF TickEnd, queueVars
<1>5. CASE RunQueue
  BY <1>5 DEF RunQueue
<1>6. CASE Suspend
  <2>1. frames' = <<>> /\ registered' = registered /\ lapses' = lapses
        /\ \A h \in registered :
             status'[h] = IF status[h] = "Ok" THEN "Suspended" ELSE status[h]
    BY <1>6 DEF Suspend, TypeOK
  <2>2. ASSUME lapses = {}, NEW h \in registered
        PROVE  status[h] \in {"Ok", "Suspended", "Declined"}
    BY <1>6, <2>2, NoCompletion DEF Owned, Misused, Suspend, TypeOK
  <2>3. QED
    BY <2>1, <2>2
<1>7. CASE Stopped \/ Forced
  BY <1>7 DEF Stopped, Forced
<1>8. QED
  BY <1>1, <1>2, <1>3, <1>4, <1>5, <1>6, <1>7 DEF Next

\* The inductive invariant holds of a fresh queue.
LEMMA InvInit == Init => IInv
<1> SUFFICES ASSUME Init PROVE IInv
  OBVIOUS
<1>1. DOMAIN frames = {} /\ frames \in Seq(Frame)
  BY DEF Init
<1>2. \A h \in Handles : LastCompletion(h) = {}
  BY <1>1 DEF LastCompletion
<1>3. TypeOK
  <2>1. left \in [Handles -> Counts] /\ calls = 0
    BY DEF Init
  <2>2. left \in [Handles -> Nat]
    BY <2>1, CountsAssumption
  <2>3. left \in [Handles -> Nat] /\ calls \in 0..MaxCalls
    BY <2>1, <2>2, HandlesAssumption
  <2>4. status \in [Handles -> {"Pending"}] /\ armed \in [Handles -> Nat]
        /\ released \in [Handles -> Nat]
    BY DEF Init
  <2>5. running \in BOOLEAN /\ context = "none" /\ registered = {} /\ pending = {}
        /\ runningHandles = 0 /\ suspendedHandles = 0
    BY Zenon DEF Init
  <2>6. QED
    BY <2>3, <2>4, <2>5 DEF TypeOK
<1>4. FramesOK /\ PendingOK /\ OneCompletion /\ ArmedIffOk /\ StoppingOK
  BY <1>1, <1>2 DEF Init, FramesOK, PendingOK, OneCompletion, ArmedIffOk, StoppingOK
<1>5. Counted = {} /\ registered = {}
  BY DEF Init, Counted
<1>6. Owned /\ SuspendedCounted
  BY <1>5, FS_EmptySet DEF Init, Owned, SuspendedCounted, Final
<1>7. QED
  BY <1>3, <1>4, <1>6 DEF IInv

\* Every step of the program and of the queue keeps the inductive invariant.
LEMMA InvStep == IInv /\ [Next]_vars => IInv'
<1> SUFFICES ASSUME IInv, [Next]_vars PROVE IInv'
  OBVIOUS
<1>1. CASE Next
  <2>1. TypeOK' /\ FramesOK' /\ PendingOK'
    BY <1>1, TypeStep, FramesStep, PendingStep DEF IInv
  <2>2. OneCompletion' /\ ArmedIffOk'
    BY <1>1, CompletionStep DEF IInv, OneCompletion, ArmedIffOk
  <2>3. Owned'
    BY <1>1, OwnedStep DEF IInv, Owned
  <2>4. SuspendedCounted'
    BY <1>1, CountedStep DEF IInv, SuspendedCounted
  <2>5. StoppingOK'
    BY <1>1, StoppingStep DEF IInv
  <2>6. QED
    BY <2>1, <2>2, <2>3, <2>4, <2>5 DEF IInv
<1>2. CASE UNCHANGED vars
  BY <1>2 DEF IInv, TypeOK, FramesOK, PendingOK, OneCompletion, ArmedIffOk, Owned,
     SuspendedCounted, StoppingOK, LastCompletion, Counted, Misused, vars,
     handleVars, queueVars
<1>3. QED
  BY <1>1, <1>2

\* The inductive invariant holds in every behaviour.
LEMMA InvAlways == Spec => []IInv
  BY InvInit, InvStep, PTL DEF Spec

\* Every variable keeps its type.
THEOREM TypeCorrect == Spec => []TypeOK
<1>1. IInv => TypeOK
  BY DEF IInv
<1>2. QED
  BY InvAlways, <1>1, PTL

\* A timer is armed in the ring once, and only while its status says so, however
\* deep the completions that pause, resume, reset and cancel it are nested.
THEOREM ArmedExactly == Spec => []ArmedIffOk
<1>1. IInv => ArmedIffOk
  BY DEF IInv
<1>2. QED
  BY InvAlways, <1>1, PTL

\* A handle is released once, when its final status is settled, and the queue
\* counts exactly those it still has.
THEOREM HandlesReleasedOnce == Spec => []ReleasedOnce
<1>1. IInv => ReleasedOnce
  <2> SUFFICES ASSUME IInv, ~Misused, NEW h \in Handles
               PROVE  /\ runningHandles = Cardinality(registered)
                      /\ released[h] <= 1
                      /\ released[h] = 1 => h \notin registered /\ armed[h] = 0
                                            /\ status[h] \in Final
                      /\ status[h] \in Final /\ "resetStopped" \notin lapses
                           /\ (\A i \in DOMAIN frames : frames[i].h # h)
                           => released[h] = 1
    BY DEF ReleasedOnce, IInv, Owned
  <2>1. (\A i \in DOMAIN frames : frames[i].h # h) => LastCompletion(h) = {}
    BY DEF LastCompletion
  <2>2. QED
    BY <2>1 DEF IInv, TypeOK, Owned, ArmedIffOk, Final
<1>2. QED
  BY InvAlways, <1>1, PTL

\* Between completions suspendedHandles is the number of suspended and paused
\* handles, unless one of the named lapses has upset it.
THEOREM SuspendedIsExact == Spec => []SuspendedExact
<1>1. IInv => SuspendedExact
  <2> SUFFICES ASSUME IInv, frames = <<>>, lapses = {}
               PROVE  suspendedHandles = Cardinality(
                        {h \in registered : status[h] \in {"Suspended", "Declined"}})
    BY DEF SuspendedExact
  <2>1. Counted = {h \in registered : status[h] \in {"Suspended", "Declined"}}
    BY NoCompletion DEF Counted, IInv, TypeOK
  <2>2. QED
    BY <2>1 DEF IInv, SuspendedCounted
<1>2. QED
  BY InvAlways, <1>1, PTL

\* A graceful stop finds its counters equal, unless a lapse has upset them: it
\* does not wait for a handle that nothing will suspend.
THEOREM GracefulStopFinds == Spec => []GracefulStopEndsUnlessLapsed
<1>1. IInv => GracefulStopEndsUnlessLapsed
  <2> SUFFICES ASSUME IInv, lapses = {}, context = "stopping"
               PROVE  suspendedHandles = runningHandles
    BY DEF GracefulStopEndsUnlessLapsed, GracefulStopEnds
  <2>1. Counted = registered
    BY NoCompletion DEF Counted, IInv, TypeOK, StoppingOK
  <2>2. QED
    BY <2>1 DEF IInv, SuspendedCounted, Owned, Misused
<1>2. QED
  BY InvAlways, <1>1, PTL

\* Neither the end of a run nor the start of the next arms what the program has
\* paused.
THEOREM PausedIsKept == Spec => PausedStaysPaused
<1> DEFINE Kept == \A h \in Handles :
      status[h] = "Declined" /\ status'[h] # "Declined" => calls' # calls \/ frames # <<>>
<1>1. IInv /\ [Next]_vars => [Kept]_vars
  <2> SUFFICES ASSUME IInv, Next PROVE Kept
    OBVIOUS
  <2> USE DEF IInv, TypeOK
  <2>1. ASSUME NEW h \in Handles, Call(h) PROVE calls' # calls
    <3>1. calls \in Int
      BY HandlesAssumption
    <3>2. calls' = calls + 1
      BY <2>1 DEF Call, Run, Pause, Resume, ResetTimer, Cancel, Calls
    <3>3. QED
      BY <3>1, <3>2
  <2>2. ASSUME NEW h \in Handles, Tick(h) \/ Expire(h) PROVE Kept
    BY <2>2 DEF Tick, Expire, Finish, handleVars
  <2>3. CASE CancelEnd \/ TickEnd
    BY <2>3 DEF CancelEnd, TickEnd
  <2>4. CASE RunQueue
    BY <2>4 DEF RunQueue, ToResume, PendingOK
  <2>5. CASE Suspend
    BY <2>5 DEF Suspend
  <2>6. CASE Stopped \/ Forced
    BY <2>6 DEF Stopped, Forced, handleVars
  <2>7. QED
    BY <2>1, <2>2, <2>3, <2>4, <2>5, <2>6 DEF Next
<1>2. QED
  BY InvAlways, <1>1, PTL DEF Spec, PausedStaysPaused
=============================================================================
