-------------------------- MODULE EventLoopProofs --------------------------
(***************************************************************************)
(* Proofs about EventLoop for every set of posts and wakers, every number  *)
(* of buffers, and every bound on calls and nesting: what the queue and    *)
(* its two handles say of each other, that a run can be woken, that        *)
(* somebody announces what was posted, and that the loop is a Mailbox.     *)
(***************************************************************************)
EXTENDS EventLoop, FiniteSetTheorems, SequenceTheorems, TLAPS

-----------------------------------------------------------------------------
(* Submissions.                                                            *)

\* The four sets of handles.
LEMMA HandleSets ==
  ASSUME NEW H \in SUBSET Handles
  PROVE  H = {} \/ H = {"thread"} \/ H = {"wake"} \/ H = {"thread", "wake"}
  BY DEF Handles

\* Reads and cancellations for a set of handles: one for each of them.
LEMMA ReadsFor ==
  ASSUME NEW H \in SUBSET Handles, timeline \in [Handles -> 0..7]
  PROVE  /\ Reads(H) \in Seq(Submissions) /\ Cancels(H) \in Seq(Submissions)
         /\ \A i \in DOMAIN Reads(H) : Reads(H)[i].op = "read"
         /\ \A h \in H : \E i \in DOMAIN Reads(H) : Reads(H)[i] = Read(h)
<1>1. /\ \A h \in Handles : Read(h) \in Submissions /\ Cancel(h) \in Submissions
      /\ \A h : Read(h).op = "read"
  BY DEF Read, Cancel, Submissions
<1>2. /\ InOrder(H) \in Seq(Handles)
      /\ \A h \in H : \E i \in DOMAIN InOrder(H) : InOrder(H)[i] = h
  <2>1. \A h \in Handles : /\ <<h>> \in Seq(Handles) /\ Len(<<h>>) = 1
                          /\ 1 \in DOMAIN <<h>> /\ <<h>>[1] = h
    OBVIOUS
  <2>2. <<>> \in Seq(Handles)
    OBVIOUS
  <2>3. CASE H = {}
    BY <2>2, <2>3 DEF InOrder
  <2>4. CASE H = {"thread"}
    <3>1. InOrder(H) = <<"thread">>
      BY <2>1, <2>4, ConcatEmptySeq DEF InOrder, Handles
    <3>2. QED
      BY <2>1, <2>4, <3>1 DEF Handles
  <2>5. CASE H = {"wake"}
    <3>1. InOrder(H) = <<"wake">>
      BY <2>1, <2>5, ConcatEmptySeq DEF InOrder, Handles
    <3>2. QED
      BY <2>1, <2>5, <3>1 DEF Handles
  <2>6. CASE H = {"thread", "wake"}
    <3>1. InOrder(H) = <<"thread">> \o <<"wake">>
      BY <2>6 DEF InOrder
    <3>2. /\ InOrder(H) \in Seq(Handles) /\ Len(InOrder(H)) = 2
          /\ InOrder(H)[1] = "thread" /\ InOrder(H)[2] = "wake"
      BY <2>1, <3>1, ConcatProperties DEF Handles
    <3>3. QED
      BY <2>6, <3>2
  <2>7. QED
    BY <2>3, <2>4, <2>5, <2>6, HandleSets
<1>3. /\ DOMAIN Reads(H) = DOMAIN InOrder(H) /\ DOMAIN Cancels(H) = DOMAIN InOrder(H)
      /\ \A i \in DOMAIN InOrder(H) :
           Reads(H)[i] = Read(InOrder(H)[i]) /\ Cancels(H)[i] = Cancel(InOrder(H)[i])
  BY DEF Reads, Cancels
<1>4. DOMAIN InOrder(H) = 1..Len(InOrder(H)) /\ Len(InOrder(H)) \in Nat
  BY <1>2
<1>5. /\ Reads(H) = [i \in 1..Len(InOrder(H)) |-> Read(InOrder(H)[i])]
      /\ Cancels(H) = [i \in 1..Len(InOrder(H)) |-> Cancel(InOrder(H)[i])]
      /\ \A i \in 1..Len(InOrder(H)) : InOrder(H)[i] \in Handles
  BY <1>2, <1>4 DEF Reads, Cancels
<1>6. Reads(H) \in Seq(Submissions)
  BY <1>1, <1>4, <1>5, IsASeq
<1>7. Cancels(H) \in Seq(Submissions)
  BY <1>1, <1>4, <1>5, IsASeq
<1>8. QED
  BY <1>1, <1>2, <1>3, <1>6, <1>7

\* More reads behind what is submitted: no handle stops being read.
LEMMA SubmitReads ==
  ASSUME ControlOK, NEW S \in Seq(Submissions), \A i \in DOMAIN S : S[i].op = "read",
         sq' = sq \o S, timeline' = timeline, inflight' = inflight
  PROVE  /\ sq' \in Seq(Submissions)
         /\ \A h \in Handles : Reading(h) => Reading(h)'
         /\ \A h \in Handles : (\E i \in DOMAIN S : S[i] = Read(h)) => Reading(h)'
<1>1. /\ sq \in Seq(Submissions) /\ sq' \in Seq(Submissions)
      /\ Len(sq) \in Nat /\ Len(S) \in Nat /\ Len(sq') = Len(sq) + Len(S)
      /\ DOMAIN sq = 1..Len(sq) /\ DOMAIN S = 1..Len(S) /\ DOMAIN sq' = 1..Len(sq')
  BY ConcatProperties DEF ControlOK
<1>2. /\ \A i \in 1..Len(sq) : sq'[i] = sq[i]
      /\ \A i \in 1..Len(S) : sq'[Len(sq) + i] = S[i]
  BY <1>1, ConcatProperties
<1>3. /\ \A h : Cancel(h).op = "cancel" /\ Read(h).op = "read"
      /\ \A h : Read(h)' = Read(h) /\ Cancel(h)' = Cancel(h)
  BY DEF Cancel, Read
<1>4. \A h, j : j \in DOMAIN sq' /\ sq'[j] = Cancel(h) => j \in DOMAIN sq /\ sq[j] = Cancel(h)
  <2>1. SUFFICES ASSUME NEW h, NEW j \in DOMAIN sq', sq'[j] = Cancel(h)
                 PROVE  j \in DOMAIN sq /\ sq[j] = Cancel(h)
    OBVIOUS
  <2>2. CASE j \in 1..Len(sq)
    BY <1>1, <1>2, <2>1, <2>2
  <2>3. CASE j \notin 1..Len(sq)
    <3>1. PICK k \in 1..Len(S) : j = Len(sq) + k
      <4>1. j - Len(sq) \in 1..Len(S) /\ j = Len(sq) + (j - Len(sq))
        BY <1>1, <2>1, <2>3
      <4>2. QED
        BY <4>1
    <3>2. sq'[j] = S[k]
      BY <1>2, <3>1
    <3>3. QED
      BY <1>1, <1>3, <2>1, <3>2
  <2>4. QED
    BY <2>2, <2>3
<1>5. ASSUME NEW h \in Handles, Reading(h)
      PROVE  Reading(h)'
  <2>1. CASE [h |-> h, serial |-> timeline[h]] \in inflight /\ Uncancelled(h, 0)
    <3>1. Uncancelled(h, 0)'
      BY <1>3, <1>4, <2>1 DEF Uncancelled
    <3>2. ([h |-> h, serial |-> timeline[h]] \in inflight)'
      BY <2>1
    <3>3. QED
      BY <3>1, <3>2 DEF Reading
  <2>2. CASE \E i \in DOMAIN sq : sq[i] = Read(h) /\ Uncancelled(h, i)
    <3>1. PICK i \in DOMAIN sq : sq[i] = Read(h) /\ Uncancelled(h, i)
      BY <2>2
    <3>2. i \in DOMAIN sq' /\ sq'[i] = Read(h)'
      BY <1>1, <1>2, <1>3, <3>1
    <3>3. Uncancelled(h, i)'
      BY <1>3, <1>4, <3>1 DEF Uncancelled
    <3>4. QED
      BY <3>2, <3>3 DEF Reading
  <2>3. \/ [h |-> h, serial |-> timeline[h]] \in inflight /\ Uncancelled(h, 0)
        \/ \E i \in DOMAIN sq : sq[i] = Read(h) /\ Uncancelled(h, i)
    BY <1>5 DEF Reading
  <2>4. QED
    BY <2>1, <2>2, <2>3
<1>6. ASSUME NEW h \in Handles, NEW i \in DOMAIN S, S[i] = Read(h)
      PROVE  Reading(h)'
  <2>1. PICK k \in Nat : k = Len(sq) + i
    BY <1>1
  <2>2. k \in DOMAIN sq' /\ sq'[k] = Read(h)'
    BY <1>1, <1>2, <1>3, <1>6, <2>1
  <2>3. Uncancelled(h, k)'
    <3>1. SUFFICES ASSUME NEW j \in DOMAIN sq', j > k
                   PROVE  sq'[j] # Cancel(h)
      BY <1>3 DEF Uncancelled
    <3>2. j \notin DOMAIN sq
      BY <1>1, <2>1, <3>1
    <3>3. QED
      BY <1>4, <3>2
  <2>4. QED
    BY <2>2, <2>3 DEF Reading
<1>7. QED
  BY <1>1, <1>5, <1>6

\* The same for a single read.
LEMMA SubmitRead ==
  ASSUME ControlOK, NEW g \in Handles, sq' = Append(sq, Read(g)), timeline' = timeline,
         inflight' = inflight
  PROVE  /\ sq' \in Seq(Submissions)
         /\ \A h \in Handles : Reading(h) => Reading(h)'
         /\ Reading(g)'
<1>1. Read(g) \in Submissions /\ Read(g).op = "read"
  BY DEF Read, Submissions, ControlOK
<1>2. /\ <<Read(g)>> \in Seq(Submissions) /\ DOMAIN <<Read(g)>> = {1}
      /\ <<Read(g)>>[1] = Read(g)
  BY <1>1
<1>3. sq' = sq \o <<Read(g)>>
  BY <1>1, AppendIsConcat DEF ControlOK
<1>4. QED
  BY <1>1, <1>2, <1>3, SubmitReads

-----------------------------------------------------------------------------
(* Completions.                                                            *)

LEMMA CompletionKinds ==
  ASSUME NEW c \in Completions
  PROVE  /\ c.is \in {"suspended", "data", "nobufs"}
         /\ c.is # "suspended" => /\ c.h \in Handles /\ c.serial \in 0..7
                                  /\ c.more \in BOOLEAN
         /\ c.is # "suspended" /\ c.h = "wake" => c.is = "data" /\ ~c.more
         /\ c.is = "nobufs" => c.h = "thread" /\ ~c.more
<1>1. CASE c \in [is : {"suspended"}]
  BY <1>1
<1>2. CASE c \in [is : {"data"}, h : {"thread"}, serial : 0..7, more : BOOLEAN]
  BY <1>2 DEF Handles
<1>3. CASE c \in [is : {"nobufs"}, h : {"thread"}, serial : 0..7, more : {FALSE}]
  BY <1>3 DEF Handles
<1>4. CASE c \in [is : {"data"}, h : {"wake"}, serial : 0..7, more : {FALSE}]
  BY <1>4 DEF Handles
<1>5. QED
  BY <1>1, <1>2, <1>3, <1>4 DEF Completions

\* The completion that doPoll() has taken off, and those it has left.
LEMMA Handled ==
  ASSUME ControlOK, NEW c, Handling(c)
  PROVE  /\ c \in Completions /\ cq' \in Seq(Completions) /\ stack # <<>>
         /\ \/ c.is = "data" /\ c.h = "thread"
            \/ Carried => Carried'
         /\ timeline' = timeline =>
              \A h \in Handles :
                Ending(h) => \/ Ending(h)'
                             \/ /\ c.is # "suspended" /\ c.h = h
                                /\ c.serial = timeline[h] /\ ~c.more
<1>1. /\ cq \in Seq(Completions) /\ cq # <<>> /\ c = cq[1] /\ cq' = Tail(cq)
      /\ stack # <<>>
  BY DEF ControlOK, Handling, InContext
<1>2. /\ Head(cq) \in Completions /\ Head(cq) = cq[1] /\ cq' \in Seq(Completions)
      /\ Len(cq) \in Nat /\ Len(cq') = Len(cq) - 1
      /\ \A i \in 1..Len(cq') : cq'[i] = cq[i + 1]
      /\ DOMAIN cq = 1..Len(cq) /\ DOMAIN cq' = 1..Len(cq')
  BY <1>1, HeadTailProperties
<1>3. \A i \in DOMAIN cq : i = 1 \/ (i - 1 \in DOMAIN cq' /\ cq'[i - 1] = cq[i])
  BY <1>2
<1>4. Carried => Carried' \/ ("thread" = c.h /\ c.is = "data")
  BY <1>1, <1>3 DEF Carried
<1>5. ASSUME timeline' = timeline, NEW h \in Handles, Ending(h)
      PROVE  \/ Ending(h)'
             \/ /\ c.is # "suspended" /\ c.h = h
                /\ c.serial = timeline[h] /\ ~c.more
  <2>1. PICK i \in DOMAIN cq : /\ cq[i].is # "suspended" /\ cq[i].h = h
                               /\ cq[i].serial = timeline[h] /\ ~cq[i].more
    BY <1>5 DEF Ending
  <2>2. CASE i = 1
    BY <1>1, <2>1, <2>2
  <2>3. CASE i # 1
    <3>1. PICK k \in DOMAIN cq' : cq'[k] = cq[i]
      BY <1>3, <2>3
    <3>2. QED
      BY <1>5, <2>1, <3>1 DEF Ending
  <2>4. QED
    BY <2>2, <2>3
<1>6. QED
  BY <1>1, <1>2, <1>4, <1>5

\* The kernel reports one more.
LEMMA Reported ==
  ASSUME ControlOK, NEW c \in Completions, cq' = Append(cq, c), timeline' = timeline
  PROVE  /\ cq' \in Seq(Completions)
         /\ Carried => Carried'
         /\ c.is = "data" /\ c.h = "thread" => Carried'
         /\ \A h \in Handles : Ending(h) => Ending(h)'
         /\ \A h \in Handles : /\ c.is # "suspended" /\ c.h = h
                               /\ c.serial = timeline[h] /\ ~c.more
                               => Ending(h)'
<1>1. /\ cq \in Seq(Completions) /\ cq' \in Seq(Completions) /\ Len(cq) \in Nat
      /\ Len(cq') = Len(cq) + 1
      /\ \A i \in 1..Len(cq) : cq'[i] = cq[i]
      /\ cq'[Len(cq) + 1] = c
  BY AppendProperties DEF ControlOK
<1>2. /\ \A i \in DOMAIN cq : i \in DOMAIN cq' /\ cq'[i] = cq[i]
      /\ \E i \in DOMAIN cq' : cq'[i] = c
  BY <1>1
<1>3. /\ Carried => Carried'
      /\ c.is = "data" /\ c.h = "thread" => Carried'
  BY <1>2 DEF Carried
<1>4. ASSUME NEW h \in Handles, Ending(h)
      PROVE  Ending(h)'
  BY <1>2, <1>4 DEF Ending
<1>5. ASSUME NEW h \in Handles, c.is # "suspended", c.h = h, c.serial = timeline[h], ~c.more
      PROVE  Ending(h)'
  BY <1>2, <1>5 DEF Ending
<1>6. QED
  BY <1>1, <1>3, <1>4, <1>5

-----------------------------------------------------------------------------
(* The stack of the loop's thread.                                         *)

LEMMA PushFrame ==
  ASSUME NEW s \in Seq(Frames), NEW f \in Frames
  PROVE  /\ Append(s, f) \in Seq(Frames)
         /\ RunsIn(Append(s, f)) => RunsIn(s) \/ (f.is = "run" /\ f.state = "Running")
<1>1. /\ Append(s, f) \in Seq(Frames) /\ Len(Append(s, f)) = Len(s) + 1
      /\ \A i \in 1..Len(s) : Append(s, f)[i] = s[i]
      /\ Append(s, f)[Len(s) + 1] = f
  BY AppendProperties
<1>2. \A i \in DOMAIN Append(s, f) : \/ i \in DOMAIN s /\ Append(s, f)[i] = s[i]
                                     \/ Append(s, f)[i] = f
  BY <1>1
<1>3. QED
  BY <1>1, <1>2 DEF RunsIn

LEMMA PopFrame ==
  ASSUME NEW s \in Seq(Frames), s # <<>>
  PROVE  /\ Front(s) \in Seq(Frames) /\ Last(s) \in Frames
         /\ RunsIn(Front(s)) => RunsIn(s)
         /\ Len(s) \in DOMAIN s /\ Last(s) = s[Len(s)]
<1>1. Len(s) \in Nat \ {0} /\ DOMAIN s = 1..Len(s) /\ \A i \in DOMAIN s : s[i] \in Frames
  BY EmptySeq
<1>2. /\ Front(s) \in Seq(Frames) /\ Len(Front(s)) = Len(s) - 1
      /\ \A i \in 1..(Len(s) - 1) : Front(s)[i] = s[i]
  BY <1>1, SubSeqProperties DEF Front
<1>3. \A i \in DOMAIN Front(s) : i \in DOMAIN s /\ Front(s)[i] = s[i]
  BY <1>1, <1>2
<1>4. QED
  BY <1>1, <1>2, <1>3 DEF RunsIn, Last

\* What may be put there.
LEMMA NewFrames ==
  /\ QueueList \in Frames /\ QueueList.is # "run"
  /\ \A f \in SUBSET {"Graceful", "ContextDefault"} :
       /\ \A m \in Contexts : Context(m, f) \in Frames
       /\ \A t \in {"return", "armed", "run"} :
            /\ TaskList("thread tasks", t, f) \in Frames
            /\ TaskList("thread tasks", t, f).is # "run"
<1>1. ASSUME NEW f \in SUBSET {"Graceful", "ContextDefault"}
      PROVE  /\ \A m \in Contexts : Context(m, f) \in Frames
             /\ \A t \in {"return", "armed", "run"} :
                  /\ TaskList("thread tasks", t, f) \in Frames
                  /\ TaskList("thread tasks", t, f).is # "run"
  BY DEF Context, TaskList, Frames
<1>2. QueueList \in Frames /\ QueueList.is # "run"
  BY DEF QueueList, TaskList, Frames
<1>3. QED
  BY <1>1, <1>2

\* runAllTasks() on the queue's engine adds nothing that runs on.
LEMMA ThenTasksPush ==
  ASSUME NEW s \in Seq(Frames)
  PROVE  ThenTasks(s) \in Seq(Frames) /\ (RunsIn(ThenTasks(s)) => RunsIn(s))
<1>1. CASE local = <<>>
  BY <1>1 DEF ThenTasks
<1>2. CASE local # <<>>
  BY <1>2, PushFrame, NewFrames DEF ThenTasks
<1>3. QED
  BY <1>1, <1>2

-----------------------------------------------------------------------------
(* Suspended handles.                                                      *)

LEMMA HandlesCounted ==
  ASSUME NEW H \in SUBSET Handles
  PROVE  /\ Cardinality(H) \in 0..2 /\ Cardinality(Handles \ H) = 2 - Cardinality(H)
         /\ Cardinality(Handles) = 2
         /\ H = {} <=> Cardinality(H) = 0
         /\ H = Handles <=> Cardinality(H) = 2
<1>1. /\ Cardinality({}) = 0 /\ Cardinality({"thread"}) = 1 /\ Cardinality({"wake"}) = 1
  BY FS_EmptySet, FS_Singleton
<1>2. Cardinality({"thread", "wake"}) = 2
  <2>1. {"thread", "wake"} = {"thread"} \cup {"wake"} /\ "wake" \notin {"thread"}
    OBVIOUS
  <2>2. IsFiniteSet({"thread"})
    BY FS_Singleton
  <2>3. QED
    BY <1>1, <2>1, <2>2, FS_AddElement
<1>3. CASE H = {}
  BY <1>1, <1>2, <1>3 DEF Handles
<1>4. CASE H = {"thread"}
  <2>1. Handles \ H = {"wake"} /\ H # {} /\ H # Handles
    BY <1>4 DEF Handles
  <2>2. QED
    BY <1>1, <1>2, <1>4, <2>1 DEF Handles
<1>5. CASE H = {"wake"}
  <2>1. Handles \ H = {"thread"} /\ H # {} /\ H # Handles
    BY <1>5 DEF Handles
  <2>2. QED
    BY <1>1, <1>2, <1>5, <2>1 DEF Handles
<1>6. CASE H = {"thread", "wake"}
  <2>1. Handles \ H = {} /\ H # {} /\ H = Handles
    BY <1>6 DEF Handles
  <2>2. QED
    BY <1>1, <1>2, <1>6, <2>1 DEF Handles
<1>7. QED
  BY <1>3, <1>4, <1>5, <1>6, HandleSets

\* resumeAll(): everything is resumed, counted off and read.
LEMMA Resuming ==
  ASSUME IInv, ResumeAll, UNCHANGED <<inflight, cq, lapses>>
  PROVE  /\ sq' \in Seq(Submissions) /\ buffers' \in 0..Buffers
         /\ status' \in [Handles -> {"Ok", "Suspended"}]
         /\ timeline' = timeline /\ running'
         /\ suspendedHandles' \in IF "overwritten" \in lapses THEN Nat ELSE 0..2
         /\ Served' /\ Resumed' /\ CountOK'
<1>0. /\ ControlOK /\ Served /\ Resumed /\ CountOK
      /\ status \in [Handles -> {"Ok", "Suspended"}] /\ timeline \in [Handles -> 0..7]
      /\ buffers \in 0..Buffers /\ running \in BOOLEAN /\ Buffers \in Nat
  BY BuffersAssumption DEF IInv, ControlOK
<1>1. PICK H \in SUBSET Handles :
        H = IF running THEN {} ELSE {h \in Handles : status[h] = "Suspended"}
  OBVIOUS
<1>2. /\ running' = TRUE
      /\ status' = [h \in Handles |-> IF h \in H THEN "Ok" ELSE status[h]]
      /\ suspendedHandles' = suspendedHandles - Cardinality(H)
      /\ sq' = sq \o Reads(H)
      /\ buffers' = IF "thread" \in H THEN Buffers ELSE buffers
      /\ timeline' = timeline
  BY <1>1 DEF ResumeAll
<1>3. H = Suspended
  <2>1. CASE running
    <3>1. Suspended = {}
      BY <1>0, <2>1 DEF Resumed, Suspended
    <3>2. QED
      BY <1>1, <2>1, <3>1
  <2>2. CASE ~running
    BY <1>1, <2>2 DEF Suspended
  <2>3. QED
    BY <2>1, <2>2
<1>4. \A h \in Handles : status'[h] = "Ok"
  BY <1>0, <1>2, <1>3 DEF Suspended
<1>5. status' \in [Handles -> {"Ok", "Suspended"}]
  BY <1>0, <1>2
<1>6. Suspended' = {}
  BY <1>4 DEF Suspended
<1>7. /\ Cardinality(H) \in 0..2 /\ Cardinality(H) <= suspendedHandles
      /\ "overwritten" \in lapses \/ suspendedHandles = Cardinality(H)
      /\ suspendedHandles \in Nat /\ Cardinality({}) = 0
  BY <1>0, <1>3, HandlesCounted, FS_EmptySet DEF CountOK
<1>8. CountOK'
  <2>1. Cardinality(Suspended)' = 0
    BY <1>6, <1>7
  <2>2. suspendedHandles' \in Nat /\ 0 <= suspendedHandles'
    BY <1>2, <1>7
  <2>3. "overwritten" \in lapses' \/ suspendedHandles' = 0
    BY <1>2, <1>7
  <2>4. QED
    BY <2>1, <2>2, <2>3 DEF CountOK
<1>9. suspendedHandles' \in IF "overwritten" \in lapses THEN Nat ELSE 0..2
  BY <1>2, <1>7
<1>10. /\ Reads(H) \in Seq(Submissions)
       /\ \A i \in DOMAIN Reads(H) : Reads(H)[i].op = "read"
       /\ \A h \in H : \E i \in DOMAIN Reads(H) : Reads(H)[i] = Read(h)
  BY <1>0, ReadsFor
<1>11. /\ sq' \in Seq(Submissions)
       /\ \A h \in Handles : Reading(h) => Reading(h)'
       /\ \A h \in H : Reading(h)'
  BY <1>0, <1>2, <1>10, SubmitReads
<1>12. Served'
  <2>1. SUFFICES ASSUME NEW h \in Handles, h = "wake" \/ "overwritten" \notin lapses'
                 PROVE  Reading(h)' \/ Ending(h)'
    BY DEF Served
  <2>2. CASE h \in H
    BY <1>11, <2>2
  <2>3. CASE h \notin H
    <3>1. status[h] = "Ok"
      BY <1>0, <1>3, <2>3 DEF Suspended
    <3>2. Reading(h) \/ Ending(h)
      BY <1>0, <2>1, <3>1 DEF Served
    <3>3. Ending(h) => Ending(h)'
      BY <1>2 DEF Ending
    <3>4. QED
      BY <1>11, <3>2, <3>3
  <2>4. QED
    BY <2>2, <2>3
<1>13. Resumed'
  BY <1>2, <1>4 DEF Resumed
<1>14. QED
  BY <1>0, <1>2, <1>5, <1>8, <1>9, <1>11, <1>12, <1>13

\* What a call or an event leaves of the queue and its handles.
QueueKept ==
  /\ sq' \in Seq(Submissions) /\ buffers' \in 0..Buffers
  /\ status' \in [Handles -> {"Ok", "Suspended"}] /\ timeline' \in [Handles -> 0..7]
  /\ running' \in BOOLEAN
  /\ suspendedHandles' \in IF "overwritten" \in lapses' THEN Nat ELSE 0..2
  /\ stack' \in Seq(Frames)
  /\ Served' /\ Resumed' /\ CountOK' /\ NoRunStranded'

LEMMA Entering ==
  ASSUME IInv, NEW c \in Frames, NEW outer \in Seq(Frames), Enter(c, outer),
         UNCHANGED <<inflight, cq, lapses>>
  PROVE  QueueKept
<1>1. stack' = Append(outer, c) /\ ResumeAll
  BY DEF Enter
<1>2. stack' \in Seq(Frames)
  BY <1>1, PushFrame
<1>3. timeline \in [Handles -> 0..7]
  BY DEF IInv, ControlOK
<1>4. /\ sq' \in Seq(Submissions) /\ buffers' \in 0..Buffers
      /\ status' \in [Handles -> {"Ok", "Suspended"}]
      /\ timeline' = timeline /\ running' = TRUE
      /\ suspendedHandles' \in IF "overwritten" \in lapses THEN Nat ELSE 0..2
      /\ Served' /\ Resumed' /\ CountOK'
  BY <1>1, Resuming DEF ResumeAll
<1>5. NoRunStranded'
  BY <1>4 DEF NoRunStranded
<1>6. QED
  BY <1>2, <1>3, <1>4, <1>5 DEF QueueKept

\* The status of the handles is not touched, and whatever has a read, or the end
\* of one, still has it.
LEMMA StatusUntouched ==
  ASSUME IInv, UNCHANGED <<status, timeline, running, suspendedHandles>>,
         "overwritten" \in lapses' <=> "overwritten" \in lapses,
         "orphaned" \in lapses => "orphaned" \in lapses',
         sq' \in Seq(Submissions), buffers' \in 0..Buffers,
         \A h \in Handles :
           status[h] = "Ok" /\ (Reading(h) \/ Ending(h)) => Reading(h)' \/ Ending(h)',
         stack' \in Seq(Frames), RunsIn(stack') => RunsIn(stack)
  PROVE  QueueKept
<1>1. ControlOK /\ Served /\ Resumed /\ CountOK /\ NoRunStranded
  BY DEF IInv
<1>2. Served'
  BY <1>1 DEF Served
<1>3. Resumed' /\ NoRunStranded'
  BY <1>1 DEF Resumed, NoRunStranded
<1>4. CountOK'
  <2>1. Suspended' = Suspended
    BY DEF Suspended
  <2>2. QED
    BY <1>1, <2>1 DEF CountOK
<1>5. QED
  BY <1>1, <1>2, <1>3, <1>4 DEF QueueKept, ControlOK

\* The queue and its handles are not touched.
LEMMA QueueUntouched ==
  ASSUME IInv, UNCHANGED <<sq, inflight, handleVars>>,
         "overwritten" \in lapses' <=> "overwritten" \in lapses,
         "orphaned" \in lapses => "orphaned" \in lapses',
         \A h \in Handles : Ending(h) /\ status[h] = "Ok" => Ending(h)',
         stack' \in Seq(Frames), RunsIn(stack') => RunsIn(stack)
  PROVE  QueueKept
<1>1. /\ UNCHANGED <<sq, inflight, buffers, status, timeline, running, suspendedHandles>>
      /\ sq' \in Seq(Submissions) /\ buffers' \in 0..Buffers
  BY DEF handleVars, IInv, ControlOK
<1>2. \A h \in Handles : Reading(h)' = Reading(h)
  BY <1>1 DEF Reading, Uncancelled, Read, Cancel
<1>3. QED
  BY <1>1, <1>2, StatusUntouched

\* run() and poll(), at once or behind the tasks that are left.
LEMMA Calling ==
  ASSUME IInv, CallRun \/ CallPoll, UNCHANGED <<inflight, cq, lapses>>
  PROVE  QueueKept
<1>1. stack \in Seq(Frames)
  BY DEF IInv, ControlOK
<1>2. CASE CallPoll
  <2>1. Context("poll", {}) \in Frames
    BY NewFrames DEF Contexts
  <2>2. QED
    BY <1>1, <1>2, <2>1, Entering DEF CallPoll
<1>3. CASE CallRun
  <2>1. PICK f \in RunFlags :
          IF engine' = <<>> THEN Enter(Context("run", f), stack)
          ELSE /\ stack' = Append(stack, TaskList("thread tasks", "run", f))
               /\ UNCHANGED <<sq, handleVars>>
    BY <1>3 DEF CallRun
  <2>2. f \in SUBSET {"Graceful", "ContextDefault"}
    BY FlagsAssumption
  <2>3. CASE engine' = <<>>
    <3>1. Context("run", f) \in Frames
      BY <2>2, NewFrames DEF Contexts
    <3>2. QED
      BY <1>1, <2>1, <2>3, <3>1, Entering
  <2>4. CASE engine' # <<>>
    <3>1. /\ TaskList("thread tasks", "run", f) \in Frames
          /\ TaskList("thread tasks", "run", f).is # "run"
      BY <2>2, NewFrames
    <3>2. stack' \in Seq(Frames) /\ (RunsIn(stack') => RunsIn(stack))
      BY <1>1, <2>1, <2>4, <3>1, PushFrame
    <3>3. \A h \in Handles : Ending(h) => Ending(h)'
      BY <2>1, <2>4 DEF Ending, handleVars
    <3>4. UNCHANGED <<sq, inflight, handleVars>>
      BY <2>1, <2>4
    <3>5. QED
      BY <3>2, <3>3, <3>4, QueueUntouched
  <2>5. QED
    BY <2>3, <2>4
<1>4. QED
  BY <1>2, <1>3

\* From what an action does to the queue to the whole invariant.
OthersKept ==
  /\ waker' \in [Wakers -> {"idle", "marked", "done"}]
  /\ wakeValue' \subseteq {"Graceful", "ContextDefault"}
  /\ fd' \in [Handles -> BOOLEAN]
  /\ inflight' \subseteq [h : Handles, serial : 0..7]
  /\ cq' \in Seq(Completions) /\ multishot' \in BOOLEAN
  /\ lapses' \subseteq {"postDropped", "wakeupDropped", "orphaned", "overwritten"}
  /\ Announced'

LEMMA Together ==
  ASSUME QueueKept, OthersKept
  PROVE  IInv'
<1>1. ControlOK'
  BY DEF QueueKept, OthersKept, ControlOK
<1>2. QED
  BY <1>1 DEF QueueKept, OthersKept, IInv

\* Nothing else than the queue is touched.
LEMMA OthersUntouched ==
  ASSUME IInv, UNCHANGED <<outputQueue, outputCallbacks, waker, wakeValue, fd>>,
         UNCHANGED <<inflight, multishot, lapses>>,
         cq' \in Seq(Completions), Carried => Carried'
  PROVE  OthersKept
<1>1. Announced'
  BY DEF IInv, Announced, Delivered
<1>2. QED
  BY <1>1 DEF OthersKept, IInv, ControlOK

-----------------------------------------------------------------------------
(* Other threads.                                                          *)

LEMMA PostStep ==
  ASSUME IInv, NEW p \in Posts, Post(p)
  PROVE  IInv'
<1>1. /\ fd' = [fd EXCEPT !["thread"] = TRUE]
      /\ UNCHANGED <<sq, inflight, handleVars, wakeVars, cq, multishot, stack, lapses>>
  BY DEF Post, Perform
<1>2. /\ fd \in [Handles -> BOOLEAN] /\ stack \in Seq(Frames)
      /\ "thread" \in Handles /\ UNCHANGED <<timeline, waker, wakeValue>> /\ ControlOK
  BY <1>1 DEF IInv, ControlOK, handleVars, wakeVars, Handles
<1>3. fd' \in [Handles -> BOOLEAN] /\ fd'["thread"]
  BY <1>1, <1>2
<1>4. OthersKept
  BY <1>1, <1>2, <1>3 DEF OthersKept, ControlOK, Announced
<1>5. QueueKept
  BY <1>1, <1>2, QueueUntouched DEF Ending
<1>6. QED
  BY <1>4, <1>5, Together

LEMMA MarkStep ==
  ASSUME IInv, NEW w \in Wakers, Mark(w)
  PROVE  IInv'
<1>1. /\ waker' = [waker EXCEPT ![w] = "marked"]
      /\ UNCHANGED <<outputQueue, outputCallbacks>>
      /\ UNCHANGED <<fd, sq, inflight, handleVars, cq, multishot, stack, lapses>>
  BY DEF Mark, workVars, kernelVars
<1>2. PICK f \in WakeFlags : wakeValue' = wakeValue \cup f
  BY DEF Mark
<1>3. /\ stack \in Seq(Frames) /\ UNCHANGED timeline /\ ControlOK /\ Announced
  BY <1>1 DEF IInv, ControlOK, handleVars
<1>4. wakeValue' \subseteq {"Graceful", "ContextDefault"}
  BY <1>2, <1>3, FlagsAssumption DEF ControlOK
<1>5. waker' \in [Wakers -> {"idle", "marked", "done"}]
  BY <1>1, <1>3 DEF ControlOK
<1>6. Announced'
  BY <1>1, <1>3 DEF Announced, Carried, Delivered
<1>7. OthersKept
  BY <1>1, <1>3, <1>4, <1>5, <1>6 DEF OthersKept, ControlOK
<1>8. QueueKept
  BY <1>1, <1>3, QueueUntouched DEF Ending
<1>9. QED
  BY <1>7, <1>8, Together

LEMMA SignalStep ==
  ASSUME IInv, NEW w \in Wakers, Signal(w)
  PROVE  IInv'
<1>1. /\ waker' = [waker EXCEPT ![w] = "done"]
      /\ fd' = [fd EXCEPT !["wake"] = TRUE]
      /\ UNCHANGED <<outputQueue, outputCallbacks>>
      /\ UNCHANGED <<wakeValue, sq, inflight, handleVars, cq, multishot, lapses>>
  BY DEF Signal, workVars
<1>2. PICK t : stack' \in {stack, [stack EXCEPT ![t].woken = TRUE]}
  BY DEF Signal
<1>3. /\ stack \in Seq(Frames) /\ UNCHANGED timeline /\ ControlOK /\ Announced
  BY <1>1 DEF IInv, ControlOK, handleVars
<1>4. stack' \in Seq(Frames) /\ (RunsIn(stack') => RunsIn(stack))
  <2>1. CASE stack' = stack
    BY <1>3, <2>1
  <2>2. CASE stack' = [stack EXCEPT ![t].woken = TRUE]
    <3>1. stack' = [i \in DOMAIN stack |->
                      IF i = t THEN [stack[t] EXCEPT !.woken = TRUE] ELSE stack[i]]
      BY <2>2
    <3>2. \A f \in Frames :
            LET g == [f EXCEPT !.woken = TRUE]
            IN  g \in Frames /\ g.is = f.is /\ g.state = f.state
      BY DEF Frames
    <3>3. /\ DOMAIN stack' = DOMAIN stack
          /\ \A i \in DOMAIN stack : \/ stack'[i] = stack[i]
                                     \/ stack'[i] = [stack[i] EXCEPT !.woken = TRUE]
      BY <3>1
    <3>4. /\ DOMAIN stack = 1..Len(stack) /\ Len(stack) \in Nat
          /\ \A i \in DOMAIN stack : stack[i] \in Frames
      BY <1>3
    <3>5. \A i \in DOMAIN stack : /\ stack'[i] \in Frames /\ stack'[i].is = stack[i].is
                                  /\ stack'[i].state = stack[i].state
      BY <3>2, <3>3, <3>4
    <3>6. stack' = [i \in 1..Len(stack) |-> stack'[i]]
      BY <3>1, <3>4
    <3>7. stack' \in Seq(Frames)
      BY <3>4, <3>5, <3>6, IsASeq
    <3>8. QED
      BY <3>3, <3>5, <3>7 DEF RunsIn
  <2>3. QED
    BY <1>2, <2>1, <2>2
<1>5. waker' \in [Wakers -> {"idle", "marked", "done"}]
  BY <1>1, <1>3 DEF ControlOK
<1>6. fd' \in [Handles -> BOOLEAN] /\ fd'["thread"] = fd["thread"]
  BY <1>1, <1>3 DEF ControlOK, Handles
<1>7. Announced'
  BY <1>1, <1>3, <1>6 DEF Announced, Carried, Delivered
<1>8. OthersKept
  BY <1>1, <1>3, <1>5, <1>6, <1>7 DEF OthersKept, ControlOK
<1>9. QueueKept
  BY <1>1, <1>3, <1>4, QueueUntouched DEF Ending
<1>10. QED
  BY <1>8, <1>9, Together

-----------------------------------------------------------------------------
(* The kernel.                                                             *)

LEMMA KernelTakesStep ==
  ASSUME IInv, KernelTakes
  PROVE  IInv'
<1>1. /\ sq # <<>> /\ sq' = Tail(sq)
      /\ UNCHANGED <<outputQueue, outputCallbacks>>
      /\ UNCHANGED <<waker, wakeValue, fd, multishot, handleVars, stack, lapses>>
  BY DEF KernelTakes, workVars, wakeVars
<1>2. PICK r : r = [h |-> Head(sq).h, serial |-> Head(sq).serial]
  OBVIOUS
<1>3. \/ /\ Head(sq).op = "read"
         /\ inflight' = inflight \cup {r} /\ cq' = cq
      \/ /\ Head(sq).op = "cancel"
         /\ inflight' = inflight \ {r} /\ cq' = Append(cq, [is |-> "suspended"])
  BY <1>2 DEF KernelTakes
<1>4. /\ ControlOK /\ Served /\ Resumed /\ CountOK /\ NoRunStranded /\ Announced
      /\ UNCHANGED <<buffers, status, timeline, running, suspendedHandles>>
  BY <1>1 DEF IInv, handleVars
<1>5. /\ sq \in Seq(Submissions) /\ sq' \in Seq(Submissions)
      /\ Head(sq) \in Submissions /\ Head(sq) = sq[1]
      /\ Len(sq) \in Nat \ {0} /\ Len(sq') = Len(sq) - 1
      /\ DOMAIN sq = 1..Len(sq) /\ DOMAIN sq' = 1..Len(sq')
      /\ \A i \in DOMAIN sq' : sq'[i] = sq[i + 1]
  BY <1>1, <1>4, HeadTailProperties DEF ControlOK
<1>6. /\ \A h : Read(h)' = Read(h) /\ Cancel(h)' = Cancel(h)
      /\ \A h : Cancel(h) = [op |-> "cancel", h |-> h, serial |-> timeline[h]]
      /\ \A h : Read(h) = [op |-> "read", h |-> h, serial |-> timeline[h]]
  BY <1>4 DEF Read, Cancel
<1>7. cq' \in Seq(Completions) /\ (Carried => Carried') /\ \A h \in Handles : Ending(h) => Ending(h)'
  <2>1. CASE cq' = cq
    BY <1>4, <2>1 DEF Carried, Ending, ControlOK
  <2>2. CASE cq' = Append(cq, [is |-> "suspended"])
    <3>1. [is |-> "suspended"] \in Completions
      BY DEF Completions
    <3>2. QED
      BY <1>4, <2>2, <3>1, Reported
  <2>3. QED
    BY <1>3, <2>1, <2>2
<1>8. inflight' \subseteq [h : Handles, serial : 0..7]
  BY <1>2, <1>3, <1>4, <1>5 DEF ControlOK, Submissions
<1>9. ASSUME NEW h \in Handles, Reading(h)
      PROVE  Reading(h)'
  <2>1. PICK q : q = [h |-> h, serial |-> timeline[h]]
    OBVIOUS
  <2>2. \A i \in DOMAIN sq' : Uncancelled(h, i + 1) => Uncancelled(h, i)'
    BY <1>5, <1>6 DEF Uncancelled
  <2>3. CASE q \in inflight /\ Uncancelled(h, 0)
    <3>1. Head(sq) # Cancel(h)
      BY <1>5, <2>3 DEF Uncancelled
    <3>2. Head(sq).op = "cancel" => r # q
      BY <1>2, <1>5, <1>6, <2>1, <3>1 DEF Submissions
    <3>3. q \in inflight'
      BY <1>3, <2>3, <3>2
    <3>4. Uncancelled(h, 0)'
      BY <1>5, <1>6, <2>3 DEF Uncancelled
    <3>5. QED
      BY <1>4, <2>1, <3>3, <3>4 DEF Reading
  <2>4. CASE \E i \in DOMAIN sq : sq[i] = Read(h) /\ Uncancelled(h, i)
    <3>1. PICK i \in DOMAIN sq : sq[i] = Read(h) /\ Uncancelled(h, i)
      BY <2>4
    <3>2. CASE i = 1
      <4>1. Head(sq).op = "read" /\ r = q
        BY <1>2, <1>5, <1>6, <2>1, <3>1, <3>2
      <4>2. q \in inflight'
        BY <1>3, <4>1
      <4>3. Uncancelled(h, 0)'
        BY <1>5, <1>6, <3>1, <3>2 DEF Uncancelled
      <4>4. QED
        BY <1>4, <2>1, <4>2, <4>3 DEF Reading
    <3>3. CASE i # 1
      <4>1. PICK k \in DOMAIN sq' : i = k + 1
        <5>1. i - 1 \in DOMAIN sq' /\ i = (i - 1) + 1
          BY <1>5, <3>1, <3>3
        <5>2. QED
          BY <5>1
      <4>2. sq'[k] = Read(h)' /\ Uncancelled(h, k)'
        BY <1>5, <1>6, <2>2, <3>1, <4>1
      <4>3. QED
        BY <4>1, <4>2 DEF Reading
    <3>4. QED
      BY <3>2, <3>3
  <2>5. \/ q \in inflight /\ Uncancelled(h, 0)
        \/ \E i \in DOMAIN sq : sq[i] = Read(h) /\ Uncancelled(h, i)
    BY <1>9, <2>1 DEF Reading
  <2>6. QED
    BY <2>3, <2>4, <2>5
<1>10. Served'
  BY <1>1, <1>4, <1>7, <1>9 DEF Served
<1>11. Resumed' /\ NoRunStranded'
  BY <1>1, <1>4 DEF Resumed, NoRunStranded
<1>12. CountOK'
  <2>1. Suspended' = Suspended
    BY <1>4 DEF Suspended
  <2>2. QED
    BY <1>1, <1>4, <2>1 DEF CountOK
<1>13. QueueKept
  BY <1>1, <1>4, <1>5, <1>10, <1>11, <1>12 DEF QueueKept, ControlOK
<1>14. Announced'
  BY <1>1, <1>4, <1>7 DEF Announced, Delivered
<1>15. OthersKept
  BY <1>1, <1>4, <1>7, <1>8, <1>14 DEF OthersKept, ControlOK
<1>16. QED
  BY <1>13, <1>15, Together

\* A completion ends the read, or the read stays.
LEMMA Completed ==
  ASSUME IInv, NEW r \in inflight, NEW res, NEW more, Complete(r, res, more),
         NEW c \in Completions, c = [is |-> res, h |-> r.h, serial |-> r.serial, more |-> more],
         res # "suspended", UNCHANGED <<sq, timeline>>
  PROVE  /\ cq' \in Seq(Completions) /\ inflight' \subseteq [h : Handles, serial : 0..7]
         /\ Carried => Carried'
         /\ res = "data" /\ r.h = "thread" => Carried'
         /\ \A h \in Handles : Reading(h) \/ Ending(h) => Reading(h)' \/ Ending(h)'
<1>1. /\ ControlOK /\ r \in [h : Handles, serial : 0..7]
      /\ cq' = Append(cq, c) /\ inflight' = IF more THEN inflight ELSE inflight \ {r}
  BY DEF IInv, ControlOK, Complete
<1>2. /\ cq' \in Seq(Completions) /\ (Carried => Carried')
      /\ res = "data" /\ r.h = "thread" => Carried'
      /\ \A h \in Handles : Ending(h) => Ending(h)'
      /\ \A h \in Handles : r.h = h /\ r.serial = timeline[h] /\ ~more => Ending(h)'
  BY <1>1, Reported
<1>3. ASSUME NEW h \in Handles, Reading(h)
      PROVE  Reading(h)' \/ Ending(h)'
  <2>1. PICK q : q = [h |-> h, serial |-> timeline[h]]
    OBVIOUS
  <2>2. /\ Read(h)' = Read(h) /\ \A i : Uncancelled(h, i)' = Uncancelled(h, i)
    BY DEF Read, Cancel, Uncancelled
  <2>3. \/ q \in inflight /\ Uncancelled(h, 0)
        \/ \E i \in DOMAIN sq : sq[i] = Read(h) /\ Uncancelled(h, i)
    BY <1>3, <2>1 DEF Reading
  <2>4. CASE q \in inflight' /\ Uncancelled(h, 0)
    BY <2>1, <2>2, <2>4 DEF Reading
  <2>5. CASE q \in inflight /\ q \notin inflight'
    <3>1. ~more /\ r = q
      BY <1>1, <2>5
    <3>2. r.h = h /\ r.serial = timeline[h]
      BY <2>1, <3>1
    <3>3. QED
      BY <1>2, <3>1, <3>2
  <2>6. CASE \E i \in DOMAIN sq : sq[i] = Read(h) /\ Uncancelled(h, i)
    BY <2>2, <2>6 DEF Reading
  <2>7. QED
    BY <2>3, <2>4, <2>5, <2>6
<1>4. inflight' \subseteq [h : Handles, serial : 0..7]
  BY <1>1 DEF ControlOK
<1>5. QED
  BY <1>2, <1>3, <1>4

LEMMA KernelReadsStep ==
  ASSUME IInv, NEW r \in inflight, KernelReads(r)
  PROVE  IInv'
<1>1. /\ fd[r.h] /\ Complete(r, "data", Multishot(r.h))
      /\ Multishot(r.h) => buffers > 0
      /\ fd' = [fd EXCEPT ![r.h] = FALSE]
      /\ buffers' = IF Multishot(r.h) THEN buffers - 1 ELSE buffers
      /\ UNCHANGED <<outputQueue, outputCallbacks>>
      /\ UNCHANGED <<waker, wakeValue, sq, multishot, status, timeline, running,
                     suspendedHandles, stack, lapses>>
  BY DEF KernelReads, workVars, wakeVars
<1>2. /\ r \in [h : Handles, serial : 0..7] /\ ControlOK /\ Announced
      /\ multishot \in BOOLEAN /\ buffers \in 0..Buffers /\ Buffers \in Nat
  BY BuffersAssumption DEF IInv, ControlOK
<1>3. PICK c : c = [is |-> "data", h |-> r.h, serial |-> r.serial, more |-> Multishot(r.h)]
  OBVIOUS
<1>4. c \in Completions
  <2>1. Multishot(r.h) \in BOOLEAN /\ (r.h = "wake" => Multishot(r.h) = FALSE)
    BY <1>2 DEF Multishot
  <2>2. r.h = "thread" \/ r.h = "wake"
    BY <1>2 DEF Handles
  <2>3. QED
    BY <1>2, <1>3, <2>1, <2>2 DEF Completions
<1>5. /\ cq' \in Seq(Completions) /\ inflight' \subseteq [h : Handles, serial : 0..7]
      /\ Carried => Carried'
      /\ r.h = "thread" => Carried'
      /\ \A h \in Handles : Reading(h) \/ Ending(h) => Reading(h)' \/ Ending(h)'
  BY <1>1, <1>3, <1>4, Completed
<1>6. buffers' \in 0..Buffers
  BY <1>1, <1>2
<1>7. sq' \in Seq(Submissions)
  BY <1>1, <1>2 DEF ControlOK
<1>8. QueueKept
  <2>1. stack' \in Seq(Frames) /\ (RunsIn(stack') => RunsIn(stack))
    BY <1>1, <1>2 DEF ControlOK
  <2>2. QED
    BY <1>1, <1>5, <1>6, <1>7, <2>1, StatusUntouched
<1>9. fd' \in [Handles -> BOOLEAN] /\ (r.h = "wake" => fd'["thread"] = fd["thread"])
  BY <1>1, <1>2 DEF ControlOK, Handles
<1>10. Announced'
  <2>1. r.h = "thread" \/ r.h = "wake"
    BY <1>2 DEF Handles
  <2>2. QED
    BY <1>1, <1>2, <1>5, <1>9, <2>1 DEF Announced, Delivered
<1>11. OthersKept
  BY <1>1, <1>2, <1>5, <1>9, <1>10 DEF OthersKept, ControlOK
<1>12. QED
  BY <1>8, <1>11, Together

LEMMA KernelNoBuffersStep ==
  ASSUME IInv, NEW r \in inflight, KernelNoBuffers(r)
  PROVE  IInv'
<1>1. /\ fd[r.h] /\ Complete(r, "nobufs", FALSE) /\ Multishot(r.h)
      /\ UNCHANGED <<outputQueue, outputCallbacks>>
      /\ UNCHANGED <<waker, wakeValue, fd, sq, multishot, buffers, status, timeline,
                     running, suspendedHandles, stack, lapses>>
  BY DEF KernelNoBuffers, workVars, wakeVars, handleVars
<1>2. r \in [h : Handles, serial : 0..7] /\ ControlOK /\ Announced
  BY DEF IInv, ControlOK
<1>3. PICK more, c : /\ more = FALSE
                     /\ c = [is |-> "nobufs", h |-> r.h, serial |-> r.serial, more |-> more]
  OBVIOUS
<1>4. c \in Completions
  BY <1>1, <1>2, <1>3 DEF Completions, Multishot
<1>5. /\ cq' \in Seq(Completions) /\ inflight' \subseteq [h : Handles, serial : 0..7]
      /\ Carried => Carried'
      /\ \A h \in Handles : Reading(h) \/ Ending(h) => Reading(h)' \/ Ending(h)'
  <2>1. Complete(r, "nobufs", more) /\ UNCHANGED <<sq, timeline>>
    BY <1>1, <1>3
  <2>2. QED
    BY <1>3, <1>4, <2>1, Completed
<1>6. sq' \in Seq(Submissions) /\ buffers' \in 0..Buffers
  BY <1>1, <1>2 DEF ControlOK
<1>7. QueueKept
  <2>1. stack' \in Seq(Frames) /\ (RunsIn(stack') => RunsIn(stack))
    BY <1>1, <1>2 DEF ControlOK
  <2>2. QED
    BY <1>1, <1>5, <1>6, <2>1, StatusUntouched
<1>8. Announced'
  BY <1>1, <1>2, <1>5 DEF Announced, Delivered
<1>9. OthersKept
  BY <1>1, <1>2, <1>5, <1>8 DEF OthersKept, ControlOK
<1>10. QED
  BY <1>7, <1>9, Together

-----------------------------------------------------------------------------
(* The loop's thread.                                                      *)

LEMMA CallStep ==
  ASSUME IInv, Call
  PROVE  IInv'
<1>1. /\ CallRun \/ CallPoll
      /\ UNCHANGED <<outputQueue, outputCallbacks>>
      /\ UNCHANGED <<waker, wakeValue, fd, inflight, cq, multishot, lapses>>
  BY DEF Call, workVars, wakeVars
<1>2. QueueKept
  BY <1>1, Calling
<1>3. cq' \in Seq(Completions) /\ (Carried => Carried')
  BY <1>1 DEF IInv, ControlOK, Carried
<1>4. OthersKept
  BY <1>1, <1>3, OthersUntouched
<1>5. QED
  BY <1>2, <1>4, Together

LEMMA DropStaleStep ==
  ASSUME IInv, DropStale
  PROVE  IInv'
<1>1. PICK c \in Range(cq) :
        /\ Handling(c) /\ c.is # "suspended" /\ ~Live(c)
        /\ lapses' = lapses \cup Loss(c)
        /\ UNCHANGED <<outputQueue, outputCallbacks>>
        /\ UNCHANGED <<waker, wakeValue, fd, sq, inflight, multishot, handleVars, stack>>
  BY DEF DropStale, workVars, wakeVars
<1>2. ControlOK /\ Announced /\ UNCHANGED timeline
  BY <1>1 DEF IInv, handleVars
<1>3. /\ c \in Completions /\ cq' \in Seq(Completions)
      /\ \/ c.is = "data" /\ c.h = "thread"
         \/ Carried => Carried'
      /\ \A h \in Handles :
           Ending(h) => \/ Ending(h)'
                        \/ c.is # "suspended" /\ c.h = h /\ c.serial = timeline[h] /\ ~c.more
  BY <1>1, <1>2, Handled
<1>4. Loss(c) \subseteq {"postDropped", "wakeupDropped"}
  BY DEF Loss
<1>5. \A h \in Handles : Ending(h) /\ status[h] = "Ok" => Ending(h)'
  BY <1>1, <1>3 DEF Live
<1>6. QueueKept
  BY <1>1, <1>2, <1>4, <1>5, QueueUntouched DEF ControlOK
<1>7. Announced'
  <2>1. c.is = "data" /\ c.h = "thread" /\ ~fd["thread"] /\ Delivered # <<>> => "postDropped" \in Loss(c)
    BY DEF Loss
  <2>2. QED
    BY <1>1, <1>2, <1>3, <2>1 DEF Announced, Delivered
<1>8. OthersKept
  BY <1>1, <1>2, <1>3, <1>4, <1>7 DEF OthersKept, ControlOK
<1>9. QED
  BY <1>6, <1>8, Together

LEMMA NotifyThreadStep ==
  ASSUME IInv, NotifyThread
  PROVE  IInv'
<1>1. PICK c \in Range(cq) :
        /\ Handling(c) /\ c.is = "data" /\ c.h = "thread" /\ Live(c)
        /\ outputQueue' = <<>> /\ outputCallbacks' = <<>>
        /\ lapses' = lapses \ {"postDropped"}
        /\ sq' = IF c.more THEN sq ELSE Append(sq, Read("thread"))
        /\ stack' = stack \o
             <<QueueList, TaskList("thread tasks", IF c.more THEN "armed" ELSE "return", {})>>
        /\ UNCHANGED <<waker, wakeValue, fd, inflight, multishot, handleVars>>
  BY DEF NotifyThread, Receive, wakeVars
<1>2. /\ ControlOK /\ Announced /\ "thread" \in Handles
      /\ UNCHANGED <<timeline, buffers, status, running, suspendedHandles>>
  BY <1>1 DEF IInv, handleVars, Handles
<1>3. /\ c \in Completions /\ cq' \in Seq(Completions)
      /\ \A h \in Handles :
           Ending(h) => \/ Ending(h)'
                        \/ c.is # "suspended" /\ c.h = h /\ c.serial = timeline[h] /\ ~c.more
  BY <1>1, <1>2, Handled
<1>4. /\ sq' \in Seq(Submissions)
      /\ \A h \in Handles : Reading(h) => Reading(h)'
      /\ c.more \/ Reading("thread")'
  <2>1. CASE c.more
    <3>1. UNCHANGED <<sq, inflight, timeline>>
      BY <1>1, <1>2, <2>1
    <3>2. \A h \in Handles : Reading(h)' = Reading(h)
      BY <3>1 DEF Reading, Uncancelled, Read, Cancel
    <3>3. QED
      BY <1>2, <2>1, <3>1, <3>2 DEF ControlOK
  <2>2. CASE ~c.more
    <3>1. sq' = Append(sq, Read("thread"))
      BY <1>1, <2>2
    <3>2. QED
      BY <1>1, <1>2, <3>1, SubmitRead
  <2>3. QED
    BY <2>1, <2>2
<1>5. \A h \in Handles : Reading(h) \/ Ending(h) => Reading(h)' \/ Ending(h)'
  BY <1>1, <1>3, <1>4
<1>6. stack' \in Seq(Frames) /\ (RunsIn(stack') => RunsIn(stack))
  <2>1. PICK f, g : /\ f = QueueList
                    /\ g = TaskList("thread tasks", IF c.more THEN "armed" ELSE "return", {})
    OBVIOUS
  <2>2. f \in Frames /\ f.is # "run" /\ g \in Frames /\ g.is # "run"
    BY <2>1, NewFrames
  <2>3. stack \in Seq(Frames) /\ stack' = stack \o <<f, g>>
    BY <1>1, <1>2, <2>1 DEF ControlOK
  <2>4. /\ <<f, g>> \in Seq(Frames) /\ Len(<<f, g>>) = 2
        /\ <<f, g>>[1] = f /\ <<f, g>>[2] = g
    BY <2>2
  <2>5. /\ stack' \in Seq(Frames) /\ Len(stack') = Len(stack) + 2 /\ Len(stack) \in Nat
        /\ \A i \in 1..(Len(stack) + 2) :
             stack'[i] = IF i <= Len(stack) THEN stack[i] ELSE <<f, g>>[i - Len(stack)]
    BY <2>3, <2>4, ConcatProperties
  <2>6. \A i \in DOMAIN stack' : \/ i \in DOMAIN stack /\ stack'[i] = stack[i]
                                 \/ stack'[i] = f \/ stack'[i] = g
    BY <2>3, <2>4, <2>5
  <2>7. QED
    BY <2>2, <2>5, <2>6 DEF RunsIn
<1>7. QueueKept
  <2>1. buffers' \in 0..Buffers
    BY <1>2 DEF ControlOK
  <2>2. QED
    BY <1>1, <1>2, <1>4, <1>5, <1>6, <2>1, StatusUntouched
<1>8. Announced'
  <2>1. Delivered' = <<>>
    BY <1>1, EmptySeq, ConcatEmptySeq DEF Delivered
  <2>2. QED
    BY <2>1 DEF Announced, Delivered
<1>9. OthersKept
  BY <1>1, <1>2, <1>3, <1>8 DEF OthersKept, ControlOK
<1>10. QED
  BY <1>7, <1>9, Together

LEMMA NotifyNoBuffersStep ==
  ASSUME IInv, NotifyNoBuffers
  PROVE  IInv'
<1>1. PICK c \in Range(cq) :
        /\ Handling(c) /\ c.is = "nobufs" /\ Live(c)
        /\ sq' = Append(sq, Read("thread"))
        /\ buffers' = Buffers
        /\ stack' = ThenTasks(stack)
        /\ UNCHANGED <<outputQueue, outputCallbacks>>
        /\ UNCHANGED <<waker, wakeValue, inflight, fd, multishot, status, timeline,
                       running, suspendedHandles, lapses>>
  BY DEF NotifyNoBuffers, workVars, wakeVars
<1>2. ControlOK /\ "thread" \in Handles
  BY DEF IInv, Handles
<1>3. /\ c \in Completions /\ cq' \in Seq(Completions)
      /\ Carried => Carried'
      /\ \A h \in Handles :
           Ending(h) => \/ Ending(h)'
                        \/ c.is # "suspended" /\ c.h = h /\ c.serial = timeline[h] /\ ~c.more
  BY <1>1, <1>2, Handled
<1>4. c.h = "thread"
  BY <1>1, <1>3, CompletionKinds
<1>5. /\ sq' \in Seq(Submissions)
      /\ \A h \in Handles : Reading(h) => Reading(h)'
      /\ Reading("thread")'
  BY <1>1, <1>2, SubmitRead
<1>6. \A h \in Handles : Reading(h) \/ Ending(h) => Reading(h)' \/ Ending(h)'
  BY <1>3, <1>4, <1>5
<1>7. buffers' \in 0..Buffers
  BY <1>1, BuffersAssumption
<1>8. stack' \in Seq(Frames) /\ (RunsIn(stack') => RunsIn(stack))
  BY <1>1, <1>2, ThenTasksPush DEF ControlOK
<1>9. QueueKept
  BY <1>1, <1>5, <1>6, <1>7, <1>8, StatusUntouched
<1>10. OthersKept
  BY <1>1, <1>3, OthersUntouched
<1>11. QED
  BY <1>9, <1>10, Together

\* A wakeup changes the states of the contexts, and none begins to run.
LEMMA StopFrames ==
  ASSUME stack \in Seq(Frames), stack # <<>>, NEW state \in {"Stopping", "Stopped"}
  PROVE  /\ Stop(state) \in Seq(Frames)
         /\ RunsIn(Stop(state)) =>
              \E i \in 1..Len(stack) - 1 : stack[i].is = "run" /\ stack[i].state = "Running"
<1>1. /\ Len(stack) \in Nat \ {0} /\ DOMAIN stack = 1..Len(stack)
      /\ \A i \in 1..Len(stack) : stack[i] \in Frames
  BY EmptySeq
<1>2. \A f \in Frames :
        /\ [f EXCEPT !.state = state] \in Frames /\ [f EXCEPT !.state = state].state = state
        /\ [f EXCEPT !.woken = FALSE] \in Frames
        /\ [f EXCEPT !.woken = FALSE].is = f.is /\ [f EXCEPT !.woken = FALSE].state = f.state
  BY DEF Frames
<1>3. PICK s : s = Stop(state)
  OBVIOUS
<1>4. /\ s = [i \in 1..Len(stack) |-> s[i]] /\ DOMAIN s = 1..Len(stack)
      /\ \A i \in 1..Len(stack) :
           s[i] = IF i = Len(stack) THEN [stack[i] EXCEPT !.state = state]
                  ELSE [stack[i] EXCEPT !.woken = FALSE]
  BY <1>1, <1>3 DEF Stop
<1>5. \A i \in 1..Len(stack) :
        /\ s[i] \in Frames
        /\ i = Len(stack) => s[i].state = state
        /\ i # Len(stack) => s[i].is = stack[i].is /\ s[i].state = stack[i].state
  BY <1>1, <1>2, <1>4
<1>6. s \in Seq(Frames)
  BY <1>1, <1>4, <1>5, IsASeq
<1>7. RunsIn(s) => \E i \in 1..Len(stack) - 1 : stack[i].is = "run" /\ stack[i].state = "Running"
  <2>1. SUFFICES ASSUME NEW i \in 1..Len(stack), s[i].is = "run", s[i].state = "Running"
                 PROVE  i \in 1..Len(stack) - 1 /\ stack[i].is = "run" /\ stack[i].state = "Running"
    BY <1>4 DEF RunsIn
  <2>2. i # Len(stack)
    BY <1>5, <2>1
  <2>3. i \in 1..Len(stack) - 1
    <3>1. i \in Nat /\ 1 <= i /\ i <= Len(stack) /\ Len(stack) \in Nat
      BY <1>1, <2>1
    <3>2. QED
      BY <2>2, <3>1
  <2>4. s[i].is = stack[i].is /\ s[i].state = stack[i].state
    BY <1>5, <2>2
  <2>5. QED
    BY <2>1, <2>3, <2>4
<1>8. QED
  BY <1>3, <1>6, <1>7

\* A graceful wakeup suspends both handles, and counts those that were not.
LEMMA SuspendAll ==
  ASSUME IInv, NEW H \in SUBSET Handles, H = {h \in Handles : status[h] = "Ok"},
         stack # <<>>,
         sq' = Append(sq, Read("wake")) \o Cancels(H), running' = FALSE,
         status' = [h \in Handles |-> "Suspended"],
         timeline' = [h \in Handles |-> IF h \in H THEN (timeline[h] + 1) % 8
                                        ELSE timeline[h]],
         suspendedHandles' = suspendedHandles + Cardinality(H),
         stack' = ThenTasks(Stop("Stopping")), UNCHANGED buffers,
         lapses' = IF \E i \in 1..Len(stack) - 1 :
                        stack[i].is = "run" /\ stack[i].state = "Running"
                   THEN lapses \cup {"orphaned"} ELSE lapses
  PROVE  QueueKept
<1>1. /\ ControlOK /\ Served /\ Resumed /\ CountOK /\ NoRunStranded
      /\ status \in [Handles -> {"Ok", "Suspended"}] /\ timeline \in [Handles -> 0..7]
      /\ stack \in Seq(Frames) /\ sq \in Seq(Submissions)
      /\ "thread" \in Handles /\ "wake" \in Handles
  BY DEF IInv, ControlOK, Handles
<1>2. sq' \in Seq(Submissions)
  <2>1. Read("wake") \in Submissions
    BY <1>1 DEF Read, Submissions
  <2>2. Append(sq, Read("wake")) \in Seq(Submissions)
    BY <1>1, <2>1, AppendProperties
  <2>3. Cancels(H) \in Seq(Submissions)
    BY <1>1, ReadsFor
  <2>4. QED
    BY <2>2, <2>3, ConcatProperties
<1>3. timeline' \in [Handles -> 0..7]
  <2>1. \A h \in Handles : timeline[h] \in 0..7 /\ (timeline[h] + 1) % 8 \in 0..7
    BY <1>1
  <2>2. QED
    BY <2>1
<1>4. /\ status' \in [Handles -> {"Ok", "Suspended"}]
      /\ \A h \in Handles : status'[h] = "Suspended"
  OBVIOUS
<1>5. Served' /\ Resumed'
  BY <1>1, <1>4 DEF Served, Resumed
<1>6. H = Handles \ Suspended /\ Suspended \subseteq Handles
  BY <1>1 DEF Suspended
<1>7. Suspended' = Handles
  BY <1>4 DEF Suspended
<1>8. /\ Cardinality(Suspended) \in 0..2 /\ Cardinality(H) = 2 - Cardinality(Suspended)
      /\ Cardinality(Handles) = 2
      /\ suspendedHandles \in Nat /\ Cardinality(Suspended) <= suspendedHandles
      /\ "overwritten" \in lapses \/ suspendedHandles = Cardinality(Suspended)
  BY <1>1, <1>6, HandlesCounted DEF CountOK
<1>9. "overwritten" \in lapses' <=> "overwritten" \in lapses
  OBVIOUS
<1>10. /\ suspendedHandles' \in Nat /\ 2 <= suspendedHandles'
       /\ "overwritten" \in lapses' \/ suspendedHandles' = 2
  BY <1>8, <1>9
<1>11. CountOK'
  BY <1>7, <1>8, <1>10 DEF CountOK
<1>12. suspendedHandles' \in IF "overwritten" \in lapses' THEN Nat ELSE 0..2
  BY <1>10
<1>13. /\ Stop("Stopping") \in Seq(Frames)
       /\ RunsIn(Stop("Stopping")) =>
            \E i \in 1..Len(stack) - 1 : stack[i].is = "run" /\ stack[i].state = "Running"
  BY <1>1, StopFrames
<1>14. stack' \in Seq(Frames) /\ (RunsIn(stack') => RunsIn(Stop("Stopping")))
  BY <1>13, ThenTasksPush
<1>15. NoRunStranded'
  BY <1>13, <1>14 DEF NoRunStranded
<1>16. buffers' \in 0..Buffers /\ running' \in BOOLEAN
  BY <1>1 DEF ControlOK
<1>17. QED
  BY <1>2, <1>3, <1>4, <1>5, <1>11, <1>12, <1>14, <1>15, <1>16 DEF QueueKept

LEMMA NotifyWakeStep ==
  ASSUME IInv, NotifyWake
  PROVE  IInv'
<1>1. PICK c \in Range(cq) :
        /\ Handling(c) /\ c.is = "data" /\ c.h = "wake" /\ Live(c)
        /\ wakeValue' = {}
        /\ IF Top.state = "Running" /\ "Graceful" \in Flags
           THEN LET H == {h \in Handles : status[h] = "Ok"} IN
                /\ sq' = Append(sq, Read("wake")) \o Cancels(H)
                /\ running' = FALSE
                /\ status' = [h \in Handles |-> "Suspended"]
                /\ timeline' = [h \in Handles |-> IF h \in H THEN (timeline[h] + 1) % 8
                                                   ELSE timeline[h]]
                /\ suspendedHandles' = suspendedHandles + Cardinality(H)
                /\ stack' = ThenTasks(Stop("Stopping"))
                /\ lapses' = IF \E i \in 1..Len(stack) - 1 :
                                  stack[i].is = "run" /\ stack[i].state = "Running"
                             THEN lapses \cup {"orphaned"} ELSE lapses
           ELSE /\ sq' = Append(sq, Read("wake"))
                /\ stack' = ThenTasks(IF Top.state = "Running" THEN Stop("Stopped") ELSE stack)
                /\ UNCHANGED <<running, status, timeline, suspendedHandles, lapses>>
        /\ UNCHANGED <<outputQueue, outputCallbacks>>
        /\ UNCHANGED <<waker, inflight, fd, multishot, buffers>>
  BY DEF NotifyWake, workVars
<1>2. ControlOK /\ Announced /\ "wake" \in Handles
  BY DEF IInv, Handles
<1>3. /\ c \in Completions /\ cq' \in Seq(Completions) /\ stack # <<>>
      /\ Carried => Carried'
      /\ timeline' = timeline =>
           \A h \in Handles :
             Ending(h) => \/ Ending(h)'
                          \/ c.is # "suspended" /\ c.h = h /\ c.serial = timeline[h] /\ ~c.more
  BY <1>1, <1>2, Handled
<1>4. CASE Top.state = "Running" /\ "Graceful" \in Flags
  <2>1. PICK H \in SUBSET Handles : H = {h \in Handles : status[h] = "Ok"}
    OBVIOUS
  <2>2. QueueKept
    BY <1>1, <1>3, <1>4, <2>1, SuspendAll
  <2>3. lapses' \in {lapses, lapses \cup {"orphaned"}}
    BY <1>1, <1>4
  <2>4. Announced'
    BY <1>1, <1>2, <1>3, <2>3 DEF Announced, Delivered
  <2>5. OthersKept
    BY <1>1, <1>2, <1>3, <2>3, <2>4 DEF OthersKept, ControlOK
  <2>6. QED
    BY <2>2, <2>5, Together
<1>5. CASE ~(Top.state = "Running" /\ "Graceful" \in Flags)
  <2>1. /\ sq' = Append(sq, Read("wake"))
        /\ stack' = ThenTasks(IF Top.state = "Running" THEN Stop("Stopped") ELSE stack)
        /\ UNCHANGED <<running, status, timeline, suspendedHandles, lapses>>
    BY <1>1, <1>5
  <2>2. /\ sq' \in Seq(Submissions)
        /\ \A h \in Handles : Reading(h) => Reading(h)'
        /\ Reading("wake")'
    BY <1>1, <1>2, <2>1, SubmitRead
  <2>3. \A h \in Handles : Reading(h) \/ Ending(h) => Reading(h)' \/ Ending(h)'
    BY <1>1, <1>3, <2>1, <2>2
  <2>4. PICK s : /\ s = IF Top.state = "Running" THEN Stop("Stopped") ELSE stack
                 /\ stack' = ThenTasks(s)
    BY <2>1
  <2>5. s \in Seq(Frames) /\ (RunsIn(s) => RunsIn(stack))
    <3>1. stack \in Seq(Frames) /\ 1..Len(stack) - 1 \subseteq DOMAIN stack
      BY <1>2 DEF ControlOK
    <3>2. Stop("Stopped") \in Seq(Frames) /\ (RunsIn(Stop("Stopped")) => RunsIn(stack))
      BY <1>3, <3>1, StopFrames DEF RunsIn
    <3>3. QED
      BY <2>4, <3>1, <3>2
  <2>6. stack' \in Seq(Frames) /\ (RunsIn(stack') => RunsIn(stack))
    BY <2>4, <2>5, ThenTasksPush
  <2>7. buffers' \in 0..Buffers
    BY <1>1, <1>2 DEF ControlOK
  <2>8. QueueKept
    BY <2>1, <2>2, <2>3, <2>6, <2>7, StatusUntouched
  <2>9. Announced'
    BY <1>1, <1>2, <1>3, <2>1 DEF Announced, Delivered
  <2>10. OthersKept
    BY <1>1, <1>2, <1>3, <2>1, <2>9 DEF OthersKept, ControlOK
  <2>11. QED
    BY <2>8, <2>10, Together
<1>6. QED
  BY <1>4, <1>5

LEMMA NotifySuspendedStep ==
  ASSUME IInv, NotifySuspended
  PROVE  IInv'
<1>1. PICK c \in Range(cq) :
        /\ Handling(c) /\ c.is = "suspended"
        /\ stack' = IF suspendedHandles = Cardinality(Handles) /\ Top.state = "Stopping"
                    THEN [stack EXCEPT ![Len(stack)].state = "Stopped"] ELSE stack
        /\ UNCHANGED <<outputQueue, outputCallbacks>>
        /\ UNCHANGED <<waker, wakeValue, sq, inflight, fd, multishot, handleVars, lapses>>
  BY DEF NotifySuspended, workVars, wakeVars
<1>2. ControlOK /\ UNCHANGED timeline /\ stack \in Seq(Frames)
  BY <1>1 DEF IInv, handleVars, ControlOK
<1>3. /\ cq' \in Seq(Completions) /\ (Carried => Carried') /\ stack # <<>>
      /\ \A h \in Handles : Ending(h) => Ending(h)'
  BY <1>1, <1>2, Handled
<1>4. stack' \in Seq(Frames) /\ (RunsIn(stack') => RunsIn(stack))
  <2>1. CASE stack' = stack
    BY <1>2, <2>1
  <2>2. CASE stack' = [stack EXCEPT ![Len(stack)].state = "Stopped"]
    <3>1. /\ Len(stack) \in Nat \ {0} /\ DOMAIN stack = 1..Len(stack)
          /\ \A i \in 1..Len(stack) : stack[i] \in Frames
      BY <1>2, <1>3, EmptySeq
    <3>2. stack' = [i \in DOMAIN stack |->
                      IF i = Len(stack) THEN [stack[Len(stack)] EXCEPT !.state = "Stopped"]
                      ELSE stack[i]]
      BY <2>2
    <3>3. \A f \in Frames :
            LET g == [f EXCEPT !.state = "Stopped"] IN g \in Frames /\ g.state = "Stopped"
      BY DEF Frames
    <3>4. \A i \in 1..Len(stack) :
            stack'[i] \in Frames /\ (stack'[i].state = "Stopped" \/ stack'[i] = stack[i])
      BY <3>1, <3>2, <3>3
    <3>5. stack' = [i \in 1..Len(stack) |-> stack'[i]] /\ DOMAIN stack' = 1..Len(stack)
      BY <3>1, <3>2
    <3>6. stack' \in Seq(Frames)
      BY <3>1, <3>4, <3>5, IsASeq
    <3>7. RunsIn(stack') => RunsIn(stack)
      BY <3>1, <3>4, <3>5 DEF RunsIn
    <3>8. QED
      BY <3>6, <3>7
  <2>3. QED
    BY <1>1, <2>1, <2>2
<1>5. QueueKept
  BY <1>1, <1>3, <1>4, QueueUntouched
<1>6. OthersKept
  BY <1>1, <1>3, OthersUntouched
<1>7. QED
  BY <1>5, <1>6, Together

LEMMA ReturnStep ==
  ASSUME IInv, Return
  PROVE  IInv'
<1>1. /\ stack # <<>> /\ stack' = Front(stack)
      /\ UNCHANGED <<outputQueue, outputCallbacks>>
      /\ UNCHANGED <<waker, wakeValue, sq, inflight, cq, fd, multishot, handleVars, lapses>>
  BY DEF Return, InContext, workVars, wakeVars, kernelVars
<1>2. ControlOK /\ UNCHANGED timeline
  BY <1>1 DEF IInv, handleVars
<1>3. stack' \in Seq(Frames) /\ (RunsIn(stack') => RunsIn(stack))
  BY <1>1, <1>2, PopFrame DEF ControlOK
<1>4. QueueKept
  BY <1>1, <1>2, <1>3, QueueUntouched DEF Ending
<1>5. cq' \in Seq(Completions) /\ (Carried => Carried')
  BY <1>1, <1>2 DEF ControlOK, Carried
<1>6. OthersKept
  BY <1>1, <1>5, OthersUntouched
<1>7. QED
  BY <1>4, <1>6, Together

\* What a task posts from outside of a notification is announced.
LEMMA RunTaskStep ==
  ASSUME IInv, RunTask
  PROVE  IInv'
<1>1. PICK P \in {<<>>} \cup {<<p>> : p \in Inner \ Posted} :
        /\ PerformNext(P)
        /\ UNCHANGED <<waker, wakeValue, inflight, cq, multishot, lapses>>
        /\ UNCHANGED <<sq, handleVars, stack>> \/ CallRun \/ CallPoll
  BY DEF RunTask, wakeVars
<1>2. /\ ControlOK /\ Announced /\ fd \in [Handles -> BOOLEAN]
      /\ "thread" \in Handles
  BY DEF IInv, ControlOK, Handles
<1>3. QueueKept
  <2>1. CASE UNCHANGED <<sq, handleVars, stack>>
    <3>1. UNCHANGED <<cq, timeline>> /\ stack' \in Seq(Frames) /\ (RunsIn(stack') => RunsIn(stack))
      BY <1>1, <1>2, <2>1 DEF handleVars, ControlOK
    <3>2. QED
      BY <1>1, <2>1, <3>1, QueueUntouched DEF Ending
  <2>2. CASE CallRun \/ CallPoll
    BY <1>1, <2>2, Calling
  <2>3. QED
    BY <1>1, <2>1, <2>2
<1>4. /\ fd' \in [Handles -> BOOLEAN]
      /\ fd'["thread"] \/ UNCHANGED <<outputQueue, outputCallbacks, fd>>
  BY <1>1, <1>2 DEF PerformNext, Perform
<1>5. Announced'
  BY <1>1, <1>2, <1>4 DEF Announced, Carried, Delivered
<1>6. OthersKept
  BY <1>1, <1>2, <1>4, <1>5 DEF OthersKept, ControlOK
<1>7. QED
  BY <1>3, <1>6, Together

\* The notification ends, and may overwrite the status of the thread's handle.
LEMMA TasksReturnStep ==
  ASSUME IInv, TasksReturn
  PROVE  IInv'
<1>1. /\ stack # <<>> /\ stack' = Front(stack)
      /\ IF Top.state = "armed"
         THEN /\ status' = [status EXCEPT !["thread"] = "Ok"]
              /\ lapses' = IF status["thread"] = "Ok" THEN lapses
                           ELSE lapses \cup {"overwritten"}
         ELSE UNCHANGED <<status, lapses>>
      /\ UNCHANGED <<outputQueue, outputCallbacks>>
      /\ UNCHANGED <<waker, wakeValue, sq, inflight, cq, fd, multishot, buffers, timeline,
                     running, suspendedHandles>>
  BY DEF TasksReturn, InTasks, workVars, wakeVars, kernelVars
<1>2. /\ ControlOK /\ Served /\ Resumed /\ CountOK /\ NoRunStranded /\ Announced
      /\ status \in [Handles -> {"Ok", "Suspended"}]
  BY DEF IInv, ControlOK
<1>3. stack' \in Seq(Frames) /\ (RunsIn(stack') => RunsIn(stack))
  BY <1>1, <1>2, PopFrame DEF ControlOK
<1>4. cq' \in Seq(Completions) /\ (Carried => Carried')
  BY <1>1, <1>2 DEF ControlOK, Carried
<1>5. CASE UNCHANGED <<status, lapses>>
  <2>1. QueueKept
    BY <1>1, <1>3, <1>5, QueueUntouched DEF Ending, handleVars
  <2>2. OthersKept
    BY <1>1, <1>4, <1>5, OthersUntouched
  <2>3. QED
    BY <2>1, <2>2, Together
<1>6. CASE /\ status' = [status EXCEPT !["thread"] = "Ok"]
           /\ status["thread"] = "Suspended" /\ lapses' = lapses \cup {"overwritten"}
  <2>1. /\ status' \in [Handles -> {"Ok", "Suspended"}]
        /\ status'["thread"] = "Ok" /\ status'["wake"] = status["wake"]
        /\ \A h \in Handles : h = "thread" \/ h = "wake"
    BY <1>2, <1>6 DEF Handles
  <2>2. \A h \in Handles : Reading(h)' = Reading(h) /\ Ending(h)' = Ending(h)
    BY <1>1 DEF Reading, Ending, Uncancelled, Read, Cancel
  <2>3. Served'
    BY <1>2, <1>6, <2>1, <2>2 DEF Served
  <2>4. Resumed'
    BY <1>1, <1>2, <1>6, <2>1 DEF Resumed
  <2>5. CountOK'
    <3>1. Suspended' \subseteq Handles /\ Suspended \subseteq Handles /\ "thread" \notin Suspended'
      BY <2>1 DEF Suspended
    <3>2. Cardinality(Suspended') <= Cardinality(Suspended)
      <4>1. Suspended' \subseteq Suspended
        BY <2>1 DEF Suspended
      <4>2. IsFiniteSet(Suspended)
        <5>1. IsFiniteSet({"thread"}) /\ IsFiniteSet({"thread"} \cup {"wake"})
          BY FS_Singleton, FS_AddElement
        <5>2. Handles = {"thread"} \cup {"wake"}
          BY DEF Handles
        <5>3. QED
          BY <3>1, <5>1, <5>2, FS_Subset
      <4>3. QED
        BY <4>1, <4>2, FS_Subset
    <3>3. Cardinality(Suspended') \in Nat /\ Cardinality(Suspended) \in Nat
      <4>1. \A H \in SUBSET Handles : Cardinality(H) \in 0..2
        BY HandlesCounted
      <4>2. Cardinality(Suspended') \in 0..2 /\ Cardinality(Suspended) \in 0..2
        BY <3>1, <4>1
      <4>3. QED
        BY <4>2
    <3>4. suspendedHandles' \in Nat /\ Cardinality(Suspended') <= suspendedHandles'
      BY <1>1, <1>2, <3>2, <3>3 DEF CountOK
    <3>5. QED
      BY <1>6, <3>4 DEF CountOK
  <2>6. NoRunStranded'
    BY <1>1, <1>2, <1>3, <1>6 DEF NoRunStranded
  <2>7. suspendedHandles' \in IF "overwritten" \in lapses' THEN Nat ELSE 0..2
    BY <1>1, <1>2, <1>6 DEF CountOK
  <2>8. QueueKept
    BY <1>1, <1>2, <1>3, <2>1, <2>3, <2>4, <2>5, <2>6, <2>7 DEF QueueKept, ControlOK
  <2>9. Announced'
    BY <1>1, <1>2, <1>4, <1>6 DEF Announced, Delivered
  <2>10. OthersKept
    BY <1>1, <1>2, <1>4, <1>6, <2>9 DEF OthersKept, ControlOK
  <2>11. QED
    BY <2>8, <2>10, Together
<1>7. CASE Top.state = "armed" /\ status["thread"] = "Ok"
  <2>1. status' = [status EXCEPT !["thread"] = "Ok"] /\ lapses' = lapses
    BY <1>1, <1>7
  <2>2. status' = status
    BY <1>2, <1>7, <2>1
  <2>3. QED
    BY <1>5, <2>1, <2>2
<1>8. status["thread"] \in {"Ok", "Suspended"}
  BY <1>2 DEF Handles
<1>9. QED
  BY <1>1, <1>5, <1>6, <1>7, <1>8

LEMMA TasksRunStep ==
  ASSUME IInv, TasksRun
  PROVE  IInv'
<1>1. /\ stack # <<>> /\ Enter(Context("run", Top.flags), Front(stack))
      /\ UNCHANGED <<outputQueue, outputCallbacks>>
      /\ UNCHANGED <<waker, wakeValue, fd, inflight, cq, multishot, lapses>>
  BY DEF TasksRun, InTasks, workVars, wakeVars
<1>2. stack \in Seq(Frames) /\ cq \in Seq(Completions)
  BY DEF IInv, ControlOK
<1>3. Front(stack) \in Seq(Frames) /\ Top \in Frames
  BY <1>1, <1>2, PopFrame DEF Top
<1>4. Top.flags \in SUBSET {"Graceful", "ContextDefault"}
  BY <1>3 DEF Frames
<1>5. Context("run", Top.flags) \in Frames
  BY <1>4, NewFrames DEF Contexts
<1>6. QueueKept
  BY <1>1, <1>3, <1>5, Entering
<1>7. cq' \in Seq(Completions) /\ (Carried => Carried')
  BY <1>1, <1>2 DEF Carried
<1>8. OthersKept
  BY <1>1, <1>7, OthersUntouched
<1>9. QED
  BY <1>6, <1>8, Together

-----------------------------------------------------------------------------
(* The queue, its handles and the kernel, all together.                    *)

LEMMA ControlInit ==
  ASSUME Init
  PROVE  IInv
<1>1. /\ \A h \in Handles : status[h] = "Ok" /\ timeline[h] = 0
      /\ status \in [Handles -> {"Ok", "Suspended"}] /\ timeline \in [Handles -> 0..7]
      /\ inflight = {[h |-> h, serial |-> 0] : h \in Handles}
      /\ sq = <<>> /\ cq = <<>> /\ stack = <<>>
      /\ outputQueue = <<>> /\ outputCallbacks = <<>>
  BY DEF Init
<1>2. sq \in Seq(Submissions) /\ cq \in Seq(Completions) /\ stack \in Seq(Frames)
  BY <1>1, EmptySeq
<1>3. inflight \subseteq [h : Handles, serial : 0..7]
  BY <1>1
<1>4. ControlOK
  BY <1>1, <1>2, <1>3, BuffersAssumption DEF Init, ControlOK
<1>5. Served
  <2>1. SUFFICES ASSUME NEW h \in Handles PROVE Reading(h)
    BY DEF Served
  <2>2. [h |-> h, serial |-> timeline[h]] \in inflight
    BY <1>1
  <2>3. Uncancelled(h, 0)
    BY <1>1 DEF Uncancelled
  <2>4. QED
    BY <2>2, <2>3 DEF Reading
<1>6. Resumed /\ NoRunStranded
  BY <1>1 DEF Init, Resumed, NoRunStranded
<1>7. CountOK
  <2>1. Suspended = {}
    BY <1>1 DEF Suspended
  <2>2. Cardinality({}) = 0
    BY FS_EmptySet
  <2>3. QED
    BY <2>1, <2>2 DEF Init, CountOK
<1>8. Announced
  <2>1. Delivered = <<>>
    BY <1>1, EmptySeq, ConcatEmptySeq DEF Delivered
  <2>2. QED
    BY <2>1 DEF Announced
<1>9. QED
  BY <1>4, <1>5, <1>6, <1>7, <1>8 DEF IInv

LEMMA ControlStep ==
  ASSUME IInv, [Next]_vars
  PROVE  IInv'
<1>1. ASSUME NEW p \in Posts, Post(p)
      PROVE  IInv'
  BY <1>1, PostStep
<1>2. ASSUME NEW w \in Wakers, Mark(w) \/ Signal(w)
      PROVE  IInv'
  BY <1>2, MarkStep, SignalStep
<1>3. CASE KernelStep
  BY <1>3, KernelTakesStep, KernelReadsStep, KernelNoBuffersStep DEF KernelStep
<1>4. CASE Call
  BY <1>4, CallStep
<1>5. CASE LoopStep
  BY <1>5, DropStaleStep, NotifyThreadStep, NotifyNoBuffersStep, NotifyWakeStep,
     NotifySuspendedStep, ReturnStep, RunTaskStep, TasksReturnStep, TasksRunStep
     DEF LoopStep
<1>6. CASE UNCHANGED vars
  <2>1. /\ UNCHANGED <<outputQueue, outputCallbacks, waker, wakeValue, fd>>
        /\ UNCHANGED <<inflight, multishot, lapses, sq, cq, handleVars, timeline, stack>>
    BY <1>6 DEF vars, workVars, wakeVars, kernelVars, handleVars
  <2>2. ControlOK
    BY DEF IInv
  <2>3. QueueKept
    BY <2>1, <2>2, QueueUntouched DEF ControlOK, Ending
  <2>4. cq' \in Seq(Completions) /\ (Carried => Carried')
    BY <2>1, <2>2 DEF ControlOK, Carried
  <2>5. OthersKept
    BY <2>1, <2>4, OthersUntouched
  <2>6. QED
    BY <2>3, <2>5, Together
<1>7. QED
  BY <1>1, <1>2, <1>3, <1>4, <1>5, <1>6 DEF Next

LEMMA ControlInvariant == Spec => []IInv
<1>1. Init => IInv
  BY ControlInit
<1>2. IInv /\ [Next]_vars => IInv'
  BY ControlStep
<1>3. QED
  BY <1>1, <1>2, PTL DEF Spec

\* A run that goes on can be woken up: unless a nested run was stopped
\* gracefully under it, the wake handle is Ok, and it is being read, has its
\* read submitted, or the completion of the read is on its way.
THEOREM RunsCanBeWoken == Spec => []RunCanBeWoken
<1>1. IInv => RunCanBeWoken
  <2>1. SUFFICES ASSUME IInv, InContext, Top.is = "run", Top.state = "Running",
                        "orphaned" \notin lapses
                 PROVE  /\ running /\ status["wake"] = "Ok"
                        /\ \/ Listening("wake")
                           \/ \E c \in Range(cq) : c.is = "data" /\ c.h = "wake" /\ Live(c)
    BY DEF RunCanBeWoken
  <2>2. ControlOK /\ Served /\ Resumed /\ NoRunStranded /\ "wake" \in Handles
    BY <2>1 DEF IInv, Handles
  <2>3. RunsIn(stack)
    <3>1. stack \in Seq(Frames) /\ stack # <<>>
      BY <2>1, <2>2 DEF InContext, ControlOK
    <3>2. Len(stack) \in DOMAIN stack /\ Top = stack[Len(stack)]
      BY <3>1, PopFrame DEF Top
    <3>3. QED
      BY <2>1, <3>2 DEF RunsIn
  <2>4. running /\ status["wake"] = "Ok"
    BY <2>1, <2>2, <2>3 DEF NoRunStranded, Resumed
  <2>5. CASE Reading("wake")
    BY <2>4, <2>5 DEF Reading, Listening, Uncancelled
  <2>6. CASE Ending("wake")
    <3>1. PICK i \in DOMAIN cq : /\ cq[i].is # "suspended" /\ cq[i].h = "wake"
                                 /\ cq[i].serial = timeline["wake"] /\ ~cq[i].more
      BY <2>6 DEF Ending
    <3>2. cq[i] \in Completions
      BY <2>2, <3>1 DEF ControlOK
    <3>3. cq[i].is = "data" /\ Live(cq[i])
      BY <2>4, <3>1, <3>2, CompletionKinds DEF Live
    <3>4. cq[i] \in Range(cq)
      BY <3>1 DEF Range
    <3>5. QED
      BY <2>4, <3>1, <3>3, <3>4
  <2>7. QED
    BY <2>2, <2>4, <2>5, <2>6 DEF Served
<1>2. QED
  BY <1>1, ControlInvariant, PTL

\* Posted work is never forgotten: it has a completion on its way, or a set
\* eventfd that is read now or when the loop runs again; unless a completion
\* that carried it was stale, or a suspended handle was marked as running.
THEOREM PostsAreAnnounced == Spec => []NoLostPostUnlessLapsed
<1>1. IInv => NoLostPostUnlessLapsed
  <2>1. SUFFICES ASSUME IInv, Delivered # <<>>, "postDropped" \notin lapses,
                        "overwritten" \notin lapses
                 PROVE  \/ Arriving("thread")
                        \/ fd["thread"] /\ (status["thread"] = "Suspended" \/ Listening("thread"))
    BY DEF NoLostPostUnlessLapsed, NoLostPost
  <2>2. /\ ControlOK /\ Served /\ Announced /\ "thread" \in Handles
        /\ status["thread"] \in {"Ok", "Suspended"}
    BY <2>1 DEF IInv, ControlOK, Handles
  <2>3. Carried => Arriving("thread")
    BY DEF Carried, Arriving, Range
  <2>4. Ending("thread") => Arriving("thread")
    BY DEF Ending, Arriving, Range
  <2>5. Reading("thread") => Listening("thread")
    BY DEF Reading, Listening, Uncancelled
  <2>6. QED
    BY <2>1, <2>2, <2>3, <2>4, <2>5 DEF Served, Announced
<1>2. QED
  BY <1>1, ControlInvariant, PTL

-----------------------------------------------------------------------------
(* Queues of posts: what is in them, and in which order.                   *)

LEMMA Empty == Range(<<>>) = {} /\ IsInjective(<<>>) /\ \A q, p : ~Before(<<>>, q, p)
  BY DEF Range, IsInjective, Before

LEMMA BeforeIn ==
  ASSUME NEW s, NEW q, NEW p, Before(s, q, p)
  PROVE  q \in Range(s) /\ p \in Range(s)
  BY DEF Before, Range

\* One more at the end.
LEMMA Appended ==
  ASSUME NEW S, NEW s \in Seq(S), NEW e \in S
  PROVE  /\ Append(s, e) \in Seq(S) /\ Range(Append(s, e)) = Range(s) \cup {e}
         /\ IsInjective(s) /\ e \notin Range(s) => IsInjective(Append(s, e))
         /\ \A q, p : Before(Append(s, e), q, p) <=> Before(s, q, p) \/ (p = e /\ q \in Range(s))
<1>1. PICK t : t = Append(s, e)
  OBVIOUS
<1>2. /\ t \in Seq(S) /\ Len(t) = Len(s) + 1 /\ Len(s) \in Nat
      /\ \A i \in 1..Len(s) : t[i] = s[i]
      /\ t[Len(s) + 1] = e
      /\ DOMAIN s = 1..Len(s) /\ DOMAIN t = 1..(Len(s) + 1)
  BY <1>1, AppendProperties
<1>3. PICK n \in Nat : n = Len(s) + 1
  BY <1>2
<1>4. /\ DOMAIN t = DOMAIN s \cup {n} /\ n \notin DOMAIN s /\ t[n] = e
      /\ \A i \in DOMAIN s : t[i] = s[i] /\ i < n /\ ~(n < i) /\ i \in Nat
      /\ ~(n < n)
  BY <1>2, <1>3
<1>5. Range(t) = Range(s) \cup {e}
  BY <1>4 DEF Range
<1>6. IsInjective(s) /\ e \notin Range(s) => IsInjective(t)
  BY <1>4 DEF IsInjective, Range
<1>7. ASSUME NEW q, NEW p
      PROVE  Before(t, q, p) <=> Before(s, q, p) \/ (p = e /\ q \in Range(s))
  <2>1. ASSUME Before(t, q, p) PROVE Before(s, q, p) \/ (p = e /\ q \in Range(s))
    BY <1>4, <2>1 DEF Before, Range
  <2>2. ASSUME Before(s, q, p) PROVE Before(t, q, p)
    BY <1>4, <2>2 DEF Before
  <2>3. ASSUME p = e, q \in Range(s) PROVE Before(t, q, p)
    BY <1>4, <2>3 DEF Before, Range
  <2>4. QED
    BY <2>1, <2>2, <2>3
<1>8. QED
  BY <1>1, <1>2, <1>5, <1>6, <1>7

\* One less at the front.
LEMMA Taken ==
  ASSUME NEW S, NEW s \in Seq(S), s # <<>>, IsInjective(s)
  PROVE  /\ Tail(s) \in Seq(S) /\ Head(s) \in Range(s) /\ Head(s) \in S
         /\ Range(Tail(s)) = Range(s) \ {Head(s)} /\ IsInjective(Tail(s))
         /\ \A q, p : Before(Tail(s), q, p) <=> Before(s, q, p) /\ q # Head(s)
         /\ \A q : ~Before(s, q, Head(s))
<1>1. PICK t : t = Tail(s)
  OBVIOUS
<1>2. /\ t \in Seq(S) /\ Len(t) = Len(s) - 1 /\ Len(s) \in Nat \ {0}
      /\ \A i \in 1..Len(t) : t[i] = s[i + 1]
      /\ DOMAIN s = 1..Len(s) /\ DOMAIN t = 1..Len(t)
      /\ Head(s) = s[1] /\ Head(s) \in S
  BY <1>1, HeadTailProperties
<1>3. /\ 1 \in DOMAIN s
      /\ \A i \in DOMAIN t : i + 1 \in DOMAIN s /\ i + 1 # 1 /\ t[i] = s[i + 1] /\ i \in Nat
      /\ \A i \in DOMAIN s : i # 1 => i - 1 \in DOMAIN t /\ t[i - 1] = s[i]
      /\ \A i \in DOMAIN s : i \in Nat /\ ~(i < 1)
  BY <1>2
<1>4. \A i \in DOMAIN s : i # 1 => s[i] # Head(s)
  BY <1>2, <1>3 DEF IsInjective
<1>5. Range(t) = Range(s) \ {Head(s)}
  <2>1. ASSUME NEW x \in Range(t) PROVE x \in Range(s) \ {Head(s)}
    BY <1>3, <1>4 DEF Range
  <2>2. ASSUME NEW x \in Range(s), x # Head(s) PROVE x \in Range(t)
    <3>1. PICK i \in DOMAIN s : s[i] = x
      BY DEF Range
    <3>2. i # 1
      BY <1>2, <2>2, <3>1
    <3>3. QED
      BY <1>3, <3>1, <3>2 DEF Range
  <2>3. QED
    BY <2>1, <2>2
<1>6. IsInjective(t)
  <2>1. SUFFICES ASSUME NEW i \in DOMAIN t, NEW j \in DOMAIN t, t[i] = t[j] PROVE i = j
    BY DEF IsInjective
  <2>2. i + 1 = j + 1
    BY <1>3, <2>1 DEF IsInjective
  <2>3. QED
    BY <1>3, <2>2
<1>7. ASSUME NEW q, NEW p
      PROVE  Before(t, q, p) <=> Before(s, q, p) /\ q # Head(s)
  <2>1. ASSUME Before(t, q, p) PROVE Before(s, q, p) /\ q # Head(s)
    <3>1. PICK i \in DOMAIN t, j \in DOMAIN t : i < j /\ t[i] = q /\ t[j] = p
      BY <2>1 DEF Before
    <3>2. i + 1 < j + 1
      BY <1>3, <3>1
    <3>3. s[i + 1] = q /\ s[j + 1] = p /\ i + 1 \in DOMAIN s /\ j + 1 \in DOMAIN s
      BY <1>3, <3>1
    <3>4. q # Head(s)
      BY <1>3, <1>4, <3>3
    <3>5. QED
      BY <3>2, <3>3, <3>4 DEF Before
  <2>2. ASSUME Before(s, q, p), q # Head(s) PROVE Before(t, q, p)
    <3>1. PICK i \in DOMAIN s, j \in DOMAIN s : i < j /\ s[i] = q /\ s[j] = p
      BY <2>2 DEF Before
    <3>2. i # 1 /\ j # 1 /\ i \in Nat /\ j \in Nat
      BY <1>2, <1>3, <2>2, <3>1
    <3>3. i - 1 < j - 1
      BY <3>1, <3>2
    <3>4. i - 1 \in DOMAIN t /\ j - 1 \in DOMAIN t /\ t[i - 1] = q /\ t[j - 1] = p
      BY <1>3, <3>1, <3>2
    <3>5. QED
      BY <3>3, <3>4 DEF Before
  <2>3. QED
    BY <2>1, <2>2
<1>8. ASSUME NEW q, Before(s, q, Head(s)) PROVE FALSE
  <2>1. PICK i \in DOMAIN s, j \in DOMAIN s : i < j /\ s[j] = Head(s)
    BY <1>8 DEF Before
  <2>2. j = 1
    BY <1>4, <2>1
  <2>3. QED
    BY <1>3, <2>1, <2>2
<1>9. Head(s) \in Range(s)
  BY <1>2, <1>3 DEF Range
<1>10. QED
  BY <1>1, <1>2, <1>5, <1>6, <1>7, <1>8, <1>9

\* Two queues, one behind the other.
LEMMA Joined ==
  ASSUME NEW S, NEW s \in Seq(S), NEW t \in Seq(S)
  PROVE  /\ s \o t \in Seq(S) /\ Range(s \o t) = Range(s) \cup Range(t)
         /\ IsInjective(s) /\ IsInjective(t) /\ Range(s) \cap Range(t) = {}
              => IsInjective(s \o t)
         /\ \A q, p : Before(s \o t, q, p) <=> \/ Before(s, q, p) \/ Before(t, q, p)
                                               \/ q \in Range(s) /\ p \in Range(t)
<1>1. PICK u : u = s \o t
  OBVIOUS
<1>2. /\ u \in Seq(S) /\ Len(u) = Len(s) + Len(t) /\ Len(s) \in Nat /\ Len(t) \in Nat
      /\ \A i \in 1..Len(s) + Len(t) : u[i] = IF i <= Len(s) THEN s[i] ELSE t[i - Len(s)]
      /\ DOMAIN s = 1..Len(s) /\ DOMAIN t = 1..Len(t) /\ DOMAIN u = 1..Len(s) + Len(t)
  BY <1>1, ConcatProperties
<1>3. PICK n \in Nat : n = Len(s)
  BY <1>2
<1>4. /\ \A i \in DOMAIN s : i \in DOMAIN u /\ u[i] = s[i] /\ i \in Nat /\ i <= n
      /\ \A i \in DOMAIN t : n + i \in DOMAIN u /\ u[n + i] = t[i] /\ i \in Nat /\ 1 <= i
  BY <1>2, <1>3
<1>5. \A i \in DOMAIN u : \/ i \in DOMAIN s /\ u[i] = s[i]
                          \/ \E k \in DOMAIN t : i = n + k /\ u[i] = t[k]
  <2>1. SUFFICES ASSUME NEW i \in DOMAIN u, i \notin DOMAIN s
                 PROVE  \E k \in DOMAIN t : i = n + k /\ u[i] = t[k]
    BY <1>4
  <2>2. i - n \in DOMAIN t /\ i = n + (i - n)
    BY <1>2, <1>3, <2>1
  <2>3. QED
    BY <1>4, <2>2
<1>6. Range(u) = Range(s) \cup Range(t)
  BY <1>1, RangeConcatenation
<1>7. ASSUME IsInjective(s), IsInjective(t), Range(s) \cap Range(t) = {}
      PROVE  IsInjective(u)
  <2>1. SUFFICES ASSUME NEW i \in DOMAIN u, NEW j \in DOMAIN u, u[i] = u[j] PROVE i = j
    BY DEF IsInjective
  <2>2. \A a \in DOMAIN s, b \in DOMAIN t : s[a] # t[b]
    BY <1>7 DEF Range
  <2>3. CASE i \in DOMAIN s /\ j \in DOMAIN s
    BY <1>4, <1>7, <2>1, <2>3 DEF IsInjective
  <2>4. CASE i \notin DOMAIN s /\ j \notin DOMAIN s
    <3>1. PICK k \in DOMAIN t, l \in DOMAIN t : i = n + k /\ j = n + l /\ t[k] = t[l]
      BY <1>5, <2>1, <2>4
    <3>2. k = l
      BY <1>7, <3>1 DEF IsInjective
    <3>3. QED
      BY <3>1, <3>2
  <2>5. CASE i \in DOMAIN s /\ j \notin DOMAIN s
    BY <1>4, <1>5, <2>1, <2>2, <2>5
  <2>6. CASE i \notin DOMAIN s /\ j \in DOMAIN s
    BY <1>4, <1>5, <2>1, <2>2, <2>6
  <2>7. QED
    BY <2>3, <2>4, <2>5, <2>6
<1>8. ASSUME NEW q, NEW p
      PROVE  Before(u, q, p) <=> \/ Before(s, q, p) \/ Before(t, q, p)
                                 \/ q \in Range(s) /\ p \in Range(t)
  <2>1. ASSUME Before(u, q, p)
        PROVE  \/ Before(s, q, p) \/ Before(t, q, p)
               \/ q \in Range(s) /\ p \in Range(t)
    <3>1. PICK i \in DOMAIN u, j \in DOMAIN u : i < j /\ u[i] = q /\ u[j] = p
      BY <2>1 DEF Before
    <3>2. CASE i \in DOMAIN s /\ j \in DOMAIN s
      BY <1>4, <3>1, <3>2 DEF Before
    <3>3. CASE i \in DOMAIN s /\ j \notin DOMAIN s
      BY <1>4, <1>5, <3>1, <3>3 DEF Range
    <3>4. CASE i \notin DOMAIN s /\ j \in DOMAIN s
      <4>1. PICK k \in DOMAIN t : i = n + k
        BY <1>5, <3>4
      <4>2. QED
        BY <1>4, <3>1, <3>4, <4>1
    <3>5. CASE i \notin DOMAIN s /\ j \notin DOMAIN s
      <4>1. PICK k \in DOMAIN t, l \in DOMAIN t : i = n + k /\ j = n + l /\ t[k] = q /\ t[l] = p
        BY <1>5, <3>1, <3>5
      <4>2. k < l
        BY <1>4, <3>1, <4>1
      <4>3. QED
        BY <4>1, <4>2 DEF Before
    <3>6. QED
      BY <3>2, <3>3, <3>4, <3>5
  <2>2. ASSUME Before(s, q, p) PROVE Before(u, q, p)
    BY <1>4, <2>2 DEF Before
  <2>3. ASSUME Before(t, q, p) PROVE Before(u, q, p)
    <3>1. PICK i \in DOMAIN t, j \in DOMAIN t : i < j /\ t[i] = q /\ t[j] = p
      BY <2>3 DEF Before
    <3>2. n + i < n + j
      BY <1>4, <3>1
    <3>3. QED
      BY <1>4, <3>1, <3>2 DEF Before
  <2>4. ASSUME q \in Range(s), p \in Range(t) PROVE Before(u, q, p)
    <3>1. PICK i \in DOMAIN s, j \in DOMAIN t : s[i] = q /\ t[j] = p
      BY <2>4 DEF Range
    <3>2. i < n + j
      BY <1>4
    <3>3. QED
      BY <1>4, <3>1, <3>2 DEF Before
  <2>5. QED
    BY <2>1, <2>2, <2>3, <2>4
<1>9. QED
  BY <1>1, <1>2, <1>6, <1>7, <1>8

-----------------------------------------------------------------------------
(* Posts on their way.                                                     *)

\* The order of two posts is kept: neither is the loop's own work.
LEMMA OrderedPosts ==
  ASSUME WorkInv, NEW q, NEW p, Ordered(q, p)
  PROVE  /\ q \notin Range(local) /\ p \notin Range(local) /\ q \notin Inner /\ p \notin Inner
         /\ q \in Range(outputQueue) => p \notin Range(outputCallbacks)
         /\ q \in Range(outputCallbacks) => p \notin Range(outputQueue)
  BY DEF WorkInv, Ordered

\* A post joins those of its kind, behind all of them.
LEMMA Performed ==
  ASSUME WorkInv, NEW n \in Posts, n \notin Waiting, Perform(n)
  PROVE  /\ outputQueue' \in Seq(Posts) /\ outputCallbacks' \in Seq(Posts)
         /\ IsInjective(outputQueue') /\ IsInjective(outputCallbacks')
         /\ Arrived' = Arrived \cup {n}
         /\ \A p \in Range(outputQueue') : IsTask(p)
         /\ \A p \in Range(outputCallbacks') : ~IsTask(p)
         /\ \A q, p : Ordered(q, p) =>
              (Before(outputQueue', q, p) \/ Before(outputCallbacks', q, p)
                 <=> \/ Before(outputQueue, q, p) \/ Before(outputCallbacks, q, p)
                     \/ q \in Arrived /\ p = n)
<1>1. /\ outputQueue \in Seq(Posts) /\ outputCallbacks \in Seq(Posts)
      /\ IsInjective(outputQueue) /\ IsInjective(outputCallbacks)
      /\ \A p \in Range(outputQueue) : IsTask(p)
      /\ \A p \in Range(outputCallbacks) : ~IsTask(p)
      /\ n \notin Range(outputQueue) /\ n \notin Range(outputCallbacks)
      /\ Arrived = Range(outputQueue) \cup Range(outputCallbacks)
      /\ Arrived' = Range(outputQueue') \cup Range(outputCallbacks')
  BY DEF WorkInv, WorkOK, Waiting, Arrived
<1>2. CASE IsTask(n)
  <2>1. outputQueue' = Append(outputQueue, n) /\ outputCallbacks' = outputCallbacks
    BY <1>2 DEF Perform
  <2>2. /\ outputQueue' \in Seq(Posts) /\ IsInjective(outputQueue')
        /\ Range(outputQueue') = Range(outputQueue) \cup {n}
        /\ \A q, p : Before(outputQueue', q, p)
                       <=> Before(outputQueue, q, p) \/ (p = n /\ q \in Range(outputQueue))
    BY <1>1, <2>1, Appended
  <2>3. \A q : Ordered(q, n) => q \notin Range(outputCallbacks)
    BY <1>1, <1>2 DEF Ordered
  <2>4. Arrived' = Arrived \cup {n}
    BY <1>1, <2>1, <2>2
  <2>5. \A q, p : Ordered(q, p) =>
          (Before(outputQueue', q, p) \/ Before(outputCallbacks', q, p)
             <=> \/ Before(outputQueue, q, p) \/ Before(outputCallbacks, q, p)
                 \/ q \in Arrived /\ p = n)
    BY <1>1, <2>1, <2>2, <2>3
  <2>6. QED
    BY <1>1, <1>2, <2>1, <2>2, <2>4, <2>5
<1>3. CASE ~IsTask(n)
  <2>1. outputCallbacks' = Append(outputCallbacks, n) /\ outputQueue' = outputQueue
    BY <1>3 DEF Perform
  <2>2. /\ outputCallbacks' \in Seq(Posts) /\ IsInjective(outputCallbacks')
        /\ Range(outputCallbacks') = Range(outputCallbacks) \cup {n}
        /\ \A q, p : Before(outputCallbacks', q, p)
                       <=> Before(outputCallbacks, q, p) \/ (p = n /\ q \in Range(outputCallbacks))
    BY <1>1, <2>1, Appended
  <2>3. \A q : Ordered(q, n) => q \notin Range(outputQueue)
    BY <1>1, <1>3 DEF Ordered
  <2>4. Arrived' = Arrived \cup {n}
    BY <1>1, <2>1, <2>2
  <2>5. \A q, p : Ordered(q, p) =>
          (Before(outputQueue', q, p) \/ Before(outputCallbacks', q, p)
             <=> \/ Before(outputQueue, q, p) \/ Before(outputCallbacks, q, p)
                 \/ q \in Arrived /\ p = n)
    BY <1>1, <2>1, <2>2, <2>3
  <2>6. QED
    BY <1>1, <1>3, <2>1, <2>2, <2>4, <2>5
<1>4. QED
  BY <1>2, <1>3

\* performAll() moves everything, and leaves the order of what is ordered.
LEMMA Received ==
  ASSUME WorkInv, Receive, UNCHANGED <<local, started>>
  PROVE  /\ WorkInv' /\ Waiting' = Waiting
         /\ \A q, p : Ordered(q, p) => (Ahead(q, p)' <=> Ahead(q, p))
<1>1. /\ engine' = engine \o Delivered /\ outputQueue' = <<>> /\ outputCallbacks' = <<>>
      /\ engine \in Seq(Posts) /\ outputQueue \in Seq(Posts) /\ outputCallbacks \in Seq(Posts)
      /\ IsInjective(engine) /\ IsInjective(outputQueue) /\ IsInjective(outputCallbacks)
      /\ Range(engine) \cap Arrived = {}
      /\ Arrived = Range(outputQueue) \cup Range(outputCallbacks)
      /\ Arrived' = Range(outputQueue') \cup Range(outputCallbacks')
  BY DEF Receive, WorkInv, WorkOK, Arrived
<1>2. Range(outputQueue) \cap Range(outputCallbacks) = {}
  BY DEF WorkInv
<1>3. /\ Delivered \in Seq(Posts) /\ Range(Delivered) = Arrived /\ IsInjective(Delivered)
      /\ \A q, p : Before(Delivered, q, p) <=>
           \/ Before(outputQueue, q, p) \/ Before(outputCallbacks, q, p)
           \/ q \in Range(outputQueue) /\ p \in Range(outputCallbacks)
  BY <1>1, <1>2, Joined DEF Delivered
<1>4. /\ engine' \in Seq(Posts) /\ Range(engine') = Range(engine) \cup Arrived
      /\ IsInjective(engine')
      /\ \A q, p : Before(engine', q, p) <=>
           \/ Before(engine, q, p) \/ Before(Delivered, q, p)
           \/ q \in Range(engine) /\ p \in Arrived
  BY <1>1, <1>3, Joined
<1>5. /\ Range(outputQueue') = {} /\ Range(outputCallbacks') = {} /\ Arrived' = {}
      /\ IsInjective(outputQueue') /\ IsInjective(outputCallbacks')
      /\ \A q, p : ~Before(outputQueue', q, p) /\ ~Before(outputCallbacks', q, p)
  BY <1>1, Empty
<1>6. WorkInv'
  <2>1. WorkOK'
    BY <1>1, <1>4, EmptySeq DEF WorkInv, WorkOK
  <2>2. /\ IsInjective(local)' /\ Range(local') = Range(local)
        /\ Range(local) \cap (Range(engine) \cup Arrived) = {} /\ Range(local) \subseteq Inner
    BY DEF WorkInv
  <2>3. QED
    BY <1>4, <1>5, <2>1, <2>2 DEF WorkInv
<1>7. Waiting' = Waiting
  BY <1>4, <1>5 DEF Waiting
<1>8. ASSUME NEW q, NEW p, Ordered(q, p)
      PROVE  Ahead(q, p)' <=> Ahead(q, p)
  <2>1. ~(q \in Range(outputQueue) /\ p \in Range(outputCallbacks))
    BY <1>8, OrderedPosts
  <2>2. Ahead(q, p)' <=> Before(engine', q, p)
    BY <1>5 DEF Ahead
  <2>3. QED
    BY <1>3, <1>4, <2>1, <2>2 DEF Ahead
<1>9. QED
  BY <1>6, <1>7, <1>8

\* A post from another thread is new, and behind all it is ordered with.
LEMMA PostWork ==
  ASSUME WorkInv, NEW n \in Posts, Post(n)
  PROVE  /\ WorkInv' /\ n \notin Waiting \cup started /\ Waiting' = Waiting \cup {n}
         /\ started' = started
         /\ \A q, p : Ordered(q, p) =>
              (Ahead(q, p)' <=> Ahead(q, p) \/ (q \in Waiting /\ p = n))
<1>1. /\ Perform(n) /\ n \notin Posted /\ n \notin Inner /\ UNCHANGED <<engine, local, started>>
      /\ n \notin Waiting
  BY DEF Post, Posted
<1>2. /\ outputQueue' \in Seq(Posts) /\ outputCallbacks' \in Seq(Posts)
      /\ IsInjective(outputQueue') /\ IsInjective(outputCallbacks')
      /\ Arrived' = Arrived \cup {n}
      /\ \A p \in Range(outputQueue') : IsTask(p)
      /\ \A p \in Range(outputCallbacks') : ~IsTask(p)
      /\ \A q, p : Ordered(q, p) =>
           (Before(outputQueue', q, p) \/ Before(outputCallbacks', q, p)
              <=> \/ Before(outputQueue, q, p) \/ Before(outputCallbacks, q, p)
                  \/ q \in Arrived /\ p = n)
  BY <1>1, Performed
<1>3. n \notin Range(local) /\ n \notin Range(engine)
  BY <1>1 DEF Waiting
<1>4. WorkOK'
  BY <1>1, <1>2 DEF WorkInv, WorkOK
<1>5. WorkInv'
  <2>1. /\ IsInjective(local) /\ IsInjective(engine)
        /\ Range(local) \cap (Range(engine) \cup Arrived) = {} /\ Range(engine) \cap Arrived = {}
        /\ Range(local) \subseteq Inner
    BY DEF WorkInv
  <2>2. IsInjective(local') /\ IsInjective(engine')
    BY <1>1, <2>1
  <2>3. /\ Range(local') \cap (Range(engine') \cup Arrived') = {}
        /\ Range(engine') \cap Arrived' = {} /\ Range(local') \subseteq Inner
    BY <1>1, <1>2, <1>3, <2>1
  <2>4. QED
    BY <1>2, <1>4, <2>2, <2>3 DEF WorkInv
<1>6. Waiting' = Waiting \cup {n}
  BY <1>1, <1>2 DEF Waiting
<1>7. ASSUME NEW q, NEW p, Ordered(q, p)
      PROVE  Ahead(q, p)' <=> Ahead(q, p) \/ (q \in Waiting /\ p = n)
  <2>1. q \in Waiting <=> q \in Range(engine) \/ q \in Arrived
    BY <1>7, OrderedPosts DEF Waiting
  <2>2. Ahead(q, p)' <=> \/ Before(engine, q, p)
                         \/ Before(outputQueue', q, p) \/ Before(outputCallbacks', q, p)
                         \/ q \in Range(engine) /\ p \in Arrived \cup {n}
    BY <1>1, <1>2 DEF Ahead
  <2>3. QED
    BY <1>2, <1>7, <2>1, <2>2 DEF Ahead
<1>8. QED
  BY <1>1, <1>5, <1>6, <1>7 DEF Posted

\* What one round of runAllTasks() does to the posts: it runs one that nothing
\* is ahead of, and the loop's own work may post another one.
RunsOne(h, N) ==
  /\ h \in Waiting /\ N \cap (Waiting \cup started) = {}
  /\ N \subseteq Inner
  /\ N = {} \/ \E n \in Posts : N = {n}
  /\ Waiting' = (Waiting \ {h}) \cup N /\ started' = started \cup {h}
  /\ \A q : Ordered(q, h) => ~Ahead(q, h)
  /\ \A q, p : Ordered(q, p) => (Ahead(q, p)' <=> Ahead(q, p) /\ q # h)

LEMMA RunTaskWork ==
  ASSUME WorkInv, RunTask
  PROVE  WorkInv' /\ \E h \in Posts, N \in SUBSET Posts : RunsOne(h, N)
<1>1. PICK P \in {<<>>} \cup {<<p>> : p \in Inner \ Posted} :
        LET more == IF IsWithinNotify THEN P ELSE <<>> IN
        /\ \/ /\ engine # <<>> /\ engine' = Tail(engine)
              /\ started' = started \cup {Head(engine)} /\ local' = local \o more
           \/ /\ local # <<>> /\ local' = Tail(local) \o more
              /\ started' = started \cup {Head(local)} /\ engine' = engine
        /\ PerformNext(P)
  BY DEF RunTask
<1>2. /\ local \in Seq(Posts) /\ engine \in Seq(Posts) /\ started \subseteq Posts
      /\ outputQueue \in Seq(Posts) /\ outputCallbacks \in Seq(Posts)
      /\ IsInjective(local) /\ IsInjective(engine)
      /\ IsInjective(outputQueue) /\ IsInjective(outputCallbacks)
      /\ Range(local) \cap (Range(engine) \cup Arrived) = {} /\ Range(engine) \cap Arrived = {}
      /\ Range(local) \subseteq Inner
      /\ \A p \in Range(outputQueue) : IsTask(p)
      /\ \A p \in Range(outputCallbacks) : ~IsTask(p)
  BY DEF WorkInv, WorkOK
<1>3. PICK M : M = IF IsWithinNotify THEN P ELSE <<>>
  OBVIOUS
<1>4. PICK N : \/ P = <<>> /\ N = {}
               \/ \E n \in Inner \ Posted : P = <<n>> /\ N = {n}
  BY <1>1
<1>5. /\ N \subseteq Inner /\ N \subseteq Posts /\ N \cap (Waiting \cup started) = {}
      /\ N = {} \/ \E n \in Posts : N = {n}
  BY <1>4, InnerAssumption DEF Posted
<1>6. /\ P \in Seq(Posts) /\ Range(P) = N /\ IsInjective(P)
  <2>1. CASE P = <<>> /\ N = {}
    BY <2>1, Empty, EmptySeq
  <2>2. CASE \E n \in Inner \ Posted : P = <<n>> /\ N = {n}
    <3>1. PICK n \in Posts : P = <<n>> /\ N = {n}
      BY <2>2, InnerAssumption
    <3>2. /\ P \in Seq(Posts) /\ DOMAIN P = {1} /\ P[1] = n
      BY <3>1
    <3>3. QED
      BY <3>1, <3>2 DEF Range, IsInjective
  <2>3. QED
    BY <1>4, <2>1, <2>2
<1>7. PICK L \in SUBSET N, A \in SUBSET N :
        /\ L \cup A = N /\ L \cap A = {}
        /\ M \in Seq(Posts) /\ Range(M) = L /\ IsInjective(M)
        /\ outputQueue' \in Seq(Posts) /\ outputCallbacks' \in Seq(Posts)
        /\ IsInjective(outputQueue') /\ IsInjective(outputCallbacks')
        /\ Arrived' = Arrived \cup A
        /\ \A p \in Range(outputQueue') : IsTask(p)
        /\ \A p \in Range(outputCallbacks') : ~IsTask(p)
        /\ \A q, p : Ordered(q, p) =>
             (Before(outputQueue', q, p) \/ Before(outputCallbacks', q, p)
                <=> Before(outputQueue, q, p) \/ Before(outputCallbacks, q, p))
  <2>1. CASE IsWithinNotify \/ P = <<>>
    <3>1. M = P
      BY <1>3, <2>1
    <3>2. UNCHANGED <<outputQueue, outputCallbacks>>
      BY <1>1, <2>1 DEF PerformNext
    <3>3. Arrived' = Arrived \cup {}
      BY <3>2 DEF Arrived
    <3>4. N \cup {} = N /\ N \cap {} = {} /\ N \in SUBSET N /\ {} \in SUBSET N
      OBVIOUS
    <3>5. QED
      BY <1>2, <1>6, <3>1, <3>2, <3>3, <3>4
  <2>2. CASE ~IsWithinNotify /\ P # <<>>
    <3>1. PICK n \in Inner \ Posted : P = <<n>> /\ N = {n}
      BY <1>4, <2>2
    <3>2. n \in Posts /\ n \notin Waiting /\ Perform(n)
      <4>1. PerformNext(P) => Perform(Head(P))
        BY <2>2 DEF PerformNext
      <4>2. Head(P) = n
        BY <3>1
      <4>3. QED
        BY <1>1, <3>1, <4>1, <4>2, InnerAssumption DEF Posted
    <3>3. /\ outputQueue' \in Seq(Posts) /\ outputCallbacks' \in Seq(Posts)
          /\ IsInjective(outputQueue') /\ IsInjective(outputCallbacks')
          /\ Arrived' = Arrived \cup {n}
          /\ \A p \in Range(outputQueue') : IsTask(p)
          /\ \A p \in Range(outputCallbacks') : ~IsTask(p)
          /\ \A q, p : Ordered(q, p) =>
               (Before(outputQueue', q, p) \/ Before(outputCallbacks', q, p)
                  <=> \/ Before(outputQueue, q, p) \/ Before(outputCallbacks, q, p)
                      \/ q \in Arrived /\ p = n)
      BY <3>2, Performed
    <3>4. M = <<>> /\ M \in Seq(Posts) /\ Range(M) = {} /\ IsInjective(M)
      BY <1>3, <2>2, Empty, EmptySeq
    <3>5. \A q, p : Ordered(q, p) => p # n
      BY <3>1 DEF Ordered
    <3>6. /\ {} \cup N = N /\ {} \cap N = {} /\ {} \in SUBSET N /\ N \in SUBSET N
      OBVIOUS
    <3>7. \A q, p : Ordered(q, p) =>
            (Before(outputQueue', q, p) \/ Before(outputCallbacks', q, p)
               <=> Before(outputQueue, q, p) \/ Before(outputCallbacks, q, p))
      BY <3>3, <3>5
    <3>8. Arrived' = Arrived \cup N
      BY <3>1, <3>3
    <3>9. QED
      BY <3>3, <3>4, <3>6, <3>7, <3>8
  <2>3. QED
    BY <2>1, <2>2
<1>8. /\ L \cap (Range(local) \cup Range(engine) \cup Arrived) = {}
      /\ A \cap (Range(local) \cup Range(engine) \cup Arrived) = {}
      /\ L \subseteq Inner /\ A \subseteq Inner
  BY <1>5, <1>7 DEF Waiting
<1>9. CASE /\ engine # <<>> /\ engine' = Tail(engine)
           /\ started' = started \cup {Head(engine)} /\ local' = local \o M
  <2>1. PICK h : h = Head(engine)
    OBVIOUS
  <2>2. /\ engine' \in Seq(Posts) /\ h \in Range(engine) /\ h \in Posts
        /\ Range(engine') = Range(engine) \ {h} /\ IsInjective(engine')
        /\ \A q, p : Before(engine', q, p) <=> Before(engine, q, p) /\ q # h
        /\ \A q : ~Before(engine, q, h)
    BY <1>2, <1>9, <2>1, Taken
  <2>3. /\ local' \in Seq(Posts) /\ Range(local') = Range(local) \cup L
        /\ IsInjective(local')
    BY <1>2, <1>7, <1>8, <1>9, Joined
  <2>4. WorkInv'
    <3>1. WorkOK'
      BY <1>2, <1>7, <1>9, <2>1, <2>2, <2>3 DEF WorkOK
    <3>2. /\ Range(local') \cap (Range(engine') \cup Arrived') = {}
          /\ Range(engine') \cap Arrived' = {} /\ Range(local') \subseteq Inner
      BY <1>2, <1>7, <1>8, <2>2, <2>3
    <3>3. QED
      BY <1>7, <2>2, <2>3, <3>1, <3>2 DEF WorkInv
  <2>5. h \in Waiting /\ Waiting' = (Waiting \ {h}) \cup N
    <3>1. h \notin Range(local) /\ h \notin Arrived
      BY <1>2, <2>2
    <3>2. QED
      BY <1>7, <2>2, <2>3, <3>1 DEF Waiting
  <2>6. \A q : ~Ahead(q, h)
    <3>1. h \notin Range(outputQueue) /\ h \notin Range(outputCallbacks) /\ h \notin Arrived
      BY <1>2, <2>2 DEF Arrived
    <3>2. QED
      BY <2>2, <3>1, BeforeIn DEF Ahead
  <2>7. ASSUME NEW q, NEW p, Ordered(q, p)
        PROVE  Ahead(q, p)' <=> Ahead(q, p) /\ q # h
    <3>1. /\ h \notin Range(outputQueue) /\ h \notin Range(outputCallbacks)
          /\ p \notin A
      BY <1>2, <1>8, <2>2, <2>7, OrderedPosts DEF Arrived
    <3>2. q = h => ~Before(outputQueue, q, p) /\ ~Before(outputCallbacks, q, p)
      BY <3>1, BeforeIn
    <3>3. Ahead(q, p)' <=>
            \/ Before(engine, q, p) /\ q # h
            \/ Before(outputQueue, q, p) \/ Before(outputCallbacks, q, p)
            \/ q \in Range(engine) /\ q # h /\ p \in Arrived
      BY <1>7, <2>2, <2>7, <3>1 DEF Ahead
    <3>4. QED
      BY <3>2, <3>3 DEF Ahead
  <2>8. RunsOne(h, N)
    BY <1>5, <1>9, <2>1, <2>5, <2>6, <2>7 DEF RunsOne
  <2>9. QED
    BY <1>5, <2>2, <2>4, <2>8
<1>10. CASE /\ local # <<>> /\ local' = Tail(local) \o M
            /\ started' = started \cup {Head(local)} /\ engine' = engine
  <2>1. PICK h, t : h = Head(local) /\ t = Tail(local)
    OBVIOUS
  <2>2. /\ t \in Seq(Posts) /\ h \in Range(local) /\ h \in Posts
        /\ Range(t) = Range(local) \ {h} /\ IsInjective(t)
    BY <1>2, <1>10, <2>1, Taken
  <2>3. /\ local' \in Seq(Posts) /\ Range(local') = (Range(local) \ {h}) \cup L
        /\ IsInjective(local')
    <3>1. Range(t) \cap Range(M) = {}
      BY <1>7, <1>8, <2>2
    <3>2. local' = t \o M
      BY <1>10, <2>1
    <3>3. QED
      BY <1>7, <2>2, <3>1, <3>2, Joined
  <2>4. WorkInv'
    <3>1. WorkOK'
      BY <1>2, <1>7, <1>10, <2>1, <2>2, <2>3 DEF WorkOK
    <3>2. /\ Range(local') \cap (Range(engine') \cup Arrived') = {}
          /\ Range(engine') \cap Arrived' = {} /\ Range(local') \subseteq Inner
      BY <1>2, <1>7, <1>8, <1>10, <2>3
    <3>3. IsInjective(engine')
      BY <1>2, <1>10
    <3>4. QED
      BY <1>7, <2>3, <3>1, <3>2, <3>3 DEF WorkInv
  <2>5. h \in Inner /\ h \in Waiting /\ Waiting' = (Waiting \ {h}) \cup N
    <3>1. h \notin Range(engine) /\ h \notin Arrived
      BY <1>2, <2>2
    <3>2. QED
      BY <1>2, <1>7, <1>10, <2>2, <2>3, <3>1 DEF Waiting
  <2>6. \A q : ~Ordered(q, h)
    BY <2>5 DEF Ordered
  <2>7. ASSUME NEW q, NEW p, Ordered(q, p)
        PROVE  Ahead(q, p)' <=> Ahead(q, p) /\ q # h
    <3>1. p \notin A /\ q # h
      BY <1>8, <2>5, <2>7 DEF Ordered
    <3>2. Ahead(q, p)' <=>
            \/ Before(engine, q, p)
            \/ Before(outputQueue, q, p) \/ Before(outputCallbacks, q, p)
            \/ q \in Range(engine) /\ p \in Arrived
      BY <1>7, <1>10, <2>7, <3>1 DEF Ahead
    <3>3. QED
      BY <3>1, <3>2 DEF Ahead
  <2>8. RunsOne(h, N)
    BY <1>5, <1>10, <2>1, <2>5, <2>6, <2>7 DEF RunsOne
  <2>9. QED
    BY <1>5, <2>2, <2>4, <2>8
<1>11. QED
  BY <1>1, <1>3, <1>9, <1>10

\* The rest of the loop leaves the posts alone.
LEMMA WorkElsewhere ==
  ASSUME [Next]_vars
  PROVE  \/ UNCHANGED workVars
         \/ \E p \in Posts : Post(p)
         \/ Receive /\ UNCHANGED <<local, started>>
         \/ RunTask
<1>1. ASSUME NEW w \in Wakers, Mark(w) \/ Signal(w)
      PROVE  UNCHANGED workVars
  BY <1>1 DEF Mark, Signal
<1>2. CASE KernelStep
  BY <1>2 DEF KernelStep, KernelTakes, KernelReads, KernelNoBuffers
<1>3. CASE Call
  BY <1>3 DEF Call
<1>4. CASE LoopStep
  <2>1. CASE NotifyThread
    BY <2>1 DEF NotifyThread
  <2>2. CASE DropStale \/ NotifyNoBuffers \/ NotifyWake \/ NotifySuspended
    BY <2>2 DEF DropStale, NotifyNoBuffers, NotifyWake, NotifySuspended
  <2>3. CASE Return \/ TasksReturn \/ TasksRun
    BY <2>3 DEF Return, TasksReturn, TasksRun
  <2>4. QED
    BY <1>4, <2>1, <2>2, <2>3 DEF LoopStep
<1>5. CASE UNCHANGED vars
  BY <1>5 DEF vars
<1>6. QED
  BY <1>1, <1>2, <1>3, <1>4, <1>5 DEF Next

LEMMA WorkUntouched ==
  ASSUME WorkInv, UNCHANGED workVars
  PROVE  WorkInv' /\ Waiting' = Waiting /\ Earlier' = Earlier
<1>1. UNCHANGED <<outputQueue, outputCallbacks, engine, local, started>>
  BY DEF workVars
<1>2. Arrived' = Arrived
  BY <1>1 DEF Arrived
<1>3. Waiting' = Waiting
  BY <1>1, <1>2 DEF Waiting
<1>4. Earlier' = Earlier
  BY <1>1, <1>2 DEF Earlier, Ahead, Before
<1>5. WorkOK'
  BY <1>1 DEF WorkInv, WorkOK
<1>6. WorkInv'
  BY <1>1, <1>2, <1>5 DEF WorkInv, IsInjective
<1>7. QED
  BY <1>3, <1>4, <1>6

LEMMA WorkInvariant == Spec => []WorkInv
<1>1. Init => WorkInv
  <2>1. SUFFICES ASSUME Init PROVE WorkInv
    OBVIOUS
  <2>2. /\ outputQueue = <<>> /\ outputCallbacks = <<>> /\ engine = <<>> /\ local = <<>>
        /\ started = {}
    BY <2>1 DEF Init
  <2>3. WorkOK
    BY <2>2, EmptySeq DEF WorkOK
  <2>4. QED
    BY <2>2, <2>3, Empty DEF WorkInv, Arrived
<1>2. WorkInv /\ [Next]_vars => WorkInv'
  BY WorkElsewhere, WorkUntouched, PostWork, Received, RunTaskWork
<1>3. QED
  BY <1>1, <1>2, PTL DEF Spec

\* Every variable keeps its type: suspendedHandles in particular, a size_t that
\* is counted down, stays between none and all of the handles, as long as no
\* suspended handle is marked as running.
THEOREM TypeCorrect == Spec => []TypeOK
<1>1. WorkInv /\ IInv => TypeOK
  BY DEF WorkInv, IInv, TypeOK
<1>2. QED
  BY <1>1, WorkInvariant, ControlInvariant, PTL

-----------------------------------------------------------------------------
(* The loop implements the mailbox.                                        *)

LEMMA MailboxInit ==
  ASSUME Init
  PROVE  MailboxOf!Init
<1>1. /\ outputQueue = <<>> /\ outputCallbacks = <<>> /\ engine = <<>> /\ local = <<>>
      /\ started = {}
  BY DEF Init
<1>2. Arrived = {}
  BY <1>1, Empty DEF Arrived
<1>3. Waiting = {}
  BY <1>1, <1>2, Empty DEF Waiting
<1>4. Earlier = {}
  BY <1>1, <1>2, Empty DEF Earlier, Ahead
<1>5. QED
  BY <1>1, <1>3, <1>4 DEF MailboxOf!Init

\* Waiting posts are posts.
LEMMA WaitingPosts ==
  ASSUME WorkInv
  PROVE  Waiting \subseteq Posts
<1>1. /\ outputQueue \in Seq(Posts) /\ outputCallbacks \in Seq(Posts)
      /\ engine \in Seq(Posts) /\ local \in Seq(Posts)
  BY DEF WorkInv, WorkOK
<1>2. /\ Range(outputQueue) \subseteq Posts /\ Range(outputCallbacks) \subseteq Posts
      /\ Range(engine) \subseteq Posts /\ Range(local) \subseteq Posts
  BY <1>1, RangeOfSeq
<1>3. QED
  BY <1>2 DEF Waiting, Arrived

LEMMA AheadWaits ==
  ASSUME NEW q, NEW p, Ahead(q, p)
  PROVE  q \in Waiting /\ p \in Waiting
<1>1. CASE Before(engine, q, p)
  BY <1>1, BeforeIn DEF Waiting
<1>2. CASE Before(outputQueue, q, p)
  BY <1>2, BeforeIn DEF Waiting, Arrived
<1>3. CASE Before(outputCallbacks, q, p)
  BY <1>3, BeforeIn DEF Waiting, Arrived
<1>4. CASE q \in Range(engine) /\ p \in Arrived
  BY <1>4 DEF Waiting
<1>5. QED
  BY <1>1, <1>2, <1>3, <1>4 DEF Ahead

LEMMA PostRefines ==
  ASSUME WorkInv, NEW n \in Posts, Post(n)
  PROVE  MailboxOf!Post(n)
<1>1. /\ n \notin Waiting \cup started /\ Waiting' = Waiting \cup {n} /\ started' = started
      /\ \A q, p : Ordered(q, p) =>
           (Ahead(q, p)' <=> Ahead(q, p) \/ (q \in Waiting /\ p = n))
      /\ Waiting \subseteq Posts
  BY PostWork, WaitingPosts
<1>2. MailboxOf!Behind(n, Waiting) = {<<q, n>> : q \in {r \in Waiting : Ordered(r, n)}}
  BY DEF MailboxOf!Behind
<1>3. Earlier' = Earlier \cup MailboxOf!Behind(n, Waiting)
  <2>1. Earlier' = {x \in Posts \X Posts : Ordered(x[1], x[2]) /\ Ahead(x[1], x[2])'}
    BY DEF Earlier, Ordered
  <2>2. ASSUME NEW x \in Posts \X Posts
        PROVE  x \in Earlier' <=> x \in Earlier \cup MailboxOf!Behind(n, Waiting)
    <3>1. PICK q \in Posts, p \in Posts : x = <<q, p>>
      OBVIOUS
    <3>2. x \in Earlier' <=> Ordered(q, p) /\ Ahead(q, p)'
      BY <2>1, <3>1
    <3>3. x \in Earlier <=> Ordered(q, p) /\ Ahead(q, p)
      BY <3>1 DEF Earlier
    <3>4. x \in MailboxOf!Behind(n, Waiting) <=> q \in Waiting /\ Ordered(q, n) /\ p = n
      BY <1>2, <3>1
    <3>5. QED
      BY <1>1, <3>2, <3>3, <3>4
  <2>3. MailboxOf!Behind(n, Waiting) \subseteq Posts \X Posts
    BY <1>1, <1>2
  <2>4. Earlier \subseteq Posts \X Posts /\ Earlier' \subseteq Posts \X Posts
    BY <2>1 DEF Earlier
  <2>5. QED
    BY <2>2, <2>3, <2>4
<1>4. QED
  BY <1>1, <1>3 DEF MailboxOf!Post, MailboxOf!New

LEMMA RunTaskRefines ==
  ASSUME WorkInv, RunTask
  PROVE  MailboxOf!Next
<1>1. PICK h \in Posts, N \in SUBSET Posts : RunsOne(h, N)
  BY RunTaskWork
<1>2. /\ h \in Waiting /\ N \cap (Waiting \cup started) = {}
      /\ N \subseteq Inner
      /\ N = {} \/ \E n \in Posts : N = {n}
      /\ Waiting' = (Waiting \ {h}) \cup N /\ started' = started \cup {h}
      /\ \A q : Ordered(q, h) => ~Ahead(q, h)
      /\ \A q, p : Ordered(q, p) => (Ahead(q, p)' <=> Ahead(q, p) /\ q # h)
  BY <1>1 DEF RunsOne
<1>3. MailboxOf!First(h)
  BY <1>2 DEF MailboxOf!First, Earlier
<1>4. Earlier' = MailboxOf!Without(h)
  <2>1. MailboxOf!Without(h) = {x \in Earlier : x[1] # h /\ x[2] # h}
    BY DEF MailboxOf!Without
  <2>2. Earlier' = {x \in Posts \X Posts : Ordered(x[1], x[2]) /\ Ahead(x[1], x[2])'}
    BY DEF Earlier, Ordered
  <2>3. ASSUME NEW x \in Posts \X Posts
        PROVE  x \in Earlier' <=> x \in MailboxOf!Without(h)
    <3>1. PICK q \in Posts, p \in Posts : x = <<q, p>>
      OBVIOUS
    <3>2. x \in Earlier' <=> Ordered(q, p) /\ Ahead(q, p)'
      BY <2>2, <3>1
    <3>3. x \in MailboxOf!Without(h) <=> Ordered(q, p) /\ Ahead(q, p) /\ q # h /\ p # h
      BY <2>1, <3>1 DEF Earlier
    <3>4. QED
      BY <1>2, <3>2, <3>3
  <2>4. MailboxOf!Without(h) \subseteq Posts \X Posts /\ Earlier' \subseteq Posts \X Posts
    BY <2>1, <2>2 DEF Earlier
  <2>5. QED
    BY <2>3, <2>4
<1>5. CASE N = {}
  <2>1. MailboxOf!Run(h)
    BY <1>2, <1>3, <1>4, <1>5 DEF MailboxOf!Run
  <2>2. QED
    BY <2>1 DEF MailboxOf!Next
<1>6. CASE N # {}
  <2>1. PICK n \in Posts : N = {n}
    BY <1>2, <1>6
  <2>2. n \in Inner /\ n \notin Waiting /\ n \notin started
    BY <1>2, <2>1
  <2>3. MailboxOf!Behind(n, Waiting \ {h}) = {}
    BY <2>2 DEF MailboxOf!Behind, Ordered
  <2>4. MailboxOf!RunAndPost(h, n)
    BY <1>2, <1>3, <1>4, <2>1, <2>2, <2>3 DEF MailboxOf!RunAndPost, MailboxOf!New
  <2>5. QED
    BY <2>4 DEF MailboxOf!Next
<1>7. QED
  BY <1>5, <1>6

LEMMA MailboxStep ==
  ASSUME WorkInv, [Next]_vars
  PROVE  [MailboxOf!Next]_<<Waiting, Earlier, started>>
<1>1. CASE UNCHANGED workVars
  <2>1. started' = started
    BY <1>1 DEF workVars
  <2>2. QED
    BY <1>1, <2>1, WorkUntouched
<1>2. ASSUME NEW p \in Posts, Post(p)
      PROVE  MailboxOf!Next
  BY <1>2, PostRefines DEF MailboxOf!Next
<1>3. CASE Receive /\ UNCHANGED <<local, started>>
  <2>1. Waiting' = Waiting /\ \A q, p : Ordered(q, p) => (Ahead(q, p)' <=> Ahead(q, p))
    BY <1>3, Received
  <2>2. Earlier' = {x \in Posts \X Posts : Ordered(x[1], x[2]) /\ Ahead(x[1], x[2])'}
    BY DEF Earlier, Ordered
  <2>3. Earlier' = Earlier
    BY <2>1, <2>2 DEF Earlier
  <2>4. QED
    BY <1>3, <2>1, <2>3
<1>4. CASE RunTask
  BY <1>4, RunTaskRefines
<1>5. QED
  BY <1>1, <1>2, <1>3, <1>4, WorkElsewhere

\* What is posted to a loop runs there once, and what other threads post runs
\* in order within its kind, however run(), poll() and runAllTasks() are nested
\* and whatever goes wrong with wakeups on the way.
THEOREM LoopImplementsMailbox == Spec => ImplementsMailbox
<1>1. Init => MailboxOf!Init
  BY MailboxInit
<1>2. WorkInv /\ [Next]_vars => [MailboxOf!Next]_<<Waiting, Earlier, started>>
  BY MailboxStep
<1>3. QED
  BY <1>1, <1>2, WorkInvariant, PTL DEF Spec, ImplementsMailbox, MailboxOf!Spec
=============================================================================
