--------------------------- MODULE EventBusProofs ---------------------------
(***************************************************************************)
(* Proofs about EventBus for every set of loopers, every finite set of     *)
(* delegates on them, and every bound on calls and nested callbacks.       *)
(***************************************************************************)
EXTENDS EventBus, FiniteSetTheorems, SequenceTheorems, TLAPS

-----------------------------------------------------------------------------
(* The stack of deliveries of one looper.                                  *)

\* What a delivery is made of.
LEMMA FrameType ==
  ASSUME NEW l, NEW f \in FramesOf(l)
  PROVE  /\ f.todo \in Seq(Of(l)) /\ f.todo # <<>> /\ f.calling \in BOOLEAN
         /\ Len(f.todo) \in Nat \ {0} /\ Head(f.todo) \in Of(l)
         /\ Tail(f.todo) \in Seq(Of(l)) /\ Len(Tail(f.todo)) = Len(f.todo) - 1
<1>1. f.todo \in Seq(Of(l)) /\ f.todo # <<>> /\ f.calling \in BOOLEAN
  BY DEF FramesOf
<1>2. QED
  BY <1>1, HeadTailProperties

\* The delivery on top of a stack is one of the stack.
LEMMA TopFrame ==
  ASSUME NEW l, NEW s \in Seq(FramesOf(l)), s # <<>>
  PROVE  /\ Len(s) \in Nat \ {0} /\ DOMAIN s = 1..Len(s)
         /\ Last(s) = s[Len(s)] /\ Last(s) \in FramesOf(l)
         /\ \A i \in DOMAIN s : s[i] \in FramesOf(l)
  BY DEF Last

\* A delivery that begins calls nobody yet.
LEMMA PushFrame ==
  ASSUME NEW l, NEW s \in Seq(FramesOf(l)), NEW f \in FramesOf(l), ~f.calling
  PROVE  /\ Append(s, f) \in Seq(FramesOf(l)) /\ Len(Append(s, f)) = Len(s) + 1
         /\ \A d : RunsIn(Append(s, f), d) = RunsIn(s, d)
<1>1. /\ Append(s, f) \in Seq(FramesOf(l)) /\ Len(Append(s, f)) = Len(s) + 1
      /\ \A i \in 1..Len(s) : Append(s, f)[i] = s[i]
      /\ Append(s, f)[Len(s) + 1] = f
  BY AppendProperties
<1>2. /\ DOMAIN Append(s, f) = 1..(Len(s) + 1) /\ DOMAIN s = 1..Len(s)
      /\ Len(s) \in Nat
  BY <1>1
<1>3. QED
  BY <1>1, <1>2 DEF RunsIn

\* The stack without its top.
LEMMA PopFrame ==
  ASSUME NEW l, NEW s \in Seq(FramesOf(l)), s # <<>>
  PROVE  /\ Front(s) \in Seq(FramesOf(l)) /\ Len(Front(s)) = Len(s) - 1
         /\ \A d : RunsIn(Front(s), d) = RunsIn(s, d) \ {Len(s)}
<1>1. Len(s) \in Nat \ {0} /\ DOMAIN s = 1..Len(s)
      /\ \A i \in 1..(Len(s) - 1) : s[i] \in FramesOf(l)
  BY TopFrame
<1>2. /\ Front(s) \in Seq(FramesOf(l)) /\ Len(Front(s)) = Len(s) - 1
      /\ \A i \in 1..(Len(s) - 1) : Front(s)[i] = s[i]
  BY <1>1, SubSeqProperties DEF Front
<1>3. DOMAIN Front(s) = 1..(Len(s) - 1)
  BY <1>2
<1>4. QED
  BY <1>1, <1>2, <1>3 DEF RunsIn

\* The delegate handled last is taken off, and with it the callback it was in.
LEMMA HandledFrame ==
  ASSUME NEW l, NEW s \in Seq(FramesOf(l)), s # <<>>
  PROVE  /\ Handled(s) \in Seq(FramesOf(l)) /\ Len(Handled(s)) <= Len(s)
         /\ \A d : RunsIn(Handled(s), d) = RunsIn(s, d) \ {Len(s)}
<1> DEFINE f == [todo |-> Tail(Last(s).todo), calling |-> FALSE]
<1>1. Len(s) \in Nat \ {0} /\ Last(s) \in FramesOf(l)
  BY TopFrame
<1>2. CASE Len(Last(s).todo) = 1
  <2>1. Handled(s) = Front(s)
    BY <1>2 DEF Handled
  <2>2. QED
    BY <1>1, <2>1, PopFrame
<1>3. CASE Len(Last(s).todo) # 1
  <2>1. /\ Tail(Last(s).todo) \in Seq(Of(l))
        /\ Len(Tail(Last(s).todo)) = Len(Last(s).todo) - 1
        /\ Len(Last(s).todo) \in Nat \ {0}
    BY <1>1, FrameType
  <2>2. Tail(Last(s).todo) # <<>>
    <3>1. Len(<<>>) = 0
      BY EmptySeq
    <3>2. SUFFICES ASSUME Tail(Last(s).todo) = <<>> PROVE FALSE
      OBVIOUS
    <3>3. Len(Last(s).todo) - 1 = 0
      BY <2>1, <3>1, <3>2, Zenon
    <3>4. QED
      BY <1>3, <2>1, <3>3
  <2>3. f \in FramesOf(l) /\ ~f.calling
    BY <2>1, <2>2 DEF FramesOf
  <2>4. Handled(s) = Append(Front(s), f)
    BY <1>3 DEF Handled
  <2>5. /\ Front(s) \in Seq(FramesOf(l)) /\ Len(Front(s)) = Len(s) - 1
        /\ \A d : RunsIn(Front(s), d) = RunsIn(s, d) \ {Len(s)}
    BY PopFrame
  <2> HIDE DEF f
  <2>6. /\ Append(Front(s), f) \in Seq(FramesOf(l))
        /\ Len(Append(Front(s), f)) = Len(Front(s)) + 1
        /\ \A d : RunsIn(Append(Front(s), f), d) = RunsIn(Front(s), d)
    BY <2>3, <2>5, PushFrame
  <2>7. QED
    BY <1>1, <2>4, <2>5, <2>6
<1>4. QED
  BY <1>2, <1>3

\* A callback that begins is the one of the delegate next in turn.
LEMMA CallFrame ==
  ASSUME NEW l, NEW s \in Seq(FramesOf(l)), s # <<>>, NEW r,
         r = [s EXCEPT ![Len(s)].calling = TRUE]
  PROVE  /\ r \in Seq(FramesOf(l)) /\ Len(r) = Len(s)
         /\ \A d : RunsIn(r, d) = IF d = Head(Last(s).todo)
                                  THEN RunsIn(s, d) \cup {Len(s)}
                                  ELSE RunsIn(s, d) \ {Len(s)}
<1>1. /\ Len(s) \in Nat \ {0} /\ DOMAIN s = 1..Len(s)
      /\ Last(s) = s[Len(s)] /\ Last(s) \in FramesOf(l)
      /\ \A i \in DOMAIN s : s[i] \in FramesOf(l)
  BY TopFrame
<1> DEFINE f == [Last(s) EXCEPT !.calling = TRUE]
<1>2. f \in FramesOf(l) /\ f.calling /\ f.todo = Last(s).todo
  BY <1>1 DEF FramesOf
<1>3. s \in [1..Len(s) -> FramesOf(l)]
  BY <1>1
<1>4. r = [s EXCEPT ![Len(s)] = f]
  BY <1>1
<1> HIDE DEF f
<1>5. /\ r \in [1..Len(s) -> FramesOf(l)] /\ r[Len(s)] = f
      /\ \A i \in 1..Len(s) : i # Len(s) => r[i] = s[i]
  <2>1. Len(s) \in 1..Len(s) /\ f \in FramesOf(l)
    BY <1>1, <1>2
  <2> DEFINE n == Len(s)
  <2>2. s \in [1..n -> FramesOf(l)] /\ n \in 1..n /\ r = [s EXCEPT ![n] = f]
    BY <1>3, <1>4, <2>1
  <2> HIDE DEF n
  <2>3. /\ r \in [1..n -> FramesOf(l)] /\ r[n] = f
        /\ \A i \in 1..n : i # n => r[i] = s[i]
    BY <2>1, <2>2
  <2>4. QED
    BY <2>3 DEF n
<1>6. r \in Seq(FramesOf(l)) /\ Len(r) = Len(s) /\ DOMAIN r = 1..Len(s)
  BY <1>1, <1>5
<1>7. QED
  BY <1>1, <1>2, <1>5, <1>6 DEF RunsIn

\* An enumeration of the delegates an event is for.
LEMMA TodoType ==
  ASSUME NEW S \in SUBSET Delegates, S # {}, NEW todo \in SetToSeqs(S)
  PROVE  todo \in Seq(S) \ {<<>>}
<1> DEFINE D == 1..Cardinality(S)
<1>1. \E f \in [D -> S] : todo = f
  BY DEF SetToSeqs
<1>2. IsFiniteSet(S)
  BY BoundsAssumption, FS_Subset
<1>3. Cardinality(S) \in Nat /\ Cardinality(S) # 0
  BY <1>2, FS_CardinalityType, FS_EmptySet
<1> DEFINE n == Cardinality(S)
<1>4. todo \in [1..n -> S] /\ n \in Nat /\ n # 0
  BY <1>1, <1>3
<1> HIDE DEF n
<1>5. QED
  BY <1>4

-----------------------------------------------------------------------------
(* What is posted, and what is handled.                                    *)

\* What is for a looper is made of its delegates.
LEMMA MessageType ==
  ASSUME NEW l \in Loopers
  PROVE  /\ Of(l) \subseteq Delegates
         /\ \A m \in MessagesTo(l) :
              /\ m \in Messages /\ m.to \subseteq Of(l) /\ m.to # {}
              /\ m.do \in {"event", "invalidate"}
         /\ \A s \in Seq(FramesOf(l)) : s \in Seq(Frames)
<1>1. Of(l) \subseteq Delegates
  BY DEF Of
<1>2. \A m \in MessagesTo(l) :
        /\ m \in Messages /\ m.to \subseteq Of(l) /\ m.to # {}
        /\ m.do \in {"event", "invalidate"}
  BY <1>1 DEF Messages, MessagesTo
<1>3. \A q \in Seq(Of(l)) : q \in Seq(Delegates)
  BY <1>1
<1>4. \A f \in FramesOf(l) : f \in Frames
  BY <1>3 DEF FramesOf, Frames
<1>5. \A s \in Seq(FramesOf(l)) : s \in Seq(Frames)
  BY <1>4
<1>6. QED
  BY <1>1, <1>2, <1>5

\* The frames of a looper that handles something.
LEMMA FramesOfThread ==
  ASSUME TypeOK, Addressed, NEW t \in Loopers
  PROVE  /\ frames[t] \in Seq(FramesOf(t)) /\ Len(frames[t]) <= MaxDepth
         /\ frames[t] # <<>> =>
              /\ Last(frames[t]) \in FramesOf(t)
              /\ Head(Last(frames[t]).todo) \in Of(t)
              /\ Len(frames[t]) \in Nat \ {0}
<1>1. frames[t] \in Seq(FramesOf(t)) /\ Len(frames[t]) <= MaxDepth
  BY DEF Addressed, TypeOK
<1>2. frames[t] # <<>> => Last(frames[t]) \in FramesOf(t) /\ Len(frames[t]) \in Nat \ {0}
  BY <1>1, TopFrame
<1>3. QED
  BY <1>1, <1>2, FrameType

\* The stack of a looper while the other loopers keep theirs.
OnlyOf(t, q) ==
  /\ frames' = [l \in Loopers |-> IF l = t THEN q ELSE frames[l]]
  /\ frames'[t] = q /\ \A u \in Loopers \ {t} : frames'[u] = frames[u]

\* A callback that is called.
LEMMA CallStep ==
  ASSUME TypeOK, Addressed, NEW t \in Loopers, HandleEvent(t),
         Head(Last(frames[t]).todo) \in callable
  PROVE  \E q \in Seq(FramesOf(t)) :
           /\ OnlyOf(t, q) /\ Len(q) = Len(frames[t])
           /\ \A d : RunsIn(q, d) = IF d = Head(Last(frames[t]).todo)
                                    THEN RunsIn(frames[t], d) \cup {Len(frames[t])}
                                    ELSE RunsIn(frames[t], d) \ {Len(frames[t])}
<1> DEFINE q == [frames[t] EXCEPT ![Len(frames[t])].calling = TRUE]
<1>1. frames[t] # <<>> /\ frames' = [frames EXCEPT ![t] = q]
  BY DEF HandleEvent
<1>2. /\ q \in Seq(FramesOf(t)) /\ Len(q) = Len(frames[t])
      /\ \A d : RunsIn(q, d) = IF d = Head(Last(frames[t]).todo)
                               THEN RunsIn(frames[t], d) \cup {Len(frames[t])}
                               ELSE RunsIn(frames[t], d) \ {Len(frames[t])}
  <2>1. q = [frames[t] EXCEPT ![Len(frames[t])].calling = TRUE]
    OBVIOUS
  <2>2. frames[t] \in Seq(FramesOf(t)) /\ frames[t] # <<>>
    BY <1>1, FramesOfThread
  <2> HIDE DEF q
  <2>3. QED
    BY <2>1, <2>2, CallFrame
<1> HIDE DEF q
<1>3. DOMAIN frames = Loopers
  BY DEF TypeOK
<1>4. OnlyOf(t, q)
  BY <1>1, <1>3 DEF OnlyOf
<1>5. QED
  BY <1>2, <1>4

\* A delegate that has been handled, or is passed over.
LEMMA HandledStep ==
  ASSUME TypeOK, Addressed, NEW t \in Loopers, frames[t] # <<>>,
         frames' = [frames EXCEPT ![t] = Handled(@)]
  PROVE  \E q \in Seq(FramesOf(t)) :
           /\ OnlyOf(t, q) /\ Len(q) <= Len(frames[t])
           /\ \A d : RunsIn(q, d) = RunsIn(frames[t], d) \ {Len(frames[t])}
<1> DEFINE q == Handled(frames[t])
<1>1. /\ q \in Seq(FramesOf(t)) /\ Len(q) <= Len(frames[t])
      /\ \A d : RunsIn(q, d) = RunsIn(frames[t], d) \ {Len(frames[t])}
  BY FramesOfThread, HandledFrame
<1>2. OnlyOf(t, q)
  BY DEF OnlyOf, TypeOK
<1>3. QED
  BY <1>1, <1>2

\* An event that begins to be handled.
LEMMA DeliverStep ==
  ASSUME TypeOK, Addressed, NEW t \in Loopers, Deliver(t), frames' # frames
  PROVE  \E q \in Seq(FramesOf(t)) :
           /\ OnlyOf(t, q) /\ Len(q) <= MaxDepth
           /\ \A d : RunsIn(q, d) = RunsIn(frames[t], d)
<1>1. PICK m \in inbox[t] :
        IF m.do = "event"
        THEN \E todo \in SetToSeqs(m.to) :
               frames' = [frames EXCEPT ![t] = Append(@, [todo |-> todo, calling |-> FALSE])]
        ELSE UNCHANGED frames
  BY Zenon DEF Deliver
<1>2. PICK todo \in SetToSeqs(m.to) :
        frames' = [frames EXCEPT ![t] = Append(@, [todo |-> todo, calling |-> FALSE])]
  BY <1>1, Zenon
<1> DEFINE f == [todo |-> todo, calling |-> FALSE]
           q == Append(frames[t], f)
<1>3. m.to \subseteq Of(t) /\ m.to # {} /\ Of(t) \subseteq Delegates
  BY MessageType DEF Addressed
<1>4. todo \in Seq(m.to) \ {<<>>}
  BY <1>3, TodoType
<1>5. todo \in Seq(Of(t))
  BY <1>3, <1>4
<1>6. f \in FramesOf(t) /\ ~f.calling
  BY <1>4, <1>5 DEF FramesOf
<1>7. OnlyOf(t, q)
  BY <1>2 DEF OnlyOf, TypeOK
<1> HIDE DEF f
<1>8. frames[t] \in Seq(FramesOf(t)) /\ Len(frames[t]) \in Nat
  BY FramesOfThread
<1>9. /\ q \in Seq(FramesOf(t)) /\ Len(q) = Len(frames[t]) + 1
      /\ \A d : RunsIn(q, d) = RunsIn(frames[t], d)
  BY <1>6, <1>8, PushFrame
<1> HIDE DEF q
<1>10. Len(q) <= MaxDepth
  <2>1. frames[t] = <<>> \/ Len(frames[t]) < MaxDepth
    BY DEF Deliver
  <2>2. Len(<<>>) = 0
    BY EmptySeq
  <2>3. Len(frames[t]) < MaxDepth
    BY <2>1, <2>2, BoundsAssumption
  <2>4. QED
    BY <1>8, <1>9, <2>3, BoundsAssumption
<1>11. QED
  BY <1>7, <1>9, <1>10

\* Every stack stays one of deliveries to the looper's own delegates.
LEMMA FramesStep ==
  ASSUME TypeOK, Addressed, Next
  PROVE  /\ \A l \in Loopers : frames'[l] \in Seq(FramesOf(l)) /\ Len(frames'[l]) <= MaxDepth
         /\ frames' \in [Loopers -> Seq(Frames)]
<1> DEFINE Stacked ==
             /\ \A l \in Loopers : frames'[l] \in Seq(FramesOf(l)) /\ Len(frames'[l]) <= MaxDepth
             /\ frames' = [l \in Loopers |-> frames'[l]]
<1>1. ASSUME NEW t \in Loopers, NEW q \in Seq(FramesOf(t)), OnlyOf(t, q), Len(q) <= MaxDepth
      PROVE  Stacked
  <2>1. ASSUME NEW l \in Loopers, l # t
        PROVE  frames'[l] \in Seq(FramesOf(l)) /\ Len(frames'[l]) <= MaxDepth
    BY <1>1, <2>1, FramesOfThread DEF OnlyOf
  <2>2. QED
    BY <1>1, <2>1 DEF OnlyOf
<1>2. ASSUME NEW t \in Loopers, frames[t] # <<>>, frames' = [frames EXCEPT ![t] = Handled(@)]
      PROVE  Stacked
  <2>1. PICK q \in Seq(FramesOf(t)) : OnlyOf(t, q) /\ Len(q) <= Len(frames[t])
    BY <1>2, HandledStep
  <2>2. Len(q) \in Nat /\ Len(frames[t]) \in Nat /\ Len(frames[t]) <= MaxDepth
    BY FramesOfThread
  <2>3. QED
    BY <1>1, <2>1, <2>2, BoundsAssumption
<1>3. ASSUME NEW t \in Loopers, HandleEvent(t)
      PROVE  Stacked
  <2>1. CASE Head(Last(frames[t]).todo) \in callable
    <3>1. PICK q \in Seq(FramesOf(t)) : OnlyOf(t, q) /\ Len(q) = Len(frames[t])
      BY <1>3, <2>1, CallStep
    <3>2. QED
      BY <1>1, <3>1, FramesOfThread
  <2>2. CASE Head(Last(frames[t]).todo) \notin callable
    BY <1>2, <1>3, <2>2 DEF HandleEvent
  <2>3. QED
    BY <2>1, <2>2
<1>4. ASSUME NEW t \in Loopers, HandleEnd(t)
      PROVE  Stacked
  BY <1>2, <1>4 DEF HandleEnd, Calling
<1>5. ASSUME UNCHANGED frames
      PROVE  Stacked
  BY <1>5, FramesOfThread DEF TypeOK
<1>6. ASSUME NEW t \in Loopers, Deliver(t)
      PROVE  Stacked
  <2>1. CASE frames' # frames
    BY <1>1, <1>6, <2>1, DeliverStep
  <2>2. QED
    BY <1>5, <2>1
<1>7. Stacked
  BY <1>3, <1>4, <1>5, <1>6
     DEF Next, Step, LooperStep, WorkerStep, Call, loopVars, Attach, Detach, Send, Polled,
         Leave, Joined, Gone, Becomes, Worked, Empty, Sleep, Work, Wake, WaitForBus,
         NothingToDo, Dispatch, Cleanup, AddListener, RemoveListener, Invalidate
<1>8. \A l \in Loopers : frames'[l] \in Seq(Frames)
  BY <1>7, MessageType
<1>9. QED
  BY <1>7, <1>8

\* A message reaches the looper whose delegates it is for.
LEMMA PostedStep ==
  ASSUME TypeOK, Addressed, NEW l \in Loopers, NEW m \in MessagesTo(l), Posted(l, m)
  PROVE  /\ inbox' \in [Loopers -> SUBSET Messages]
         /\ \A k \in Loopers : inbox'[k] \subseteq MessagesTo(k)
<1>1. m \in Messages
  BY MessageType
<1>2. inbox' \in [Loopers -> SUBSET Messages]
  BY <1>1 DEF Posted, TypeOK
<1>3. \A k \in Loopers : inbox'[k] \subseteq inbox[k] \cup (IF k = l THEN {m} ELSE {})
  BY DEF Posted, TypeOK
<1>4. QED
  BY <1>2, <1>3 DEF Addressed

\* What a dispatch collects for a looper is for its delegates.
LEMMA DispatchStep ==
  ASSUME TypeOK, NEW t \in Threads, Dispatch(t)
  PROVE  \A s \in sending'[t] :
           s \in Loopers \X Messages /\ s[2] \in MessagesTo(s[1]) /\ s[2].do = "event"
<1>1. calls \in 0..MaxCalls
  BY DEF TypeOK
<1>2. byCategory \subseteq Delegates
  BY DEF TypeOK
<1>3. ASSUME NEW d \in byCategory
      PROVE  /\ LooperOf[d] \in Loopers
             /\ [do |-> "event", to |-> byCategory \cap Of(LooperOf[d]), nr |-> calls]
                  \in MessagesTo(LooperOf[d])
  <2>1. d \in byCategory \cap Of(LooperOf[d]) /\ LooperOf[d] \in Loopers
    BY <1>2, <1>3, LooperOfAssumption DEF Of
  <2>2. QED
    BY <1>1, <2>1 DEF MessagesTo
<1>4. sending'[t] = {<<l, [do |-> "event", to |-> byCategory \cap Of(l), nr |-> calls]>> :
                       l \in {LooperOf[d] : d \in byCategory}}
  BY DEF Dispatch, TypeOK
<1>5. ASSUME NEW s \in sending'[t]
      PROVE  s \in Loopers \X Messages /\ s[2] \in MessagesTo(s[1]) /\ s[2].do = "event"
  <2>1. PICK d \in byCategory :
          s = <<LooperOf[d],
                [do |-> "event", to |-> byCategory \cap Of(LooperOf[d]), nr |-> calls]>>
    BY <1>4, <1>5, Zenon
  <2>2. /\ s[1] = LooperOf[d] /\ s[2] \in MessagesTo(LooperOf[d]) /\ s[2].do = "event"
        /\ LooperOf[d] \in Loopers
    BY <1>3, <2>1
  <2>3. s[2] \in Messages
    BY <2>2, MessageType
  <2>4. s \in Loopers \X Messages
    BY <2>1, <2>2, <2>3
  <2>5. QED
    BY <2>2, <2>4
<1>6. QED
  BY <1>5

\* Whatever reaches a looper stays for its delegates.
LEMMA InboxStep ==
  ASSUME TypeOK, Addressed, Next
  PROVE  /\ inbox' \in [Loopers -> SUBSET Messages]
         /\ \A k \in Loopers : inbox'[k] \subseteq MessagesTo(k)
<1>1. ASSUME NEW t \in Threads, Send(t)
      PROVE  \E l \in Loopers : \E m \in MessagesTo(l) : Posted(l, m)
  BY <1>1 DEF Send, Addressed
<1>2. ASSUME NEW t \in Threads, NEW d \in Delegates, Invalidate(t, d)
      PROVE  UNCHANGED inbox \/ \E l \in Loopers : \E m \in MessagesTo(l) : Posted(l, m)
  <2>1. LooperOf[d] \in Loopers /\ d \in Of(LooperOf[d])
    BY LooperOfAssumption DEF Of
  <2>2. [do |-> "invalidate", to |-> {d}, nr |-> 0] \in MessagesTo(LooperOf[d])
    BY <2>1, BoundsAssumption DEF MessagesTo
  <2>3. QED
    BY <1>2, <2>1, <2>2 DEF Invalidate
<1>3. CASE \E l \in Loopers : \E m \in MessagesTo(l) : Posted(l, m)
  BY <1>3, PostedStep
<1>4. CASE UNCHANGED inbox
  BY <1>4 DEF Addressed, TypeOK
<1>5. ASSUME NEW t \in Loopers, Deliver(t) \/ Gone(t)
      PROVE  /\ inbox' \in [Loopers -> SUBSET Messages]
             /\ \A k \in Loopers : inbox'[k] \subseteq inbox[k]
  <2>1. \E M \in SUBSET inbox[t] : inbox' = [inbox EXCEPT ![t] = M]
    <3>1. CASE Deliver(t)
      <4>1. PICK m \in inbox[t] : inbox' = [inbox EXCEPT ![t] = @ \ {m}]
        BY <3>1, Zenon DEF Deliver
      <4>2. QED
        BY <4>1
    <3>2. CASE Gone(t)
      BY <3>2 DEF Gone
    <3>3. QED
      BY <1>5, <3>1, <3>2
  <2>2. QED
    BY <2>1 DEF TypeOK
<1>6. CASE \E t \in Loopers : Deliver(t) \/ Gone(t)
  BY <1>5, <1>6 DEF Addressed
<1>7. QED
  BY <1>1, <1>2, <1>3, <1>4, <1>6
     DEF Next, Step, LooperStep, WorkerStep, Call, loopVars, Attach, Detach, Polled, Leave,
         Joined, Becomes, Worked, Empty, Sleep, Work, Wake, WaitForBus, NothingToDo, Dispatch,
         Cleanup, AddListener, RemoveListener, HandleEvent, HandleEnd

\* So does what a dispatch still has to post.
LEMMA SendingStep ==
  ASSUME TypeOK, Addressed, Next
  PROVE  /\ sending' \in [Threads -> SUBSET (Loopers \X Messages)]
         /\ \A l \in Threads : \A s \in sending'[l] :
              s[1] \in Loopers /\ s[2] \in MessagesTo(s[1]) /\ s[2].do = "event"
<1>1. ASSUME NEW t \in Threads, Dispatch(t)
      PROVE  /\ sending' \in [Threads -> SUBSET (Loopers \X Messages)]
             /\ \A l \in Threads : \A s \in sending'[l] :
                  s[1] \in Loopers /\ s[2] \in MessagesTo(s[1]) /\ s[2].do = "event"
  <2>1. \A s \in sending'[t] :
          s \in Loopers \X Messages /\ s[2] \in MessagesTo(s[1]) /\ s[2].do = "event"
    BY <1>1, DispatchStep
  <2>2. /\ sending' = [sending EXCEPT ![t] = sending'[t]]
        /\ \A l \in Threads \ {t} : sending'[l] = sending[l]
    BY <1>1 DEF Dispatch, TypeOK
  <2>3. sending'[t] \in SUBSET (Loopers \X Messages)
    BY <2>1
  <2>4. sending' \in [Threads -> SUBSET (Loopers \X Messages)]
    BY <2>2, <2>3 DEF TypeOK
  <2>5. \A s \in sending'[t] : s[1] \in Loopers
    BY <2>3
  <2>6. QED
    BY <2>1, <2>2, <2>4, <2>5 DEF Addressed
<1>2. ASSUME NEW t \in Threads, Send(t)
      PROVE  /\ sending' \in [Threads -> SUBSET (Loopers \X Messages)]
             /\ \A l \in Threads : sending'[l] \subseteq sending[l]
  BY <1>2 DEF Send, TypeOK
<1>3. CASE \E t \in Threads : Send(t)
  BY <1>2, <1>3 DEF Addressed
<1>4. CASE UNCHANGED sending
  BY <1>4 DEF Addressed, TypeOK
<1>5. QED
  BY <1>1, <1>3, <1>4
     DEF Next, Step, LooperStep, WorkerStep, Call, Attach, Detach, Polled, Leave, Joined,
         Gone, Becomes, Worked, Empty, Sleep, Work, Wake, WaitForBus, NothingToDo, Deliver,
         Cleanup, AddListener, RemoveListener, Invalidate, HandleEvent, HandleEnd

\* What is on its way, and what is handled, stays with its looper.
LEMMA AddressedStep ==
  ASSUME TypeOK, Addressed, Next
  PROVE  Addressed'
<1>1. \A l : MessagesTo(l)' = MessagesTo(l) /\ FramesOf(l)' = FramesOf(l)
  BY DEF MessagesTo, FramesOf, Of
<1>2. QED
  BY <1>1, FramesStep, InboxStep, SendingStep DEF Addressed

-----------------------------------------------------------------------------
(* Types.                                                                  *)

\* An invalidation that takes effect keeps the types.
LEMMA InvalidateType ==
  ASSUME TypeOK, NEW d \in Delegates, DoInvalidate(d)
  PROVE  /\ state' \in [Delegates -> {"Pending", "Active", "Invalidated", "Finalized"}]
         /\ callable' \subseteq Delegates /\ invalid' \subseteq Delegates
<1>1. CASE state[d] = "Pending"
  BY <1>1 DEF TypeOK, DoInvalidate, Finalize
<1>2. CASE state[d] # "Pending"
  BY <1>2 DEF TypeOK, DoInvalidate
<1>3. QED
  BY <1>1, <1>2

\* The states, and who has been asked for.
StateTypes ==
  /\ state \in [Delegates -> {"Pending", "Active", "Invalidated", "Finalized"}]
  /\ callable \subseteq Delegates /\ invalid \subseteq Delegates /\ asked \subseteq Delegates

\* A step keeps them.
LEMMA StateTypesStep ==
  ASSUME TypeOK, Addressed, Next
  PROVE  StateTypes'
<1> USE DEF StateTypes
<1>1. CASE UNCHANGED stateVars
  BY <1>1 DEF TypeOK, stateVars
<1>2. ASSUME NEW t \in Threads, NEW d \in Delegates, Invalidate(t, d)
      PROVE  StateTypes'
  <2>1. asked' \subseteq Delegates
    BY <1>2 DEF Invalidate, TypeOK
  <2>2. CASE LooperOf[d] = t
    BY <1>2, <2>1, <2>2, InvalidateType DEF Invalidate
  <2>3. CASE LooperOf[d] # t
    BY <1>2, <2>1, <2>3 DEF Invalidate, TypeOK
  <2>4. QED
    BY <2>2, <2>3
<1>3. ASSUME NEW t \in Loopers, Deliver(t)
      PROVE  StateTypes'
  <2>1. PICK m \in inbox[t] : \/ UNCHANGED <<state, callable, invalid>>
                              \/ \E d \in m.to : DoInvalidate(d)
    BY <1>3, Zenon DEF Deliver
  <2>2. m.to \subseteq Delegates
    BY MessageType DEF Addressed
  <2>3. UNCHANGED asked
    BY <1>3 DEF Deliver
  <2>4. CASE \E d \in m.to : DoInvalidate(d)
    BY <2>2, <2>3, <2>4, InvalidateType DEF TypeOK
  <2>5. QED
    BY <2>1, <2>3, <2>4 DEF TypeOK
<1>4. ASSUME NEW t \in Loopers, HandleEvent(t)
      PROVE  StateTypes'
  <2>1. UNCHANGED <<callable, asked, invalid>>
    BY <1>4 DEF HandleEvent
  <2>2. state' \in [Delegates -> {"Pending", "Active", "Invalidated", "Finalized"}]
    BY <1>4 DEF HandleEvent, TypeOK
  <2>3. QED
    BY <2>1, <2>2 DEF TypeOK
<1>5. ASSUME NEW t \in Loopers, HandleEnd(t)
      PROVE  StateTypes'
  <2>1. UNCHANGED <<asked, invalid>> /\ callable' \subseteq callable
    BY <1>5 DEF HandleEnd, Finalize
  <2>2. state' \in [Delegates -> {"Pending", "Active", "Invalidated", "Finalized"}]
    BY <1>5 DEF HandleEnd, Finalize, TypeOK
  <2>3. QED
    BY <2>1, <2>2 DEF TypeOK
<1>6. QED
  BY <1>1, <1>2, <1>3, <1>4, <1>5
     DEF Next, Step, LooperStep, WorkerStep, Call, Attach, Detach, Polled, Leave, Joined,
         Gone, Becomes, Worked, Empty, Sleep, Work, Wake, WaitForBus, NothingToDo, Send,
         Cleanup, Dispatch, AddListener, RemoveListener

\* What a thread waits for.
Ops == {None, Waiting} \cup ({"attach", "detach"} \X Delegates)

\* The tables, and what the threads do.
TableTypes ==
  /\ life \in [Loopers -> {"alive", "cleaning", "leaving", "joining", "closing", "gone"}]
  /\ worker \in [Workers -> {"idle", "task", "empty", "asleep", "ended"}]
  /\ op \in [Threads -> Ops]
  /\ UNION {listeners, byCategory, inLooper, attached} \subseteq Delegates
  /\ loopers \cup buses \subseteq Loopers
  /\ calls \in 0 .. MaxCalls
  /\ lapses \subseteq {"nested", "postedLate", "addedLate"}

\* They are a part of the types.
LEMMA TableTypesOK ==
  ASSUME TypeOK PROVE TableTypes
  BY DEF TypeOK, TableTypes, Ops

\* A thread waits, or does so no more.
LEMMA OpType ==
  ASSUME TypeOK, NEW t \in Threads, NEW x, x \in Ops, op' = [op EXCEPT ![t] = x]
  PROVE  op' \in [Threads -> Ops]
<1>1. op \in [Threads -> Ops]
  BY TableTypesOK DEF TableTypes
<1>2. QED
  BY <1>1

\* What there is to wait for.
LEMMA OpsAre ==
  /\ None \in Ops /\ Waiting \in Ops
  /\ \A d \in Delegates : <<"attach", d>> \in Ops /\ <<"detach", d>> \in Ops
<1>1. \A d \in Delegates, w \in {"attach", "detach"} :
        <<w, d>> \in {"attach", "detach"} \X Delegates
  OBVIOUS
<1>2. QED
  BY <1>1 DEF Ops

\* A step of the bus keeps these types.
LEMMA BusTypes ==
  ASSUME TypeOK, NEW t \in Threads, Call(t) \/ Step(t)
  PROVE  TableTypes'
<1> DEFINE Rest ==
             /\ UNION {listeners', byCategory', inLooper', attached'} \subseteq Delegates
             /\ loopers' \cup buses' \subseteq Loopers
             /\ calls' \in 0 .. MaxCalls
             /\ lapses' \subseteq {"nested", "postedLate", "addedLate"}
             /\ UNCHANGED <<life, worker>>
<1> USE LooperOfAssumption, BoundsAssumption DEF TypeOK, tableVars, loopVars, Counted
<1>1. ASSUME op' = op \/ \E x \in Ops : op' = [op EXCEPT ![t] = x], Rest
      PROVE  TableTypes'
  <2>1. op' \in [Threads -> Ops]
    BY <1>1, OpType, TableTypesOK DEF TableTypes
  <2>2. QED
    BY <1>1, <2>1, TableTypesOK DEF TableTypes, Ops
<1>2. ASSUME NEW d \in Delegates, AddListener(t, d)
      PROVE  TableTypes'
  <2>1. Rest
    BY <1>2 DEF AddListener, Added, Locks
  <2>2. op' = [op EXCEPT ![t] = None] \/ op' = [op EXCEPT ![t] = <<"attach", d>>]
    BY <1>2 DEF AddListener
  <2>3. QED
    BY <1>1, <2>1, <2>2, OpsAre
<1>3. ASSUME NEW d \in Delegates, RemoveListener(t, d)
      PROVE  TableTypes'
  <2>1. Rest
    BY <1>3 DEF RemoveListener, Locks
  <2>2. op' = [op EXCEPT ![t] = None] \/ op' = [op EXCEPT ![t] = <<"detach", d>>]
    BY <1>3 DEF RemoveListener
  <2>3. QED
    BY <1>1, <2>1, <2>2, OpsAre
<1>4. ASSUME Attach(t)
      PROVE  TableTypes'
  <2>1. Rest
    BY <1>4 DEF Attach, Added
  <2>2. op' = [op EXCEPT ![t] = None]
    BY <1>4 DEF Attach
  <2>3. QED
    BY <1>1, <2>1, <2>2, OpsAre
<1>5. ASSUME Detach(t)
      PROVE  TableTypes'
  <2>1. Rest
    BY <1>5 DEF Detach
  <2>2. op' = [op EXCEPT ![t] = None]
    BY <1>5 DEF Detach
  <2>3. QED
    BY <1>1, <2>1, <2>2, OpsAre
<1>6. ASSUME Dispatch(t) \/ WaitForBus(t) \/ NothingToDo(t)
      PROVE  TableTypes'
  <2>1. UNCHANGED <<life, worker, tableVars, lapses>> /\ (UNCHANGED calls \/ Counted)
    BY <1>6 DEF Dispatch, WaitForBus, NothingToDo, Locks
  <2>4. Rest
    BY <2>1
  <2>2. op' = [op EXCEPT ![t] = None] \/ op' = [op EXCEPT ![t] = Waiting]
    BY <1>6 DEF Dispatch, WaitForBus, NothingToDo
  <2>3. QED
    BY <1>1, <2>2, <2>4, OpsAre
<1>7. ASSUME Send(t)
      PROVE  TableTypes'
  <2>1. op' = op /\ Rest
    BY <1>7 DEF Send, Posted
  <2>2. QED
    BY <1>1, <2>1
<1>8. ASSUME NEW d \in Delegates, Invalidate(t, d)
      PROVE  TableTypes'
  <2>1. /\ UNCHANGED <<life, worker, op, tableVars>> /\ calls' = calls + 1 /\ calls < MaxCalls
        /\ lapses' \in {lapses, lapses \cup {"postedLate"}}
    BY <1>8 DEF Invalidate, Posted
  <2>2. op' = op /\ Rest
    BY <2>1
  <2>3. QED
    BY <1>1, <2>2
<1>9. QED
  BY <1>2, <1>3, <1>4, <1>5, <1>6, <1>7, <1>8 DEF Call, Step

\* So does one of a looper, or of a worker.
LEMMA TableTypesStep ==
  ASSUME TypeOK, Next
  PROVE  TableTypes'
<1> USE DEF TypeOK, tableVars, loopVars
<1>1. ASSUME NEW l \in Loopers, Leave(l)
      PROVE  TableTypes'
  <2>1. worker' \in [Workers -> {"idle", "task", "empty", "asleep", "ended"}]
    BY <1>1 DEF Leave, StopPool
  <2>2. life' \in [Loopers -> {"alive", "cleaning", "leaving", "joining", "closing", "gone"}]
    BY <1>1 DEF Leave
  <2>3. /\ UNCHANGED <<op, calls, lapses>> /\ loopers' \cup buses' \subseteq Loopers
        /\ UNION {listeners', byCategory', inLooper', attached'} \subseteq Delegates
    BY <1>1 DEF Leave
  <2>4. QED
    BY <2>1, <2>2, <2>3, TableTypesOK DEF TableTypes, Ops
<1>2. ASSUME NEW l \in Loopers, HandleEvent(l)
      PROVE  TableTypes'
  BY <1>2, TableTypesOK DEF HandleEvent, TableTypes, Ops
<1>3. ASSUME NEW l \in Loopers, Cleanup(l) \/ Polled(l) \/ Joined(l) \/ Gone(l)
      PROVE  TableTypes'
  <2>1. /\ UNCHANGED <<worker, op, tableVars, calls, lapses>>
        /\ \E x \in {"cleaning", "leaving", "closing", "gone"} : life' = [life EXCEPT ![l] = x]
    BY <1>3 DEF Cleanup, Polled, Joined, Gone
  <2>2. QED
    BY <2>1, TableTypesOK DEF TableTypes, Ops
<1>4. ASSUME NEW l \in Loopers, Deliver(l) \/ HandleEnd(l)
      PROVE  TableTypes'
  <2>1. UNCHANGED <<life, worker, op, tableVars, calls, lapses>>
    BY <1>4 DEF Deliver, HandleEnd
  <2>2. QED
    BY <2>1, TableTypesOK DEF TableTypes, Ops
<1>5. ASSUME NEW w \in Workers, NEW x \in {"idle", "task", "empty", "asleep", "ended"},
             Becomes(w, x)
      PROVE  TableTypes'
  BY <1>5, TableTypesOK DEF Becomes, TableTypes, Ops
<1>6. ASSUME NEW w \in Workers, WorkerStep(w) \/ Work(w) \/ Wake(w)
      PROVE  TableTypes'
  BY <1>5, <1>6 DEF WorkerStep, Worked, Empty, Sleep, Work, Wake
<1>7. QED
  BY <1>1, <1>2, <1>3, <1>4, <1>6, BusTypes DEF Next, LooperStep

\* Every variable keeps its type.
LEMMA TypeStep ==
  ASSUME TypeOK, Addressed, Next
  PROVE  TypeOK'
<1>1. Messages' = Messages /\ Frames' = Frames
  BY DEF Messages, Frames
<1>2. StateTypes' /\ TableTypes'
  BY StateTypesStep, TableTypesStep
<1>3. /\ inbox' \in [Loopers -> SUBSET Messages]
      /\ frames' \in [Loopers -> Seq(Frames)] /\ \A l \in Loopers : Len(frames'[l]) <= MaxDepth
      /\ sending' \in [Threads -> SUBSET (Loopers \X Messages)]
  BY FramesStep, InboxStep, SendingStep
<1>4. UNION {listeners', byCategory', inLooper', attached', callable', asked', invalid'}
        \subseteq Delegates
  BY <1>2 DEF StateTypes, TableTypes
<1>5. QED
  BY <1>1, <1>2, <1>3, <1>4 DEF TypeOK, StateTypes, TableTypes, Ops

-----------------------------------------------------------------------------
(* The tables.                                                             *)

\* While nobody has the bus's mutex, nothing is half done.
LEMMA NobodyWaits ==
  ASSUME BusFree
  PROVE  Adding = {} /\ Removing = {} /\ OneInBus
<1>1. \A t \in Threads, d \in Delegates, w \in {"attach", "detach"} : op[t] # <<w, d>>
  BY DEF BusFree, None, Waiting
<1>2. OneInBus
  BY DEF BusFree, OneInBus
<1>3. QED
  BY <1>1, <1>2 DEF Adding, Removing

\* The one who waits with it is the only one.
LEMMA OneWaits ==
  ASSUME OneInBus, NEW t \in Threads, NEW d \in Delegates, NEW w \in {"attach", "detach"},
         op[t] = <<w, d>>
  PROVE  /\ Adding = IF w = "attach" THEN {d} ELSE {}
         /\ Removing = IF w = "detach" THEN {d} ELSE {}
         /\ \A u \in Threads \ {t} : op[u] \in {None, Waiting}
<1>1. op[t] \notin {None, Waiting}
  BY DEF None, Waiting
<1>2. \A u \in Threads \ {t} : op[u] \in {None, Waiting}
  BY <1>1 DEF OneInBus
<1>3. \A u \in Threads, e \in Delegates :
        /\ op[u] = <<"attach", e>> <=> w = "attach" /\ u = t /\ e = d
        /\ op[u] = <<"detach", e>> <=> w = "detach" /\ u = t /\ e = d
  BY <1>2 DEF None, Waiting
<1>4. QED
  BY <1>2, <1>3 DEF Adding, Removing

\* Somebody begins to wait with it.
LEMMA BeginsToWait ==
  ASSUME TypeOK, BusFree, NEW t \in Threads, NEW d \in Delegates,
         NEW w \in {"attach", "detach"}, op' = [op EXCEPT ![t] = <<w, d>>]
  PROVE  /\ Adding' = IF w = "attach" THEN {d} ELSE {}
         /\ Removing' = IF w = "detach" THEN {d} ELSE {}
         /\ OneInBus'
<1>1. op'[t] = <<w, d>> /\ \A u \in Threads \ {t} : op'[u] \in {None, Waiting}
  BY DEF TypeOK, BusFree
<1>2. OneInBus'
  BY <1>1 DEF OneInBus
<1>3. \A u \in Threads, e \in Delegates :
        /\ op'[u] = <<"attach", e>> <=> w = "attach" /\ u = t /\ e = d
        /\ op'[u] = <<"detach", e>> <=> w = "detach" /\ u = t /\ e = d
  BY <1>1 DEF None, Waiting
<1>4. QED
  BY <1>2, <1>3 DEF Adding, Removing

\* The one who has it gives it back, and leaves nobody.
LEMMA GetsOut ==
  ASSUME TypeOK, OneInBus, NEW t \in Threads, op[t] \notin {None, Waiting},
         op' = [op EXCEPT ![t] = None]
  PROVE  BusFree' /\ Adding' = {} /\ Removing' = {} /\ OneInBus'
<1>1. \A u \in Threads : op'[u] \in {None, Waiting}
  BY DEF TypeOK, OneInBus
<1>2. QED
  BY <1>1 DEF BusFree, Adding, Removing, OneInBus, None, Waiting

\* A step that leaves the bus alone.
LEMMA BusUntouched ==
  ASSUME UNCHANGED op
  PROVE  Adding' = Adding /\ Removing' = Removing /\ OneInBus' = OneInBus
  BY DEF Adding, Removing, OneInBus

\* Somebody begins to wait for it, or does so no more.
LEMMA QueueForBus ==
  ASSUME TypeOK, NEW t \in Threads, op[t] \in {None, Waiting}, NEW x \in {None, Waiting},
         op' = [op EXCEPT ![t] = x]
  PROVE  Adding' = Adding /\ Removing' = Removing /\ (OneInBus => OneInBus')
<1>1. \A u \in Threads : op'[u] = op[u] \/ {op[u], op'[u]} \subseteq {None, Waiting}
  BY DEF TypeOK
<1>2. \A u \in Threads, d \in Delegates, w \in {"attach", "detach"} :
        op'[u] = <<w, d>> <=> op[u] = <<w, d>>
  BY <1>1 DEF None, Waiting
<1>3. OneInBus => OneInBus'
  BY <1>1 DEF OneInBus
<1>4. QED
  BY <1>2, <1>3 DEF Adding, Removing

\* A listener begins to be added.
LEMMA AddStep ==
  ASSUME TypeOK, OneInBus, TablesBetween, NEW t \in Threads, NEW d \in Delegates,
         AddListener(t, d)
  PROVE  OneInBus' /\ TablesBetween'
<1>1. BusFree /\ Adding = {} /\ Removing = {}
  BY NobodyWaits DEF AddListener, Locks
<1>2. /\ listeners = attached /\ byCategory = attached /\ inLooper = attached
      /\ loopers = {LooperOf[e] : e \in attached}
      /\ buses = {LooperOf[e] : e \in attached}
      /\ "addedLate" \notin lapses => \A l \in buses : ToLeave(l)
  BY <1>1 DEF TablesBetween, ToLeave
<1>3. /\ byCategory' = byCategory \cup {d} /\ loopers' = loopers \cup {LooperOf[d]}
      /\ d \notin attached /\ UNCHANGED <<life, buses, lapses>>
  BY DEF AddListener, loopVars
<1>4. CASE LooperOf[d] \in loopers
  <2>1. op' = [op EXCEPT ![t] = None] /\ op[t] \in {None, Waiting} /\ Added(d)
    BY <1>4 DEF AddListener, Locks, BusFree
  <2>2. OneInBus' /\ Adding' = {} /\ Removing' = {}
    BY <1>1, <2>1, QueueForBus
  <2>3. QED
    BY <1>2, <1>3, <1>4, <2>1, <2>2 DEF TablesBetween, ToLeave, Added
<1>5. CASE LooperOf[d] \notin loopers
  <2>1. /\ op' = [op EXCEPT ![t] = <<"attach", d>>]
        /\ UNCHANGED <<inLooper, listeners, attached>>
    BY <1>5 DEF AddListener
  <2>2. OneInBus' /\ Adding' = {d} /\ Removing' = {}
    BY <1>1, <2>1, BeginsToWait
  <2>3. QED
    BY <1>2, <1>3, <1>5, <2>1, <2>2 DEF TablesBetween, ToLeave
<1>6. QED
  BY <1>4, <1>5

\* It has been added.
LEMMA AttachStep ==
  ASSUME TypeOK, OneInBus, TablesBetween, NEW t \in Threads, Attach(t)
  PROVE  OneInBus' /\ TablesBetween'
<1>1. PICK d \in Delegates :
        /\ op[t] = <<"attach", d>> /\ LooperFree(LooperOf[d]) /\ op' = [op EXCEPT ![t] = None]
        /\ buses' = buses \cup {LooperOf[d]} /\ Added(d)
        /\ lapses' = IF life[LooperOf[d]] = "gone" THEN lapses \cup {"addedLate"} ELSE lapses
        /\ UNCHANGED <<life, byCategory, loopers>>
  BY DEF Attach, loopVars
<1>2. Adding = {d} /\ Removing = {}
  BY <1>1, OneWaits
<1>3. op[t] \notin {None, Waiting}
  BY <1>1 DEF None, Waiting
<1>4. OneInBus' /\ Adding' = {} /\ Removing' = {}
  BY <1>1, <1>3, GetsOut
<1>5. QED
  BY <1>1, <1>2, <1>4 DEF TablesBetween, ToLeave, LooperFree, Added

\* A listener begins to be removed.
LEMMA RemoveStep ==
  ASSUME TypeOK, OneInBus, TablesBetween, NEW t \in Threads, NEW d \in Delegates,
         RemoveListener(t, d)
  PROVE  OneInBus' /\ TablesBetween'
<1>1. BusFree /\ Adding = {} /\ Removing = {}
  BY NobodyWaits DEF RemoveListener, Locks
<1>2. /\ listeners = attached /\ byCategory = attached /\ inLooper = attached
      /\ loopers = {LooperOf[e] : e \in attached}
      /\ buses = {LooperOf[e] : e \in attached}
      /\ "addedLate" \notin lapses => \A l \in buses : ToLeave(l)
  BY <1>1 DEF TablesBetween, ToLeave
<1>3. /\ attached' = attached \ {d} /\ byCategory' = byCategory \ {d}
      /\ inLooper' = inLooper \ {d}
      /\ d \in attached /\ UNCHANGED <<life, loopers, buses, lapses>>
  BY DEF RemoveListener, loopVars
<1>4. attached \subseteq Delegates
  BY DEF TypeOK
<1>5. CASE inLooper \cap Of(LooperOf[d]) = {d}
  <2>1. op' = [op EXCEPT ![t] = <<"detach", d>>] /\ UNCHANGED listeners
    BY <1>5 DEF RemoveListener
  <2>2. OneInBus' /\ Adding' = {} /\ Removing' = {d}
    BY <1>1, <2>1, BeginsToWait
  <2>3. \A e \in attached' : LooperOf[d] # LooperOf[e]
    BY <1>2, <1>3, <1>4, <1>5 DEF Of
  <2>4. QED
    BY <1>2, <1>3, <2>1, <2>2, <2>3 DEF TablesBetween, ToLeave
<1>6. CASE inLooper \cap Of(LooperOf[d]) # {d}
  <2>1. /\ op' = [op EXCEPT ![t] = None] /\ op[t] \in {None, Waiting}
        /\ listeners' = listeners \ {d}
    BY <1>6 DEF RemoveListener, Locks, BusFree
  <2>2. OneInBus' /\ Adding' = {} /\ Removing' = {}
    BY <1>1, <2>1, QueueForBus
  <2>3. PICK e \in attached' : LooperOf[e] = LooperOf[d]
    BY <1>2, <1>3, <1>4, <1>6 DEF Of
  <2>4. {LooperOf[x] : x \in attached'} = {LooperOf[x] : x \in attached}
    BY <1>3, <2>3
  <2>5. QED
    BY <1>2, <1>3, <2>1, <2>2, <2>4 DEF TablesBetween, ToLeave
<1>7. QED
  BY <1>5, <1>6

\* It has been removed.
LEMMA DetachStep ==
  ASSUME TypeOK, OneInBus, TablesBetween, NEW t \in Threads, Detach(t)
  PROVE  OneInBus' /\ TablesBetween'
<1>1. PICK d \in Delegates :
        /\ op[t] = <<"detach", d>> /\ op' = [op EXCEPT ![t] = None]
        /\ buses' = buses \ {LooperOf[d]} /\ loopers' = loopers \ {LooperOf[d]}
        /\ listeners' = listeners \ {d}
        /\ UNCHANGED <<life, byCategory, inLooper, attached, lapses>>
  BY DEF Detach, loopVars
<1>2. Adding = {} /\ Removing = {d}
  BY <1>1, OneWaits
<1>3. op[t] \notin {None, Waiting}
  BY <1>1 DEF None, Waiting
<1>4. OneInBus' /\ Adding' = {} /\ Removing' = {}
  BY <1>1, <1>3, GetsOut
<1>5. \A e \in attached : LooperOf[d] # LooperOf[e]
  BY <1>2 DEF TablesBetween, ToLeave
<1>6. QED
  BY <1>1, <1>2, <1>4, <1>5 DEF TablesBetween, ToLeave

\* A looper that leaves takes its delegates along, or has none.
LEMMA LeaveStep ==
  ASSUME TypeOK, OneInBus, TablesBetween, NEW t \in Loopers, Leave(t)
  PROVE  OneInBus' /\ TablesBetween'
<1>1. /\ life' = [life EXCEPT ![t] = "joining"] /\ UNCHANGED <<op, lapses>>
      /\ \A l \in Loopers : l # t => life'[l] = life[l]
  BY DEF Leave, TypeOK
<1>2. OneInBus' /\ Adding' = Adding /\ Removing' = Removing
  BY <1>1, BusUntouched
<1>3. buses \subseteq Loopers /\ attached \subseteq Delegates
  BY DEF TypeOK
<1>4. CASE t \in buses
  <2>1. /\ BusFree /\ loopers' = loopers \ {t} /\ buses' = buses \ {t}
        /\ listeners' = listeners \ Of(t) /\ byCategory' = byCategory \ Of(t)
        /\ inLooper' = inLooper \ Of(t) /\ attached' = attached \ Of(t)
    BY <1>4 DEF Leave
  <2>2. Adding = {} /\ Removing = {}
    BY <2>1, NobodyWaits
  <2>3. {LooperOf[e] : e \in attached'} = {LooperOf[e] : e \in attached} \ {t}
    BY <1>3, <2>1 DEF Of
  <2>4. QED
    BY <1>1, <1>2, <1>3, <2>1, <2>2, <2>3 DEF TablesBetween, ToLeave
<1>5. CASE t \notin buses
  <2>1. UNCHANGED tableVars
    BY <1>5 DEF Leave
  <2>2. QED
    BY <1>1, <1>2, <1>3, <1>5, <2>1 DEF TablesBetween, ToLeave, tableVars
<1>6. QED
  BY <1>4, <1>5

\* What the tables lack is what the one in the bus is about.
LEMMA TablesStep ==
  ASSUME TypeOK, OneInBus, TablesBetween, Next
  PROVE  OneInBus' /\ TablesBetween'
<1>1. ASSUME OneInBus', Adding' = Adding, Removing' = Removing, UNCHANGED tableVars,
             lapses \subseteq lapses',
             \A l \in buses : ToLeave(l) => ToLeave(l)'
      PROVE  OneInBus' /\ TablesBetween'
  BY <1>1 DEF TablesBetween, tableVars
<1>2. buses \subseteq Loopers
  BY DEF TypeOK
<1>3. ASSUME NEW l \in Loopers, Cleanup(l) \/ Polled(l) \/ Joined(l) \/ Gone(l)
      PROVE  OneInBus' /\ TablesBetween'
  <2>1. UNCHANGED <<op, tableVars, lapses>>
    BY <1>3 DEF Cleanup, Polled, Joined, Gone
  <2>2. \A k \in Loopers : ToLeave(k) => ToLeave(k)'
    BY <1>3 DEF Cleanup, Polled, Joined, Gone, ToLeave, TypeOK
  <2>3. QED
    BY <1>1, <1>2, <2>1, <2>2, BusUntouched
<1>4. ASSUME NEW l \in Loopers, Deliver(l) \/ HandleEvent(l) \/ HandleEnd(l)
      PROVE  OneInBus' /\ TablesBetween'
  <2>1. UNCHANGED <<op, tableVars, life>> /\ lapses \subseteq lapses'
    BY <1>4 DEF Deliver, HandleEvent, HandleEnd
  <2>2. QED
    BY <1>1, <2>1, BusUntouched DEF ToLeave
<1>5. ASSUME NEW t \in Threads, Send(t) \/ \E d \in Delegates : Invalidate(t, d)
      PROVE  OneInBus' /\ TablesBetween'
  <2>1. UNCHANGED <<op, tableVars, life>> /\ lapses \subseteq lapses'
    BY <1>5 DEF Send, Invalidate, Posted
  <2>2. QED
    BY <1>1, <2>1, BusUntouched DEF ToLeave
<1>6. ASSUME NEW t \in Threads, Dispatch(t) \/ WaitForBus(t) \/ NothingToDo(t)
      PROVE  OneInBus' /\ TablesBetween'
  <2>1. UNCHANGED <<tableVars, life, lapses>>
    BY <1>6 DEF Dispatch, WaitForBus, NothingToDo, loopVars
  <2>2. op[t] \in {None, Waiting} /\ \E x \in {None, Waiting} : op' = [op EXCEPT ![t] = x]
    BY <1>6 DEF Dispatch, WaitForBus, NothingToDo, Locks, Program
  <2>3. QED
    BY <1>1, <2>1, <2>2, QueueForBus DEF ToLeave
<1>7. ASSUME NEW w \in Workers, WorkerStep(w) \/ Work(w) \/ Wake(w)
      PROVE  OneInBus' /\ TablesBetween'
  <2>1. UNCHANGED <<op, tableVars, life, lapses>>
    BY <1>7 DEF WorkerStep, Worked, Empty, Sleep, Work, Wake, Becomes
  <2>2. QED
    BY <1>1, <2>1, BusUntouched DEF ToLeave
<1>8. ASSUME NEW t \in Threads, Step(t) \/ Call(t)
      PROVE  OneInBus' /\ TablesBetween'
  BY <1>5, <1>6, <1>8, AddStep, AttachStep, RemoveStep, DetachStep DEF Step, Call
<1>9. ASSUME NEW l \in Loopers, LooperStep(l) \/ HandleEnd(l) \/ Cleanup(l)
      PROVE  OneInBus' /\ TablesBetween'
  BY <1>3, <1>4, <1>9, LeaveStep DEF LooperStep
<1>10. QED
  BY <1>7, <1>8, <1>9 DEF Next

-----------------------------------------------------------------------------
(* Who waits, and what for.                                                *)

\* A thread begins to wait in the program's code, for itself.
LEMMA OwnOp ==
  ASSUME TypeOK, NEW t \in Threads, Call(t) \/ Step(t)
  PROVE  /\ \A u \in Threads : u # t => op'[u] = op[u]
         /\ op'[t] = op[t] \/ op'[t] = None \/ op[t] = Waiting \/ Program(t)
<1>1. op \in [Threads -> {None, Waiting} \cup ({"attach", "detach"} \X Delegates)]
  BY DEF TypeOK
<1>2. CASE Send(t) \/ \E d \in Delegates : Invalidate(t, d)
  <2>1. op' = op
    BY <1>2 DEF Send, Invalidate
  <2>2. QED
    BY <2>1
<1>3. CASE Attach(t) \/ Detach(t) \/ NothingToDo(t) \/ Dispatch(t)
  <2>1. op' = [op EXCEPT ![t] = None]
    BY <1>3 DEF Attach, Detach, NothingToDo, Dispatch
  <2>2. QED
    BY <1>1, <2>1
<1>4. CASE WaitForBus(t)
  <2>1. op' = [op EXCEPT ![t] = Waiting] /\ Program(t)
    BY <1>4 DEF WaitForBus
  <2>2. QED
    BY <1>1, <2>1
<1>5. ASSUME NEW d \in Delegates, AddListener(t, d) \/ RemoveListener(t, d)
      PROVE  /\ \A u \in Threads : u # t => op'[u] = op[u]
             /\ op[t] = Waiting \/ Program(t)
  <2>1. \E x : op' = [op EXCEPT ![t] = x]
    BY <1>5 DEF AddListener, RemoveListener
  <2>2. op[t] = Waiting \/ Program(t)
    BY <1>5 DEF AddListener, RemoveListener, Locks
  <2>3. QED
    BY <1>1, <2>1, <2>2
<1>6. QED
  BY <1>2, <1>3, <1>4, <1>5 DEF Call, Step

\* A looper leaves the others alone, and its workers in their tasks.
LEMMA LoopersApart ==
  ASSUME TypeOK, NEW l \in Loopers, LooperStep(l) \/ HandleEnd(l) \/ Cleanup(l)
  PROVE  /\ op' = op /\ \A w \in Workers : worker'[w] = "task" <=> worker[w] = "task"
         /\ \A t \in Loopers : t # l => frames'[t] = frames[t] /\ life'[t] = life[t]
<1>1. CASE Deliver(l)
  <2>1. op' = op /\ worker' = worker /\ life' = life
    BY <1>1 DEF Deliver
  <2>2. UNCHANGED frames \/ \E q : frames' = [frames EXCEPT ![l] = q]
    BY <1>1, Zenon DEF Deliver
  <2>3. QED
    BY <2>1, <2>2 DEF TypeOK
<1>2. CASE HandleEvent(l) \/ HandleEnd(l)
  <2>1. op' = op /\ worker' = worker /\ life' = life
    BY <1>2 DEF HandleEvent, HandleEnd
  <2>2. \E q : frames' = [frames EXCEPT ![l] = q]
    BY <1>2 DEF HandleEvent, HandleEnd
  <2>3. QED
    BY <2>1, <2>2 DEF TypeOK
<1>3. CASE Leave(l)
  BY <1>3 DEF Leave, StopPool, TypeOK
<1>4. CASE Cleanup(l) \/ Polled(l) \/ Joined(l) \/ Gone(l)
  BY <1>4 DEF Cleanup, Polled, Joined, Gone, TypeOK
<1>5. QED
  BY <1>1, <1>2, <1>3, <1>4 DEF LooperStep

\* A thread that waits cannot leave the program's code.
LEMMA WaitsStep ==
  ASSUME TypeOK, WaitsInProgram, Next
  PROVE  WaitsInProgram'
<1>1. ASSUME NEW t \in Threads, Call(t) \/ Step(t)
      PROVE  WaitsInProgram'
  <2>1. UNCHANGED <<life, frames, worker>>
    BY <1>1 DEF Call, Step, WaitForBus, Dispatch, AddListener, RemoveListener, Invalidate,
                Attach, Detach, Send, NothingToDo, loopVars
  <2>2. \A u \in Threads : u # t => op'[u] = op[u]
    BY <1>1, OwnOp
  <2>3. op'[t] = op[t] \/ op'[t] = None \/ op[t] = Waiting \/ Program(t)
    BY <1>1, OwnOp
  <2>4. \A u \in Threads : (Handles(u) <=> Handles(u)')
    BY <2>1 DEF Handles, Calling
  <2>5. Waiting # None
    BY DEF Waiting, None
  <2>6. QED
    BY <2>1, <2>2, <2>3, <2>4, <2>5 DEF WaitsInProgram, Program
<1>2. ASSUME NEW l \in Loopers, LooperStep(l) \/ HandleEnd(l) \/ Cleanup(l)
      PROVE  WaitsInProgram'
  <2>1. /\ op' = op /\ \A w \in Workers : worker'[w] = "task" <=> worker[w] = "task"
        /\ \A t \in Loopers : t # l => frames'[t] = frames[t] /\ life'[t] = life[t]
    BY <1>2, LoopersApart
  <2>2. ASSUME op[l] # None
        PROVE  Handles(l)'
    <3>1. Handles(l)
      BY <2>2, PoolOfAssumption DEF WaitsInProgram, Threads
    <3>2. life[l] \in {"leaving", "joining"} /\ UNCHANGED frames
      BY <1>2, <2>2, <3>1
         DEF LooperStep, HandleEnd, Cleanup, Deliver, HandleEvent, Polled, Leave, Joined, Gone,
             Handles
    <3>3. QED
      BY <3>1, <3>2 DEF Handles, Calling
  <2>3. \A t \in Loopers : t # l => (Handles(t) <=> Handles(t)')
    BY <2>1 DEF Handles, Calling
  <2>4. QED
    BY <2>1, <2>2, <2>3 DEF WaitsInProgram
<1>3. ASSUME NEW w \in Workers, WorkerStep(w) \/ Work(w) \/ Wake(w)
      PROVE  WaitsInProgram'
  <2>1. UNCHANGED <<op, life, frames>> /\ \A u \in Workers : u # w => worker'[u] = worker[u]
    BY <1>3 DEF WorkerStep, Worked, Empty, Sleep, Work, Wake, Becomes, TypeOK
  <2>2. worker[w] = "task" => op[w] = None
    BY <1>3 DEF WorkerStep, Worked, Empty, Sleep, Work, Wake
  <2>3. \A u \in Threads : (Handles(u) <=> Handles(u)')
    BY <2>1 DEF Handles, Calling
  <2>4. QED
    BY <2>1, <2>2, <2>3 DEF WaitsInProgram
<1>4. QED
  BY <1>1, <1>2, <1>3 DEF Next

\* A worker that has ended stays so, and cancel() waits for all of them.
LEMMA JoinedStep ==
  ASSUME TypeOK, WorkersJoined, Next
  PROVE  WorkersJoined'
<1> USE PoolOfAssumption
<1>1. \A w \in Workers : worker[w] = "ended" => worker'[w] = "ended"
  <2>1. ASSUME NEW l \in Loopers, LooperStep(l) \/ HandleEnd(l) \/ Cleanup(l)
        PROVE  worker' = worker \/ StopPool(l)
    BY <2>1 DEF LooperStep, HandleEnd, Cleanup, Deliver, HandleEvent, Polled, Leave, Joined, Gone
  <2>2. ASSUME NEW v \in Workers, WorkerStep(v) \/ Work(v) \/ Wake(v)
        PROVE  \E x : worker[v] # "ended" /\ worker' = [worker EXCEPT ![v] = x]
    BY <2>2 DEF WorkerStep, Worked, Empty, Sleep, Work, Wake, Becomes
  <2>3. ASSUME NEW t \in Threads, Step(t) \/ Call(t)
        PROVE  worker' = worker
    BY <2>3 DEF Call, Step, WaitForBus, Dispatch, AddListener, RemoveListener, Invalidate,
                Attach, Detach, Send, NothingToDo, loopVars
  <2>4. QED
    BY <2>1, <2>2, <2>3 DEF Next, StopPool, TypeOK
<1>2. ASSUME NEW w \in Workers, life'[PoolOf[w]] \in {"closing", "gone"}
      PROVE  life[PoolOf[w]] \in {"closing", "gone"} \/ worker[w] = "ended"
  <2>1. ASSUME NEW l \in Loopers, LooperStep(l) \/ HandleEnd(l) \/ Cleanup(l)
        PROVE  \/ life' = life
               \/ \E x \in {"cleaning", "leaving", "joining"} : life' = [life EXCEPT ![l] = x]
               \/ life[l] = "closing"
               \/ Joined(l)
    BY <2>1 DEF LooperStep, HandleEnd, Cleanup, Deliver, HandleEvent, Polled, Leave, Gone
  <2>2. ASSUME NEW l \in Loopers, life[l] = "closing",
               LooperStep(l) \/ HandleEnd(l) \/ Cleanup(l)
        PROVE  \A k \in Loopers : k # l => life'[k] = life[k]
    BY <2>2, LoopersApart
  <2>3. ASSUME NEW v, WorkerStep(v) \/ Work(v) \/ Wake(v)
        PROVE  life' = life
    BY <2>3 DEF WorkerStep, Worked, Empty, Sleep, Work, Wake, Becomes
  <2>4. ASSUME NEW t, Step(t) \/ Call(t)
        PROVE  life' = life
    BY <2>4 DEF Call, Step, WaitForBus, Dispatch, AddListener, RemoveListener, Invalidate,
                Attach, Detach, Send, NothingToDo, loopVars
  <2>5. PoolOf[w] \in Loopers
    OBVIOUS
  <2>6. QED
    BY <1>2, <2>1, <2>2, <2>3, <2>4, <2>5 DEF Next, Joined, TypeOK
<1>3. QED
  BY <1>1, <1>2 DEF WorkersJoined

-----------------------------------------------------------------------------
(* Requests to invalidate.                                                 *)

\* The request for d.
Request(d) == [do |-> "invalidate", to |-> {d}, nr |-> 0]

\* What is taken from an inbox, and what it does.
LEMMA DeliverEffect ==
  ASSUME TypeOK, Addressed, InvalidateOnce, NEW t \in Loopers, Deliver(t)
  PROVE  \/ /\ UNCHANGED stateVars
            /\ \A l \in Loopers : inbox'[l] \subseteq inbox[l]
         \/ \E d \in asked \ invalid :
              /\ d \in Of(t) /\ d \in Delegates /\ DoInvalidate(d) /\ UNCHANGED <<asked, frames>>
              /\ \A l \in Loopers : inbox'[l] \subseteq inbox[l] \ {Request(d)}
<1>1. PICK m \in inbox[t] :
        /\ inbox' = [inbox EXCEPT ![t] = @ \ {m}]
        /\ IF m.do = "event" THEN UNCHANGED <<state, callable, invalid>>
           ELSE (\E d \in m.to : DoInvalidate(d)) /\ UNCHANGED frames
  BY Zenon DEF Deliver
<1>2. UNCHANGED asked
  BY DEF Deliver
<1>3. m \in MessagesTo(t)
  BY DEF Addressed
<1>4. m.do \in {"event", "invalidate"} /\ m.to \subseteq Of(t) /\ Of(t) \subseteq Delegates
  BY <1>3, MessageType
<1>5. /\ inbox'[t] = inbox[t] \ {m}
      /\ \A l \in Loopers : l # t => inbox'[l] = inbox[l]
  BY <1>1 DEF TypeOK
<1>6. CASE m.do = "event"
  BY <1>1, <1>2, <1>5, <1>6 DEF stateVars
<1>7. CASE m.do = "invalidate"
  <2>1. PICK d \in asked \ invalid : m = Request(d)
    BY <1>7 DEF InvalidateOnce, Request
  <2>2. m.to = {d}
    BY <2>1 DEF Request
  <2>3. DoInvalidate(d) /\ UNCHANGED frames /\ d \in Of(t)
    BY <1>1, <1>4, <1>7, <2>2
  <2>4. ASSUME NEW l \in Loopers, l # t
        PROVE  Request(d) \notin inbox[l]
    <3>1. \A n \in inbox[l] : n.to \subseteq Of(l)
      BY MessageType DEF Addressed
    <3>2. d \notin Of(l)
      BY <2>3, <2>4 DEF Of
    <3>3. QED
      BY <3>1, <3>2 DEF Request
  <2>5. \A l \in Loopers : inbox'[l] \subseteq inbox[l] \ {Request(d)}
    BY <1>5, <2>1, <2>4
  <2>6. QED
    BY <1>2, <1>4, <2>3, <2>5
<1>8. QED
  BY <1>4, <1>6, <1>7

\* invalidate() acts once.
LEMMA InvalidateOnceStep ==
  ASSUME TypeOK, Addressed, InvalidateOnce, Next
  PROVE  InvalidateOnce'
<1>1. ASSUME \A l \in Loopers : \A m \in inbox'[l] : m \in inbox[l] \/ m.do = "event",
             UNCHANGED <<asked, invalid>>
      PROVE  InvalidateOnce'
  BY <1>1 DEF InvalidateOnce
<1>2. ASSUME NEW t \in Threads, Send(t)
      PROVE  InvalidateOnce'
  <2>1. PICK s \in sending[t] : Posted(s[1], s[2])
    BY <1>2 DEF Send
  <2>2. s[2].do = "event"
    BY DEF Addressed
  <2>3. \A l \in Loopers : \A m \in inbox'[l] : m \in inbox[l] \/ m = s[2]
    BY <2>1 DEF Posted, TypeOK
  <2>4. UNCHANGED <<asked, invalid>>
    BY <1>2 DEF Send, stateVars
  <2>5. QED
    BY <1>1, <2>2, <2>3, <2>4
<1>3. ASSUME NEW t \in Loopers, Gone(t)
      PROVE  InvalidateOnce'
  <2>1. \A l \in Loopers : \A m \in inbox'[l] : m \in inbox[l]
    BY <1>3 DEF Gone, TypeOK
  <2>2. UNCHANGED <<asked, invalid>>
    BY <1>3 DEF Gone, stateVars
  <2>3. QED
    BY <1>1, <2>1, <2>2
<1>4. ASSUME NEW t \in Loopers, Deliver(t)
      PROVE  InvalidateOnce'
  <2>1. CASE UNCHANGED stateVars /\ \A l \in Loopers : inbox'[l] \subseteq inbox[l]
    BY <1>1, <2>1 DEF stateVars
  <2>2. ASSUME NEW d \in asked \ invalid, DoInvalidate(d), UNCHANGED asked,
               \A l \in Loopers : inbox'[l] \subseteq inbox[l] \ {Request(d)}
        PROVE  InvalidateOnce'
    <3>1. invalid' = invalid \cup {d}
      BY <2>2 DEF DoInvalidate
    <3>2. QED
      BY <2>2, <3>1 DEF InvalidateOnce, Request
  <2>3. QED
    BY <1>4, <2>1, <2>2, DeliverEffect
<1>5. ASSUME NEW t \in Threads, NEW d \in Delegates, Invalidate(t, d)
      PROVE  InvalidateOnce'
  <2>1. d \notin asked /\ asked' = asked \cup {d}
    BY <1>5 DEF Invalidate
  <2>2. CASE LooperOf[d] = t
    <3>1. UNCHANGED inbox /\ invalid' = invalid \cup {d}
      BY <1>5, <2>2 DEF Invalidate, DoInvalidate
    <3>2. ASSUME NEW l \in Loopers, NEW m \in inbox[l], m.do = "invalidate"
          PROVE  \E e \in asked' \ invalid' : m = Request(e)
      BY <2>1, <3>1, <3>2 DEF InvalidateOnce, Request
    <3>3. QED
      BY <2>1, <3>1, <3>2 DEF InvalidateOnce, Request
  <2>3. CASE LooperOf[d] # t
    <3>1. UNCHANGED invalid /\ Posted(LooperOf[d], Request(d))
      BY <1>5, <2>3 DEF Invalidate, Request
    <3>2. \A l \in Loopers : \A m \in inbox'[l] : m \in inbox[l] \/ m = Request(d)
      BY <3>1 DEF Posted, TypeOK
    <3>3. d \in asked' \ invalid' /\ asked \subseteq asked' /\ invalid' = invalid
      BY <2>1, <3>1 DEF InvalidateOnce
    <3>4. ASSUME NEW l \in Loopers, NEW m \in inbox'[l], m.do = "invalidate"
          PROVE  \E e \in asked' \ invalid' : m = Request(e)
      BY <3>2, <3>3, <3>4 DEF InvalidateOnce, Request
    <3>5. QED
      BY <2>1, <3>1, <3>4 DEF InvalidateOnce, Request
  <2>4. QED
    BY <2>2, <2>3
<1>6. CASE UNCHANGED <<inbox, asked, invalid>>
  BY <1>1, <1>6
<1>7. QED
  BY <1>2, <1>3, <1>4, <1>5, <1>6
     DEF Next, Step, LooperStep, WorkerStep, Call, Attach, Detach, Polled, Leave, Joined,
         Becomes, Worked, Empty, Sleep, Work, Wake, WaitForBus, NothingToDo, HandleEvent,
         HandleEnd, Dispatch, Cleanup, AddListener, RemoveListener, loopVars, stateVars

-----------------------------------------------------------------------------
(* The state of a delegate.                                                *)

\* The callbacks of d are counted by Running.
LEMMA RunningRuns ==
  ASSUME TypeOK, NEW d \in Delegates
  PROVE  Running(d) > 0 <=> Runs(d) # {}
<1>1. frames[LooperOf[d]] \in Seq(Frames)
  BY LooperOfAssumption DEF TypeOK
<1> DEFINE n == Len(frames[LooperOf[d]])
<1>2. n \in Nat /\ DOMAIN frames[LooperOf[d]] = 1..n
  BY <1>1
<1>3. Running(d) = Cardinality(Runs(d)) /\ Runs(d) \subseteq 1..n
  BY <1>2, Zenon DEF Running, Runs, RunsIn
<1> HIDE DEF n
<1>4. IsFiniteSet(Runs(d))
  <2>1. IsFiniteSet(1..n)
    BY <1>2, FS_Interval
  <2>2. QED
    BY <1>3, <2>1, FS_Subset
<1>5. QED
  BY <1>3, <1>4, FS_EmptySet, FS_CardinalityType

\* The delivery on top runs a callback if it is calling.
LEMMA TopRuns ==
  ASSUME TypeOK, Addressed, NEW t \in Loopers, frames[t] # <<>>
  PROVE  \A d : Len(frames[t]) \in RunsIn(frames[t], d)
                  <=> Calling(t) /\ d = Head(Last(frames[t]).todo)
<1>1. frames[t] \in Seq(FramesOf(t))
  BY FramesOfThread
<1>2. /\ Len(frames[t]) \in DOMAIN frames[t]
      /\ Last(frames[t]) = frames[t][Len(frames[t])]
  BY <1>1, TopFrame
<1>3. QED
  BY <1>2 DEF RunsIn, Calling

\* The callbacks of a delegate after a step of its looper, and of another.
LEMMA RunsAfter ==
  ASSUME NEW t \in Loopers, NEW q, OnlyOf(t, q), NEW d \in Delegates
  PROVE  Runs(d)' = IF LooperOf[d] = t THEN RunsIn(q, d) ELSE Runs(d)
<1>1. Runs(d)' = RunsIn(frames'[LooperOf[d]], d)
  BY DEF Runs, RunsIn
<1>2. QED
  BY <1>1, LooperOfAssumption DEF OnlyOf, Runs

\* What StateExact says of one delegate.
ExactFor(d) ==
  /\ \A i, j \in Runs(d) : i = j
  /\ Runs(d) # {} <=> state[d] \in {"Active", "Invalidated"}
  /\ d \in callable <=> state[d] # "Finalized"
  /\ d \in invalid <=> state[d] \in {"Invalidated", "Finalized"}

\* A delegate nothing happens to.
LEMMA SameExact ==
  ASSUME NEW d \in Delegates, ExactFor(d), Runs(d)' = Runs(d), state'[d] = state[d],
         d \in callable' <=> d \in callable, d \in invalid' <=> d \in invalid
  PROVE  ExactFor(d)'
  BY DEF ExactFor

\* One that is invalidated.
LEMMA InvalidateExact ==
  ASSUME TypeOK, NEW d \in Delegates, d \notin invalid, DoInvalidate(d), UNCHANGED frames,
         \A e \in Delegates : ExactFor(e)
  PROVE  \A e \in Delegates : ExactFor(e)'
<1>1. \A e \in Delegates : Runs(e)' = Runs(e)
  BY DEF Runs, RunsIn
<1>2. /\ invalid' = invalid \cup {d}
      /\ \A e \in Delegates : e # d => /\ state'[e] = state[e]
                                       /\ e \in callable' <=> e \in callable
  BY DEF DoInvalidate, Finalize, TypeOK
<1>3. ASSUME NEW e \in Delegates, e # d PROVE ExactFor(e)'
  BY <1>1, <1>2, <1>3, SameExact
<1>4. state[d] \in {"Pending", "Active"} /\ ExactFor(d)
  BY DEF ExactFor, TypeOK
<1>5. CASE state[d] = "Pending"
  <2>1. state'[d] = "Finalized" /\ d \notin callable'
    BY <1>5 DEF DoInvalidate, Finalize, TypeOK
  <2>2. QED
    BY <1>1, <1>2, <1>4, <1>5, <2>1 DEF ExactFor
<1>6. CASE state[d] = "Active"
  <2>1. state'[d] = "Invalidated" /\ callable' = callable
    BY <1>6 DEF DoInvalidate, TypeOK
  <2>2. QED
    BY <1>1, <1>2, <1>4, <1>6, <2>1 DEF ExactFor
<1>7. ExactFor(d)'
  BY <1>4, <1>5, <1>6
<1>8. QED
  BY <1>3, <1>7

\* One that is handled: its callback is called, or it is passed over.
LEMMA HandleExact ==
  ASSUME TypeOK, Addressed, NEW t \in Loopers, HandleEvent(t), "nested" \notin lapses',
         \A e \in Delegates : ExactFor(e)
  PROVE  \A e \in Delegates : ExactFor(e)'
<1>1. PICK d \in Delegates : /\ d = Head(Last(frames[t]).todo) /\ LooperOf[d] = t
                            /\ frames[t] # <<>> /\ ~Calling(t)
  BY FramesOfThread DEF HandleEvent, Of
<1>2. \A e : Len(frames[t]) \notin RunsIn(frames[t], e)
  BY <1>1, TopRuns
<1>3. UNCHANGED <<callable, invalid>>
  BY DEF HandleEvent
<1>4. CASE d \in callable
  <2>1. /\ state' = [state EXCEPT ![d] = "Active"] /\ ~(Running(d) > 0)
    BY <1>1, <1>4 DEF HandleEvent
  <2>2. PICK q \in Seq(FramesOf(t)) :
          /\ OnlyOf(t, q)
          /\ \A e : RunsIn(q, e) = IF e = d THEN RunsIn(frames[t], e) \cup {Len(frames[t])}
                                   ELSE RunsIn(frames[t], e) \ {Len(frames[t])}
    <3>1. HandleEvent(t) /\ Head(Last(frames[t]).todo) \in callable
      BY <1>1, <1>4
    <3>2. PICK q \in Seq(FramesOf(t)) :
            /\ OnlyOf(t, q)
            /\ \A e : RunsIn(q, e) = IF e = Head(Last(frames[t]).todo)
                                     THEN RunsIn(frames[t], e) \cup {Len(frames[t])}
                                     ELSE RunsIn(frames[t], e) \ {Len(frames[t])}
      BY <3>1, CallStep, Zenon
    <3>3. QED
      BY <1>1, <3>2
  <2>3. Runs(d) = {}
    BY <1>1, <2>1, RunningRuns
  <2>4. /\ Runs(d)' = {Len(frames[t])}
        /\ \A e \in Delegates : e # d => Runs(e)' = Runs(e)
    <3>1. Runs(d)' = RunsIn(q, d) /\ RunsIn(frames[t], d) = {}
      BY <1>1, <2>2, <2>3, RunsAfter DEF Runs
    <3>2. ASSUME NEW e \in Delegates, e # d PROVE Runs(e)' = Runs(e)
      <4>1. RunsIn(q, e) = RunsIn(frames[t], e)
        BY <1>2, <2>2, <3>2
      <4>2. QED
        BY <2>2, <4>1, RunsAfter DEF Runs
    <3>3. QED
      BY <2>2, <3>1, <3>2
  <2>5. ASSUME NEW e \in Delegates, e # d PROVE ExactFor(e)'
    BY <1>3, <2>1, <2>4, <2>5, SameExact DEF TypeOK
  <2>6. ExactFor(d) /\ state'[d] = "Active"
    BY <1>1, <2>1 DEF TypeOK
  <2>7. d \notin invalid /\ d \in callable'
    BY <1>3, <1>4, <2>3, <2>6 DEF ExactFor, TypeOK
  <2>8. ExactFor(d)'
    BY <1>3, <2>4, <2>6, <2>7 DEF ExactFor
  <2>9. QED
    BY <2>5, <2>8
<1>5. CASE d \notin callable
  <2>1. frames' = [frames EXCEPT ![t] = Handled(@)] /\ UNCHANGED state
    BY <1>1, <1>5 DEF HandleEvent
  <2>2. PICK q \in Seq(FramesOf(t)) :
          /\ OnlyOf(t, q)
          /\ \A e : RunsIn(q, e) = RunsIn(frames[t], e) \ {Len(frames[t])}
    BY <1>1, <2>1, HandledStep
  <2>3. ASSUME NEW e \in Delegates PROVE Runs(e)' = Runs(e)
    <3>1. RunsIn(q, e) = RunsIn(frames[t], e)
      BY <1>2, <2>2
    <3>2. QED
      BY <2>2, <3>1, RunsAfter DEF Runs
  <2>4. QED
    BY <1>3, <2>1, <2>3, SameExact
<1>6. QED
  BY <1>4, <1>5

\* One whose callback returns.
LEMMA EndExact ==
  ASSUME TypeOK, Addressed, NEW t \in Loopers, HandleEnd(t),
         \A e \in Delegates : ExactFor(e)
  PROVE  \A e \in Delegates : ExactFor(e)'
<1>1. frames[t] # <<>> /\ Calling(t)
  BY DEF HandleEnd, Calling
<1>2. PICK d \in Delegates : d = Head(Last(frames[t]).todo) /\ LooperOf[d] = t
  BY <1>1, FramesOfThread DEF Of
<1>3. PICK q \in Seq(FramesOf(t)) :
        /\ OnlyOf(t, q)
        /\ \A e : RunsIn(q, e) = RunsIn(frames[t], e) \ {Len(frames[t])}
  BY <1>1, HandledStep DEF HandleEnd
<1>4. \A e : Len(frames[t]) \in RunsIn(frames[t], e) <=> e = d
  BY <1>1, <1>2, TopRuns
<1>5. /\ IF state[d] = "Invalidated"
         THEN callable' = callable \ {d} /\ state' = [state EXCEPT ![d] = "Finalized"]
         ELSE state' = [state EXCEPT ![d] = "Pending"] /\ UNCHANGED callable
      /\ UNCHANGED invalid
  BY <1>2 DEF HandleEnd, Finalize
<1>6. ASSUME NEW e \in Delegates, e # d PROVE ExactFor(e)'
  <2>1. Runs(e)' = Runs(e)
    <3>1. RunsIn(q, e) = RunsIn(frames[t], e)
      BY <1>3, <1>4, <1>6
    <3>2. QED
      BY <1>3, <3>1, RunsAfter DEF Runs
  <2>2. state'[e] = state[e] /\ (e \in callable' <=> e \in callable)
    BY <1>5, <1>6 DEF TypeOK
  <2>3. QED
    BY <1>5, <1>6, <2>1, <2>2, SameExact
<1>7. Len(frames[t]) \in Runs(d) /\ Runs(d)' = Runs(d) \ {Len(frames[t])}
  BY <1>2, <1>3, <1>4, RunsAfter DEF Runs
<1>8. ExactFor(d)
  BY <1>2
<1>9. Runs(d)' = {} /\ state[d] \in {"Active", "Invalidated"}
  BY <1>7, <1>8 DEF ExactFor
<1>10. ExactFor(d)'
  BY <1>2, <1>5, <1>8, <1>9 DEF ExactFor, TypeOK
<1>11. QED
  BY <1>6, <1>10

\* The state of a delegate goes on telling whether its callback runs.
LEMMA StateStep ==
  ASSUME TypeOK, Addressed, InvalidateOnce, StateExact, Next
  PROVE  StateExact'
<1>1. SUFFICES ASSUME "nested" \notin lapses' PROVE \A d \in Delegates : ExactFor(d)'
  BY DEF StateExact, ExactFor
<1>2. lapses \subseteq lapses'
  <2>1. ASSUME NEW t, Step(t) \/ Call(t) PROVE lapses \subseteq lapses'
    BY <2>1 DEF Step, Call, Attach, Detach, Send, WaitForBus, NothingToDo, Dispatch,
                AddListener, RemoveListener, Invalidate, Posted
  <2>2. ASSUME NEW l, LooperStep(l) \/ HandleEnd(l) \/ Cleanup(l)
        PROVE  lapses \subseteq lapses'
    BY <2>2 DEF LooperStep, Deliver, HandleEvent, Polled, Leave, Joined, Gone, HandleEnd, Cleanup
  <2>3. ASSUME NEW w, WorkerStep(w) \/ Work(w) \/ Wake(w) PROVE lapses \subseteq lapses'
    BY <2>3 DEF WorkerStep, Becomes, Worked, Empty, Sleep, Work, Wake
  <2>4. QED
    BY <2>1, <2>2, <2>3 DEF Next
<1>3. \A d \in Delegates : ExactFor(d)
  BY <1>1, <1>2 DEF StateExact, ExactFor
<1>4. CASE UNCHANGED <<frames, stateVars>>
  BY <1>3, <1>4, SameExact DEF stateVars, Runs, RunsIn
<1>5. ASSUME NEW t \in Threads, NEW d \in Delegates, Invalidate(t, d)
      PROVE  \A e \in Delegates : ExactFor(e)'
  <2>1. d \notin invalid /\ UNCHANGED frames
    BY <1>5 DEF Invalidate, InvalidateOnce
  <2>2. CASE LooperOf[d] = t
    BY <1>3, <1>5, <2>1, <2>2, InvalidateExact DEF Invalidate
  <2>3. CASE LooperOf[d] # t
    <3>1. UNCHANGED <<frames, state, callable, invalid>>
      BY <1>5, <2>1, <2>3 DEF Invalidate
    <3>2. QED
      BY <1>3, <3>1, SameExact DEF Runs, RunsIn
  <2>4. QED
    BY <2>2, <2>3
<1>6. ASSUME NEW t \in Loopers, Deliver(t)
      PROVE  \A e \in Delegates : ExactFor(e)'
  <2>1. CASE UNCHANGED stateVars
    <3>1. CASE frames' = frames
      BY <1>4, <2>1, <3>1
    <3>2. CASE frames' # frames
      <4>1. PICK q \in Seq(FramesOf(t)) :
              OnlyOf(t, q) /\ \A e : RunsIn(q, e) = RunsIn(frames[t], e)
        BY <1>6, <3>2, DeliverStep
      <4>2. \A e \in Delegates : Runs(e)' = Runs(e)
        BY <4>1, RunsAfter DEF Runs
      <4>3. QED
        BY <1>3, <2>1, <4>2, SameExact DEF stateVars
    <3>3. QED
      BY <3>1, <3>2
  <2>2. CASE \E d \in asked \ invalid : d \in Delegates /\ DoInvalidate(d) /\ UNCHANGED frames
    BY <1>3, <2>2, InvalidateExact
  <2>3. QED
    BY <1>6, <2>1, <2>2, DeliverEffect
<1>7. ASSUME NEW t \in Loopers, HandleEvent(t)
      PROVE  \A e \in Delegates : ExactFor(e)'
  BY <1>1, <1>3, <1>7, HandleExact
<1>8. ASSUME NEW t \in Loopers, HandleEnd(t)
      PROVE  \A e \in Delegates : ExactFor(e)'
  BY <1>3, <1>8, EndExact
<1>9. QED
  BY <1>4, <1>5, <1>6, <1>7, <1>8
     DEF Next, Step, LooperStep, WorkerStep, Call, Attach, Detach, Send, Polled, Leave, Joined,
         Gone, Becomes, Worked, Empty, Sleep, Work, Wake, WaitForBus, NothingToDo, Dispatch,
         Cleanup, AddListener, RemoveListener, loopVars, stateVars

-----------------------------------------------------------------------------
(* The invariant.                                                          *)

\* A bus begins with no listeners, and nobody called.
LEMMA InvInit ==
  ASSUME Init
  PROVE  IInv
<1>1. /\ inbox \in [Loopers -> SUBSET Messages] /\ \A l \in Loopers : inbox[l] = {}
      /\ sending \in [Threads -> SUBSET (Loopers \X Messages)]
      /\ \A t \in Threads : sending[t] = {} /\ op[t] = None
      /\ \A l \in Loopers : frames[l] = <<>>
  BY DEF Init
<1>2. \A l \in Loopers : /\ <<>> \in Seq(Frames) /\ <<>> \in Seq(FramesOf(l))
                         /\ Len(<<>>) <= MaxDepth /\ DOMAIN <<>> = {}
  BY EmptySeq, BoundsAssumption
<1>3. TypeOK
  <2>1. frames \in [Loopers -> Seq(Frames)] /\ \A l \in Loopers : Len(frames[l]) <= MaxDepth
    BY <1>1, <1>2 DEF Init
  <2>2. op \in [Threads -> {None, Waiting} \cup ({"attach", "detach"} \X Delegates)]
    BY DEF Init
  <2>3. QED
    BY <1>1, <2>1, <2>2, BoundsAssumption DEF Init, TypeOK
<1>4. Addressed
  BY <1>1, <1>2 DEF Addressed
<1>5. BusFree
  BY <1>1 DEF BusFree
<1>6. OneInBus /\ Adding = {} /\ Removing = {}
  BY <1>5, NobodyWaits
<1>7. TablesBetween
  BY <1>6 DEF TablesBetween, ToLeave, Init
<1>8. InvalidateOnce
  BY <1>1 DEF InvalidateOnce, Init
<1>9. StateExact
  <2>1. \A d \in Delegates : Runs(d) = {}
    BY <1>1, <1>2, LooperOfAssumption DEF Runs, RunsIn
  <2>2. QED
    BY <2>1 DEF StateExact, Init
<1>10. WaitsInProgram
  BY <1>1 DEF WaitsInProgram
<1>11. WorkersJoined
  BY PoolOfAssumption DEF WorkersJoined, Init
<1>12. QED
  BY <1>3, <1>4, <1>6, <1>7, <1>8, <1>9, <1>10, <1>11 DEF IInv

\* The inductive invariant is one.
LEMMA Invariance ==
  Spec => []IInv
<1>1. Init => IInv
  BY InvInit
<1>2. IInv /\ [Next]_vars => IInv'
  <2>1. SUFFICES ASSUME IInv, [Next]_vars PROVE IInv'
    OBVIOUS
  <2>2. CASE Next
    BY <2>1, <2>2, TypeStep, AddressedStep, TablesStep, WaitsStep, JoinedStep,
       InvalidateOnceStep, StateStep DEF IInv
  <2>3. CASE UNCHANGED vars
    <3>1. TypeOK'
      BY <2>1, <2>3 DEF IInv, TypeOK, Messages, Frames, vars, loopVars, tableVars, stateVars
    <3>2. Addressed'
      BY <2>1, <2>3 DEF IInv, Addressed, MessagesTo, FramesOf, Of, vars, loopVars
    <3>3. OneInBus' /\ TablesBetween'
      BY <2>1, <2>3, BusUntouched DEF IInv, TablesBetween, ToLeave, vars, loopVars, tableVars
    <3>4. InvalidateOnce'
      BY <2>1, <2>3 DEF IInv, InvalidateOnce, vars, loopVars, stateVars
    <3>5. StateExact'
      BY <2>1, <2>3 DEF IInv, StateExact, Runs, RunsIn, vars, loopVars, stateVars
    <3>6. WaitsInProgram'
      BY <2>1, <2>3 DEF IInv, WaitsInProgram, Handles, Calling, vars, loopVars
    <3>7. WorkersJoined'
      BY <2>1, <2>3 DEF IInv, WorkersJoined, vars, loopVars
    <3>8. QED
      BY <3>1, <3>2, <3>3, <3>4, <3>5, <3>6, <3>7 DEF IInv
  <2>4. QED
    BY <2>1, <2>2, <2>3
<1>3. QED
  BY <1>1, <1>2, PTL DEF Spec

-----------------------------------------------------------------------------
(* The theorems.                                                           *)

\* The tables hold delegates and loopers, the stacks of deliveries stay within
\* the nesting, and a thread waits only for an attach or a detach.
THEOREM TypeCorrect == Spec => []TypeOK
<1>1. IInv => TypeOK
  BY DEF IInv
<1>2. QED
  BY <1>1, Invariance, PTL

\* Bus::addListener(), removeListener() and invalidateLooper() keep the tables of
\* the bus together, and with what the loopers know, whatever order they take the
\* two mutexes in: none of the raw pointers to loopers outlives its looper.
THEOREM TablesStayTogether == Spec => []TablesAgree
<1>1. ASSUME IInv, BusFree PROVE TablesAgree
  <2>1. Adding = {} /\ Removing = {}
    BY <1>1, NobodyWaits
  <2>2. QED
    BY <1>1, <2>1 DEF IInv, TablesBetween, TablesAgree, ToLeave
<1>2. IInv => TablesAgree
  BY <1>1 DEF TablesAgree
<1>3. QED
  BY <1>2, Invariance, PTL

\* BusDelegate::invalidate() and handleEvent() finalize a delegate exactly when it
\* is invalid and none of its callbacks runs, unless a callback was nested in
\* itself: the owner and the callback are there for as long as they are used.
THEOREM FinalizedOnlyWhenDone == Spec => []FinalizedExact
<1>1. ASSUME IInv, "nested" \notin lapses, NEW d \in Delegates
      PROVE  d \in callable <=> d \notin invalid \/ Running(d) > 0
  <2>1. Running(d) > 0 <=> Runs(d) # {}
    BY <1>1, RunningRuns DEF IInv
  <2>2. /\ Runs(d) # {} <=> state[d] \in {"Active", "Invalidated"}
        /\ d \in callable <=> state[d] # "Finalized"
        /\ d \in invalid <=> state[d] \in {"Invalidated", "Finalized"}
    BY <1>1 DEF IInv, StateExact
  <2>3. QED
    BY <2>1, <2>2
<1>2. IInv => FinalizedExact
  BY <1>1 DEF FinalizedExact
<1>3. QED
  BY <1>2, Invariance, PTL

\* A thread that has the bus's mutex and waits for a looper goes on by Attach() or
\* Detach() alone, which wait for the looper's mutex; the others wait for the bus's.
LEMMA HeldStep ==
  ASSUME IInv, Next, NEW l \in Loopers, ~LooperFree(l), NEW t \in Threads,
         op[t] \in {"attach", "detach"} \X Of(l)
  PROVE  /\ op'[t] = op[t]
         /\ \A u \in Threads : op[u] = Waiting => op'[u] = Waiting
         /\ UNCHANGED buses
<1>1. PICK d \in Delegates, x \in {"attach", "detach"} : op[t] = <<x, d>> /\ LooperOf[d] = l
  BY DEF Of
<1>2. op[t] \notin {None, Waiting} /\ ~BusFree
  BY <1>1 DEF None, Waiting, BusFree
<1>3. \A u \in Threads, e \in Delegates :
        op[u] \in {<<"attach", e>>, <<"detach", e>>} => u = t /\ e = d
  <2>1. ASSUME NEW u \in Threads, NEW e \in Delegates, NEW y \in {"attach", "detach"},
               op[u] = <<y, e>>
        PROVE  u = t /\ e = d
    <3>1. op[u] \notin {None, Waiting}
      BY <2>1 DEF None, Waiting
    <3>2. u = t
      BY <1>2, <3>1 DEF IInv, OneInBus
    <3>3. QED
      BY <1>1, <2>1, <3>2
  <2>2. QED
    BY <2>1
<1>4. ASSUME NEW u \in Threads, Step(u) \/ Call(u)
      PROVE  /\ UNCHANGED buses
             /\ op' = op \/ (op[u] = None /\ op' = [op EXCEPT ![u] = Waiting])
  <2>1. ~Attach(u) /\ ~Detach(u)
    BY <1>1, <1>3 DEF Attach, Detach
  <2>2. CASE Send(u)
    BY <2>2 DEF Send, tableVars
  <2>3. CASE WaitForBus(u)
    BY <2>3 DEF WaitForBus, Program, tableVars
  <2>4. CASE \E e \in Delegates : Invalidate(u, e)
    BY <2>4 DEF Invalidate, tableVars
  <2>5. QED
    BY <1>2, <1>4, <2>1, <2>2, <2>3, <2>4
       DEF Step, Call, NothingToDo, Dispatch, AddListener, RemoveListener, Locks
<1>5. ASSUME NEW k \in Loopers, LooperStep(k) \/ HandleEnd(k) \/ Cleanup(k)
      PROVE  UNCHANGED <<op, buses>>
  BY <1>2, <1>5
     DEF LooperStep, Deliver, HandleEvent, Polled, Leave, Joined, Gone, HandleEnd, Cleanup,
         tableVars
<1>6. ASSUME NEW w \in Workers, WorkerStep(w) \/ Work(w) \/ Wake(w)
      PROVE  UNCHANGED <<op, buses>>
  BY <1>6 DEF WorkerStep, Worked, Empty, Sleep, Work, Wake, Becomes, tableVars
<1>7. CASE \E u \in Threads : Step(u) \/ Call(u)
  BY <1>2, <1>4, <1>7 DEF IInv, TypeOK, None, Waiting
<1>8. QED
  BY <1>5, <1>6, <1>7 DEF Next

\* The looper ends neither its own call nor that of one of its workers.
LEMMA HeldBack ==
  ASSUME IInv, Next, NEW l \in Loopers, ~LooperFree(l), NEW u \in Own(l), op[u] # None
  PROVE  ~LooperFree(l)'
<1>1. life[l] \in {"cleaning", "leaving", "joining", "closing"}
  BY DEF LooperFree, IInv, TypeOK
<1>2. ASSUME NEW k \in Loopers, LooperStep(k) \/ HandleEnd(k) \/ Cleanup(k)
      PROVE  life'[l] \in {"cleaning", "leaving", "joining", "closing"}
  <2>1. CASE k # l
    BY <1>1, <1>2, <2>1, LoopersApart DEF IInv
  <2>2. CASE k = l /\ life[l] = "closing"
    <3>1. u = l
      BY <2>2, PoolOfAssumption DEF Own, IInv, WaitsInProgram, WorkersJoined, Threads
    <3>2. QED
      BY <1>2, <2>2, <3>1
         DEF LooperStep, Deliver, HandleEvent, Polled, Leave, Joined, Gone, HandleEnd, Cleanup
  <2>3. CASE k = l /\ life[l] # "closing"
    BY <1>1, <1>2, <2>3
       DEF LooperStep, Deliver, HandleEvent, Polled, Leave, Joined, Gone, HandleEnd, Cleanup,
           IInv, TypeOK
  <2>4. QED
    BY <2>1, <2>2, <2>3
<1>3. ASSUME NEW w, WorkerStep(w) \/ Work(w) \/ Wake(w)
      PROVE  life' = life
  BY <1>3 DEF WorkerStep, Worked, Empty, Sleep, Work, Wake, Becomes
<1>4. ASSUME NEW t, Step(t) \/ Call(t)
      PROVE  life' = life
  BY <1>4 DEF Call, Step, WaitForBus, Dispatch, AddListener, RemoveListener, Invalidate,
              Attach, Detach, Send, NothingToDo, loopVars
<1>5. QED
  BY <1>1, <1>2, <1>3, <1>4 DEF Next, LooperFree

\* invalidateLooper() waits for the bus's mutex.
LEMMA HeldInLeave ==
  ASSUME IInv, Next, NEW l \in Loopers, life[l] = "leaving", l \in buses, ~BusFree
  PROVE  life'[l] = "leaving"
<1>1. ASSUME NEW k \in Loopers, LooperStep(k) \/ HandleEnd(k) \/ Cleanup(k)
      PROVE  life'[l] = "leaving"
  <2>1. CASE k # l
    BY <1>1, <2>1, LoopersApart DEF IInv
  <2>2. CASE k = l
    BY <1>1, <2>2
       DEF LooperStep, Deliver, HandleEvent, Polled, Leave, Joined, Gone, HandleEnd, Cleanup
  <2>3. QED
    BY <2>1, <2>2
<1>2. ASSUME NEW w, WorkerStep(w) \/ Work(w) \/ Wake(w)
      PROVE  life' = life
  BY <1>2 DEF WorkerStep, Worked, Empty, Sleep, Work, Wake, Becomes
<1>3. ASSUME NEW t, Step(t) \/ Call(t)
      PROVE  life' = life
  BY <1>3 DEF Call, Step, WaitForBus, Dispatch, AddListener, RemoveListener, Invalidate,
              Attach, Detach, Send, NothingToDo, loopVars
<1>4. QED
  BY <1>1, <1>2, <1>3 DEF Next

\* Data::cleanup() holds a looper's mutex while it takes the bus's and while it joins
\* the workers, and the bus takes a looper's with its own in its hands: once they
\* wait across each other, no thread's step ends it.
THEOREM CrossedStays == Spec => CrossedForGood
<1>1. ASSUME IInv, Next, NEW l \in Loopers, Crossed(l)
      PROVE  Crossed(l)'
  <2>1. PICK t \in Threads :
          /\ op[t] \in {"attach", "detach"} \X Of(l)
          /\ \/ t \in Own(l)
             \/ \E u \in Own(l) : op[u] = Waiting
             \/ life[l] = "leaving" /\ l \in buses
    BY <1>1 DEF Crossed
  <2>2. ~LooperFree(l)
    BY <1>1 DEF Crossed
  <2>3. /\ op'[t] = op[t] /\ UNCHANGED buses
        /\ \A u \in Threads : op[u] = Waiting => op'[u] = Waiting
    BY <1>1, <2>1, <2>2, HeldStep
  <2>4. op[t] \notin {None, Waiting} /\ ~BusFree
    BY <2>1 DEF None, Waiting, BusFree
  <2>5. Own(l) \subseteq Threads
    BY DEF Own, Threads
  <2>6. CASE \E u \in Own(l) : u = t \/ op[u] = Waiting
    <3>1. PICK u \in Own(l) : op[u] # None /\ (u = t \/ op[u] = Waiting)
      BY <2>4, <2>6 DEF Waiting, None
    <3>2. ~LooperFree(l)'
      BY <1>1, <2>2, <3>1, HeldBack
    <3>3. QED
      BY <2>1, <2>3, <2>5, <3>1, <3>2 DEF Crossed, Own, Of
  <2>7. CASE life[l] = "leaving" /\ l \in buses
    <3>1. life'[l] = "leaving"
      BY <1>1, <2>4, <2>7, HeldInLeave
    <3>2. QED
      BY <2>1, <2>3, <2>7, <3>1 DEF Crossed, LooperFree, Of
  <2>8. QED
    BY <2>1, <2>6, <2>7
<1>2. QED
  <2>1. IInv /\ [Next]_vars => [\A l \in Loopers : Crossed(l) => Crossed(l)']_vars
    BY <1>1
  <2>2. QED
    BY <2>1, Invariance, PTL DEF Spec, CrossedForGood
=============================================================================
