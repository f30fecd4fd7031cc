--------------------------- MODULE BacklogProofs ---------------------------
(***************************************************************************)
(* Safety of Backlog for every number of handles, capacity, policy and     *)
(* number of values. The inductive invariant adds to the properties what   *)
(* they lean on: a stored waker means there is nothing to learn yet, the   *)
(* queue is sorted above what was received, and a receiver that has gone   *)
(* leaves an empty queue.                                                  *)
(***************************************************************************)
EXTENDS Backlog, TLAPS, FiniteSetTheorems, SequenceTheorems

WakerMeansNothingYet ==
    /\ waker => queue = <<>> /\ ~Over
    /\ task = "parked" => waker \/ owes # {}

Sorted ==
    /\ last <= accepted
    /\ \A i \in 1 .. Len(queue) : last < queue[i] /\ queue[i] <= accepted
    /\ \A i, j \in 1 .. Len(queue) : i < j => queue[i] < queue[j]

EndState ==
    /\ closed <=> task = "gone"
    /\ closed => queue = <<>>
    /\ ~closed => discarded = 0
    /\ task = "ended" => queue = <<>> /\ Over

IInv ==
    /\ TypeOK
    /\ Bounded
    /\ Accounted
    /\ SendersCounted
    /\ WakerMeansNothingYet
    /\ Sorted
    /\ EndState

-----------------------------------------------------------------------------
(* A sequence that loses its head and gains a value at the back. *)
LEMMA ShiftIn ==
    ASSUME NEW S, NEW s \in Seq(S), s # <<>>, NEW e \in S
    PROVE  /\ Append(Tail(s), e) \in Seq(S)
           /\ Len(Append(Tail(s), e)) = Len(s)
           /\ Append(Tail(s), e)[Len(s)] = e
           /\ \A i \in 1 .. Len(s) - 1 : Append(Tail(s), e)[i] = s[i + 1]
<1>1. Len(s) \in Nat \ {0}
  BY EmptySeq
<1>2. /\ Tail(s) \in Seq(S) /\ Len(Tail(s)) = Len(s) - 1
      /\ \A i \in 1 .. Len(Tail(s)) : Tail(s)[i] = s[i + 1]
  BY HeadTailProperties
<1>3. /\ Append(Tail(s), e) \in Seq(S)
      /\ Len(Append(Tail(s), e)) = Len(Tail(s)) + 1
      /\ \A i \in 1 .. Len(Tail(s)) : Append(Tail(s), e)[i] = Tail(s)[i]
      /\ Append(Tail(s), e)[Len(Tail(s)) + 1] = e
  BY <1>2, AppendProperties
<1> QED
  BY <1>1, <1>2, <1>3

(* What is left of a queue that loses its head. *)
LEMMA TailTyped ==
    ASSUME TypeOK, queue # <<>>
    PROVE  /\ Tail(queue) \in Seq(1 .. MaxValues)
           /\ Len(queue) \in Nat \ {0}
           /\ Len(Tail(queue)) = Len(queue) - 1
           /\ Head(queue) = queue[1]
           /\ Head(queue) \in 1 .. MaxValues
           /\ \A i \in 1 .. Len(queue) - 1 : Tail(queue)[i] = queue[i + 1]
<1>1. queue \in Seq(1 .. MaxValues)
  BY DEF TypeOK
<1>2. Len(queue) \in Nat \ {0}
  BY <1>1, EmptySeq
<1>3. Head(queue) = queue[1]
  BY <1>1, <1>2
<1> QED
  BY <1>1, <1>2, <1>3, HeadTailProperties

(* The numbers and sets that make up the queue stay what they are when it  *)
(* loses its head and gains a value at the back (Sender::send).            *)
LEMMA PushTyped ==
    ASSUME TypeOK, Bounded, accepted < MaxValues, NEW q,
           NEW d \in {0, 1}, Full <=> d = 1,
           q = Append(IF d = 1 THEN Tail(queue) ELSE queue, accepted + 1)
    PROVE  /\ q \in Seq(1 .. MaxValues)
           /\ Len(q) \in Nat \ {0}
           /\ Len(q) <= Capacity
           /\ q[Len(q)] = accepted + 1
           /\ Len(q) = Len(queue) + 1 - d
           /\ \A i \in 1 .. Len(q) - 1 : q[i] = queue[i + d]
<1>1. Capacity \in Nat \ {0} /\ MaxValues \in Nat
  BY BacklogAssumption
<1>2. queue \in Seq(1 .. MaxValues) /\ Len(queue) \in Nat /\ accepted + 1 \in 1 .. MaxValues
  BY <1>1 DEF TypeOK
<1>3. CASE d = 1
  <2>1. queue # <<>>
    BY <1>1, <1>2, <1>3 DEF Full
  <2>2. q = Append(Tail(queue), accepted + 1)
    BY <1>3
  <2> QED
    BY <1>1, <1>2, <1>3, <2>1, <2>2, ShiftIn DEF Bounded
<1>4. CASE d = 0
  <2>1. q = Append(queue, accepted + 1)
    BY <1>4
  <2>2. /\ q \in Seq(1 .. MaxValues) /\ Len(q) = Len(queue) + 1
        /\ \A i \in 1 .. Len(queue) : q[i] = queue[i]
        /\ q[Len(queue) + 1] = accepted + 1
    <3>1. /\ Append(queue, accepted + 1) \in Seq(1 .. MaxValues)
          /\ Len(Append(queue, accepted + 1)) = Len(queue) + 1
          /\ \A i \in 1 .. Len(queue) : Append(queue, accepted + 1)[i] = queue[i]
          /\ Append(queue, accepted + 1)[Len(queue) + 1] = accepted + 1
      BY <1>2, AppendProperties
    <3> QED
      BY <2>1, <3>1, Zenon
  <2> QED
    BY <1>1, <1>2, <1>4, <2>2 DEF Full
<1> QED
  BY <1>3, <1>4

LEMMA LiveFinite ==
    ASSUME TypeOK
    PROVE  /\ IsFiniteSet(live)
           /\ Cardinality(live) \in Nat
           /\ Cardinality(live) = 0 <=> live = {}
           /\ \A g \in Handles \ live :
                 Cardinality(live \cup {g}) = Cardinality(live) + 1
           /\ \A h \in live : Cardinality(live \ {h}) = Cardinality(live) - 1
<1>1. IsFiniteSet(live)
  BY FS_Subset, BacklogAssumption DEF TypeOK
<1> QED
  BY <1>1, FS_CardinalityType, FS_EmptySet, FS_AddElement, FS_RemoveElement

-----------------------------------------------------------------------------
LEMMA InitIInv == Init => IInv
<1> SUFFICES ASSUME Init PROVE IInv
  OBVIOUS
<1>1. PICK h \in Handles : live = {h}
  BY DEF Init
<1>2. Cardinality(live) = 1
  BY <1>1, FS_Singleton
<1>3. queue \in Seq(1 .. MaxValues) /\ Len(queue) = 0
  BY DEF Init
<1>4. TypeOK
  <2>1. 0 \in 0 .. MaxValues /\ live \subseteq Handles
    BY <1>1, BacklogAssumption
  <2> QED
    BY <1>3, <2>1 DEF Init, TypeOK
<1>5. Bounded /\ Accounted /\ SendersCounted
  BY <1>2, <1>3, BacklogAssumption DEF Init, Bounded, Accounted, SendersCounted
<1> QED
  BY <1>3, <1>4, <1>5
     DEF Init, IInv, WakerMeansNothingYet, Sorted, EndState, Over

LEMMA DropArrivalIInv ==
    ASSUME IInv, NEW h \in Handles, SendDropsArrival(h)
    PROVE  IInv'
  BY BacklogAssumption
     DEF IInv, TypeOK, Bounded, Accounted, SendersCounted, WakerMeansNothingYet,
         Sorted, EndState, Over, SendDropsArrival, Accept, Idle, CountLost, Full,
         DropsArrival

LEMMA QueueIInv ==
    ASSUME IInv, NEW h \in Handles, SendQueues(h)
    PROVE  IInv'
<1>1. /\ TypeOK /\ Bounded /\ accepted < MaxValues
      /\ queue' = Append(IF Full THEN Tail(queue) ELSE queue, accepted + 1)
  BY DEF IInv, SendQueues, Accept
<1>d. PICK d \in {0, 1} : Full <=> d = 1
  OBVIOUS
<1>2. /\ queue' \in Seq(1 .. MaxValues)
      /\ Len(queue') \in Nat \ {0}
      /\ Len(queue') <= Capacity
      /\ queue'[Len(queue')] = accepted + 1
      /\ Len(queue') = Len(queue) + 1 - d
      /\ \A i \in 1 .. Len(queue') - 1 : queue'[i] = queue[i + d]
  <2>1. queue' = Append(IF d = 1 THEN Tail(queue) ELSE queue, accepted + 1)
    BY <1>1, <1>d
  <2> QED
    BY <1>1, <1>d, <2>1, PushTyped
<1>e. /\ Len(queue') = Len(queue) + 1 - d
      /\ \A i \in 1 .. Len(queue') - 1 : queue'[i] = queue[i + d]
  BY <1>2
<1>0. /\ h \in live /\ accepted' = accepted + 1
      /\ (Full /\ lost' = lost + 1) \/ (~Full /\ lost' = lost)
      /\ owes' \in {owes, owes \cup {h}} /\ waker' = FALSE
      /\ UNCHANGED <<overflow, closed, finished, senders, live, task,
                     received, discarded, last, lostSeen>>
  BY DEF SendQueues, Accept, Idle, CountLost, TakeWaker
<1>3. Len(queue) \in Nat /\ Len(queue') \in Nat /\ MaxValues \in Nat
  BY <1>1, <1>2, BacklogAssumption DEF TypeOK
<1>4. live # {} /\ ~Over /\ ~closed
  <2>1. h \in live /\ ~finished /\ ~closed
    BY DEF SendQueues, Accept, Idle
  <2> QED
    BY <1>1, <2>1, LiveFinite DEF IInv, SendersCounted, Over
<1>5. TypeOK'
  <2>1. lost' \in Nat /\ accepted' \in 0 .. MaxValues
    BY <1>0, <1>1, <1>3 DEF TypeOK
  <2>2. owes' \subseteq Handles
    BY <1>0, <1>1 DEF TypeOK
  <2> QED
    BY <1>0, <1>1, <1>2, <2>1, <2>2 DEF TypeOK
<1>6. Bounded' /\ Accounted' /\ SendersCounted'
  <2>1. Accounted'
    <3>1. /\ accepted \in Nat /\ received \in Nat /\ lost \in Nat
          /\ discarded \in Nat /\ accepted = received + Len(queue) + lost + discarded
      BY <1>1, <1>3 DEF IInv, TypeOK, Accounted
    <3>2. accepted + 1 = received + Len(queue') + lost' + discarded
      <4>1. lost' = lost + d
        BY <1>0, <1>d, <3>1
      <4> QED
        BY <1>3, <1>d, <1>e, <3>1, <4>1
    <3> QED
      BY <1>0, <3>2 DEF Accounted
  <2> QED
    BY <1>0, <1>2, <2>1 DEF IInv, Bounded, SendersCounted
<1>7. WakerMeansNothingYet'
  BY DEF IInv, WakerMeansNothingYet, SendQueues, TakeWaker
<1>8. Sorted'
  <2>1. accepted' = accepted + 1 /\ last' = last /\ last <= accepted
    BY DEF IInv, Sorted, SendQueues, Accept
  <2>2. accepted \in Nat /\ last \in Nat
    BY <1>1, <1>3 DEF TypeOK
  <2>3. ASSUME NEW i \in 1 .. Len(queue')
        PROVE  last < queue'[i] /\ queue'[i] <= accepted + 1
    <3>1. CASE i = Len(queue')
      BY <1>2, <2>1, <2>2, <3>1
    <3>2. CASE i # Len(queue')
      <4>1. PICK k \in 1 .. Len(queue) : queue'[i] = queue[k]
        BY <1>d, <1>e, <1>3, <2>3, <3>2
      <4>2. queue[k] \in Nat
        BY <1>1, <1>3, <4>1 DEF TypeOK
      <4> QED
        BY <2>1, <2>2, <4>1, <4>2 DEF IInv, Sorted
    <3> QED
      BY <3>1, <3>2
  <2>4. ASSUME NEW i \in 1 .. Len(queue'), NEW j \in 1 .. Len(queue'), i < j
        PROVE  queue'[i] < queue'[j]
    <3>1. i \in 1 .. Len(queue') - 1
      BY <1>3, <2>4
    <3>2. PICK k \in 1 .. Len(queue) : queue'[i] = queue[k] /\ k = i + d
      BY <1>d, <1>e, <1>3, <3>1
    <3>3. queue[k] \in Nat /\ queue[k] <= accepted
      <4>1. queue[k] <= accepted
        BY DEF IInv, Sorted
      <4>2. queue \in Seq(1 .. MaxValues)
        BY <1>1 DEF TypeOK
      <4> QED
        BY <1>3, <4>1, <4>2, ElementOfSeq
    <3>4. CASE j = Len(queue')
      BY <1>2, <2>2, <3>2, <3>3, <3>4
    <3>5. CASE j # Len(queue')
      <4>0. j \in 1 .. Len(queue') - 1
        BY <1>3, <3>5
      <4>1. PICK m \in 1 .. Len(queue) : queue'[j] = queue[m] /\ m = j + d
        BY <1>d, <1>e, <1>3, <4>0
      <4>2. k < m
        BY <2>4, <3>2, <4>1
      <4> QED
        BY <3>2, <4>1, <4>2 DEF IInv, Sorted
    <3> QED
      BY <3>4, <3>5
  <2> QED
    BY <2>1, <2>2, <2>3, <2>4 DEF Sorted
<1>9. EndState'
  BY <1>4 DEF IInv, EndState, SendQueues, Over
<1> QED
  BY <1>5, <1>6, <1>7, <1>8, <1>9 DEF IInv

LEMMA CloseIInv ==
    ASSUME IInv, NEW h \in Handles, CloseSender(h)
    PROVE  IInv'
  BY DEF IInv, TypeOK, Bounded, Accounted, SendersCounted, WakerMeansNothingYet,
         Sorted, EndState, Over, CloseSender, TakeWaker, history

LEMMA CloneIInv ==
    ASSUME IInv, NEW h \in Handles, NEW g \in Handles, CloneSender(h, g)
    PROVE  IInv'
<1>1. h \in live /\ g \in Handles \ live
  BY DEF CloneSender, Idle
<1>2. senders = Cardinality(live) /\ senders # 0 /\ senders \in Nat
  BY <1>1, LiveFinite DEF IInv, SendersCounted
<1>3. SendersCounted'
  BY <1>1, <1>2, LiveFinite DEF IInv, SendersCounted, CloneSender
<1> QED
  BY <1>1, <1>2, <1>3
     DEF IInv, TypeOK, Bounded, Accounted, WakerMeansNothingYet, Sorted, EndState,
         Over, CloneSender, history

LEMMA DropSenderIInv ==
    ASSUME IInv, NEW h \in Handles, DropSender(h)
    PROVE  IInv'
<1>1. h \in live
  BY DEF DropSender, Idle
<1>2. senders = Cardinality(live) /\ senders \in Nat \ {0}
  BY <1>1, LiveFinite DEF IInv, SendersCounted
<1>3. SendersCounted'
  BY <1>1, <1>2, LiveFinite DEF IInv, SendersCounted, DropSender
<1>4. senders' \in Nat /\ (senders' > 0 \/ senders' = 0)
  BY <1>2 DEF DropSender
<1>5. \/ senders' > 0 /\ UNCHANGED <<waker, owes>>
      \/ senders' = 0 /\ waker' = FALSE
                      /\ owes' = IF waker THEN owes \cup {h} ELSE owes
  BY <1>4 DEF DropSender, TakeWaker
<1>6. TypeOK'
  BY <1>4, <1>5 DEF IInv, TypeOK, DropSender, history
<1>7. (Bounded /\ Accounted /\ Sorted)'
  BY DEF IInv, Bounded, Accounted, Sorted, DropSender, history
<1>8. (WakerMeansNothingYet /\ EndState)'
  <2>1. UNCHANGED <<queue, closed, finished, task, discarded>>
    BY DEF DropSender, history
  <2> QED
    BY <1>2, <1>4, <1>5, <2>1 DEF IInv, WakerMeansNothingYet, EndState, Over
<1> QED
  BY <1>3, <1>6, <1>7, <1>8 DEF IInv

LEMMA WakeIInv ==
    ASSUME IInv, NEW h \in Handles, Wake(h)
    PROVE  IInv'
  BY DEF IInv, TypeOK, Bounded, Accounted, SendersCounted, WakerMeansNothingYet,
         Sorted, EndState, Over, Wake, shared, history

LEMMA PopIInv ==
    ASSUME IInv, PollValue \/ TryRecv
    PROVE  IInv'
<1>1. queue # <<>> /\ Pop /\ task # "gone"
  BY DEF PollValue, TryRecv, Pop
<1>2. /\ Tail(queue) \in Seq(1 .. MaxValues)
      /\ Len(queue) \in Nat \ {0}
      /\ Len(Tail(queue)) = Len(queue) - 1
      /\ Head(queue) = queue[1]
      /\ Head(queue) \in 1 .. MaxValues
      /\ \A i \in 1 .. Len(queue) - 1 : Tail(queue)[i] = queue[i + 1]
  BY <1>1, TailTyped DEF IInv
<1>3. task' \in {"running", "ended"} /\ (task' = "ended" => task = "ended")
  BY DEF PollValue, TryRecv
<1>4. TypeOK'
  BY <1>1, <1>2, <1>3, BacklogAssumption DEF IInv, TypeOK, Pop
<1>5. Bounded' /\ Accounted' /\ SendersCounted'
  BY <1>1, <1>2, BacklogAssumption
     DEF IInv, TypeOK, Bounded, Accounted, SendersCounted, Pop
<1>6. WakerMeansNothingYet' /\ EndState'
  BY <1>1, <1>3 DEF IInv, TypeOK, WakerMeansNothingYet, EndState, Over, Pop
<1>7. Sorted'
  BY <1>1, <1>2 DEF IInv, TypeOK, Sorted, Pop
<1> QED
  BY <1>4, <1>5, <1>6, <1>7 DEF IInv

LEMMA PollEmptyIInv ==
    ASSUME IInv, PollEnd \/ PollPending
    PROVE  IInv'
<1>1. /\ queue = <<>> /\ task # "gone"
      /\ UNCHANGED <<queue, overflow, lost, closed, finished, senders, live, owes, history>>
      /\ \/ Over /\ task' = "ended" /\ waker' = waker
         \/ ~Over /\ task' = "parked" /\ waker' = TRUE
  BY DEF PollEnd, PollPending, shared
<1>2. TypeOK'
  BY <1>1 DEF IInv, TypeOK, history
<1>3. (Bounded /\ Accounted /\ SendersCounted /\ Sorted)'
  BY <1>1 DEF IInv, Bounded, Accounted, SendersCounted, Sorted, history
<1>4. (WakerMeansNothingYet /\ EndState)'
  BY <1>1 DEF IInv, WakerMeansNothingYet, EndState, Over, history
<1> QED
  BY <1>2, <1>3, <1>4 DEF IInv

LEMMA DropReceiverIInv ==
    ASSUME IInv, DropReceiver
    PROVE  IInv'
<1>1. queue' \in Seq(1 .. MaxValues) /\ Len(queue') = 0 /\ Len(queue) \in Nat
  BY DEF IInv, TypeOK, DropReceiver
<1> QED
  BY <1>1, BacklogAssumption
     DEF IInv, TypeOK, Bounded, Accounted, SendersCounted, WakerMeansNothingYet,
         Sorted, EndState, Over, DropReceiver

LEMMA StutterIInv ==
    ASSUME IInv, UNCHANGED vars
    PROVE  IInv'
  BY DEF IInv, TypeOK, Bounded, Accounted, SendersCounted, WakerMeansNothingYet,
         Sorted, EndState, Over, vars, shared, history

LEMMA NextIInv == IInv /\ [Next]_vars => IInv'
<1> SUFFICES ASSUME IInv, [Next]_vars PROVE IInv'
  OBVIOUS
<1>1. ASSUME NEW h \in Handles, Send(h) PROVE IInv'
  BY <1>1, DropArrivalIInv, QueueIInv DEF Send
<1>2. ASSUME NEW h \in Handles, CloseSender(h) PROVE IInv'
  BY <1>2, CloseIInv
<1>3. ASSUME NEW h \in Handles, NEW g \in Handles, CloneSender(h, g) PROVE IInv'
  BY <1>3, CloneIInv
<1>4. ASSUME NEW h \in Handles, DropSender(h) PROVE IInv'
  BY <1>4, DropSenderIInv
<1>5. ASSUME NEW h \in Handles, Wake(h) PROVE IInv'
  BY <1>5, WakeIInv
<1>6. CASE PollValue \/ TryRecv
  BY <1>6, PopIInv
<1>7. CASE PollEnd \/ PollPending
  BY <1>7, PollEmptyIInv
<1>8. CASE DropReceiver
  BY <1>8, DropReceiverIInv
<1>9. CASE UNCHANGED vars
  BY <1>9, StutterIInv
<1> QED
  BY <1>1, <1>2, <1>3, <1>4, <1>5, <1>6, <1>7, <1>8, <1>9
     DEF Next, Sending, Receiving, Poll

LEMMA Invariance == Spec => []IInv
  BY InitIInv, NextIInv, PTL DEF Spec

-----------------------------------------------------------------------------
(* The types of the queue's state, in every execution. *)
THEOREM TypeCorrect == Spec => []TypeOK
<1>1. IInv => TypeOK
  BY DEF IInv
<1> QED
  BY <1>1, Invariance, PTL

(* Nothing vanishes uncounted, and the queue never exceeds its capacity:   *)
(* Sender::send drops exactly one value for each it counts.                *)
THEOREM NothingVanishes == Spec => [](Accounted /\ Bounded)
<1>1. IInv => Accounted /\ Bounded
  BY DEF IInv
<1> QED
  BY <1>1, Invariance, PTL

(* However many senders race with the receiver between unlocking and       *)
(* waking, a parked task with something to learn has a wake coming.        *)
THEOREM WakeupNeverLost == Spec => []NoLostWakeup
<1>1. IInv => NoLostWakeup
  BY DEF IInv, NoLostWakeup, WakerMeansNothingYet
<1> QED
  BY <1>1, Invariance, PTL

(* The end is announced only when everything accepted has been delivered   *)
(* or counted, and the handle count is exact.                              *)
THEOREM EndIsHonest == Spec => [](DrainedBeforeEnd /\ SendersCounted)
<1>1. IInv => DrainedBeforeEnd /\ SendersCounted
  <2> SUFFICES ASSUME IInv, task = "ended"
               PROVE  queue = <<>> /\ accepted = received + lost
    BY DEF IInv, DrainedBeforeEnd
  <2>1. queue = <<>> /\ discarded = 0
    BY DEF IInv, EndState
  <2> QED
    BY <2>1 DEF IInv, Accounted, TypeOK
<1> QED
  BY <1>1, Invariance, PTL

(* Values come out in the order they went in, and none twice. *)
THEOREM DeliveredInOrder == Spec => InOrder
<1>1. IInv /\ [Next]_vars => [received' # received => last' > last]_vars
  <2> SUFFICES ASSUME IInv, Next, received' # received PROVE last' > last
    BY DEF vars, history
  <2>1. Pop
    BY DEF Next, Sending, Receiving, Send, SendDropsArrival, SendQueues,
           CloseSender, CloneSender, DropSender, Wake, Poll, PollValue, PollEnd,
           PollPending, TryRecv, DropReceiver, history
  <2>2. last' = queue[1] /\ 1 \in 1 .. Len(queue) /\ queue[1] \in Nat
    BY <2>1, TailTyped DEF IInv, Pop
  <2> QED
    BY <2>2 DEF IInv, Sorted, TypeOK
<1> QED
  BY <1>1, Invariance, PTL DEF Spec, InOrder

(* Under KeepOldest a value that was queued stays queued until it is       *)
(* received: a send that finds the queue full leaves it alone, and one     *)
(* that finds room adds at the back (Sender::send).                        *)
THEOREM QueuedIsKept == Spec => QueuedSurvives
<1>1. ASSUME IInv, [Next]_vars, overflow = "KeepOldest", NEW i \in DOMAIN queue
      PROVE  \/ queue[i] = last'
             \/ closed'
             \/ \E j \in DOMAIN queue' : queue'[j] = queue[i]
  <2>1. /\ queue \in Seq(1 .. MaxValues) /\ Len(queue) \in Nat
        /\ i \in 1 .. Len(queue) /\ queue # <<>>
    BY <1>1 DEF IInv, TypeOK
  <2>2. CASE queue' = queue
    BY <2>2
  <2>3. CASE \E h \in Handles : SendQueues(h)
    <3>1. queue' = Append(queue, accepted + 1)
      BY <1>1, <2>3 DEF SendQueues, DropsArrival
    <3>2. accepted + 1 \in 1 .. MaxValues
      BY <1>1, <2>3, BacklogAssumption DEF SendQueues, Accept, IInv, TypeOK
    <3>3. /\ queue' \in Seq(1 .. MaxValues) /\ Len(queue') = Len(queue) + 1
          /\ queue'[i] = queue[i]
      BY <2>1, <3>1, <3>2, AppendProperties
    <3>4. i \in DOMAIN queue'
      BY <2>1, <3>3
    <3> QED
      BY <3>3, <3>4
  <2>4. CASE Pop
    <3>1. /\ queue' = Tail(queue) /\ last' = queue[1] /\ Len(Tail(queue)) = Len(queue) - 1
          /\ queue' \in Seq(1 .. MaxValues)
          /\ \A k \in 1 .. Len(queue) - 1 : Tail(queue)[k] = queue[k + 1]
      BY <1>1, <2>4, TailTyped DEF Pop, IInv
    <3>2. CASE i = 1
      BY <3>1, <3>2
    <3>3. CASE i # 1
      <4>1. i - 1 \in 1 .. Len(queue) - 1 /\ (i - 1) + 1 = i
        BY <2>1, <3>3
      <4>2. i - 1 \in DOMAIN queue' /\ queue'[i - 1] = queue[i]
        BY <2>1, <3>1, <4>1
      <4> QED
        BY <4>2
    <3> QED
      BY <3>2, <3>3
  <2>5. CASE DropReceiver
    BY <2>5 DEF DropReceiver
  <2> QED
    BY <1>1, <2>2, <2>3, <2>4, <2>5
       DEF Next, Sending, Receiving, Send, SendDropsArrival, CloseSender, CloneSender,
           DropSender, Wake, Poll, PollValue, PollEnd, PollPending, TryRecv, vars, shared
<1>2. IInv /\ [Next]_vars =>
        [overflow = "KeepOldest" => \A i \in DOMAIN queue :
            \/ queue[i] = last'
            \/ closed'
            \/ \E j \in DOMAIN queue' : queue'[j] = queue[i]]_vars
  BY <1>1
<1> QED
  BY <1>2, Invariance, PTL DEF Spec, QueuedSurvives

(* What an eviction leaves: consecutive numbers up to the newest accepted, *)
(* and before them exactly as many missing as `lost' has moved since the   *)
(* value received last.                                                    *)
Consecutive ==
    overflow = "KeepNewest" =>
        /\ \A i \in 1 .. Len(queue) : queue[i] + Len(queue) = accepted + i
        /\ ~closed => last + lost + Len(queue) = accepted + lostSeen

GapInv == IInv /\ Consecutive

LEMMA QueueConsecutive ==
    ASSUME GapInv, NEW h \in Handles, SendQueues(h)
    PROVE  Consecutive'
<1> SUFFICES ASSUME overflow = "KeepNewest"
             PROVE  /\ \A i \in 1 .. Len(queue') :
                          queue'[i] + Len(queue') = accepted' + i
                    /\ ~closed' => last' + lost' + Len(queue') = accepted' + lostSeen'
  BY DEF Consecutive, SendQueues
<1>1. /\ IInv /\ TypeOK /\ Bounded /\ accepted < MaxValues /\ ~closed
      /\ \A i \in 1 .. Len(queue) : queue[i] + Len(queue) = accepted + i
      /\ last + lost + Len(queue) = accepted + lostSeen
  BY DEF GapInv, IInv, Consecutive, SendQueues, Accept
<1>2. PICK d \in {0, 1} : Full <=> d = 1
  OBVIOUS
<1>3. queue' = Append(IF d = 1 THEN Tail(queue) ELSE queue, accepted + 1)
  BY <1>2 DEF SendQueues
<1>4. /\ queue' \in Seq(1 .. MaxValues)
      /\ Len(queue') \in Nat \ {0}
      /\ queue'[Len(queue')] = accepted + 1
      /\ Len(queue') = Len(queue) + 1 - d
      /\ \A i \in 1 .. Len(queue') - 1 : queue'[i] = queue[i + d]
  BY <1>1, <1>2, <1>3, PushTyped
<1>5. /\ accepted' = accepted + 1 /\ lost' = lost + d
      /\ last' = last /\ lostSeen' = lostSeen
  <2>1. /\ accepted' = accepted + 1 /\ last' = last /\ lostSeen' = lostSeen
        /\ lost' = IF Full THEN lost + 1 ELSE lost
    BY DEF SendQueues, Accept, CountLost
  <2> QED
    BY <1>1, <1>2, <2>1 DEF TypeOK
<1>6. /\ Len(queue) \in Nat /\ accepted \in Nat /\ last \in Nat
      /\ lost \in Nat /\ lostSeen \in Nat
  BY <1>1, BacklogAssumption DEF TypeOK
<1>7. last' + lost' + Len(queue') = accepted' + lostSeen'
  <2>1. last + lost + Len(queue) = accepted + lostSeen
    BY <1>1
  <2>2. d \in Nat /\ Len(queue') = Len(queue) + 1 - d
    BY <1>2, <1>4
  <2> QED
    BY <1>5, <1>6, <2>1, <2>2
<1>8. ASSUME NEW i \in 1 .. Len(queue')
      PROVE  queue'[i] + Len(queue') = accepted' + i
  <2>1. CASE i = Len(queue')
    BY <1>4, <1>5, <1>6, <2>1
  <2>2. CASE i # Len(queue')
    <3>1. i \in 1 .. Len(queue') - 1 /\ i + d \in 1 .. Len(queue)
      BY <1>4, <1>6, <2>2
    <3>2. queue'[i] = queue[i + d] /\ queue[i + d] + Len(queue) = accepted + (i + d)
      BY <1>1, <1>4, <3>1
    <3>3. queue[i + d] \in Nat
      <4>1. queue[i + d] \in 1 .. MaxValues
        BY <1>1, <3>1, ElementOfSeq DEF TypeOK
      <4> QED
        BY <4>1, BacklogAssumption
    <3>4. i \in Nat /\ d \in Nat /\ Len(queue') = Len(queue) + 1 - d
      BY <1>2, <1>4, <1>8
    <3>5. queue[i + d] + Len(queue) = accepted + (i + d)
      BY <3>2
    <3>6. queue[i + d] + Len(queue') = accepted + 1 + i
      BY <1>6, <3>3, <3>4, <3>5
    <3> QED
      BY <1>5, <3>2, <3>6
  <2> QED
    BY <2>1, <2>2
<1> QED
  BY <1>7, <1>8

LEMMA PopConsecutive ==
    ASSUME GapInv, Pop
    PROVE  /\ Consecutive'
           /\ overflow = "KeepNewest" => last' - last - 1 = lost - lostSeen
<1> SUFFICES ASSUME overflow = "KeepNewest"
             PROVE  /\ \A i \in 1 .. Len(queue') :
                          queue'[i] + Len(queue') = accepted' + i
                    /\ ~closed' => last' + lost' + Len(queue') = accepted' + lostSeen'
                    /\ last' - last - 1 = lost - lostSeen
  BY DEF Consecutive, Pop
<1>1. /\ IInv /\ TypeOK /\ queue # <<>> /\ ~closed
      /\ \A i \in 1 .. Len(queue) : queue[i] + Len(queue) = accepted + i
      /\ last + lost + Len(queue) = accepted + lostSeen
  BY DEF GapInv, IInv, EndState, Consecutive, Pop
<1>2. /\ queue' = Tail(queue) /\ last' = queue[1] /\ lostSeen' = lost
      /\ lost' = lost /\ accepted' = accepted
      /\ Len(queue) \in Nat \ {0}
      /\ Len(queue') = Len(queue) - 1
      /\ \A i \in 1 .. Len(queue) - 1 : queue'[i] = queue[i + 1]
  BY <1>1, TailTyped DEF Pop
<1>3. /\ accepted \in Nat /\ last \in Nat /\ lost \in Nat /\ lostSeen \in Nat
  BY <1>1, BacklogAssumption DEF TypeOK
<1>4. \A i \in 1 .. Len(queue) : queue[i] \in Nat
  <2>1. \A i \in 1 .. Len(queue) : queue[i] \in 1 .. MaxValues
    BY <1>1, <1>2, ElementOfSeq DEF TypeOK
  <2> QED
    BY <2>1, BacklogAssumption
<1>5. queue[1] + Len(queue) = accepted + 1 /\ queue[1] \in Nat
  BY <1>1, <1>2, <1>4
<1>6. last' + lost' + Len(queue') = accepted' + lostSeen'
  BY <1>2, <1>3, <1>5
<1>7. last' - last - 1 = lost - lostSeen
  BY <1>1, <1>2, <1>3, <1>5
<1>8. ASSUME NEW i \in 1 .. Len(queue')
      PROVE  queue'[i] + Len(queue') = accepted' + i
  <2>1. i + 1 \in 1 .. Len(queue) /\ queue'[i] = queue[i + 1]
    BY <1>2
  <2>2. queue[i + 1] + Len(queue) = accepted + (i + 1) /\ queue[i + 1] \in Nat
    BY <1>1, <1>4, <2>1
  <2> QED
    BY <1>2, <1>3, <2>1, <2>2
<1> QED
  BY <1>6, <1>7, <1>8

LEMMA NextGapInv == GapInv /\ [Next]_vars => GapInv'
<1> SUFFICES ASSUME GapInv, [Next]_vars PROVE Consecutive'
  BY NextIInv DEF GapInv
<1>1. IInv /\ Consecutive
  BY DEF GapInv
<1>2. CASE \E h \in Handles : SendQueues(h)
  BY <1>2, QueueConsecutive
<1>3. CASE Pop
  BY <1>3, PopConsecutive
<1>4. CASE \E h \in Handles : SendDropsArrival(h)
  BY <1>4 DEF Consecutive, SendDropsArrival, DropsArrival
<1>5. CASE DropReceiver
  <2>1. queue' = <<>> /\ closed'
    BY <1>5 DEF DropReceiver
  <2> QED
    BY <2>1 DEF Consecutive
<1>6. CASE UNCHANGED <<queue, overflow, closed, accepted, last, lost, lostSeen>>
  BY <1>1, <1>6 DEF Consecutive
<1> QED
  BY <1>2, <1>3, <1>4, <1>5, <1>6
     DEF Next, Sending, Receiving, Send, CloseSender, CloneSender, DropSender, Wake,
         Poll, PollValue, PollEnd, PollPending, TryRecv, vars, shared, history

(* Under KeepNewest the count of the lost tells a reader, value by value,  *)
(* exactly how many it missed (backlog.rs:202-204).                        *)
THEOREM GapIsCounted == Spec => GapIsLost
<1>1. Init => GapInv
  <2> SUFFICES ASSUME Init PROVE Consecutive
    BY InitIInv DEF GapInv
  <2> QED
    BY DEF Init, Consecutive
<1>2. GapInv /\ [Next]_vars =>
        [overflow = "KeepNewest" /\ received' # received
            => last' - last - 1 = lost - lostSeen]_vars
  <2> SUFFICES ASSUME GapInv, Next, received' # received, overflow = "KeepNewest"
               PROVE  last' - last - 1 = lost - lostSeen
    BY DEF vars, history
  <2>1. Pop
    BY DEF Next, Sending, Receiving, Send, SendDropsArrival, SendQueues,
           CloseSender, CloneSender, DropSender, Wake, Poll, PollValue, PollEnd,
           PollPending, TryRecv, DropReceiver, history
  <2> QED
    BY <2>1, PopConsecutive
<1> QED
  BY <1>1, <1>2, NextGapInv, PTL DEF Spec, GapIsLost

-----------------------------------------------------------------------------
(* That the queue implements the lossy stream, its fairness apart. *)

Mapped == <<accepted, Pending, last, lost, ~Over, Reader>>

(* What is held is as many values as the queue is long, none of which is   *)
(* newer than the newest accepted.                                         *)
LEMMA PendingCounted ==
    ASSUME IInv
    PROVE  /\ Cardinality(Pending) = Len(queue)
           /\ \A v \in Pending : v \in Nat /\ v <= accepted
           /\ Pending = {} <=> queue = <<>>
<1>1. queue \in Seq(1 .. MaxValues) /\ Len(queue) \in Nat /\ DOMAIN queue = 1 .. Len(queue)
  BY DEF IInv, TypeOK
<1>2. \A i \in 1 .. Len(queue) : queue[i] \in Nat
  <2>1. \A i \in 1 .. Len(queue) : queue[i] \in 1 .. MaxValues
    BY <1>1, ElementOfSeq
  <2> QED
    BY <2>1, BacklogAssumption
<1>3. \A i, j \in 1 .. Len(queue) : queue[i] = queue[j] => i = j
  <2> SUFFICES ASSUME NEW i \in 1 .. Len(queue), NEW j \in 1 .. Len(queue), i < j
               PROVE  queue[i] # queue[j]
    BY <1>1
  <2> QED
    BY <1>2 DEF IInv, Sorted
<1>4. ExistsBijection(1 .. Len(queue), Pending)
  <2> DEFINE f == [i \in 1 .. Len(queue) |-> queue[i]]
  <2>1. f \in Bijection(1 .. Len(queue), Pending)
    BY <1>1, <1>3 DEF Bijection, Injection, Surjection, IsInjective, Pending
  <2> QED
    BY <2>1 DEF ExistsBijection
<1>5. Cardinality(Pending) = Len(queue)
  BY <1>1, <1>4, FS_CountingElements
<1>6. \A v \in Pending : v \in Nat /\ v <= accepted
  BY <1>1, <1>2 DEF Pending, IInv, Sorted
<1>7. Pending = {} <=> queue = <<>>
  <2>1. queue = <<>> <=> Len(queue) = 0
    BY <1>1, EmptySeq
  <2>2. Len(queue) # 0 => queue[1] \in Pending
    BY <1>1 DEF Pending
  <2>3. Len(queue) = 0 => DOMAIN queue = {}
    BY <1>1
  <2>4. Len(queue) = 0 => Pending = {}
    BY <2>3 DEF Pending
  <2> QED
    BY <2>1, <2>2, <2>4
<1> QED
  BY <1>5, <1>6, <1>7

(* The abstract module counts with a copy of Cardinality of its own. *)
LEMMA SameCardinality == Stream!Cardinality(Pending) = Cardinality(Pending)
  BY DEF Stream!Cardinality, Cardinality

(* What is held once the head is gone. *)
LEMMA WithoutHead ==
    ASSUME IInv, queue # <<>>
    PROVE  /\ queue[1] \in Pending
           /\ \A v \in Pending : queue[1] <= v
           /\ \A v : v \in Pending \ {queue[1]} <=>
                       \E i \in 1 .. Len(queue) - 1 : v = queue[i + 1]
<1>1. /\ Len(queue) \in Nat \ {0} /\ DOMAIN queue = 1 .. Len(queue)
      /\ \A i \in 1 .. Len(queue) : queue[i] \in Nat
  <2>1. queue \in Seq(1 .. MaxValues) /\ MaxValues \in Nat
    BY BacklogAssumption DEF IInv, TypeOK
  <2> QED
    BY <2>1, EmptySeq, ElementOfSeq
<1>2. \A i, j \in 1 .. Len(queue) : i < j => queue[i] < queue[j]
  BY DEF IInv, Sorted
<1>3. \A i \in 1 .. Len(queue) : i # 1 => queue[1] < queue[i]
  BY <1>1, <1>2
<1>4. queue[1] \in Pending /\ \A v \in Pending : queue[1] <= v
  BY <1>1, <1>3 DEF Pending
<1>5. ASSUME NEW v \in Pending \ {queue[1]}
      PROVE  \E i \in 1 .. Len(queue) - 1 : v = queue[i + 1]
  <2>1. PICK k \in 1 .. Len(queue) : v = queue[k]
    BY <1>1, <1>5 DEF Pending
  <2>2. k - 1 \in 1 .. Len(queue) - 1 /\ (k - 1) + 1 = k
    BY <1>1, <1>5, <2>1
  <2> QED
    BY <2>1, <2>2
<1>6. ASSUME NEW i \in 1 .. Len(queue) - 1
      PROVE  queue[i + 1] \in Pending \ {queue[1]}
  <2>1. i + 1 \in 1 .. Len(queue) /\ i + 1 # 1
    BY <1>1
  <2>2. queue[1] < queue[i + 1] /\ queue[1] \in Nat
    BY <1>1, <1>3, <2>1
  <2> QED
    BY <1>1, <2>1, <2>2 DEF Pending
<1> QED
  BY <1>4, <1>5, <1>6

LEMMA EvictedHead ==
    ASSUME IInv, queue # <<>>, accepted < MaxValues,
           queue' = Append(Tail(queue), accepted + 1)
    PROVE  /\ queue[1] \in Pending
           /\ Pending' = (Pending \cup {accepted + 1}) \ {queue[1]}
<1>1. queue \in Seq(1 .. MaxValues) /\ accepted + 1 \in 1 .. MaxValues
  BY BacklogAssumption DEF IInv, TypeOK
<1>2. /\ queue' \in Seq(1 .. MaxValues) /\ Len(queue') = Len(queue)
      /\ queue'[Len(queue)] = accepted + 1
      /\ \A i \in 1 .. Len(queue) - 1 : queue'[i] = queue[i + 1]
  BY <1>1, ShiftIn
<1>3. Len(queue) \in Nat \ {0} /\ DOMAIN queue' = 1 .. Len(queue)
  BY <1>1, <1>2, EmptySeq
<1>4. accepted + 1 # queue[1]
  BY WithoutHead, PendingCounted DEF IInv, TypeOK
<1>5. \A v : v \in Pending' <=>
         v = accepted + 1 \/ \E i \in 1 .. Len(queue) - 1 : v = queue[i + 1]
  <2>1. \A v : v \in Pending' <=> \E i \in 1 .. Len(queue) : v = queue'[i]
    BY <1>3 DEF Pending
  <2>2. \A i \in 1 .. Len(queue) : i = Len(queue) \/ i \in 1 .. Len(queue) - 1
    BY <1>3
  <2>3. Len(queue) \in 1 .. Len(queue) /\ 1 .. Len(queue) - 1 \subseteq 1 .. Len(queue)
    BY <1>3
  <2>4. \A i \in 1 .. Len(queue) :
          queue'[i] = accepted + 1 \/ \E j \in 1 .. Len(queue) - 1 : queue'[i] = queue[j + 1]
    BY <1>2, <2>2
  <2>5. /\ accepted + 1 \in Pending'
        /\ \A i \in 1 .. Len(queue) - 1 : queue[i + 1] \in Pending'
    BY <1>2, <2>1, <2>3
  <2> QED
    BY <2>1, <2>4, <2>5
<1> QED
  BY <1>4, <1>5, WithoutHead

LEMMA OfferImplemented ==
    ASSUME IInv, NEW h \in Handles, Send(h)
    PROVE  Stream!Offer
<1>1. h \in live /\ ~finished /\ ~closed /\ accepted < MaxValues /\ accepted' = accepted + 1
  BY DEF Send, SendDropsArrival, SendQueues, Accept, Idle
<1>2. senders # 0 /\ ~Over /\ Reader # "gone"
  BY <1>1, LiveFinite DEF IInv, SendersCounted, EndState, Over, Reader
<1>3. UNCHANGED <<last, Over, Reader>>
  BY DEF Send, SendDropsArrival, SendQueues, Over, Reader
<1>4. /\ accepted \in Nat /\ accepted + 1 \notin Pending
      /\ Full <=> ~(Cardinality(Pending) < Capacity)
  BY PendingCounted, BacklogAssumption DEF IInv, TypeOK, Full
<1>5. CASE SendDropsArrival(h)
  <2>1. Pending' = Pending /\ lost' = lost + 1 /\ Full
    BY <1>5 DEF SendDropsArrival, DropsArrival, CountLost, Pending
  <2>2. Pending' = (Pending \cup {accepted + 1}) \ {accepted + 1}
    BY <1>4, <2>1
  <2> QED
    BY <1>1, <1>2, <1>3, <1>4, <2>1, <2>2, SameCardinality DEF Stream!Offer
<1>6. CASE SendQueues(h) /\ ~Full
  <2>1. lost' = lost /\ queue' = Append(queue, accepted + 1)
    BY <1>6 DEF SendQueues, CountLost
  <2>2. Pending' = Pending \cup {accepted + 1}
    BY <2>1, AppendProperties DEF IInv, TypeOK, Pending
  <2> QED
    BY <1>1, <1>2, <1>3, <1>4, <1>6, <2>1, <2>2, SameCardinality DEF Stream!Offer
<1>7. CASE SendQueues(h) /\ Full
  <2>1. lost' = lost + 1 /\ queue' = Append(Tail(queue), accepted + 1) /\ queue # <<>>
    BY <1>7, BacklogAssumption DEF SendQueues, CountLost, Full
  <2>2. queue[1] \in Pending /\ Pending' = (Pending \cup {accepted + 1}) \ {queue[1]}
    BY <1>1, <1>7, <2>1, EvictedHead DEF SendQueues, Accept
  <2> QED
    BY <1>1, <1>2, <1>3, <1>4, <1>7, <2>1, <2>2, SameCardinality DEF Stream!Offer
<1> QED
  BY <1>5, <1>6, <1>7 DEF Send

LEMMA TakeImplemented ==
    ASSUME IInv, PollValue \/ TryRecv
    PROVE  Stream!Take
<1>1. Pop /\ queue # <<>> /\ task # "gone"
  BY DEF PollValue, TryRecv, Pop
<1>2. /\ queue' = Tail(queue) /\ last' = queue[1]
      /\ Len(Tail(queue)) = Len(queue) - 1 /\ DOMAIN Tail(queue) = 1 .. Len(queue) - 1
      /\ \A i \in 1 .. Len(queue) - 1 : Tail(queue)[i] = queue[i + 1]
  BY <1>1, TailTyped DEF IInv, Pop
<1>3. Pending' = Pending \ {queue[1]}
  <2>1. \A v : v \in Pending' <=> \E i \in 1 .. Len(queue) - 1 : v = queue[i + 1]
    BY <1>2 DEF Pending
  <2> QED
    BY <1>1, <2>1, WithoutHead
<1>4. UNCHANGED <<accepted, lost, Over>>
  BY <1>1 DEF Pop, Over
<1>5. Reader = "reading" \/ Reader = "ended"
  BY <1>1 DEF IInv, TypeOK, Reader
<1>6. Reader' = Reader
  BY <1>1 DEF PollValue, TryRecv, IInv, TypeOK, EndState, Reader
<1> QED
  BY <1>1, <1>2, <1>3, <1>4, <1>5, <1>6, WithoutHead DEF Stream!Take

LEMMA EndImplemented ==
    ASSUME IInv, NEW h \in Handles, CloseSender(h) \/ DropSender(h)
    PROVE  Stream!Finish \/ UNCHANGED Mapped
<1>1. UNCHANGED <<accepted, Pending, last, lost, Reader>>
  BY DEF CloseSender, DropSender, Pending, Reader, history
<1>2. Over => Over'
  <2>1. CASE CloseSender(h)
    BY <2>1 DEF CloseSender, Over
  <2>2. CASE DropSender(h)
    <3>1. h \in live
      BY <2>2 DEF DropSender, Idle
    <3>2. senders # 0
      BY <3>1, LiveFinite DEF IInv, SendersCounted
    <3> QED
      BY <2>2, <3>2 DEF DropSender, Over
  <2> QED
    BY <2>1, <2>2
<1>3. CASE ~Over /\ Over'
  BY <1>1, <1>3 DEF Stream!Finish
<1>4. CASE Over <=> Over'
  <2>1. (~Over)' = ~Over
    BY <1>4 DEF Over
  <2> QED
    BY <1>1, <2>1 DEF Mapped
<1> QED
  BY <1>2, <1>3, <1>4

LEMMA ReceiverImplemented ==
    ASSUME IInv, PollEnd \/ PollPending \/ DropReceiver
    PROVE  Stream!End \/ Stream!Abandon \/ UNCHANGED Mapped
<1>1. UNCHANGED <<accepted, last, lost, Over>>
  BY DEF PollEnd, PollPending, DropReceiver, Over, shared, history
<1>2. (~Over)' = ~Over
  BY <1>1
<1>3. CASE PollEnd
  <2>1. queue = <<>> /\ Over /\ task # "gone" /\ task' = "ended" /\ queue' = queue
    BY <1>3 DEF PollEnd, shared
  <2>2. Pending = {} /\ Pending' = Pending
    BY <2>1, PendingCounted DEF Pending
  <2>3. Reader' = "ended" /\ (Reader = "reading" \/ Reader = "ended")
    BY <2>1 DEF Reader, IInv, TypeOK
  <2> QED
    BY <1>1, <1>2, <2>1, <2>2, <2>3 DEF Stream!End, Mapped
<1>4. CASE PollPending
  <2>1. task' = "parked" /\ queue' = queue /\ task \in {"running", "parked"}
    BY <1>4 DEF PollPending, IInv, TypeOK, EndState
  <2> QED
    BY <1>1, <1>2, <2>1 DEF Mapped, Pending, Reader
<1>5. CASE DropReceiver
  <2>1. queue' = <<>> /\ task' = "gone" /\ task # "gone"
    BY <1>5 DEF DropReceiver
  <2>2. Pending' = {} /\ Reader' = "gone" /\ Reader # "gone"
    BY <2>1 DEF Pending, Reader
  <2> QED
    BY <1>1, <1>2, <2>2 DEF Stream!Abandon
<1> QED
  BY <1>3, <1>4, <1>5

(* A handle that is cloned, a wake and a stutter are not seen.             *)
LEMMA Unseen ==
    ASSUME IInv, \/ \E h, g \in Handles : CloneSender(h, g)
                 \/ \E h \in Handles : Wake(h)
                 \/ UNCHANGED vars
    PROVE  UNCHANGED Mapped
<1>1. UNCHANGED <<accepted, queue, last, lost, finished>>
  BY DEF CloneSender, Wake, vars, shared, history
<1>2. Over' = Over
  <2>1. CASE \E h, g \in Handles : CloneSender(h, g)
    <3>1. live # {}
      BY <2>1 DEF CloneSender, Idle
    <3>2. senders \in Nat \ {0} /\ senders' = senders + 1
      BY <2>1, <3>1, LiveFinite DEF IInv, SendersCounted, CloneSender
    <3> QED
      BY <1>1, <3>2 DEF Over
  <2>2. CASE UNCHANGED senders
    BY <1>1, <2>2 DEF Over
  <2> QED
    BY <2>1, <2>2 DEF Wake, vars, shared
<1>3. Reader' = Reader
  BY DEF CloneSender, Wake, vars, Reader
<1> QED
  BY <1>1, <1>2, <1>3 DEF Mapped, Pending

LEMMA StepImplemented == IInv /\ [Next]_vars => [Stream!Next]_Mapped
<1> SUFFICES ASSUME IInv, [Next]_vars PROVE [Stream!Next]_Mapped
  OBVIOUS
<1>1. ASSUME NEW h \in Handles, Send(h) PROVE Stream!Next
  BY <1>1, OfferImplemented DEF Stream!Next
<1>2. ASSUME NEW h \in Handles, CloseSender(h) \/ DropSender(h)
      PROVE  [Stream!Next]_Mapped
  BY <1>2, EndImplemented DEF Stream!Next
<1>3. CASE PollValue \/ TryRecv
  BY <1>3, TakeImplemented DEF Stream!Next
<1>4. CASE PollEnd \/ PollPending \/ DropReceiver
  BY <1>4, ReceiverImplemented DEF Stream!Next
<1>5. CASE \/ \E h, g \in Handles : CloneSender(h, g)
           \/ \E h \in Handles : Wake(h)
           \/ UNCHANGED vars
  BY <1>5, Unseen
<1> QED
  BY <1>1, <1>2, <1>3, <1>4, <1>5 DEF Next, Sending, Receiving, Poll

(* The queue implements the stream its two ends are promised, fairness     *)
(* apart: every send, poll and drop is one of its steps or none            *)
(* (Sender::send, Receiver::poll_next).                                    *)
THEOREM QueueImplementsStream ==
    Spec => Stream!Init /\ [][Stream!Next]_Stream!vars
<1>1. Init => Stream!Init
  <2> SUFFICES ASSUME Init PROVE Stream!Init
    OBVIOUS
  <2>1. queue = <<>> /\ ~Over /\ Reader = "reading"
    BY DEF Init, Over, Reader
  <2>2. Pending = {}
    BY <2>1 DEF Pending
  <2> QED
    BY <2>1, <2>2 DEF Init, Stream!Init
<1>2. [Stream!Next]_Mapped => [Stream!Next]_Stream!vars
  BY DEF Mapped, Stream!vars
<1> QED
  BY <1>1, <1>2, Invariance, StepImplemented, PTL DEF Spec
=============================================================================
