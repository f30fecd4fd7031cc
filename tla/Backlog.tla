------------------------------ MODULE Backlog ------------------------------
(***************************************************************************)
(* The bounded queue of webbluetooth-core/src/backlog.rs: any number of    *)
(* sender handles on callback threads, one receiver polled by a task, and  *)
(* one mutex round the shared state. Every action is one critical section; *)
(* calling a waker that was taken out under the lock is an action of its   *)
(* own, since the code does it after unlocking.                            *)
(*                                                                         *)
(* A value is its place in the order in which sends took the lock, so      *)
(* `accepted' is both the number of values accepted and the newest one.    *)
(* A refused send changes nothing and is not an action.                    *)
(***************************************************************************)
EXTENDS Naturals, Sequences, FiniteSets

CONSTANTS Handles,      \* names for sender handles; a dropped one is reused
          Capacity,     \* the capacity, after `capacity.max(1)'
          MaxValues     \* bound: how many values are ever sent

ASSUME BacklogAssumption ==
    /\ Handles # {} /\ IsFiniteSet(Handles)
    /\ Capacity \in Nat \ {0}
    /\ MaxValues \in Nat

VARIABLES
    queue, overflow, lost, waker, closed, finished, senders, \* struct Shared
    live,       \* the handles that exist
    owes,       \* handles whose thread holds a waker it has yet to call
    task,       \* "running", "parked" (polled Pending), "ended" (polled
                \* Ready(None)) or "gone" (receiver dropped)
    accepted, received, discarded,  \* history: how many values
    last,       \* history: the value received last
    lostSeen    \* history: `lost' as it stood when `last' was received

shared  == <<queue, overflow, lost, waker, closed, finished, senders>>
history == <<accepted, received, discarded, last, lostSeen>>
vars    == <<shared, live, owes, task, history>>

(* A waker is a Boolean: one task polls the receiver, so a stored waker is *)
(* always that task's.                                                     *)
TypeOK ==
    /\ queue \in Seq(1 .. MaxValues)
    /\ overflow \in {"KeepNewest", "KeepOldest"}
    /\ lost \in Nat /\ senders \in Nat
    /\ waker \in BOOLEAN /\ closed \in BOOLEAN /\ finished \in BOOLEAN
    /\ live \subseteq Handles /\ owes \subseteq Handles
    /\ task \in {"running", "parked", "ended", "gone"}
    /\ accepted \in 0 .. MaxValues
    /\ received \in Nat /\ discarded \in Nat
    /\ last \in 0 .. MaxValues /\ lostSeen \in Nat

(* `bounded': one sender, one receiver, either policy. *)
Init ==
    /\ overflow \in {"KeepNewest", "KeepOldest"}
    /\ queue = <<>> /\ lost = 0 /\ waker = FALSE
    /\ closed = FALSE /\ finished = FALSE /\ senders = 1
    /\ \E h \in Handles : live = {h}
    /\ owes = {} /\ task = "running"
    /\ accepted = 0 /\ received = 0 /\ discarded = 0
    /\ last = 0 /\ lostSeen = 0

-----------------------------------------------------------------------------
(* Senders. A handle is used by one thread at a time, and that thread is   *)
(* busy until it has called the waker it took.                             *)

Idle(h) == h \in live \ owes

(* `shared.waker.take()', to be called by h's thread after the lock.       *)
(* Mutant: the waker is left where it is and nobody is woken.              *)
TakeWaker_Silent(h) == UNCHANGED <<owes, waker>>

TakeWaker(h) ==
    /\ owes' = IF waker THEN owes \cup {h} ELSE owes
    /\ waker' = FALSE

(* Mutant: the test is off by one. *)
Full_OffByOne == Len(queue) > Capacity

Full == Len(queue) >= Capacity

Accept(h) ==
    /\ Idle(h) /\ ~closed /\ ~finished /\ accepted < MaxValues
    /\ accepted' = accepted + 1

(* Mutant: what is dropped is not counted. *)
CountLost_Not == UNCHANGED lost

CountLost == lost' = IF Full THEN lost + 1 ELSE lost

(* Mutant: one policy, whichever was asked for. *)
DropsArrival_Never == FALSE

DropsArrival == Full /\ overflow = "KeepOldest"

SendDropsArrival(h) ==
    /\ Accept(h) /\ DropsArrival
    /\ CountLost
    /\ UNCHANGED <<overflow, queue, waker, closed, finished, senders, live,
                   owes, task, received, discarded, last, lostSeen>>

SendQueues(h) ==
    /\ Accept(h) /\ ~DropsArrival
    /\ CountLost
    /\ queue' = Append(IF Full THEN Tail(queue) ELSE queue, accepted + 1)
    /\ TakeWaker(h)
    /\ UNCHANGED <<overflow, closed, finished, senders, live, task,
                   received, discarded, last, lostSeen>>

(* `close' is allowed again after the stream has finished, and after the   *)
(* receiver has gone.                                                      *)
CloseSender(h) ==
    /\ Idle(h)
    /\ finished' = TRUE
    /\ TakeWaker(h)
    /\ UNCHANGED <<overflow, queue, lost, closed, senders, live, task, history>>

CloneSender(h, g) ==
    /\ Idle(h) /\ g \in Handles \ (live \cup owes)
    /\ senders' = senders + 1
    /\ live' = live \cup {g}
    /\ UNCHANGED <<overflow, queue, lost, waker, closed, finished, owes, task, history>>

DropSender(h) ==
    /\ Idle(h)
    /\ senders' = senders - 1
    /\ live' = live \ {h}
    /\ IF senders' > 0 THEN UNCHANGED <<waker, owes>> ELSE TakeWaker(h)
    /\ UNCHANGED <<overflow, queue, lost, closed, finished, task, history>>

(* `waker.wake()', outside the lock. It reaches the task wherever that has *)
(* got to by now, which only matters if it is parked.                      *)
Wake(h) ==
    /\ h \in owes
    /\ owes' = owes \ {h}
    /\ task' = IF task = "parked" THEN "running" ELSE task
    /\ UNCHANGED <<shared, live, history>>

-----------------------------------------------------------------------------
(* The receiver. *)

Pop ==
    /\ queue # <<>>
    /\ queue' = Tail(queue)
    /\ received' = received + 1
    /\ last' = Head(queue)
    /\ lostSeen' = lost
    /\ UNCHANGED <<overflow, lost, waker, closed, finished, senders, live, owes,
                   accepted, discarded>>

PollValue ==
    /\ task # "gone"
    /\ Pop
    /\ task' = "running"

Over == senders = 0 \/ finished

PollEnd ==
    /\ task # "gone" /\ queue = <<>> /\ Over
    /\ task' = "ended"
    /\ UNCHANGED <<shared, live, owes, history>>

PollPending ==
    /\ task # "gone" /\ queue = <<>> /\ ~Over
    /\ waker' = TRUE
    /\ task' = "parked"
    /\ UNCHANGED <<overflow, queue, lost, closed, finished, senders, live, owes, history>>

(* A parked task may be polled again for a reason of its own -- the other  *)
(* arm of a select, say -- so `task' is no guard of a poll.                *)
Poll == PollValue \/ PollEnd \/ PollPending

TryRecv ==
    /\ task \in {"running", "ended"}
    /\ Pop
    /\ UNCHANGED task

(* The stored waker stays where it is. *)
DropReceiver ==
    /\ task # "gone"
    /\ closed' = TRUE
    /\ queue' = <<>>
    /\ discarded' = discarded + Len(queue)
    /\ task' = "gone"
    /\ UNCHANGED <<overflow, lost, waker, finished, senders, live, owes,
                   accepted, received, last, lostSeen>>

-----------------------------------------------------------------------------
Send(h) == SendDropsArrival(h) \/ SendQueues(h)

Sending == \E h \in Handles :
    \/ Send(h)
    \/ CloseSender(h)
    \/ DropSender(h)
    \/ Wake(h)
    \/ \E g \in Handles : CloneSender(h, g)

Receiving == Poll \/ TryRecv \/ DropReceiver

Next == Sending \/ Receiving

(* A thread that took a waker calls it, and an executor polls a task that  *)
(* is not parked. Nobody has to send, to drop a handle or to repoll.       *)
Fairness ==
    /\ \A h \in Handles : WF_vars(Wake(h))
    /\ WF_vars(task = "running" /\ Poll)

Spec     == Init /\ [][Next]_vars
FairSpec == Spec /\ Fairness

-----------------------------------------------------------------------------
(* Properties. *)

(* The queue never holds more than its capacity, however many handles feed *)
(* it (backlog.rs:124-132).                                                *)
Bounded == Len(queue) <= Capacity

(* Nothing vanishes uncounted: every value ever accepted was received, is  *)
(* queued, was counted in `lost', or went with the receiver.               *)
Accounted == accepted = received + Len(queue) + lost + discarded

(* No lost wakeup: when the task is parked and there is something for it   *)
(* to learn, some thread is about to wake it. It is what "woken outside    *)
(* the lock" (backlog.rs:136) could break.                                 *)
NoLostWakeup ==
    task = "parked" /\ (queue # <<>> \/ Over) => owes # {}

(* The end is announced only after everything accepted has been delivered  *)
(* or counted (backlog.rs:236-240).                                        *)
DrainedBeforeEnd ==
    task = "ended" => queue = <<>> /\ accepted = received + lost

(* The handles that exist are exactly counted, so the stream neither ends  *)
(* under a living sender nor outlives the last one (backlog.rs:170-193).   *)
SendersCounted == senders = Cardinality(live)

(* KeepOldest: a value that was queued leaves only by being received, or   *)
(* with the receiver.                                                      *)
QueuedSurvives ==
    [][overflow = "KeepOldest" => \A i \in DOMAIN queue :
          \/ queue[i] = last'
          \/ closed'
          \/ \E j \in DOMAIN queue' : queue'[j] = queue[i]]_vars

(* Values are received in the order in which they were accepted, and none  *)
(* twice, whichever of them are dropped on the way.                        *)
InOrder == [][received' # received => last' > last]_vars

(* "if this has moved between one value and the next, the difference is    *)
(* exactly how many went missing in between" (backlog.rs:202-204), taking  *)
(* the count in the same instant as the value. It is so when the oldest is *)
(* evicted; a refused arrival is counted before the reader is at the gap.  *)
GapIsLost ==
    [][overflow = "KeepNewest" /\ received' # received
          => last' - last - 1 = lost - lostSeen]_vars

(* A parked task with something to learn is woken, and a stream whose last *)
(* sender has gone or that was closed is seen to end, or is dropped.       *)
EndReached == Over ~> task \in {"ended", "gone"}

(* How the queue looks to the two ends of the stream it is.                *)
Pending == {queue[i] : i \in DOMAIN queue}

Reader == IF task \in {"parked", "running"} THEN "reading" ELSE task

Stream == INSTANCE LossyStream WITH
    pending <- Pending, open <- ~Over, reader <- Reader

(* The queue is the stream its users are promised, overflow and end, and   *)
(* the reader's progress, included (Sender::send, Receiver::poll_next).    *)
ImplementsStream == Stream!Spec
=============================================================================
