---------------------------- MODULE AttConnection ----------------------------
(***************************************************************************)
(* One ATT connection over an L2CAP socket (webbluetooth-linux/src/gatt.rs):*)
(* threads that send a request and wait for its reply with a deadline, and *)
(* the reader thread that tells replies from notifications and from the    *)
(* peer's own requests.                                                    *)
(*                                                                         *)
(* A request is a number, the reply to it the same number, and a           *)
(* notification a number of its own. The wire is a FIFO in each direction. *)
(* What the PDUs carry, and their parsing, is left out. `in_flight' and    *)
(* `reply' are mutexes; `reply' is held from the moment a thread looks     *)
(* until it waits on the condition variable, which releases it.            *)
(***************************************************************************)
EXTENDS Naturals, Sequences, FiniteSets

CONSTANTS Requesters,   \* threads
          NoOne,
          MaxRequests,  \* bound: requests sent
          MaxValues     \* bound: notifications and requests of the peer

ASSUME AttAssumption ==
    /\ NoOne \notin Requesters
    /\ MaxRequests \in Nat /\ MaxValues \in Nat

VARIABLES
    inFlight,   \* the holder of the in_flight mutex
    reply,      \* the slot: a request number, or 0 when empty
    stopped,    \* the flag both sides look at
    pc,         \* where each requester is
    mine,       \* the request each of them has sent
    expired,    \* has its deadline passed?
    outcome,    \* how its last request ended
    reader,     \* where the reader thread is
    up,         \* is the socket up?
    toPeer,     \* requests on their way to the peer, or with it
    wire,       \* what is on its way to the reader
    told,       \* what the sink was told, in order
    sent, made, \* history: requests and peer's values so far
    late        \* history: has a request that was sent timed out?

shared  == <<inFlight, reply, stopped>>
threads == <<pc, mine, expired, outcome>>
link    == <<up, toPeer, wire>>
history == <<sent, made, late>>
vars    == <<shared, threads, reader, link, told, history>>

Reply(n)  == [kind |-> "reply", n |-> n]
Value(n)  == [kind |-> "value", n |-> n]
Asked(n)  == [kind |-> "asked", n |-> n]
Pdu       == [kind : {"reply", "value", "asked"}, n : Nat]
Down      == [kind |-> "down", n |-> 0]

Outcome == [kind : {"none", "answer", "timeout", "disconnected", "io"}, n : Nat]

TypeOK ==
    /\ inFlight \in Requesters \cup {NoOne}
    /\ \A r \in Requesters : pc[r] # "idle" <=> inFlight = r
    /\ reply \in Nat /\ stopped \in BOOLEAN
    /\ pc \in [Requesters -> {"idle", "locked", "cleared", "looking",
                              "parking", "waiting"}]
    /\ mine \in [Requesters -> Nat]
    /\ expired \in [Requesters -> BOOLEAN]
    /\ outcome \in [Requesters -> Outcome]
    /\ reader \in {"looping", "readable", "stopping", "notified", "gone"}
    /\ up \in BOOLEAN
    /\ toPeer \in Seq(Nat) /\ wire \in Seq(Pdu)
    /\ told \in Seq(Pdu \cup {Down})
    /\ sent \in Nat /\ made \in Nat /\ late \in BOOLEAN

Init ==
    /\ inFlight = NoOne /\ reply = 0 /\ stopped = FALSE
    /\ pc = [r \in Requesters |-> "idle"]
    /\ mine = [r \in Requesters |-> 0]
    /\ expired = [r \in Requesters |-> FALSE]
    /\ outcome = [r \in Requesters |-> [kind |-> "none", n |-> 0]]
    /\ reader = "looping"
    /\ up = TRUE /\ toPeer = <<>> /\ wire = <<>>
    /\ told = <<>>
    /\ sent = 0 /\ made = 0 /\ late = FALSE

Goto(r, from, to) == pc[r] = from /\ pc' = [pc EXCEPT ![r] = to]

\* Some thread holds the mutex of the reply slot across steps.
SlotHeld == \E r \in Requesters : pc[r] = "parking"

-----------------------------------------------------------------------------
(* request. *)

(* Mutant: nothing serialises requests. *)
Free_Always == TRUE

Free == inFlight = NoOne

(* The mutex is taken and the connection found open. *)
Lock(r) ==
    /\ Free
    /\ ~stopped
    /\ sent < MaxRequests
    /\ Goto(r, "idle", "locked")
    /\ inFlight' = r
    /\ expired' = [expired EXCEPT ![r] = FALSE]
    /\ outcome' = [outcome EXCEPT ![r] = [kind |-> "none", n |-> 0]]
    /\ UNCHANGED <<reply, stopped, mine, reader, link, told, history>>

Clear(r) ==
    /\ ~SlotHeld
    /\ Goto(r, "locked", "cleared")
    /\ reply' = 0
    /\ UNCHANGED <<inFlight, stopped, mine, expired, outcome, reader, link,
                   told, history>>

Send(r) ==
    /\ up
    /\ Goto(r, "cleared", "looking")
    /\ sent' = sent + 1
    /\ mine' = [mine EXCEPT ![r] = sent + 1]
    /\ toPeer' = Append(toPeer, sent + 1)
    /\ UNCHANGED <<shared, expired, outcome, reader, up, wire, told, made, late>>

\* The request ends, and with it the hold of the mutex.
End(r, kind, n) ==
    /\ pc' = [pc EXCEPT ![r] = "idle"]
    /\ inFlight' = NoOne
    /\ outcome' = [outcome EXCEPT ![r] = [kind |-> kind, n |-> n]]

(* The socket is closed, or not writable before the deadline, or polling or*)
(* writing it fails, its link being up or not. Nothing was sent.           *)
SendFails(r) ==
    /\ pc[r] = "cleared"
    /\ \/ ~up /\ End(r, "disconnected", 0)
       \/ expired[r] /\ End(r, "timeout", 0)
       \/ End(r, "io", 0)
    /\ UNCHANGED <<reply, stopped, mine, expired, reader, link, told, history>>

(* Each turn of the loop starts with the slot's mutex just taken.          *)
TakeReply(r) ==
    /\ ~SlotHeld
    /\ pc[r] = "looking" /\ reply # 0
    /\ End(r, "answer", reply)
    /\ reply' = 0
    /\ UNCHANGED <<stopped, mine, expired, reader, link, told, history>>

GiveUp(r) ==
    /\ ~SlotHeld
    /\ pc[r] = "looking" /\ reply = 0
    /\ \/ stopped /\ End(r, "disconnected", 0) /\ UNCHANGED late
       \/ ~stopped /\ expired[r] /\ End(r, "timeout", 0) /\ late' = TRUE
    /\ UNCHANGED <<reply, stopped, mine, expired, reader, link, told, sent, made>>

(* Nothing yet: the thread is about to wait, and still holds the mutex.    *)
Park(r) ==
    /\ ~SlotHeld
    /\ reply = 0 /\ ~stopped /\ ~expired[r]
    /\ Goto(r, "looking", "parking")
    /\ UNCHANGED <<shared, mine, expired, outcome, reader, link, told, history>>

Wait(r) ==
    /\ Goto(r, "parking", "waiting")
    /\ UNCHANGED <<shared, mine, expired, outcome, reader, link, told, history>>

(* Mutant: the wait has no timeout. *)
Expire_NotWaiting(r) ==
    /\ pc[r] \in {"cleared", "looking"} /\ ~expired[r]
    /\ expired' = [expired EXCEPT ![r] = TRUE]
    /\ UNCHANGED <<pc, shared, mine, outcome, reader, link, told, history>>

(* The deadline passes; one who waits wakes. *)
Expire(r) ==
    /\ pc[r] \in {"cleared", "looking", "waiting"} /\ ~expired[r]
    /\ expired' = [expired EXCEPT ![r] = TRUE]
    /\ pc' = [pc EXCEPT ![r] = IF @ = "waiting" THEN "looking" ELSE @]
    /\ UNCHANGED <<shared, mine, outcome, reader, link, told, history>>

-----------------------------------------------------------------------------
(* The reader. *)

\* notify_all: whoever waits looks again.
Notify == pc' = [r \in Requesters |-> IF pc[r] = "waiting" THEN "looking" ELSE pc[r]]

(* The flag is down and the socket has something to read. A socket that   *)
(* is down as well counts as closed, and what it still holds stays unread. *)
ReaderPolls ==
    /\ reader = "looping"
    /\ ~stopped /\ up /\ wire # <<>>
    /\ reader' = "readable"
    /\ UNCHANGED <<shared, threads, link, told, history>>

Arrived ==
    /\ reader = "readable" /\ reader' = "looping"
    /\ wire # <<>> /\ wire' = Tail(wire)

(* Mutant: whatever comes is taken for the answer. *)
IsReply_Any(pdu) == TRUE

IsReply(pdu) == pdu.kind = "reply"

ReadReply ==
    /\ ~SlotHeld
    /\ Arrived /\ IsReply(Head(wire))
    /\ reply' = Head(wire).n
    /\ Notify
    /\ UNCHANGED <<inFlight, stopped, mine, expired, outcome, up, toPeer,
                   told, history>>

(* A notification or an indication goes to the sink; what the peer asks of *)
(* us is answered with no state of ours.                                   *)
ReadOther ==
    /\ Arrived /\ ~IsReply(Head(wire))
    /\ told' = IF Head(wire).kind = "value" THEN Append(told, Head(wire)) ELSE told
    /\ UNCHANGED <<shared, threads, up, toPeer, history>>

(* Mutant: the flag alone ends the reader. *)
Ends_Flag == stopped

Ends == stopped \/ ~up

StopReading ==
    /\ reader' = "stopping"
    /\ stopped' = TRUE
    /\ UNCHANGED <<inFlight, reply, threads, link, told, history>>

ReaderStops == reader = "looping" /\ Ends /\ StopReading

(* Polling or reading the socket fails, its link being up or not. *)
ReaderFails == reader \in {"looping", "readable"} /\ StopReading

(* notify_all, without the slot's mutex: a thread between its look and its *)
(* wait is not there to be woken.                                          *)
ReaderNotifies ==
    /\ reader = "stopping"
    /\ reader' = "notified"
    /\ Notify
    /\ UNCHANGED <<shared, mine, expired, outcome, link, told, history>>

(* Mutant: reported as soon as the flag is up, while it still reads. *)
ReportDown_Early ==
    /\ stopped
    /\ told' = Append(told, Down)
    /\ UNCHANGED <<shared, threads, reader, link, history>>

ReportDown ==
    /\ reader = "notified"
    /\ reader' = "gone"
    /\ told' = Append(told, Down)
    /\ UNCHANGED <<shared, threads, link, history>>

-----------------------------------------------------------------------------
(* The peer, the air and the owner. *)

PeerAnswers ==
    /\ up /\ toPeer # <<>>
    /\ wire' = Append(wire, Reply(Head(toPeer)))
    /\ toPeer' = Tail(toPeer)
    /\ UNCHANGED <<shared, threads, reader, up, told, history>>

PeerSpeaks ==
    /\ up /\ made < MaxValues
    /\ made' = made + 1
    /\ \E pdu \in {Value(made + 1), Asked(made + 1)} : wire' = Append(wire, pdu)
    /\ UNCHANGED <<shared, threads, reader, up, toPeer, told, sent, late>>

LinkDrops ==
    /\ up
    /\ up' = FALSE /\ toPeer' = <<>>
    /\ UNCHANGED <<shared, threads, reader, wire, told, history>>

(* close: the flag, and then the socket, shut both ways. *)
Close ==
    /\ ~stopped
    /\ stopped' = TRUE
    /\ UNCHANGED <<inFlight, reply, threads, reader, link, told, history>>

Shutdown ==
    /\ stopped /\ up
    /\ up' = FALSE /\ toPeer' = <<>>
    /\ UNCHANGED <<shared, threads, reader, wire, told, history>>

-----------------------------------------------------------------------------
Requester(r) ==
    \/ Clear(r) \/ Send(r) \/ SendFails(r) \/ TakeReply(r) \/ GiveUp(r)
    \/ Park(r) \/ Wait(r)

Reader == ReaderPolls \/ ReadReply \/ ReadOther \/ ReaderStops \/ ReaderNotifies \/ ReportDown

Next ==
    \/ \E r \in Requesters : Lock(r) \/ Requester(r) \/ Expire(r)
    \/ Reader \/ ReaderFails
    \/ PeerAnswers \/ PeerSpeaks \/ LinkDrops \/ Close \/ Shutdown

Spec == Init /\ [][Next]_vars

(* A thread that runs goes on, and so do the clock and the reader. Nothing *)
(* is assumed of the peer, nor that anybody closes the connection.         *)
Fairness ==
    /\ \A r \in Requesters : WF_vars(Requester(r)) /\ WF_vars(Expire(r))
    /\ WF_vars(Reader)

FairSpec == Spec /\ Fairness

-----------------------------------------------------------------------------
(* Properties. *)

Busy(r) == pc[r] \in {"cleared", "looking", "parking", "waiting"}

(* Until some request times out, an answer is the answer to the request it *)
(* is given for, whatever notifications, requests of the peer and closing  *)
(* do meanwhile (gatt.rs:9-13).                                            *)
AnswerIsMine ==
    ~late =>
        \A r \in Requesters :
            outcome[r].kind = "answer" => outcome[r].n = mine[r]

(* Until some request times out the peer has at most one unanswered.       *)
OneOutstanding ==
    ~late => Len(toPeer) <= 1

(* What the sink hears is what the peer said, in order, nothing twice and  *)
(* no reply among it, and the disconnection last and once.                 *)
ToldInOrder ==
    /\ \A i, j \in DOMAIN told : i < j /\ told[j].kind = "value" =>
            told[i].kind = "value" /\ told[i].n < told[j].n
    /\ \A i \in DOMAIN told : told[i].kind \in {"value", "down"}
    /\ \A i, j \in DOMAIN told : told[i] = Down /\ told[j] = Down => i = j

(* Every request ends, and the mutex is given up, even if the peer never   *)
(* answers and the socket never closes (gatt.rs:28, 220-237).              *)
RequestEnds == \A r \in Requesters : Busy(r) ~> pc[r] = "idle"

(* However the connection ends, by its link, by close or by an error of the*)
(* reader's own, the sink is told (gatt.rs:569-585, 610-613).              *)
DownReported == (stopped \/ ~up) ~> (reader = "gone")

(* "Send one request and wait for its reply": an answer is never another   *)
(* request's, timeouts or not (gatt.rs:9-13, 212).                         *)
AnswerNeverAnothers ==
    \A r \in Requesters : outcome[r].kind = "answer" => outcome[r].n = mine[r]

(* "Wake anyone waiting on a reply that will never come" (gatt.rs:611):    *)
(* once the reader has notified, nobody is left to wait out a deadline.    *)
NobodyLeftWaiting ==
    reader \in {"notified", "gone"} => \A r \in Requesters : pc[r] # "waiting"
=============================================================================
