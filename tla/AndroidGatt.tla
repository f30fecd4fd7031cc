---------------------------- MODULE AndroidGatt -----------------------------
(***************************************************************************)
(* One device of the Android backend (webbluetooth-android/src/backend.rs):*)
(* BluetoothGatt clients that come and go with its connections, callbacks  *)
(* that name a client and not a request, slots of waiters that an answer   *)
(* empties, and a stack that has one operation at a time.                  *)
(*                                                                         *)
(* A client is a number, in the order of the connectGatt calls. A request  *)
(* is a number free when it is made. Those who wait in a slot are the      *)
(* callers whose request is of its kind and who have been handed nothing:  *)
(* a waiter whose future is gone, which the code leaves there, is handed   *)
(* what nobody sees. "read" stands for every operation under the lock, a   *)
(* descriptor's write and a subscription, which share a callback, included.*)
(* "services" stands for what connect asks for without the lock, the larger*)
(* MTU and the discovery. The PHY, asked for without the lock too, what an *)
(* answer holds, bonds and notifications are left out.                     *)
(*                                                                         *)
(* Android is assumed to call back about one client in order, on any       *)
(* thread; to say once whether a connection was made and, if so, once that *)
(* it ended; to answer what it took of a client that stays connected; and  *)
(* to refuse an operation of one that is not, or is busy with anything;    *)
(* whether it takes a busy client's discovery is left open, and two that it*)
(* has are answered as one.                                                *)
(***************************************************************************)
EXTENDS Naturals, Sequences, SequencesExt

CONSTANTS Callers, NoOne,
          MaxClients,   \* bound: connectGatt calls
          MaxRequests   \* bound: requests under way at once

ASSUME AndroidAssumption ==
    NoOne \notin Callers /\ MaxClients \in Nat /\ MaxRequests \in Nat

Kinds == {"connect", "services", "read"}

Clients  == 1 .. MaxClients
Requests == 1 .. MaxRequests

VARIABLES
    granted, connected,   \* the record ...
    gatt,                 \* ... and its client, 0 for none
    lock,                 \* the holder of the device's GATT lock
    pc, kind, mine, own, reply, \* each caller's request, its client, and what
                          \* it was handed
    clients,              \* connectGatt calls so far
    state,                \* each client's connection
    inflight,             \* what each is doing: [kind, n]
    calls,                \* each client's callbacks to come
    unheard,              \* history: is there a waiter nothing will be said to?
    abandoned             \* history: was the lock given up before the answer?

record  == <<granted, connected, gatt>>
request == <<lock, kind, mine, own, reply>>
android == <<clients, state, inflight, calls>>
history == <<unheard, abandoned>>
vars    == <<record, pc, request, android, history>>

\* What a waiter's channel holds: nothing, an error, or the answer to n.
Reply     == [kind : {"none", "failed", "answer"}, n : 0 .. MaxRequests]
NoReply   == [kind |-> "none", n |-> 0]
Failure   == [kind |-> "failed", n |-> 0]
AnswerTo(n) == [kind |-> "answer", n |-> n]

Operation == [kind : Kinds \ {"connect"}, n : 0 .. MaxRequests]
Callback  == [kind : Kinds \cup {"up", "down", "clear", "mark"}, n : 0 .. MaxRequests]

TypeOK ==
    /\ granted \in BOOLEAN /\ connected \in BOOLEAN /\ gatt \in 0 .. clients
    /\ lock \in Callers \cup {NoOne}
    /\ pc \in [Callers -> {"idle", "dialled", "waiting"}]
    /\ kind \in [Callers -> Kinds] /\ mine \in [Callers -> 0 .. MaxRequests]
    /\ own \in [Callers -> 0 .. clients]
    /\ reply \in [Callers -> Reply]
    /\ clients \in 0 .. MaxClients
    /\ state \in [Clients -> {"none", "dialling", "up", "down", "closed"}]
    /\ inflight \in [Clients -> SUBSET Operation]
    /\ calls \in [Clients -> Seq(Callback)]
    /\ unheard \in BOOLEAN /\ abandoned \in BOOLEAN

Init ==
    /\ granted = FALSE /\ connected = FALSE /\ gatt = 0
    /\ lock = NoOne
    /\ pc = [c \in Callers |-> "idle"] /\ kind = [c \in Callers |-> "connect"]
    /\ mine = [c \in Callers |-> 0] /\ own = [c \in Callers |-> 0]
    /\ reply = [c \in Callers |-> NoReply]
    /\ clients = 0 /\ state = [g \in Clients |-> "none"]
    /\ inflight = [g \in Clients |-> {}] /\ calls = [g \in Clients |-> <<>>]
    /\ unheard = FALSE /\ abandoned = FALSE

Goto(c, from, to) == pc[c] = from /\ pc' = [pc EXCEPT ![c] = to]

\* c's call is over; if it had the lock it gives it back.
Over(c) ==
    /\ lock' = IF lock = c THEN NoOne ELSE lock
    /\ kind' = [kind EXCEPT ![c] = "connect"]
    /\ mine' = [mine EXCEPT ![c] = 0] /\ own' = [own EXCEPT ![c] = 0]
    /\ reply' = [reply EXCEPT ![c] = NoReply]

\* The operations nobody has to do with any more.
Free == {n \in Requests :
            /\ \A c \in Callers : mine[c] # n
            /\ \A g \in Clients :
                /\ \A op \in inflight[g] : op.n # n
                /\ \A op \in ToSet(calls[g]) : op.n # n}

\* Client g takes a request.
Takes(g, k, n) == inflight' = [inflight EXCEPT ![g] = @ \cup {[kind |-> k, n |-> n]}]

\* A connected client takes one operation at a time, of whatever kind.
Busy(g)    == inflight[g] # {}
Accepts(g) == state[g] = "up" /\ ~Busy(g)

-----------------------------------------------------------------------------
(* Connecting. *)

(* It is not connected: a waiter is registered, connectGatt is called ...  *)
ConnectGatt(c) ==
    /\ granted /\ ~connected /\ clients < MaxClients
    /\ Goto(c, "idle", "dialled")
    /\ clients' = clients + 1
    /\ own' = [own EXCEPT ![c] = clients + 1]
    /\ state' = [state EXCEPT ![clients + 1] = "dialling"]
    /\ UNCHANGED <<record, lock, kind, mine, reply, inflight, calls, history>>

(* ... and then the client recorded, if the device is still granted.       *)
Record(c) ==
    /\ Goto(c, "dialled", "waiting")
    /\ gatt' = IF granted THEN own[c] ELSE gatt
    /\ UNCHANGED <<granted, connected, request, android, history>>

(* The link is there: the services of the recorded client are asked for,   *)
(* lock or no lock, and nobody looks at whether Android took the request.  *)
Discover(c) ==
    /\ kind[c] = "connect" /\ reply[c].kind = "answer"
    /\ granted /\ gatt # 0
    /\ Goto(c, "waiting", "waiting")
    /\ \/ state[gatt] = "up" /\ Takes(gatt, "services", 0) /\ UNCHANGED unheard
       \/ ~Accepts(gatt) /\ unheard' = TRUE /\ UNCHANGED inflight
    /\ kind' = [kind EXCEPT ![c] = "services"]
    /\ own' = [own EXCEPT ![c] = gatt]
    /\ reply' = [reply EXCEPT ![c] = NoReply]
    /\ UNCHANGED <<record, lock, mine, clients, state, calls, abandoned>>

NoClient(c) ==
    /\ kind[c] = "connect" /\ reply[c].kind = "answer"
    /\ ~granted \/ gatt = 0
    /\ Goto(c, "waiting", "idle")
    /\ Over(c)
    /\ UNCHANGED <<record, android, history>>

-----------------------------------------------------------------------------
(* An operation on the recorded client. *)

(* Mutant: the lock is not waited for. *)
LockFree_Always == TRUE

LockFree == lock = NoOne

(* The lock is had and there is a client: a waiter is registered, the call *)
(* made, and Android takes it. When it does not, or there is no client,    *)
(* the caller is told so at once, and it is as if it had not called.       *)
Call(c) ==
    /\ LockFree
    /\ granted /\ gatt # 0 /\ Accepts(gatt)
    /\ Goto(c, "idle", "waiting")
    /\ lock' = c
    /\ Free # {}
    /\ LET n == CHOOSE m \in Free : TRUE IN
        Takes(gatt, "read", n) /\ mine' = [mine EXCEPT ![c] = n]
    /\ kind' = [kind EXCEPT ![c] = "read"]
    /\ own' = [own EXCEPT ![c] = gatt]
    /\ UNCHANGED <<record, reply, clients, state, calls, history>>

(* The caller finds what it was handed. *)
Return(c) ==
    /\ reply[c] # NoReply
    /\ kind[c] = "connect" => reply[c] = Failure
    /\ Goto(c, "waiting", "idle")
    /\ Over(c)
    /\ UNCHANGED <<record, android, history>>

(* A future is dropped while it waits. Bound: one is, while the lock has   *)
(* been kept so far.                                                       *)
GiveUp(c) ==
    /\ ~abandoned
    /\ abandoned' = TRUE
    /\ Goto(c, "waiting", "idle")
    /\ Over(c)
    /\ UNCHANGED <<record, android, unheard>>

-----------------------------------------------------------------------------
(* Granting and forgetting. *)

(* request_device: whatever client the record had is dropped from it, and  *)
(* neither disconnected nor closed.                                        *)
Grant ==
    /\ granted' = TRUE /\ connected' = FALSE /\ gatt' = 0
    /\ UNCHANGED <<pc, request, android, history>>

(* forget: a recorded client is disconnected and closed. Those who wait    *)
(* for it are not told. The next record will have a lock of its own.       *)
Forget ==
    /\ granted
    /\ granted' = FALSE /\ connected' = FALSE /\ gatt' = 0
    /\ IF gatt = 0 THEN UNCHANGED <<state, inflight>>
       ELSE /\ state' = [state EXCEPT ![gatt] = "closed"]
            /\ inflight' = [inflight EXCEPT ![gatt] = {}]
    /\ unheard' = (unheard \/ \E c \in Callers : own[c] # 0)
    /\ abandoned' = (abandoned \/ lock # NoOne)
    /\ lock' = NoOne
    /\ UNCHANGED <<pc, kind, mine, own, reply, clients, calls>>

-----------------------------------------------------------------------------
(* Android. *)

Due(g, k, n) == calls' = [calls EXCEPT ![g] = Append(@, [kind |-> k, n |-> n])]

Established(g) ==
    /\ state[g] = "dialling"
    /\ state' = [state EXCEPT ![g] = "up"]
    /\ Due(g, "up", 0)
    /\ UNCHANGED <<record, pc, request, clients, inflight, history>>

(* A connection is not made, drops, or is closed by disconnect.            *)
Drop(g) ==
    /\ state[g] \in {"dialling", "up"}
    /\ state' = [state EXCEPT ![g] = "down"]
    /\ inflight' = [inflight EXCEPT ![g] = {}]
    /\ Due(g, "down", 0)
    /\ UNCHANGED <<record, pc, request, clients, history>>

Complete(g, k) ==
    \E op \in inflight[g] :
        /\ op.kind = k
        /\ inflight' = [inflight EXCEPT ![g] = @ \ {op}]
        /\ Due(g, op.kind, op.n)
        /\ UNCHANGED <<record, pc, request, clients, state, history>>

-----------------------------------------------------------------------------
(* Callbacks. *)

(* Mutant: whichever client is meant, the device is. *)
IsRecorded_Any(g) == granted

(* id_for_gatt: a callback about another client is dropped. *)
IsRecorded(g) == granted /\ gatt = g

\* A callback that is dropped may be all that would be said to those who wait.
Unheard(g) == unheard' = (unheard \/ (~IsRecorded(g) /\ \E c \in Callers : own[c] = g))

\* Pending::resolve and fail: everyone who waits for a kind of ks.
Resolve(ks, what) ==
    reply' = [c \in Callers |->
        IF /\ pc[c] \in {"dialled", "waiting"} /\ kind[c] \in ks
           /\ reply[c] = NoReply
        THEN what ELSE reply[c]]

\* The next callback about g, which is about a k.
Coming(g, k) == calls[g] # <<>> /\ Head(calls[g]).kind = k

Done(g) == calls' = [calls EXCEPT ![g] = Tail(@)]

OnConnected(g) ==
    /\ Coming(g, "up") /\ Done(g)
    /\ IF IsRecorded(g)
       THEN connected' = TRUE /\ Resolve({"connect"}, AnswerTo(0))
       ELSE UNCHANGED connected /\ UNCHANGED reply
    /\ Unheard(g)
    /\ UNCHANGED <<granted, gatt, pc, lock, kind, mine, own, clients, state,
                   inflight, abandoned>>

OnAnswer(g, k) ==
    /\ Coming(g, k) /\ Done(g)
    /\ IF IsRecorded(g) THEN Resolve({k}, AnswerTo(Head(calls[g]).n))
                        ELSE UNCHANGED reply
    /\ Unheard(g)
    /\ UNCHANGED <<record, pc, lock, kind, mine, own, clients, state, inflight,
                   abandoned>>

(* Mutant: a slot is left out. *)
FailedWithLink_NotRead == {"connect", "services"}

(* The slots Pending::fail goes through. *)
FailedWithLink == Kinds

Then(g, k) == calls' = [calls EXCEPT ![g] = <<[kind |-> k, n |-> 0]>> \o Tail(@)]

(* The link of the recorded client is gone: whoever waits is failed ...    *)
OnDisconnected(g) ==
    /\ Coming(g, "down")
    /\ IF IsRecorded(g) THEN Then(g, "clear") /\ Resolve(FailedWithLink, Failure)
                        ELSE Done(g) /\ UNCHANGED reply
    /\ Unheard(g)
    /\ UNCHANGED <<record, pc, lock, kind, mine, own, clients, state, inflight,
                   abandoned>>

(* ... the record has no client, whichever it had; the client is not closed*)
Clear(g) ==
    /\ Coming(g, "clear") /\ Then(g, "mark")
    /\ gatt' = 0
    /\ UNCHANGED <<granted, connected, pc, request, clients, state, inflight,
                   history>>

(* ... and says that it is not connected. *)
Mark(g) ==
    /\ Coming(g, "mark") /\ Done(g)
    /\ connected' = FALSE
    /\ UNCHANGED <<granted, gatt, pc, request, clients, state, inflight, history>>

-----------------------------------------------------------------------------
CallerStep(c) == Record(c) \/ Discover(c) \/ NoClient(c) \/ Return(c)

Callbacks(g) ==
    \/ OnConnected(g) \/ OnDisconnected(g) \/ Clear(g) \/ Mark(g)
    \/ \E k \in Kinds : OnAnswer(g, k)

Next ==
    \/ \E c \in Callers : ConnectGatt(c) \/ Call(c) \/ CallerStep(c) \/ GiveUp(c)
    \/ Grant \/ Forget
    \/ \E g \in Clients :
        \/ Established(g) \/ Drop(g) \/ Callbacks(g)
        \/ \E k \in Kinds : Complete(g, k)

Spec == Init /\ [][Next]_vars

(* A task that can go on does. Android connects or gives up, and answers   *)
(* what it took; its callbacks are made.                                   *)
Fairness ==
    /\ \A c \in Callers : WF_vars(CallerStep(c))
    /\ \A g \in Clients :
        /\ WF_vars(Established(g) \/ (Drop(g) /\ state[g] = "dialling"))
        /\ WF_vars(Complete(g, "services")) /\ WF_vars(Complete(g, "read"))
        /\ WF_vars(Callbacks(g))

FairSpec == Spec /\ Fairness

-----------------------------------------------------------------------------
(* Properties. *)

(* Though an answer empties a slot and names no request, it reaches the one*)
(* it is the answer to, across any number of clients and as long   *)
(* as the lock was held until the answer (backend.rs:428-448).             *)
AnswerIsMine ==
    ~abandoned => \A c \in Callers :
        reply[c].kind = "answer" /\ kind[c] = "read" => reply[c].n = mine[c]

(* No operation that waited for the lock is refused for another that had   *)
(* it, so that "concurrent writes" do not turn "into refusals"             *)
(* (backend.rs:1082-1092), as long as the lock was held until the answer.  *)
(* The lock does not serialise what connect asks for: that can be under way.*)
NoneRefused ==
    ~abandoned /\ lock = NoOne =>
        \A g \in Clients : gatt = g => \A op \in inflight[g] : op.kind = "services"

(* What that passage claims: whoever gets the lock is not refused, by      *)
(* connect's own requests either (backend.rs:987-998). It does not hold.   *)
NeverRefused ==
    ~abandoned /\ lock = NoOne =>
        \A g \in Clients : gatt = g /\ state[g] = "up" => Accepts(g)

(* What waits on a client whose callbacks are not dropped comes to an end: *)
(* "a dropped link never leaves a future hanging or the device's lock held"*)
(* (backend.rs:123-124).                                                   *)
RequestEnds ==
    \A c \in Callers :
        pc[c] = "waiting" ~> pc[c] # "waiting" \/ unheard

(* When the end of a client's link has taken it out of the record, which   *)
(* was all that named it, it has been closed: "leaking them stops the app  *)
(* connecting at all until it restarts" (backend.rs:896-897).              *)
ClosedWithLink == \A g \in Clients : Coming(g, "mark") => state[g] = "closed"
=============================================================================
