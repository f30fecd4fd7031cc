---------------------------- MODULE AppleCentral ----------------------------
(***************************************************************************)
(* One granted peripheral of the CoreBluetooth backend                     *)
(* (webbluetooth-apple/src/backend.rs): requests that wait in first-in-    *)
(* first-out slots for delegate callbacks which carry no request's         *)
(* identity, the device's GATT lock, what a lost link or a lost adapter    *)
(* does to those who wait, and the flow control of unacknowledged writes.  *)
(*                                                                         *)
(* A request is a number. Of the kinds of request those are kept that the  *)
(* code treats differently: "services" stands for opening an L2CAP channel *)
(* too, and "characteristics" for descriptors, reads, acknowledged writes, *)
(* notification changes and the RSSI. Each is about one attribute. What    *)
(* an answer holds, notifications, forgetting and restoring are left out.  *)
(*                                                                         *)
(* CoreBluetooth is assumed to call back once for each request made of a   *)
(* connected peripheral, in order, unless the link goes first; and, as far *)
(* as the backend can know, never for one made of another peripheral.      *)
(***************************************************************************)
EXTENDS Naturals, Sequences, FiniteSets, SequencesExt

CONSTANTS Callers, NoOne,
          MaxRequests,  \* bound: requests registered
          Room          \* unacknowledged writes CoreBluetooth buffers

ASSUME AppleAssumption ==
    /\ NoOne \notin Callers
    /\ MaxRequests \in Nat /\ Room \in Nat \ {0}

Kinds == {"connect", "services", "included", "characteristics", "command"}

\* Under the lock, and after a look at whether the device is connected.
Serialised == Kinds \ {"connect", "command"}
Checked    == {"services", "included"}

VARIABLES
    connected,      \* the record
    lock,           \* the holder of the device's GATT lock
    slots,          \* Pending: the waiters of each kind, oldest first
    pc, kind, mine, reply,  \* each caller's request, and what it was handed
    link,           \* is the peripheral connected?
    dialling,       \* does CoreBluetooth owe a word about a connect?
    asked,          \* the requests it has, of each kind
    losing,         \* how far the report of a lost link has come
    powered,
    buffered,       \* unacknowledged writes in its buffer
    readyDue,       \* is a ReadyToWrite on its way?
    requests,       \* history: requests so far
    unheard,        \* history: is there one nothing will be said about?
    orphaned,       \* history: was one made after its waiter had been failed?
    crowded,        \* history: did two wait for one connect or for room?
    late,           \* history: was room announced that was taken again?
    discarded       \* history: was a write thrown away?

callers == <<lock, pc, kind, mine, reply>>
cb      == <<link, dialling, asked, buffered, readyDue>>
history == <<requests, unheard, orphaned, crowded, late, discarded>>
vars    == <<connected, slots, callers, cb, losing, powered, history>>

Requests == 1 .. MaxRequests

\* What a waiter's channel holds: nothing, an error, or the answer to n.
Reply     == [kind : {"none", "failed", "answer"}, n : 0 .. MaxRequests]
NoReply   == [kind |-> "none", n |-> 0]
Failure   == [kind |-> "failed", n |-> 0]
AnswerTo(n) == [kind |-> "answer", n |-> n]

TypeOK ==
    /\ connected \in BOOLEAN /\ lock \in Callers \cup {NoOne}
    /\ slots \in [Kinds -> Seq(Requests)] /\ asked \in [Kinds -> Seq(Requests)]
    /\ pc \in [Callers -> {"idle", "queued", "ready", "registered", "waiting",
                           "writing"}]
    /\ kind \in [Callers -> Kinds]
    /\ mine \in [Callers -> 0 .. requests] /\ reply \in [Callers -> Reply]
    /\ link \in BOOLEAN /\ dialling \in BOOLEAN /\ powered \in BOOLEAN
    /\ losing \in {"no", "failing", "marking"}
    /\ buffered \in 0 .. Room /\ readyDue \in BOOLEAN
    /\ requests \in 0 .. MaxRequests
    /\ unheard \in BOOLEAN /\ orphaned \in BOOLEAN
    /\ crowded \in BOOLEAN /\ late \in BOOLEAN /\ discarded \in BOOLEAN

Empty == [k \in Kinds |-> <<>>]

Init ==
    /\ connected = FALSE /\ lock = NoOne /\ slots = Empty
    /\ pc = [c \in Callers |-> "idle"]
    /\ kind = [c \in Callers |-> "connect"]
    /\ mine = [c \in Callers |-> 0]
    /\ reply = [c \in Callers |-> NoReply]
    /\ link = FALSE /\ dialling = FALSE /\ asked = Empty
    /\ losing = "no" /\ powered = TRUE
    /\ buffered = 0 /\ readyDue = FALSE
    /\ requests = 0
    /\ unheard = FALSE /\ orphaned = FALSE
    /\ crowded = FALSE /\ late = FALSE /\ discarded = FALSE

Goto(c, from, to) == pc[c] = from /\ pc' = [pc EXCEPT ![c] = to]

\* c's call is over; if it had the lock it gives it back.
Over(c) ==
    /\ lock' = IF lock = c THEN NoOne ELSE lock
    /\ kind' = [kind EXCEPT ![c] = "connect"]
    /\ mine' = [mine EXCEPT ![c] = 0]
    /\ reply' = [reply EXCEPT ![c] = NoReply]

-----------------------------------------------------------------------------
(* A request. *)

Ask(c, k) ==
    /\ requests < MaxRequests
    /\ k = "connect" => powered /\ ~connected
    /\ Goto(c, "idle", IF k \in Serialised THEN "queued" ELSE "ready")
    /\ kind' = [kind EXCEPT ![c] = k]
    /\ UNCHANGED <<connected, lock, slots, mine, reply, cb, losing, powered, history>>

(* The lock is had, and a request that looks finds the device connected;   *)
(* one that does not is refused, and is as if it had not been made.        *)
TakeLock(c) ==
    /\ lock = NoOne
    /\ kind[c] \in Checked => connected
    /\ Goto(c, "queued", "ready")
    /\ lock' = c
    /\ UNCHANGED <<connected, slots, kind, mine, reply, cb, losing, powered, history>>

Refuse(c) ==
    /\ lock = NoOne
    /\ kind[c] \in Checked /\ ~connected
    /\ Goto(c, "queued", "idle")
    /\ Over(c)
    /\ UNCHANGED <<connected, slots, cb, losing, powered, history>>

\* No other has, or has left, a request of c's kind that takes no lock.
AloneWith(c) ==
    kind[c] \in Serialised \/
        /\ slots[kind[c]] = <<>>
        /\ \A b \in Callers \ {c} : kind[b] = kind[c] => pc[b] \in {"idle", "ready"}

(* Slots::enqueue: interest is registered before the call. *)
Register(c) ==
    /\ requests < MaxRequests
    /\ Goto(c, "ready", "registered")
    /\ requests' = requests + 1
    /\ mine' = [mine EXCEPT ![c] = requests + 1]
    /\ slots' = [slots EXCEPT ![kind[c]] = Append(@, requests + 1)]
    /\ crowded' = (crowded \/ ~AloneWith(c))
    /\ UNCHANGED <<connected, lock, kind, reply, cb, losing, powered, unheard,
                   orphaned, late, discarded>>

(* The call into CoreBluetooth. Connecting twice is connecting once. The   *)
(* waiter was registered without holding anything until here: the link may *)
(* have gone and come back since, and the waiter been failed with it.      *)
Call(c) ==
    /\ kind[c] # "command"
    /\ Goto(c, "registered", "waiting")
    /\ IF kind[c] = "connect"
       THEN /\ dialling' = powered
            /\ unheard' = (unheard \/ ~powered)
            /\ UNCHANGED <<asked, orphaned>>
       ELSE /\ asked' = IF link THEN [asked EXCEPT ![kind[c]] = Append(@, mine[c])]
                                ELSE asked
            /\ unheard' = (unheard \/ ~link)
            /\ orphaned' = (orphaned \/ mine[c] \notin ToSet(slots[kind[c]]))
            /\ UNCHANGED dialling
    /\ UNCHANGED <<connected, lock, slots, kind, mine, reply, link, buffered,
                   readyDue, losing, powered, requests, crowded, late, discarded>>

(* The caller finds what it was handed. A writer goes on to write.         *)
Return(c) ==
    /\ reply[c] # NoReply
    /\ kind[c] = "command" => reply[c] = Failure
    /\ Goto(c, "waiting", "idle")
    /\ Over(c)
    /\ UNCHANGED <<connected, slots, cb, losing, powered, history>>

GoOn(c) ==
    /\ kind[c] = "command" /\ reply[c].kind = "answer"
    /\ Goto(c, "waiting", "writing")
    /\ UNCHANGED <<connected, lock, slots, kind, mine, reply, cb, losing, powered,
                   history>>

(* A future is dropped. Its waiter stays where it is. *)
GiveUp(c) ==
    /\ \/ Goto(c, "queued", "idle")
       \/ Goto(c, "waiting", "idle")
    /\ Over(c)
    /\ UNCHANGED <<connected, slots, cb, losing, powered, history>>

-----------------------------------------------------------------------------
(* Unacknowledged writes. *)

(* Mutant: there is no look at the buffer. *)
HasRoom_Always == TRUE

HasRoom == buffered < Room

\* Those who registered one of the requests ns.
Owners(ns) == {c \in Callers : pc[c] \in {"registered", "waiting"} /\ mine[c] \in ns}

Hand(cs, what) == reply' = [c \in Callers |-> IF c \in cs THEN what ELSE reply[c]]

(* There was room: the newest waiter is cancelled, whosever it is.         *)
CanWrite(c) ==
    /\ kind[c] = "command" /\ HasRoom
    /\ Goto(c, "registered", "writing")
    /\ IF slots["command"] = <<>>
       THEN UNCHANGED <<slots, reply>>
       ELSE /\ slots' = [slots EXCEPT !["command"] = Front(@)]
            /\ Hand(Owners({Last(slots["command"])}) \ {c}, Failure)
    /\ UNCHANGED <<connected, lock, kind, mine, cb, losing, powered, history>>

(* Mutant: the waiter is cancelled whatever the buffer says. *)
MustWait_Cancels(c) ==
    /\ kind[c] = "command" /\ ~HasRoom
    /\ Goto(c, "registered", "waiting")
    /\ slots' = [slots EXCEPT !["command"] = SelectSeq(@, LAMBDA n : n # mine[c])]
    /\ UNCHANGED <<connected, lock, kind, mine, reply, cb, losing, powered, history>>

(* There is none, and CoreBluetooth will say when there is. *)
MustWait(c) ==
    /\ kind[c] = "command" /\ ~HasRoom
    /\ Goto(c, "registered", "waiting")
    /\ UNCHANGED <<connected, lock, slots, kind, mine, reply, cb, losing, powered,
                   history>>

Write(c) ==
    /\ Goto(c, "writing", "idle")
    /\ IF buffered < Room
       THEN buffered' = IF link THEN buffered + 1 ELSE buffered
       ELSE UNCHANGED buffered
    /\ discarded' = (discarded \/ buffered = Room)
    /\ Over(c)
    /\ UNCHANGED <<connected, slots, link, dialling, asked, readyDue, losing,
                   powered, requests, unheard, orphaned, crowded, late>>

-----------------------------------------------------------------------------
(* The delegate. *)

(* Mutant: the newest waiter is handed the answer. *)
Oldest_Newest(queue) == Len(queue)

\* Its place in the queue.
Oldest(queue) == 1

(* Slots::resolve: the waiter of kind k is handed the answer to n. A future*)
(* that was dropped had its waiter resolved like any other.                *)
Resolve(k, what) ==
    IF slots[k] = <<>> THEN UNCHANGED <<slots, reply>>
    ELSE /\ slots' = [slots EXCEPT ![k] = RemoveAt(@, Oldest(@))]
         /\ Hand(Owners({slots[k][Oldest(slots[k])]}), what)

(* A callback about an attribute of the peripheral. *)
Answer(k) ==
    /\ asked[k] # <<>>
    /\ asked' = [asked EXCEPT ![k] = Tail(@)]
    /\ Resolve(k, AnswerTo(Head(asked[k])))
    /\ UNCHANGED <<connected, lock, pc, kind, mine, link, dialling, buffered,
                   readyDue, losing, powered, history>>

(* A connect comes to its end: the link, or the word that there is none.   *)
Connected ==
    /\ dialling /\ losing = "no"
    /\ dialling' = FALSE
    /\ \/ /\ link' = TRUE /\ connected' = TRUE
          /\ Resolve("connect", AnswerTo(0))
       \/ /\ ~link /\ UNCHANGED <<link, connected>>
          /\ Resolve("connect", Failure)
    /\ UNCHANGED <<lock, pc, kind, mine, asked, buffered, readyDue, losing, powered,
                   history>>

(* It may be late: what room it tells of can have been taken by a write    *)
(* that looked, and nobody it wakes looks again.                           *)
ReadyToWrite ==
    /\ readyDue
    /\ readyDue' = FALSE
    /\ late' = (late \/ ~HasRoom)
    /\ Resolve("command", AnswerTo(0))
    /\ UNCHANGED <<connected, lock, pc, kind, mine, link, dialling, asked, buffered,
                   losing, powered, requests, unheard, orphaned, crowded, discarded>>

\* CoreBluetooth lets go of what it was doing with the peripheral.
LetGo ==
    /\ link' = FALSE /\ dialling' = FALSE
    /\ asked' = Empty /\ buffered' = 0 /\ readyDue' = FALSE

(* The link drops, is closed, or a connect is given up. *)
LinkGoes ==
    /\ link \/ dialling
    /\ losing = "no"
    /\ LetGo
    /\ losing' = "failing"
    /\ UNCHANGED <<connected, slots, callers, powered, history>>

(* Mutant: a kind of request is left out. *)
FailedWithLink_NotServices == {"connect", "characteristics"}

(* The kinds Pending::fail_peripheral goes through. *)
FailedWithLink == {"connect", "services", "characteristics"}

FailPeripheral ==
    LET failed == UNION {ToSet(slots[k]) : k \in FailedWithLink} IN
    /\ slots' = [k \in Kinds |-> IF k \in FailedWithLink THEN <<>> ELSE slots[k]]
    /\ Hand(Owners(failed), Failure)

(* on_disconnected: whoever waits is failed ... *)
Fail ==
    /\ losing = "failing"
    /\ losing' = "marking"
    /\ FailPeripheral
    /\ UNCHANGED <<connected, lock, pc, kind, mine, cb, powered, history>>

(* ... and the record says so. *)
Mark ==
    /\ losing = "marking"
    /\ losing' = "no"
    /\ connected' = FALSE
    /\ UNCHANGED <<slots, callers, cb, powered, history>>

(* on_state_changed: the links are gone, and those that were known of are  *)
(* cleared up after.                                                       *)
PowerOff ==
    /\ powered /\ losing = "no"
    /\ powered' = FALSE
    /\ LetGo
    /\ connected' = FALSE
    /\ IF connected THEN FailPeripheral ELSE UNCHANGED <<slots, reply>>
    /\ unheard' = (unheard \/ (~connected /\ (link \/ dialling)))
    /\ UNCHANGED <<lock, pc, kind, mine, losing, requests, orphaned, crowded,
                   late, discarded>>

PowerOn ==
    /\ ~powered
    /\ powered' = TRUE
    /\ UNCHANGED <<connected, slots, callers, cb, losing, history>>

(* request_device again says that the device is not connected, adopt_device*)
(* asks.                                                                   *)
Grant ==
    /\ losing = "no"
    /\ connected' \in {FALSE, link}
    /\ UNCHANGED <<slots, callers, cb, losing, powered, history>>

(* The radio sends what was buffered; the buffer was full, and is not.     *)
Sent ==
    /\ buffered > 0
    /\ buffered' = buffered - 1
    /\ readyDue' = (readyDue \/ buffered = Room)
    /\ UNCHANGED <<connected, slots, callers, link, dialling, asked, losing, powered,
                   history>>

-----------------------------------------------------------------------------
CallerStep(c) ==
    \/ TakeLock(c) \/ Refuse(c) \/ Register(c) \/ Call(c) \/ Return(c)
    \/ CanWrite(c) \/ MustWait(c) \/ GoOn(c) \/ Write(c)

Next ==
    \/ \E c \in Callers, k \in Kinds : Ask(c, k)
    \/ \E c \in Callers : CallerStep(c) \/ GiveUp(c)
    \/ \E k \in Kinds : Answer(k)
    \/ Connected \/ ReadyToWrite \/ LinkGoes \/ Fail \/ Mark
    \/ PowerOff \/ PowerOn \/ Grant \/ Sent

Spec == Init /\ [][Next]_vars

(* A task that can go on does. A request of a connected peripheral is      *)
(* answered or the link goes; so is a connect. What is buffered is sent.   *)
(* The delegate's callbacks are delivered.                                 *)
Fairness ==
    /\ \A c \in Callers : WF_vars(CallerStep(c))
    /\ \A k \in Kinds : WF_vars(Answer(k))
    /\ WF_vars(Connected) /\ WF_vars(ReadyToWrite) /\ WF_vars(Sent)
    /\ WF_vars(Fail) /\ WF_vars(Mark)

FairSpec == Spec /\ Fairness

-----------------------------------------------------------------------------
(* Properties. *)

(* Though callbacks name no request, a caller is handed the answer to its  *)
(* own, whoever gave up before it and however often the link went, as long *)
(* as every request is heard of, none is made after its waiter was failed, *)
(* and its kind is failed with the link (backend.rs:66-88, 108-121; test   *)
(* a_reply_goes_to_the_oldest_waiter).                                     *)
AnswerIsMine ==
    ~unheard /\ ~orphaned => \A c \in Callers :
        /\ pc[c] = "waiting" /\ reply[c].kind = "answer"
        /\ kind[c] \in FailedWithLink \ {"connect"}
        => reply[c].n = mine[c]

Waits(c, k) == pc[c] = "waiting" /\ kind[c] = k

(* A request CoreBluetooth has is answered, or failed with the link: "a    *)
(* dropped link never leaves a future hanging" (backend.rs:108-110).       *)
EndsWithLink ==
    \A c \in Callers, k \in {"services", "characteristics"} :
        Waits(c, k) ~> ~Waits(c, k) \/ unheard

(* The same is said of all of them, the device's lock included: "a request *)
(* that is never failed would deadlock the device forever"                 *)
(* (backend.rs:1459-1460).                                                 *)
IncludedEndsWithLink ==
    \A c \in Callers :
        Waits(c, "included") ~> ~Waits(c, "included") \/ unheard

(* A lone writer that waits because the buffer is full goes on while the   *)
(* link it waits for stays up: interest is registered before the check     *)
(* (backend.rs:1174-1176).                                                 *)
WriterResumes ==
    \A c \in Callers :
        Waits(c, "command") /\ ~HasRoom ~> ~Waits(c, "command") \/ ~link \/ crowded

(* A write is never thrown away, where one at a time is made and no room   *)
(* is announced that was taken again (backend.rs:1167-1176).               *)
NoneDiscarded == ~crowded /\ ~late => ~discarded
=============================================================================
