----------------------------- MODULE LinkStreams -----------------------------
(***************************************************************************)
(* What hangs on a link through the facade (webbluetooth/src/gatt.rs): the *)
(* notification streams, which the registry's report of a disconnection    *)
(* must end, and disconnect_and_wait, which waits for that report.         *)
(*                                                                         *)
(* A watcher of the registry is one such call or stream, used once. There  *)
(* is one characteristic to a device, at a handle no other device uses.    *)
(* The backend's map of senders is keyed by device and handle and outlives *)
(* links; a value goes to every sender under its key, and a sender whose   *)
(* stream has gone is dropped when it is found so. What is backend's here  *)
(* is the raw HCI backend's.                                               *)
(* The queues are unbounded here: Backlog has their limit and their wakers. *)
(***************************************************************************)
EXTENDS Registry, Sequences

CONSTANTS MaxValues,    \* bound: values the peer ever notifies
          MaxLinks      \* bound: links to one device, one after the other

ASSUME StreamsAssumption == MaxValues \in Nat /\ MaxLinks \in Nat

VARIABLES
    oneThread, \* do platform callbacks and tasks share a thread?
    task,      \* where each call or stream is
    of,        \* its device
    queue,     \* the values queued to the stream
    subs,      \* the streams with a sender in the backend's map
    heard,     \* how many of its signals each has taken
    enabled,   \* devices whose peer has notifications enabled
    asked,     \* devices whose link was up and is being closed
    made,      \* history: values so far
    link,      \* history: which of the device's links is the current one
    since,     \* history: the link each stream was opened on
    halfTold,  \* history: was a report half-way when it began to watch?
    cut        \* history: was its device forgotten since it began?

streaming == <<task, of, queue, subs, heard, enabled, asked>>
past      == <<made, link, since, halfTold, cut, oneThread>>
varsL     == <<vars, streaming, past>>

ValueOf == [n : 1 .. MaxValues, link : Nat]

\* A task that has yet to come to its await.
Midway == {"checked", "subscribed", "between", "watching"}

Tasks == Midway \cup {"none", "enabling", "reading", "parked", "ended",
                      "asking", "waiting", "waited", "returned", "dropped"}

TypeOKL ==
    /\ TypeOK
    /\ task \in [Watchers -> Tasks]
    /\ of \in [Watchers -> Devices \cup {NoDevice}]
    /\ queue \in [Watchers -> Seq(ValueOf)]
    /\ subs \subseteq Watchers
    /\ heard \in [Watchers -> Nat]
    /\ \A w \in Watchers : heard[w] <= signals[w]
    /\ enabled \subseteq Devices /\ asked \subseteq Devices
    /\ made \in 0 .. MaxValues
    /\ link \in [Devices -> Nat] /\ since \in [Watchers -> Nat]
    /\ halfTold \in [Watchers -> BOOLEAN] /\ cut \in [Watchers -> BOOLEAN]
    /\ oneThread \in BOOLEAN

InitL ==
    /\ Init
    /\ task = [w \in Watchers |-> "none"]
    /\ of = [w \in Watchers |-> NoDevice]
    /\ queue = [w \in Watchers |-> <<>>]
    /\ subs = {} /\ heard = [w \in Watchers |-> 0]
    /\ enabled = {} /\ asked = {}
    /\ made = 0
    /\ link = [d \in Devices |-> 0] /\ since = [w \in Watchers |-> 0]
    /\ halfTold = [w \in Watchers |-> FALSE]
    /\ cut = [w \in Watchers |-> FALSE]
    /\ oneThread \in BOOLEAN

Advance(w, from, to) == task[w] = from /\ task' = [task EXCEPT ![w] = to]

\* On one thread nothing else runs until the next await.
MayRun(w) == oneThread => \A v \in Watchers \ {w} : task[v] \notin Midway
NobodyBetween == oneThread => \A v \in Watchers : task[v] \notin Midway

\* What w is told of when it begins to watch d.
Begin(w, d) ==
    /\ Watch(w, d)
    /\ halfTold' = [halfTold EXCEPT ![w] = telling[d] > 0]

-----------------------------------------------------------------------------
(* start_notifications and the stream. *)

(* Its handle is current: GattHandles has how that is found out. *)
CheckHandle(w, d) ==
    /\ NobodyBetween
    /\ d \in granted /\ connected[d]
    /\ Advance(w, "none", "checked")
    /\ of' = [of EXCEPT ![w] = d]
    /\ since' = [since EXCEPT ![w] = link[d]]
    /\ UNCHANGED <<vars, queue, subs, heard, enabled, asked, made, link,
                   halfTold, cut, oneThread>>

(* The sender goes under the key of every device there is; a device that   *)
(* was forgotten since the check is not among them.                        *)
Subscribe(w) ==
    /\ MayRun(w)
    /\ Advance(w, "checked", "subscribed")
    /\ subs' = IF of[w] \in granted THEN subs \cup {w} ELSE subs
    /\ cut' = [cut EXCEPT ![w] = of[w] \notin granted]
    /\ UNCHANGED <<vars, of, queue, heard, enabled, asked, made, link, since,
                   halfTold, oneThread>>

WatchDisconnect(w) ==
    /\ MayRun(w)
    /\ Advance(w, "subscribed", "enabling")
    /\ Begin(w, of[w])
    /\ UNCHANGED <<of, queue, subs, heard, enabled, asked, made, link, since,
                   cut, oneThread>>

Enable(w) ==
    /\ NobodyBetween
    /\ of[w] \in granted /\ connected[of[w]]
    /\ Advance(w, "enabling", "reading")
    /\ enabled' = enabled \cup {of[w]}
    /\ UNCHANGED <<vars, of, queue, subs, heard, asked, past>>

(* set_notify fails, or a stream or the future of a wait is dropped. A     *)
(* sender stays in the map.                                                *)
Drop(w) ==
    /\ NobodyBetween
    /\ task[w] \in {"enabling", "reading", "parked", "ended", "waiting"}
    /\ task' = [task EXCEPT ![w] = "dropped"]
    /\ queue' = [queue EXCEPT ![w] = <<>>]
    /\ IF listening[w] = NoDevice THEN UNCHANGED vars ELSE Unwatch(w)
    /\ UNCHANGED <<of, subs, heard, enabled, asked, past>>

StopNotifications(d) ==
    /\ NobodyBetween
    /\ connected[d] /\ d \in enabled
    /\ enabled' = enabled \ {d}
    /\ UNCHANGED <<vars, task, of, queue, subs, heard, asked, past>>

Signalled(w) == heard[w] < signals[w]

(* Mutant: the end of the disconnections is not the end of the values.     *)
Over_Signal(w) == Signalled(w)

(* A disconnection, or no one left to report one. *)
Over(w) == Signalled(w) \/ listening[w] = NoDevice

(* A parked stream is woken by what either of its halves has to say.       *)
Polled(w) ==
    \/ task[w] = "reading"
    \/ task[w] = "parked" /\ (queue[w] # <<>> \/ Over(w))

(* Mutant: the values are left where they are. *)
PollValues_Skips(w) ==
    /\ MayRun(w)
    /\ Polled(w)
    /\ task' = [task EXCEPT ![w] = "between"]
    /\ UNCHANGED <<vars, of, queue, subs, heard, enabled, asked, past>>

(* poll_until_disconnect: the values first, which end if they never had a  *)
(* sender.                                                                 *)
PollValues(w) ==
    /\ MayRun(w)
    /\ Polled(w)
    /\ task' = [task EXCEPT ![w] = IF queue[w] # <<>> THEN "reading"
                                  ELSE IF w \in subs THEN "between" ELSE "ended"]
    /\ queue' = [queue EXCEPT ![w] = IF @ # <<>> THEN Tail(@) ELSE @]
    /\ UNCHANGED <<vars, of, subs, heard, enabled, asked, past>>

(* ... and then the disconnections. *)
PollDisconnects(w) ==
    /\ MayRun(w)
    /\ Advance(w, "between", IF Over(w) THEN "ended" ELSE "parked")
    /\ heard' = [heard EXCEPT ![w] = IF Signalled(w) THEN @ + 1 ELSE @]
    /\ UNCHANGED <<vars, of, queue, subs, enabled, asked, past>>

-----------------------------------------------------------------------------
(* disconnect_and_wait. *)

WatchFirst(w, d) ==
    /\ NobodyBetween
    /\ Advance(w, "none", "watching")
    /\ of' = [of EXCEPT ![w] = d]
    /\ Begin(w, d)
    /\ UNCHANGED <<queue, subs, heard, enabled, asked, made, link, since, cut,
                   oneThread>>

AskToClose(w) ==
    /\ MayRun(w)
    /\ Advance(w, "watching", "asking")
    /\ asked' = IF connected[of[w]] THEN asked \cup {of[w]} ELSE asked
    /\ UNCHANGED <<vars, of, queue, subs, heard, enabled, past>>

(* The platform may have reported the end from inside the call.            *)
LookIfConnected(w) ==
    /\ NobodyBetween
    /\ Advance(w, "asking", IF connected[of[w]] THEN "waiting" ELSE "returned")
    /\ UNCHANGED <<vars, of, queue, subs, heard, enabled, asked, past>>

WaitEnds(w) ==
    /\ NobodyBetween
    /\ Over(w)
    /\ Advance(w, "waiting", "waited")
    /\ heard' = [heard EXCEPT ![w] = IF Signalled(w) THEN @ + 1 ELSE @]
    /\ UNCHANGED <<vars, of, queue, subs, enabled, asked, past>>

-----------------------------------------------------------------------------
(* The backend: its callbacks, and the registry's operations.              *)

\* Those whose stream still exists.
Alive == {w \in subs : task[w] \in {"subscribed", "enabling", "reading", "between",
                                    "parked", "ended"}}

Notify(d) ==
    LET to == {w \in Alive : of[w] = d}
        v  == [n |-> made + 1, link |-> link[d]] IN
    /\ NobodyBetween
    /\ d \in enabled /\ connected[d] /\ made < MaxValues
    /\ made' = made + 1
    /\ queue' = [w \in Watchers |->
                   IF w \in to THEN Append(queue[w], v) ELSE queue[w]]
    /\ subs' = {w \in subs : of[w] = d => w \in to}
    /\ UNCHANGED <<vars, task, of, heard, enabled, asked, link, since,
                   halfTold, cut, oneThread>>

Connects(d) ==
    /\ link[d] < MaxLinks
    /\ LinkUp(d)
    /\ link' = [link EXCEPT ![d] = @ + 1]
    /\ UNCHANGED <<streaming, made, since, halfTold, cut, oneThread>>

(* The link drops, asked for or not; a peer forgets who was notified.      *)
Disconnects(d) ==
    /\ connected[d] \/ d \in asked
    /\ MarkDisconnected(d)
    /\ enabled' = enabled \ {d} /\ asked' = asked \ {d}
    /\ UNCHANGED <<task, of, queue, subs, heard, past>>

Forget(d) ==
    /\ RemoveListeners(d)
    /\ cut' = [w \in Watchers |-> cut[w] \/ listening[w] = d]
    /\ UNCHANGED <<streaming, made, link, since, halfTold, oneThread>>

(* The backend closes the link of a record that is removed, and reports it. *)
Forgotten(d) ==
    /\ RemoveRecord(d)
    /\ enabled' = enabled \ {d}
    /\ asked' = IF connected[d] THEN asked \cup {d} ELSE asked
    /\ UNCHANGED <<task, of, queue, subs, heard, past>>

(* A grant, a second one too, records a device without a connection: the   *)
(* one it had is dropped, and so closed, and that will be reported.        *)
Grant(d, services) ==
    /\ Insert(d, services, FALSE)
    /\ enabled' = enabled \ {d}
    /\ asked' = IF connected[d] THEN asked \cup {d} ELSE asked
    /\ UNCHANGED <<task, of, queue, subs, heard, past>>

Callback(d) ==
    \/ Connects(d) \/ Disconnects(d) \/ Forget(d) \/ Forgotten(d)
    \/ \E services \in SUBSET Services : Grant(d, services)
    \/ (MarkServicesChanged(d) \/ TellDisconnected(d)) /\ UNCHANGED <<streaming, past>>

-----------------------------------------------------------------------------
Starting(w) == Subscribe(w) \/ WatchDisconnect(w)

Stream(w) == Enable(w) \/ PollValues(w) \/ PollDisconnects(w)

Waiting(w) == AskToClose(w) \/ LookIfConnected(w) \/ WaitEnds(w)

NextL ==
    \/ \E w \in Watchers, d \in Devices : CheckHandle(w, d) \/ WatchFirst(w, d)
    \/ \E w \in Watchers : Starting(w) \/ Stream(w) \/ Drop(w) \/ Waiting(w)
    \/ \E d \in Devices : Notify(d) \/ StopNotifications(d)
    \/ NobodyBetween /\ \E d \in Devices : Callback(d)

SpecL == InitL /\ [][NextL]_varsL

(* A task that can go on is polled: the streams wake it. A report begun is *)
(* finished, and a backend asked to close a link reports it closed.        *)
FairnessL ==
    /\ \A w \in Watchers :
        WF_varsL(Starting(w)) /\ WF_varsL(Stream(w)) /\ WF_varsL(Waiting(w))
    /\ \A d \in Devices :
        /\ WF_varsL(TellDisconnected(d) /\ NobodyBetween /\ UNCHANGED <<streaming, past>>)
        /\ WF_varsL(d \in asked /\ NobodyBetween /\ Disconnects(d))

FairSpecL == SpecL /\ FairnessL

-----------------------------------------------------------------------------
(* Properties. *)

(* A stream ends, and a wait that found the link up returns, only if a     *)
(* disconnection was marked since it began to watch, the device was        *)
(* forgotten, or an older report was half-way (gatt.rs:142-151, 1102-1127). *)
EndsForAReason ==
    \A w \in Watchers :
        task[w] \in {"ended", "waited"} => due[w] > 0 \/ cut[w] \/ halfTold[w]

(* When w's stream ends, nothing of the link it was opened on is unread. *)
AllRead(w) ==
    task[w] # "ended" /\ task'[w] = "ended" =>
        \A i \in DOMAIN queue[w] : queue[w][i].link # since[w]

(* "everything queued before the link dropped is delivered before the      *)
(* stream ends" (gatt.rs:1097-1098).                                       *)
EverythingDelivered == [][\A w \in Watchers : AllRead(w)]_varsL

(* That promise is kept where callbacks and tasks share a thread: nothing  *)
(* comes between the two polls of one poll_next (gatt.rs:1111-1127).       *)
DeliveredOnOneThread ==
    [][oneThread => \A w \in Watchers : AllRead(w)]_varsL

(* A link that drops, or a device forgotten, ends its streams, although    *)
(* their senders are still in the backend's map (gatt.rs:1095-1101): one   *)
(* told to its watcher, and one that dropped before the watcher was there  *)
(* too (688-690), if the bound on epochs lets its end be reported.         *)
StreamEnds ==
    \A w \in Watchers, d \in Devices :
        LET Due == due[w] > 0 \/ cut[w] IN
        task[w] \in {"reading", "parked"} /\ of[w] = d /\ (Due \/ ~connected[d]) ~>
            \/ task[w] \in {"ended", "dropped"}
            \/ ~Due /\ epoch[d] = MaxEpoch

(* disconnect_and_wait returns once there was a link to close (gatt.rs:     *)
(* 121-152). The bound on epochs stops the backend from reporting any more. *)
WaitReturns ==
    \A w \in Watchers :
        task[w] = "waiting" /\ of[w] \in asked ~>
            task[w] \in {"waited", "dropped"} \/ \E d \in Devices : epoch[d] = MaxEpoch
=============================================================================
