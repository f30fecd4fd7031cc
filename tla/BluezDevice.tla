---------------------------- MODULE BluezDevice -----------------------------
(***************************************************************************)
(* One granted device of the BlueZ backend (webbluetooth-linux/src/        *)
(* backend.rs, bluez/mod.rs): the record kept of it, the futures waiting   *)
(* for it, the write socket, and the one thread that reads signals and     *)
(* replies off the bus in the order in which bluetoothd sent them.         *)
(*                                                                         *)
(* A calling task is in connect, in acquire_write or in set_radio_scanning,*)
(* at one of its awaits or locks; the last holds the mutex around the      *)
(* bluez handle while it blocks for its reply. A link is a number, in the  *)
(* order in which they came up. bluetoothd, the device and whoever else    *)
(* connects to it are external. Calls are DBusCalls's.                     *)
(***************************************************************************)
EXTENDS Naturals, Sequences, SequencesExt

CONSTANTS Tasks, NoTask,
          Jobs,          \* which operation each task may repeat, by behaviour
          MaxUps,        \* bound: links that come up
          MaxChanges,   \* bound: announced changes of a resolved tree
          MaxSights,     \* bound: sightings of a scan
          MaxUnread      \* bound: messages sent and not yet read

ASSUME DeviceAssumption ==
    /\ NoTask \notin Tasks
    /\ Jobs \subseteq [Tasks -> {"connect", "acquire", "scan"}]
    /\ MaxUps \in Nat /\ MaxChanges \in Nat /\ MaxSights \in Nat
    /\ MaxUnread \in Nat

NoLink == 0
Ups    == 1 .. MaxUps

VARIABLES
    connected,      \* the record: is the device connected?
    gen,            \* the generation of its handles, moved by changes
    resolvedOnce,   \* is it among the devices that have resolved?
    socket,         \* the link whose write socket is kept, or NoLink
    wait,           \* each task's entry among the connected_waiters
    job,            \* the operation of each task
    step,           \* where each task is
    reply,          \* what came back to it
    fd,             \* the link whose socket came with it
    holder,         \* the task that holds the bluez mutex
    watching,       \* does a watcher want sightings?
    wire,           \* what bluetoothd has sent and the reader not read
    asked,          \* what each task has asked of bluetoothd
    linked, resolved,       \* bluetoothd's own view of the device
    ups, changes, sights,  \* how many there have been
    crossed,        \* history: has a link ended under a task connecting?
    refuses         \* does bluetoothd refuse to connect what is connected?

deviceRecord == <<connected, gen, resolvedOnce, socket>>
tasks        == <<step, reply, fd, holder, watching>>
bluetoothd   == <<wire, asked, linked, resolved, ups, changes, sights>>
fixed        == <<refuses, job>>
deviceVars   == <<deviceRecord, wait, tasks, bluetoothd, crossed, fixed>>

Connecting == {"checked", "calling", "called", "awaiting", "looking"}
Acquiring  == {"missing", "acquiring"}
Scanning   == {"locking", "scanning"}

Reply(t, says, link) == [kind |-> "reply", task |-> t, says |-> says, link |-> link]
Signal(kind)         == [Reply(NoTask, "none", NoLink) EXCEPT !.kind = kind]

DeviceTypeOK ==
    /\ connected \in BOOLEAN /\ gen \in Nat /\ resolvedOnce \in BOOLEAN
    /\ socket \in Ups \cup {NoLink}
    /\ wait \in [Tasks -> {"none", "filed", "told", "dropped"}]
    /\ step \in [Tasks -> {"idle"} \cup Connecting \cup Acquiring \cup Scanning]
    /\ reply \in [Tasks -> {"none", "ok", "error"}]
    /\ fd \in [Tasks -> Ups \cup {NoLink}]
    /\ holder \in Tasks \cup {NoTask} /\ watching \in BOOLEAN
    /\ asked \in [Tasks -> {"nothing", "connect", "acquire", "scan"}]
    /\ linked \in BOOLEAN /\ resolved \in BOOLEAN
    /\ ups \in 0 .. MaxUps /\ changes \in 0 .. MaxChanges
    /\ sights \in 0 .. MaxSights
    /\ job \in Jobs /\ crossed \in BOOLEAN /\ refuses \in BOOLEAN

DeviceInit ==
    /\ connected = FALSE /\ gen = 0 /\ resolvedOnce = FALSE
    /\ socket = NoLink /\ wait = [t \in Tasks |-> "none"]
    /\ step = [t \in Tasks |-> "idle"] /\ reply = [t \in Tasks |-> "none"]
    /\ fd = [t \in Tasks |-> NoLink]
    /\ holder = NoTask /\ watching = FALSE
    /\ wire = <<>> /\ asked = [t \in Tasks |-> "nothing"]
    /\ linked = FALSE /\ resolved = FALSE
    /\ ups = 0 /\ changes = 0 /\ sights = 0
    /\ job \in Jobs /\ crossed = FALSE /\ refuses \in BOOLEAN

Goes(t, from, to) == step[t] = from /\ step' = [step EXCEPT ![t] = to]

\* with_bluez, for a moment: t sends its request and lets the mutex go.
Asks(t, what) ==
    /\ holder = NoTask
    /\ asked' = [asked EXCEPT ![t] = what]

\* The answer to t's request is there, and taken.
Answered(t, says) ==
    /\ reply[t] \in says
    /\ reply' = [reply EXCEPT ![t] = "none"]

-----------------------------------------------------------------------------
(* connect.                                                                *)

Connect(t) ==
    /\ job[t] = "connect" /\ ~connected
    /\ Goes(t, "idle", "checked")
    /\ UNCHANGED <<deviceRecord, wait, reply, fd, holder, watching, bluetoothd,
                   crossed, fixed>>

(* Interest is registered before the call.                                 *)
Register(t) ==
    /\ Goes(t, "checked", "calling")
    /\ wait' = [wait EXCEPT ![t] = "filed"]
    /\ UNCHANGED <<deviceRecord, reply, fd, holder, watching, bluetoothd, crossed,
                   fixed>>

AskConnect(t) ==
    /\ Goes(t, "calling", "called")
    /\ Asks(t, "connect")
    /\ UNCHANGED <<deviceRecord, wait, reply, fd, holder, watching, wire, linked,
                   resolved, ups, changes, sights, crossed, fixed>>

\* t's receiver goes with its future; a sender left behind wakes nobody.
Unregisters(t) == wait' = [wait EXCEPT ![t] = "none"]

ConnectRefused(t) ==
    /\ Goes(t, "called", "idle")
    /\ Answered(t, {"error"})
    /\ Unregisters(t)
    /\ UNCHANGED <<deviceRecord, fd, holder, watching, bluetoothd, crossed, fixed>>

(* Mutant: an error of Connect does not end it.                            *)
ConnectTaken_Whatever(t) ==
    /\ Goes(t, "called", "awaiting")
    /\ Answered(t, {"ok", "error"})
    /\ UNCHANGED <<deviceRecord, wait, fd, holder, watching, bluetoothd, crossed,
                   fixed>>

ConnectTaken(t) ==
    /\ Goes(t, "called", "awaiting")
    /\ Answered(t, {"ok"})
    /\ UNCHANGED <<deviceRecord, wait, fd, holder, watching, bluetoothd, crossed,
                   fixed>>

(* The waiter is told, or dropped: either way the device is connected now. *)
Established(t) ==
    /\ wait[t] \in {"told", "dropped"}
    /\ Goes(t, "awaiting", "looking")
    /\ connected' = TRUE
    /\ UNCHANGED <<gen, resolvedOnce, socket, wait, reply, fd, holder,
                   watching, bluetoothd, crossed, fixed>>

(* The tree is looked at, and if it has not resolved yet that is awaited,  *)
(* for twenty seconds at most. Nothing else depends on it.                 *)
ConnectReturns(t) ==
    /\ holder = NoTask
    /\ Goes(t, "looking", "idle")
    /\ Unregisters(t)
    /\ UNCHANGED <<deviceRecord, reply, fd, holder, watching, bluetoothd, crossed,
                   fixed>>

-----------------------------------------------------------------------------
(* acquire_write, of the one characteristic.                               *)

WantSocket(t) ==
    /\ job[t] = "acquire" /\ socket = NoLink
    /\ Goes(t, "idle", "missing")
    /\ UNCHANGED <<deviceRecord, wait, reply, fd, holder, watching, bluetoothd,
                   crossed, fixed>>

AskSocket(t) ==
    /\ connected
    /\ Goes(t, "missing", "acquiring")
    /\ Asks(t, "acquire")
    /\ UNCHANGED <<deviceRecord, wait, reply, fd, holder, watching, wire, linked,
                   resolved, ups, changes, sights, crossed, fixed>>

NoSocket(t) ==
    /\ \/ Goes(t, "missing", "idle") /\ ~connected /\ UNCHANGED reply
       \/ Goes(t, "acquiring", "idle") /\ Answered(t, {"error"})
    /\ UNCHANGED <<deviceRecord, wait, fd, holder, watching, bluetoothd, crossed,
                   fixed>>

(* The socket is kept. Whether its link is still up is not looked at.      *)
KeepSocket(t) ==
    /\ Goes(t, "acquiring", "idle")
    /\ Answered(t, {"ok"})
    /\ socket' = fd[t]
    /\ fd' = [fd EXCEPT ![t] = NoLink]
    /\ UNCHANGED <<connected, gen, resolvedOnce, wait, holder,
                   watching, bluetoothd, crossed, fixed>>

-----------------------------------------------------------------------------
(* set_radio_scanning, of a watcher that is already registered.            *)

Watch(t) ==
    /\ job[t] = "scan"
    /\ Goes(t, "idle", "locking")
    /\ watching' = TRUE
    /\ UNCHANGED <<deviceRecord, wait, reply, fd, holder, bluetoothd, crossed,
                   fixed>>

(* The mutex is held over the blocking call; the three are one here.       *)
Scan(t) ==
    /\ Goes(t, "locking", "scanning")
    /\ Asks(t, "scan")
    /\ holder' = t
    /\ UNCHANGED <<deviceRecord, wait, reply, fd, watching, wire, linked, resolved,
                   ups, changes, sights, crossed, fixed>>

(* The reply, or thirty seconds without: what comes later wakes nobody.    *)
Scanned(t) ==
    /\ Goes(t, "scanning", "idle")
    /\ \/ Answered(t, {"ok", "error"}) /\ UNCHANGED <<asked, wire>>
       \/ /\ reply[t] = "none" /\ UNCHANGED reply
          /\ asked' = [asked EXCEPT ![t] = "nothing"]
          /\ \/ UNCHANGED wire /\ \A i \in DOMAIN wire : wire[i].task # t
             \/ \E i \in DOMAIN wire : wire[i].task = t /\ wire' = RemoveAt(wire, i)
    /\ holder' = NoTask
    /\ UNCHANGED <<deviceRecord, wait, fd, watching, linked, resolved, ups, changes,
                   sights, crossed, fixed>>
-----------------------------------------------------------------------------
(* The reader: on_signal applies a signal to the tree, then handle acts.   *)

Reads(kind) ==
    /\ wire # <<>> /\ Head(wire).kind = kind
    /\ wire' = Tail(wire)
    /\ UNCHANGED <<asked, linked, resolved, ups, changes, sights>>

\* Those who are filed get the end.
End(end) == [t \in Tasks |-> IF wait[t] = "filed" THEN end ELSE wait[t]]

(* Mutant: the record is left to the tasks that connect.                   *)
OnConnected_Waiters ==
    /\ Reads("connected")
    /\ wait' = End("told")
    /\ UNCHANGED <<deviceRecord, tasks, crossed, fixed>>

OnConnected ==
    /\ Reads("connected")
    /\ connected' = TRUE
    /\ wait' = End("told")
    /\ UNCHANGED <<gen, resolvedOnce, socket, tasks, crossed,
                   fixed>>

(* Mutant: that it has resolved once is not taken back.                    *)
OnDisconnected_Once ==
    /\ Reads("disconnected")
    /\ wait' = End("dropped")
    /\ socket' = NoLink
    /\ connected' = FALSE
    /\ crossed' = (crossed \/ \E t \in Tasks : wait[t] # "none")
    /\ UNCHANGED <<gen, resolvedOnce, tasks, fixed>>

OnDisconnected ==
    /\ Reads("disconnected")
    /\ wait' = End("dropped")
    /\ resolvedOnce' = FALSE
    /\ socket' = NoLink
    /\ connected' = FALSE
    /\ crossed' = (crossed \/ \E t \in Tasks : wait[t] # "none")
    /\ UNCHANGED <<gen, tasks, fixed>>

\* mark_services_changed, if this is not the first discovery of the link.
MarksChange == gen' = IF resolvedOnce THEN gen + 1 ELSE gen

OnServicesResolved ==
    /\ Reads("resolved")
    /\ MarksChange
    /\ resolvedOnce' = TRUE
    /\ UNCHANGED <<connected, socket, wait, tasks, crossed, fixed>>

OnServicesChanged ==
    /\ Reads("changed")
    /\ MarksChange
    /\ UNCHANGED <<connected, resolvedOnce, socket, wait, tasks,
                   crossed, fixed>>

(* on_device_seen locks the mutex to see what is cached, if anyone watches.*)
OnDeviceSeen ==
    /\ Reads("seen")
    /\ watching => holder = NoTask
    /\ UNCHANGED <<deviceRecord, wait, tasks, crossed, fixed>>

OnReply ==
    /\ Reads("reply")
    /\ LET answer == Head(wire) IN
        /\ reply' = [reply EXCEPT ![answer.task] = answer.says]
        /\ fd' = [fd EXCEPT ![answer.task] = answer.link]
    /\ UNCHANGED <<deviceRecord, wait, step, holder, watching, crossed, fixed>>

ReaderNext ==
    \/ OnConnected \/ OnDisconnected \/ OnServicesResolved \/ OnServicesChanged
    \/ OnDeviceSeen \/ OnReply

-----------------------------------------------------------------------------
(* bluetoothd, the device, and others who connect to it.                   *)

Sends(messages) ==
    /\ Len(wire) + Len(messages) <= MaxUnread
    /\ wire' = wire \o messages
    /\ UNCHANGED <<deviceRecord, wait, tasks, crossed, fixed>>

Answers(t, says, link, signals) ==
    /\ asked' = [asked EXCEPT ![t] = "nothing"]
    /\ \/ Sends(signals \o <<Reply(t, says, link)>>)
       \/ Sends(<<Reply(t, says, link)>> \o signals)

(* A Connect succeeds, the signal before its reply or after, or somebody   *)
(* else's does.                                                            *)
LinkUp ==
    /\ ~linked /\ ups < MaxUps
    /\ linked' = TRUE /\ ups' = ups + 1
    /\ UNCHANGED <<resolved, changes, sights>>
    /\ \/ Sends(<<Signal("connected")>>) /\ UNCHANGED asked
       \/ \E t \in Tasks :
            /\ asked[t] = "connect"
            /\ Answers(t, "ok", NoLink, <<Signal("connected")>>)

Answer(t) ==
    /\ \/ asked[t] = "connect" /\ Answers(t, "error", NoLink, <<>>)
       \/ /\ asked[t] = "connect" /\ linked /\ ~refuses
          /\ Answers(t, "ok", NoLink, <<>>)
       \/ asked[t] = "acquire" /\ ~linked /\ Answers(t, "error", NoLink, <<>>)
       \/ asked[t] = "acquire" /\ linked /\ Answers(t, "ok", ups, <<>>)
       \/ asked[t] = "scan" /\ Answers(t, "ok", NoLink, <<>>)
    /\ UNCHANGED <<linked, resolved, ups, changes, sights>>

(* The objects of the tree appear one after the other, and then it is      *)
(* resolved; they go when the link has. One stands for them all here, where*)
(* it counts for nothing how many they are.                                *)
Resolve ==
    /\ linked /\ ~resolved
    /\ resolved' = TRUE
    /\ Sends(<<Signal("changed"), Signal("resolved")>>)
    /\ UNCHANGED <<asked, linked, ups, changes, sights>>

LinkDown ==
    /\ linked
    /\ linked' = FALSE /\ resolved' = FALSE
    /\ Sends(<<Signal("disconnected"), Signal("changed")>>)
    /\ UNCHANGED <<asked, ups, changes, sights>>

(* One message of a rebuild, which is as many as services go and come, and *)
(* may end in the tree being resolved again. The link may go half-way.     *)
Rebuild ==
    /\ resolved /\ changes < MaxChanges
    /\ changes' = changes + 1
    /\ \E kind \in {"changed", "resolved"} : Sends(<<Signal(kind)>>)
    /\ UNCHANGED <<asked, linked, resolved, ups, sights>>

See ==
    /\ watching /\ sights < MaxSights
    /\ sights' = sights + 1
    /\ Sends(<<Signal("seen")>>)
    /\ UNCHANGED <<asked, linked, resolved, ups, changes>>

-----------------------------------------------------------------------------
ConnectStep(t) ==
    \/ Connect(t) \/ Register(t) \/ AskConnect(t)
    \/ ConnectRefused(t) \/ ConnectTaken(t)
    \/ Established(t) \/ ConnectReturns(t)

TaskStep(t) ==
    \/ ConnectStep(t)
    \/ WantSocket(t) \/ AskSocket(t) \/ NoSocket(t) \/ KeepSocket(t)
    \/ Watch(t) \/ Scan(t) \/ Scanned(t)

DeviceNext ==
    \/ \E t \in Tasks : TaskStep(t) \/ Answer(t)
    \/ ReaderNext
    \/ LinkUp \/ Resolve \/ LinkDown \/ Rebuild \/ See

\* A task that has begun goes on.
GoesOn(t) ==
    \/ Register(t) \/ AskConnect(t) \/ ConnectRefused(t) \/ ConnectTaken(t)
    \/ Established(t) \/ ConnectReturns(t) \/ Scanned(t)

(* The executor polls what is ready, the reader reads, a mutex goes to     *)
(* everyone that waits for it, and bluetoothd answers.                     *)
DeviceFairness ==
    /\ \A t \in Tasks : SF_deviceVars(GoesOn(t)) /\ WF_deviceVars(Answer(t))
    /\ SF_deviceVars(ReaderNext)

-----------------------------------------------------------------------------
(* Properties. *)

(* Where bluetoothd refuses to connect what is connected, connect ends:    *)
(* whatever comes up, goes down or is answered in between, it is not left  *)
(* waiting for a signal it has missed (backend.rs:961-1009).               *)
ConnectEnds ==
    \A t \in Tasks : refuses /\ step[t] = "checked" ~> step[t] = "idle"

(* Once everything sent has been read, the handles' generation has moved   *)
(* once for every service that went or came and every time a resolved tree *)
(* was resolved again: not for what appears before the first discovery, nor*)
(* for what goes with the link (backend.rs:321-322, 333-361;               *)
(* bluez/mod.rs:479-483, 511-515).                                         *)
ChangesCounted == wire = <<>> => gen = changes

(* Then the record also says of the device what bluetoothd does, unless a  *)
(* link ended under a task that was connecting (backend.rs:280-331, 1000). *)
RecordSettles == wire = <<>> /\ ~crossed => (connected <=> linked)

(* "this is the only thread reading the socket. Running handlers here would*)
(* stall every inbound message behind them, including the replies to our   *)
(* own outstanding calls" (dbus/connection.rs:598-602): the reader does not*)
(* wait for a mutex whose holder waits for what the reader is to read.     *)
NoStandoff ==
    ~ /\ watching /\ wire # <<>> /\ Head(wire).kind = "seen"
      /\ holder # NoTask /\ reply[holder] = "none"

(* "Kept, they would be stale descriptors for characteristics that no      *)
(* longer exist - and a reconnect would write into them" (backend.rs:      *)
(* 323-325): once all is read, a socket that is kept is of the link.       *)
SocketIsOfLink == wire = <<>> /\ socket # NoLink => linked /\ socket = ups
=============================================================================
