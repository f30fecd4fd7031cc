# A TLA+ model of webbluetooth

This directory holds TLA+ modules for the parts of the `webbluetooth` workspace
whose correctness is a matter of ordering: queues filled by callback threads,
a registry every backend shares, one radio scan used by many, a request and
reply protocol with a deadline, streams that must end with their link, and four
platform backends that match callbacks, replies and signals to those who wait. Each
module names the file it is translated from; TLC checks it on small instances,
and TLAPS proves the properties that matter most for every value of the
constants. `PROJECT.json` is the index: components, runs, the source lines each
definition stands for, mutants, hazards, findings and theorems.

Paths below start with `core/`, `facade/`, `linux/`, `apple/` or `android/`, which
are `crates/webbluetooth-core/src/`, `crates/webbluetooth/src/`,
`crates/webbluetooth-linux/src/` and so on.

## 1. The system

`webbluetooth` is the Web Bluetooth API as a Rust library: an application asks
for a device, is granted it through a chooser, connects, discovers services and
characteristics, reads, writes and subscribes. A portable facade and core sit on
one platform backend per build.

| Component | State it keeps | Operations | Interacts with | What is hard |
|---|---|---|---|---|
| Backlog queue (`core/backlog.rs`) | queue, loss counter, waker, `closed`, `finished`, sender count, one mutex | send, close, clone, drop; poll, try_recv, drop | every stream of the library; platform callback threads push, an executor polls | wakers called outside the lock; overflow under two policies; an end that is neither early nor missed |
| Device registry (`core/registry.rs`) | map of devices (grant, link, generation, lock object), map of disconnect listeners, map of service listeners, a mutex each | insert, update, mark_disconnected, mark_services_changed, watch_*, remove, check_generation, gatt_lock | all backends write it, the facade reads it | two mutexes per operation; grants joined; generation carried over or restarted |
| Scan hub (`core/scan.rs`) | the list of watchers with their filters, per-watcher seen sets | add, remove, publish, close_all; `choose` | LE scans, `request_device`, `watch_advertisements`; the backend's `set_radio_scanning` | the radio is told after the list's mutex is released; failed starts; abandoned futures |
| Facade GATT (`facade/gatt.rs`) | handles: device, attribute, generation; notification streams | discovery, read, write, start/stop notifications, disconnect_and_wait | registry, backend | every await lets the link drop; two sources polled by one stream |
| ATT connection (`linux/gatt.rs`) | `in_flight` mutex, reply slot and condition variable, stop flag, reader thread, socket | request, write_command, close; the reader's dispatch | the raw HCI backend's sink | deadline against late reply; flag and notification outside the waiter's mutex |
| Raw HCI backend: links (`linux/backend_hci.rs`) | per device the connection, its cached services and characteristics, the Service Changed handle | connect, discover, disconnect, forget, grant; the reader's reports | ATT connection, registry | connect races the end of its link; reports name a device, not a connection; discoveries that outlive their link |
| Raw HCI backend: scan (`linux/backend_hci.rs`, `hci.rs`) | the running scan thread and its stop flag | start, stop and join; the thread's socket and commands | hub, the controller | the join is outside the mutex; a thread's last command turns off another's scan; failures that end no stream |
| BlueZ backend (`linux/backend.rs`, `bluez/`) | record, waiters for connection and discovery, which devices have resolved, write sockets, the `bluez` mutex | connect, acquire_write, set_radio_scanning; one handler per signal | D-Bus connection, hub, registry | replies and signals in either order; what counts as a change of services; a mutex held over blocking calls |
| D-Bus connection (`linux/dbus/connection.rs`) | reply handlers by serial, stop flag, socket | call_async, call_blocking, dispatch, shutdown | the BlueZ backend, bluetoothd | an end from either side while calls are being made |
| CoreBluetooth backend (`apple/backend.rs`) | waiters of thirteen kinds in first-in-first-out slots, record, GATT lock | one per request; one per delegate callback | the delegate's queue, registry, hub | callbacks carry no request's identity; links and adapters lost; flow control of unacknowledged writes |
| Android backend (`android/backend.rs`) | record with its `BluetoothGatt`, slots of waiters emptied by an answer, GATT lock | connect, each operation, forget; one per callback | binder threads, registry, hub | callbacks of an earlier client; one operation at a time; clients to be closed |
| Windows backend | what each WinRT operation needs | the same over COM | completion handlers | references that keep a link up |
| Browser-hosted (wasm) and Node bindings | executor queues, request tokens | the same over a JavaScript host | one thread, re-entered | tasks woken while running; answers for gone tokens |
| Peripheral role | published services, pending read and write requests | publish, answer, notify | platform callbacks | an unanswered request is answered on drop |
| Choosers, filters, UUIDs, blocklist, AD parsing | none or little | pure functions and policies | hub, facade | boundaries of lengths and matching |
| Browser application, explorer | grants per origin, sessions, engine commands | UI-driven | facade | permissions across origins |

`PROJECT.json` lists each with its status. The hazards the code has, each at its
line, are there too.

## 2. Modules

| Module | Models | Composes |
|---|---|---|
| `LossyStream` | what a bounded stream promises its two ends (abstract) | |
| `Backlog` | `core/backlog.rs` | implements `LossyStream` by a refinement mapping |
| `Registry` | `core/registry.rs`: devices and disconnect listeners | |
| `GattHandles` | discovery, minting and use of handles in `facade/gatt.rs` | extends `Registry` |
| `LinkStreams` | notification streams and `disconnect_and_wait` in `facade/gatt.rs`, over the senders of `linux/backend_hci.rs` | extends `Registry` |
| `ScanHub` | `core/scan.rs` with its callers and the platforms' `set_radio_scanning` | |
| `AttConnection` | `linux/gatt.rs`: requests, reader thread, closing | |
| `HciLinks` | one device of `linux/backend_hci.rs`: its record, its connections and their readers | |
| `HciScan` | the scan thread of `linux/backend_hci.rs` and `linux/hci.rs` | |
| `HciBackend` | the raw HCI backend | extends `HciLinks` and `HciScan` |
| `DBusCalls` | method calls in `linux/dbus/connection.rs` | |
| `BluezDevice` | one device of `linux/backend.rs` and the reader's signals | |
| `BluezBackend` | the BlueZ backend | extends `DBusCalls` and `BluezDevice` |
| `AppleCentral` | one peripheral of `apple/backend.rs` | |
| `AndroidGatt` | one device of `android/backend.rs` | |
| `BacklogProofs`, `FacadeProofs`, `ScanHubProofs`, `AttConnectionProofs`, `HciProofs`, `AppleProofs`, `AndroidGattProofs`, `BluezProofs` | theorems and their proofs | each extends its module; `FacadeProofs` extends `GattHandles` and `LinkStreams`, and holds the registry's theorems, which both use |
| `MC*` | instances for TLC | each extends one of the above |

### Backlog

One action is one critical section of the queue's mutex. `TakeWaker` takes the
stored waker under the lock and the handle's thread `owes` the call, which is
the separate action `Wake`. `SendDropsArrival` and `SendQueues` are the two
outcomes of `send`; a refused send changes nothing. `Init` chooses the overflow
policy, so one run covers both. Values are numbered in the order in which their
sends took the lock, so `accepted` is both a count and the newest value.

### Registry, GattHandles, LinkStreams

The registry's maps have a mutex each. `mark_disconnected` and `remove` take
both one after the other and are two actions each, with `telling` and
`forgetting` between. `epoch`, `incarnation`, `due` and `locks` are history: how
often a device's handles became stale, how often its record was removed, how
many disconnections a watcher should have heard of, how many lock objects exist.

`GattHandles` adds clients. `get_primary_service` is four steps: the guard, the
answer of the backend, a failure, and `service_from`, which reads the generation
after the await. An operation is `check_generation` (two reads of the registry,
two actions), `gatt_lock`, the operation under the lock, its end.

Between the question and the answer the device may have been forgotten and
granted again: a discovery is answered for whatever record there is then.

`LinkStreams` adds notification streams and waits. `start_notifications` is
`CheckHandle`, `Subscribe` (the sender goes into the backend's map),
`WatchDisconnect` and, behind an await, `Enable`; a stream's poll is two actions,
the values and then the disconnections; `disconnect_and_wait` is `WatchFirst`,
`AskToClose`, `LookIfConnected` and `WaitEnds`. `oneThread`, chosen in `Init`, says
whether anything can run between the steps that have no await between them. The
sender of a stream stays in the backend's map when the link drops, as in the code.
A grant, a second one too, records a device without a connection; the link it had
is dropped and its end reported later, which is what the raw HCI backend does.

### ScanHub

Joining is `Join` (under the hub's mutex) and `StartRadio` or `StartFails`;
leaving is `Leave` and `StopRadio` or `StopFails`. A start fails before or after the
scan that ran was stopped: Android and BlueZ can do either
(`android/backend.rs:523-529`, `linux/backend.rs:432-440`). A stop that fails leaves
the scan running, and nobody looks at its error (`core/scan.rs:339`); `unstopped`
remembers it. `OneThread` says that nothing runs between
the two halves, which is so on a single-threaded executor, there being no await
there. The radio is the kind that takes a filter. `Abandon` is the dropping of a
request's future at its await.

### AttConnection

`Lock`, `Clear`, `Send`, then the loop of `request`: `TakeReply`, `GiveUp`,
`Park`, `Wait`, with `Expire` for the deadline. A thread at `parking` has looked
at the flag and not yet begun to wait; it holds the slot's mutex, so whoever
needs that mutex is blocked, and whoever does not (`ReaderNotifies`) is not. The
reader polls, reads one PDU, dispatches it. Polling, reading and writing may also
fail while the link is up: `SendFails` ends such a request with an error,
`ReaderFails` ends the reader. Requests and replies are numbers;
a reply has its request's number, which the code neither has nor checks, so the
properties can tell whose answer it is.

### HciLinks, HciScan, HciBackend

In `HciLinks` a connection is a number in the order of opening, and a channel is
open while the record or a caller holds it (`StillHeld` is the drop of the last
`Arc`). `connect` is five steps: the guard, `Open`, `Explore`,
`SubscribeToServiceChanged`, `Publish`; everything between them may happen in
between, the end of the link included. `discover_characteristics` is `Browse`,
`BrowseEnds`, `Store`, under the device's lock. The end of a link is reported by
its reader in two steps, `ReaderClears` and `ReaderMarks`, which go by device and
not by connection, as in the code. A cache remembers the connection and table
version it was read from; the code has neither, so the properties can tell. Two
choices of `Init` say what the code leaves to its surroundings: `prompt` (is an
ended link reported before the next is opened or recorded?) and `oneThread` (the
calls block, so callers on one thread are not interrupted).

`HciScan` has the slot `scan_stop`, the flags and the threads. `Stop` takes the
entry under the mutex and raises the flag, `Joined` waits outside it. A thread is
opening its socket, enabling, reading, disabling, dropping its socket, gone.
`StartFails` is a thread that could not be spawned; `OpenFails`, `EnableFails` and a
failed read in `LeaveLoop` are the ways a scan fails, `DisableFails` a way its end
does: the error is discarded (`linux/hci.rs:673`), the socket tries once more as it
is dropped (`CloseSocket`, 380-387), and `stuck` remembers a controller that refused
both. `HciBackend`
puts the two beside each other: they share no state, so a behaviour exercises one.

### AppleCentral

`slots` is `Pending`: a queue of waiters for each kind of request that the code
treats differently. A request is asked for (`Ask`), takes the GATT lock
(`TakeLock`), may be refused (`Refuse`), is registered (`Register`) before the
framework is called (`Call`), waits, and returns. `Resolve` gives a callback to
the oldest waiter; a waiter whose future is gone (`GiveUp`) stays in the queue.
A lost link is `Fail` and then `Mark`, a lost adapter `PowerOff`. An
unacknowledged write has the path of its own that the code has: interest is
registered, then `CanWrite` or `MustWait`, then `Write`. Four facts of the past are
kept (`history`): a request that nothing will be said about (`unheard`), one that
was made after its waiter had been failed (`orphaned`), two writers or two connects
at once (`crowded`), room announced that had been taken again (`late`).

### AndroidGatt

A client is a number in the order of the `connectGatt` calls. `ConnectGatt`
registers a waiter and makes the call, `Record` puts the client into the record:
callbacks may come in between. `IsRecorded` is `id_for_gatt`, which drops the
callbacks of any other client; `Resolve` empties the slot of a kind. A lost link is
three steps, `OnDisconnected` (whoever waits is failed), `Clear` (the record has
no client) and `Mark`. A client has any number of operations of two kinds: "read"
is every operation made under the lock, "services" what `connect` asks for without
it, the larger MTU and the discovery (987-998). A client with anything to do is
busy (`Busy`) and refuses an operation; whether it takes another discovery is left
open, since nobody looks at the answer. `Grant` may come again over a device that
is connected, and takes the client out of the record without closing it (630-641).
`unheard` and `abandoned` are history: whether there is somebody to whom nothing
more will be said, and whether the lock was given up before the answer, because a
future was dropped or the device, and with it its lock, forgotten. The calls about
the PHY (653-660), which take no lock either, are left out, and so is an operation
that still waits for the lock object of a record that was forgotten.

### DBusCalls, BluezDevice, BluezBackend

In `DBusCalls` a call is a number, its serial: `File`, `Check` (the stop flag),
`Write`, and `TakeBack` if it could not be sent. `Stops`, `Takes`, `Fails` are the
three steps of `shutdown`, for the reader and for the owner that drops the
connection.

`BluezDevice` has one ordered `wire` of signals and replies from bluetoothd, and
one reader. A task is in `connect` (from `Connect` to `ConnectReturns`), in
`acquire_write` (`WantSocket` to `KeepSocket`) or in `set_radio_scanning`
(`Watch`, `Scan`, `Scanned`); `holder` is who has the `bluez` mutex. bluetoothd is
external: it answers in any order with its signals, others may connect the
device, it may refuse to connect what is connected (`refuses`). `Rebuild` is one
message of a rebuilt tree; bluetoothd sends one for each service that comes or goes
(`bluez/mod.rs:479-514`), and each moves the generation. `BluezBackend`
puts both beside each other, as `HciBackend` does.

## 3. Runs

With two workers the runs take from a few seconds to about three minutes. The
longest are `link_streams` (390 000 states), `bluez_backend` (271 000) and
`android_gatt` (203 000).

| Run | Instance | What it shows |
|---|---|---|
| `backlog` | 3 handles, capacity 2, 5 values, both policies, fair | accounting of every value, no lost wakeup, a gap means a loss, what is queued survives the end, the end is reached; the queue implements `LossyStream` |
| `gatt_handles` | 1 device, 2 services (one blocked), 2 clients, 2 invalidations, 1 forget | no stale handle is revived while the record stays; handles stay within the grant; an operation is called on a handle that was current; operations are exclusive across re-grants |
| `link_streams` | 1 device, 1 watcher, 2 invalidations, 3 links, 1 forget, 2 values, fair, both threadings | watchers hear of every disconnection; generations count; streams end and waits return for a reason, and they do, a stream whose link dropped before it began to watch included; queued values are read on one thread |
| `scan_hub` | 2 watchers, 3 kinds of want over 2 devices and 2 services, one thread, fair | the radio covers every watcher; at rest it is off unless it refused the last stop; everyone is told |
| `att_connection` | 2 threads, 2 requests, 1 unsolicited PDU, fair | each answer is its own request's and one request is outstanding until a timeout; the sink hears in order; every request ends; the end is reported, errors of the socket included |
| `hci_backend` | 2 callers, 2 links, 2 versions of the table; 2 watchers, 3 scan threads; fair | the record's two fields agree and a lost link is noticed; nothing cached is of another link; a stop that returned leaves no thread, and no scan but one the controller refused to stop; no thread turns off another's scan |
| `apple_central` | 2 callers, 3 requests, room for 1 write, fair | a callback's answer is its request's; requests end with the link; no write is thrown away where one writes at a time; a waiting writer goes on |
| `android_gatt` | 2 callers, 2 clients, 2 requests under way, fair | an answer is its request's across clients; whoever gets the lock finds nothing under way of those who had it; what waits ends |
| `bluez_backend` | 2 calls; 2 tasks of which one connects and the other connects, acquires or scans, 2 links, 2 messages of rebuilds, 1 sighting, 3 unread messages; fair | every handler is run; `connect` ends; the record and the generation settle on what bluetoothd says |
| `apple_included` | 1 caller, 2 requests | violation: a discovery of included services outlives its link, holding the lock |
| `android_leak` | 1 caller, 1 client | violation: a client whose link dropped is taken out of the record and not closed |
| `bluez_standoff` | as `bluez_backend` | violation: the reader waits for a mutex whose holder waits for the reader |

**Bounds and why they are enough.** `Backlog`: with capacity 2 and five values
the queue fills, overflows and drains repeatedly, and three handles allow a
clone, a drop and a send to overlap with a wake that is owed. `Registry`: what a
second invalidation could do that a first could not is meet a handle minted in
between, so two suffice; one forget and any number of grants give the
before/after of a record. Two clients are the fewest that contend for a lock.
`LinkStreams`: a third link lets a stream that was opened on one meet the end of
another and the values of the next. `ScanHub`: two watchers and wants of different width exercise widening,
joining without a restart and last-one-out. `AttConnection`: two requests are
needed for one to meet another's reply, two threads to contend for the lock.
`HciLinks`: with two links a report or a discovery of the first can meet the
second. `HciScan`: with three threads one can be ending while the next runs and a
third is started. `AppleCentral`: three requests leave a dropped waiter in front
of two live ones; room for one write makes every second write wait. Three are not
enough for a request that was made late, over the next link, to meet a later one, or
for room to be taken again before it is announced: with four requests TLC finds
both, and the properties name them (`orphaned`, `late`). So stated, the invariants
were checked with four and five requests and the liveness with four, which take
longer than a run should; the proofs hold for any number.
`AndroidGatt`: the second client is the one the first one's callbacks must not
reach; two requests let an answer meet a later request of its kind. Its instance
stops (`Telling`, a constraint) once a waiter was left behind *and* the lock given
up: both flags stay, `AnswerIsMine` and `NoneRefused` speak of no state with the
one, and with the other `RequestEnds` holds of whatever follows, so nothing is
lost. `BluezDevice`: two links give the order of one's end and the other's start,
two messages of a rebuild a first discovery between changes; three unread messages let a signal, its companion and a reply wait together.

**Bounds as guards.** `MaxValues`, `MaxRequests`, `MaxEpoch`, `MaxForgets`,
`MaxLinks`, `MaxTables`, `MaxThreads`, `MaxClients`, `MaxCalls`, `MaxUps`,
`MaxChanges` and `MaxSights` stop the environment or a call about to begin, and
never a handler in mid-course. Three bounds are tighter: `MaxUnread` keeps
bluetoothd from sending while that many messages are unread, `MaxThreads` keeps a
start from spawning one thread more, and in `AndroidGatt` one future is dropped
at most, while the lock was never given up before. `StreamEnds` and `WaitReturns`
excuse what a bound stops: with `MaxEpoch` reached no further end can be reported.

**Deadlock** is not checked: the environment may stop at a bound, and a program
that asks for nothing does nothing. What must go on is stated as liveness.

**Fairness.** `Backlog`: a thread that took a waker calls it, and an executor
polls a task that is not parked; nobody has to send, close or repoll a parked
task. `ScanHub`: a call between the hub and the radio goes on (it is straight
code); a device that advertises keeps advertising; the platform calls back about
a scan that failed. `LinkStreams`: a stream that was woken is polled, a report
of a disconnection that began is finished (straight code), and a backend that
was asked to close a link reports it closed, which is what the platforms promise.
`AttConnection`: threads, the reader and the clock go on; nothing is assumed of
the peer or the air, nor that somebody closes, that the socket fails, or that a
`close` which raised the flag comes to shutting the socket down. `HciLinks`: a reader finds its link down and reports it (it
polls). `HciScan`: threads go on, and one told to stop sees its flag (its read has
a timeout); whether a command succeeds is open, and nobody has to leave. `AppleCentral`, `AndroidGatt`: a task that can go
on does, the platform answers what it took of a peripheral that stays connected,
says whether a connect succeeded and delivers its callbacks; no link has to drop.
`DBusCalls`: calls that began go on, the reader reads and ends with the socket,
the bus answers. `BluezDevice`: bluetoothd answers, and tasks and reader are
treated strongly fairly (`SF`), because each may find the mutex taken again and
again by others in between: a mutex that is given back goes to one of those who
wait for it, and nobody holds it for ever (`Scanned` has the call's time-out).

## 4. Proofs

Every theorem holds for every value of the constants that satisfies the named
assumption of its module; nothing else is assumed, except `OneThread` in one
theorem. Each invariant below was model-checked on the run's instance before it
was proved. Each action has a lemma, or a step under one; facts about sequences
and cardinalities are lemmas of their own.

**Backlog** (`BacklogAssumption`: a finite nonempty set of handles, a positive
capacity). Proved: `TypeOK`; `Accounted` with `Bounded` (`NothingVanishes`);
`NoLostWakeup` (`WakeupNeverLost`); `DrainedBeforeEnd` with `SendersCounted`
(`EndIsHonest`); the action property `InOrder` (`DeliveredInOrder`). None is
inductive alone: `IInv` adds that the queue is sorted, above the value received
last and up to the value accepted last; that `senders` counts `live`; that a
stored waker means there is nothing to learn yet; and that a task that ended or
is gone finds the queue empty. Two more action properties: what `KeepOldest` has
queued leaves by being read or with the receiver (`QueuedIsKept`), and what is
missing between two values read under `KeepNewest` is what was counted between them
(`GapIsCounted`). The latter needs `Consecutive`: the queue holds successive values
up to the one accepted last, and what was read last, what was lost since and what is
queued add up to what was accepted. `QueueImplementsStream` is the safety half of the
refinement of `LossyStream`: initial states map to initial states and each step
to a step or a stutter. It rests on the queue being sorted, so that what is held
is as many values as the queue is long (`PendingCounted`).

**Registry** (`RegistryAssumption`: `NoDevice` is no device; the bounds are
naturals). `NoDisconnectMissed` is strengthened to hold while reports are under
way: signals received and reports half-way make up what is due
(`NothingMissed`). `GrantOnlyWidens` and `GenerationCounts` follow from
`RecordStep`, which says what a step may do to a record that stays: the grant
widens, the lock is the same object, the generation moves with the epoch.

**GattHandles** (also `HandlesAssumption`). What a client remembers is tied to
the record it came from: its incarnation is never a later one than the record's,
and while it is the same one, the record is there, as wide as it was, with the
same lock, and with a generation as far from the handle's as its epoch is from
the handle's (`HandlesRooted`, `QuestionsRooted`, `OperationsRooted`,
`OneHolder`). That a stale handle is not revived, is within the grant, was
current when called, excludes others under the lock and stays refused are
consequences. `RecordStep` is the lemma about the registry they all use.

**LinkStreams** (also `StreamsAssumption`). `StreamsUseRegistry` proves that the
composition implements `Registry`, so its properties hold here without a second
proof; `HandlesUseRegistry` does the same for `GattHandles`. `EndsForAReason`
speaks of streams and of waits, and
needs `ReasonInv`: only a forgetting cuts a watcher off, and one that began with
no report half-way has no more signals, received or coming, than disconnections
marked since. `DeliveredBeforeEnd` (`DeliveredOnOneThread`) needs to know what the
first half of a poll leaves for the second: on one thread a stream that is at its
second half has found its queue empty, and it still is (`NothingBetween`).

**ScanHub** (`HubAssumption`, and `OneThread` in both theorems, since both fail
without: section 5). `RadioOffAtRest` needs that a radio which runs on, and has not
refused to stop, has a call or a stream that will stop it and is not itself one
whose start may yet fail (`StopOwed`). `RadioCovers` needs that one call at a time
is between hub and radio (`OneAtATime`), and, since a start may fail and leave the
radio as it was, that the scan covers those whose start has returned (`Covered`).

**AttConnection** (`AttAssumption`). Until the first timeout one answer at most
is owed, at the peer, on the wire or in the slot, and it is the last request's
(`OwedOnce`); who is where tells what may be owed (`WhoIsOwed`). `AnswerIsMine`
and `OneOutstanding` follow. `ToldInOrder` has an invariant of its own (`Told`):
what is on the wire and what was told are sorted, the one after the other.
`RepliesWake` says that a reply is never slept on: who is about to sleep looked
first, and the slot is filled under its mutex (`LookedFirst`). Of the end of the
connection it is false (`MCAttConnectionWake`, section 5).

**HciLinks** (`LinksAssumption`). `RecordAgrees` is not inductive: a grant and a report each
touch one of its two fields at a time. `RecordInv` adds that a forgotten device
has neither, and that a report which is half-way has taken the connection.
`CacheOfThisLink` needs `CallInv`, what a call carries from one of its steps to the
next: what it found is of the connection it holds, and on one thread the record
has that connection or none while a discovery of characteristics is under way.
The type invariant holds a fact of its own, that an open channel has a running
reader.

**HciScan** (`ScanAssumption`). `QuietAfterStop` and `NobodyStopsMyScan` rest on one
invariant. `ThreadInv`: a thread that runs is the one in the slot or one that
somebody joins, a controller that scans has a thread that will disable it or has
refused the last that tried (`stuck`), and the thread in the slot has not been told
to stop. `HubInv`: who is in the hub watches or is about to, and a filled slot has a
call or a stream that will empty it. These two give `QuietAfterStop`, on however
many threads the tasks run. `NobodyStopsMyScan` needs `AloneInv` as well, where
watchers share a thread: one call at a time is under way, whoever stops the scan
stops it for nobody, and the slot is filled while somebody has use for it.

Both are proved in `HciProofs` for the halves, and `BackendSafe` carries them over to
`HciBackend`, the specification the run checks: each half's variables are its own,
so a step of one is a stutter of the other.

**AppleCentral** (`AppleAssumption`). A callback names no request, so
`AnswerIsMine` (`AnswerIsHandedToItsCaller`) says that two queues keep step: the
waiters of a kind and the requests CoreBluetooth has of it. `StepInv` says it kind by
kind: they are the same requests in the same order, but for one that is registered
and not yet made (`Matched`); while a link's waiters have yet to be failed they are
out of step, and nothing is answered. To keep that, `LockInv` says who is past the
lock, so that one request of a kind is being made at a time; `NumberInv` that no
request is in two places; `LinkInv` that CoreBluetooth has nothing without a link.
`NoneDiscarded` (`NoWriteIsDiscarded`) needs `RoomInv`: whoever has looked or been
woken finds room, because nobody else writes. `NobodyIsLeft` is the safety half of
`EndsWithLink`: who waits and has been told nothing is in the queue of its kind
(`QueueInv`), and by `StepInv` its request is then with CoreBluetooth, or the report
of the link's end is about to fail it.

**AndroidGatt** (`AndroidAssumption`). `AnswerIsMine` and `NoneRefused` both follow
from `OwnedInv`: as long as the lock was kept until each answer, a read of the
recorded client that is not answered, under way or with its callback to come, is the
one read there is, and the lock's holder waits for it. What `connect` asks for
without the lock is not covered: `NoneRefused` says that it is all that can be under
way, and that it can is shown by `MCAndroidGattBusy` (section 5). To keep that when the record changes clients, `FreshInv` says that nothing was
ever read of a client not yet recorded and that it is one caller's; when a link ends
and its waiters are failed, `OrderInv` says that the client has no answer left behind
the end of its link; `LockInv` says that who reads has the lock, as long as it was kept.
`WaiterIsHeard` is the safety
half of `RequestEnds`: as long as nobody was left unheard, a waiter's client dials, is
at work on its request, or has a callback to come that is of its kind or the end of
the link (`HeardInv`).

**DBusCalls and BluezDevice** (`CallsAssumption`, `DeviceAssumption`; the theorems
are of `BluezBackend`, the specification the run checks, whose halves share no
variable). `ChangesCounted` and `RecordSettles` speak of a wire that has been read
to its end, so the invariant is about one that has not: `WireLeads` says that
reading the messages one after the other takes the reader from what it holds of link
and tree to what bluetoothd holds. A message sent is one step more at its end, a
message read one step less at its start, and a reply, which may be taken out
anywhere, is none. `ToldIsSo` adds what a connecting task has been told, because that
task sets the record too. For the calls, `HandlerKept` says that a handler that was
filed and not run is in one place, the table or the list of one of the two that end
the connection; `EndTakesAll` that whoever ended it has left none but of callers who
will take theirs back; `EndBegun` what they have set before they take it. From these:
no caller is left (`EndLeavesNobody`, the safety half of `CallEnds`), and what a
call's handler was run with does not change (`HandlersRunOnce`).
`ConnectMissesNoSignal` is the safety half of `ConnectEnds`, under the same condition
that bluetoothd refuses to connect what is connected. Its `SignalInv` says that
of a task one request at most is with bluetoothd, on the wire or in the reader's hand
(`OneRequest`), and that a task told of success whose waiter is still filed has the
signal of its link, or of that link's end, on the wire (`Heralded`).

Proved though no run lists them, as parts of the above: the type invariants,
`Bounded`, `SendersCounted`, `DrainedBeforeEnd` and `InOrder` of `Backlog`,
`GrantOnlyWidens` of `Registry`, `StaleForGood` of `GattHandles`, `WaiterIsHeardOf`
of `AppleCentral`, `WaiterIsPromised` of `AndroidGatt`, `NobodySleepsOnReply` of
`AttConnection`, `NobodyLeft` and `RunOnce` of `DBusCalls`, `NoSignalMissed` of
`BluezDevice`.

Every invariant and every action property of the runs is proved. Model-checked only
are the liveness properties (`EndReached`, `StreamEnds`, `WaitReturns`, `Reported`,
`RequestEnds`, `DownReported`, `LossNoticed`, `EndsWithLink`, `WriterResumes`,
`CallEnds`, `ConnectEnds`) and the fairness half of the refinement: they rest on
fairness, hence on `ENABLED`, which the prover does not handle.

## 5. Where the code and what it says differ

Three runs expect a violation, and each has a finding in `PROJECT.json` that
quotes what the code's documentation says:

- `apple_included`: `Pending::fail_peripheral` (`apple/backend.rs:147-161`) names
  eleven of the thirteen kinds of waiters. A discovery of included services under
  way when the link drops is never resolved, and its GATT lock never given back.
- `android_leak`: the end of a link takes the client out of the record without
  `close` (`android/backend.rs:322`), and neither `forget` nor the next `connect`
  can close it then. A forget between `connectGatt` and the recording of its client
  (974-978) leaves one too, and so does a second grant of a connected device
  (630-641); the property does not speak of those.
- `bluez_standoff`: `set_radio_scanning` holds the `bluez` mutex over blocking
  calls (`linux/backend.rs:457-466`), and the reader that should read their replies
  takes that mutex for every sighting (386-391). It ends with the call's time-out.

Eleven more are reproduced by configurations that are not among the runs
(`tlc -config <cfg> <module>` finds the property violated):

| Configuration | Property | What the code does | What is said |
|---|---|---|---|
| `MCGattHandlesForgotten` | `ForgottenStaysInvalid` | `remove` drops the record with its generation and a new grant starts from 0, so a handle from before `forget` may match again | "because every handle under it is invalid afterwards" (`facade/device.rs:653-654`) |
| `MCScanHubRepeats` | `Reported` | the restart decision compares service filters only (`core/scan.rs:175`), so a newcomer that wants repeats joins a scan that reports each device once | "Duplicates are wanted" (`core/scan.rs:50-51`) |
| `MCScanHubAbandoned` | `NobodyLeftNoRadio` | a request dropped at its await leaves its watcher in the hub (`core/scan.rs:334`) | the radio stops with the last watcher (`core/scan.rs:15-16`) |
| `MCScanHubThreads` | `RadioOffAtRest` | with tasks on several threads a start that widens the scan can fail, and leave the old scan running, after its other watchers have left; what `remove` then says is not looked at (`core/scan.rs:325-328`) | "the last one stops it" (`core/scan.rs:15-16`) |
| `MCAttConnectionLate` | `AnswerNeverAnothers` | a reply that comes after its request's time-out, and after the slot was cleared, is the next request's (`linux/gatt.rs:218`) | "Send one request and wait for its reply" (`linux/gatt.rs:212`) |
| `MCAttConnectionWake` | `NobodyLeftWaiting` | the reader sets its flag and notifies outside the waiter's mutex (`linux/gatt.rs:612`), between the waiter's look and its wait | "Wake anyone waiting on a reply that will never come" (`linux/gatt.rs:611`) |
| `MCLinkStreamsDrop` | `EverythingDelivered` | with callbacks on another thread a value may be queued between the poll of the values and that of the disconnections (`facade/gatt.rs:1117`) | "everything queued before the link dropped is delivered before the stream ends" (`facade/gatt.rs:1097-1098`) |
| `MCHciBackendTree` | `TreeIsCurrent` | a Service Changed indication moves the generation and keeps the cached tree (`linux/backend_hci.rs:147`) | "invalidated by the Service Changed indication" (`linux/backend_hci.rs:589-591`) |
| `MCHciBackendSilent` | `ScannedOrEnded` | a scan thread whose command or read fails ends without ending the streams or emptying its slot | "end the streams rather than leave every watcher waiting" (`linux/backend_hci.rs:271-272`), which only the failed open does |
| `MCAndroidGattBusy` | `NeverRefused` | `connect` asks for the MTU and the services without the GATT lock (`android/backend.rs:987-998`), so whoever gets the lock can be refused for them | "one outstanding operation of any kind"; "Dropping the lock here would not gain throughput, it would turn concurrent writes into refusals" (`android/backend.rs:1085-1091`) |
| `MCBluezBackendSocket` | `SocketIsOfLink` | the socket `AcquireWrite` returned is kept after the await without a look at the link (`linux/backend.rs:613`) | "Kept, they would be stale descriptors" (`linux/backend.rs:323-325`) |

Others were met while modelling. A property that has to leave one out says so in
a history variable or a choice of `Init`, named here:

- `service_from` (`facade/gatt.rs:274`) reads the generation after the discovery
  was awaited: a handle found before a change of services is stamped with the
  generation after it. `HandleNotRevived` counts from the stamp. A discovery that
  was allowed under one grant may be answered after the device was forgotten and
  granted again, more narrowly: `HandleWithinGrant` speaks of handles while the
  record they came from stays.
- `check_generation` comes before the wait for the GATT lock
  (`facade/gatt.rs:565`), so an operation queued while the link drops and
  returns is carried out on a stale handle. It looks at the registry twice, for the
  link and then for the generation; `CalledOnCurrent` says that the handle was
  current at the first look.
- After a timeout `AttConnection` sends the next request while the peer still
  owes a reply, against "exactly one outstanding request" (`linux/gatt.rs:9`).
  `OneOutstanding` is stated until the first timeout.
- A stop of the scan that fails is discarded everywhere: by the hub's callers
  (`core/scan.rs:339`), by BlueZ (`linux/backend.rs:436-440`), by the raw HCI thread
  and its socket (`linux/hci.rs:673`, 383); Android fails before it stops, if the
  adapter or its scanner is gone (`android/backend.rs:523-529`). The radio then runs
  on with nobody to ask for a stop again (`unstopped`, `stuck`).
- With tasks on several threads (`OneThread = FALSE` in `ScanHub`) the stop of
  the last watcher can overtake the start of the next (`core/scan.rs:338`), which
  `RadioCovers` leaves out. A start that fails while widening may already have
  stopped the scan of the others (`linux/backend.rs:458`; `failed`), and removes its
  own watcher only (`core/scan.rs:326`).
- Under `KeepOldest` the loss counter moves before the reader is at the gap,
  while `Receiver::lost` says otherwise for both policies
  (`core/backlog.rs:202-204`). `GapIsLost` is stated for `KeepNewest`.
- `disconnect_and_wait` waits for a disconnection nobody asked for if the link
  comes up between its `disconnect` and its `connected` (`facade/gatt.rs:148-149`).
- "Dropping it does not stop the subscription" and "Dropping the stream is what
  stops the subscription" stand side by side in the documentation of
  `start_notifications` (`facade/gatt.rs:658-678`).
- Raw HCI: a link that drops before `connect` has published it is reported before
  there is a record of it, and the device is then connected over a dead link
  (`linux/backend_hci.rs:604`; `prompt`). With callers on several threads a
  discovery can store what it read over an earlier link (711; `oneThread`). A
  stream's sender is kept under every known device, so a second device with a
  characteristic at the same handle feeds it too (846).
- BlueZ: where bluetoothd answers Connect with success for a device that is
  connected already, the waiter may wait for a signal that has been (`refuses`).
  `connect` records the device as connected whatever the reader recorded since its
  waiter was told (`linux/backend.rs:1000`; `crossed`). The first change of services
  of a device that was connected and resolved when it was granted is taken for its
  first discovery (339).
- D-Bus: the comment on `received_fds` (`linux/dbus/connection.rs:126-128`) says
  unclaimed descriptors are closed with the connection; `Drop` (419-427) does not.
  A call that timed out leaves its handler filed. Calls made by the peer are each
  answered on a thread of their own and can change order (611).
- CoreBluetooth: two writers that both find room can overfill the buffer, and
  `cancel` may drop another writer's waiter (`apple/backend.rs:1181`; `crowded`). A
  connect whose future was dropped leaves a waiter that takes the next connect's
  answer. Losing the adapter fails nobody who is still connecting, and
  `ready_to_write` is the other kind of waiter that dies with no link: a writer that
  waits when the link drops still waits after the next connect (`WriterResumes` is
  stated from the look at the buffer). A waiter is registered and the framework
  called with nothing held between (942-954): if the link drops and returns between
  the two, the waiter has been failed, the request is made all the same, and its
  answer goes to whoever waits next (`orphaned`). Whoever is woken by ReadyToWrite
  writes without another look (1182-1195), although another may have found the room
  first (`late`). Between the
  failing of the waiters and the marking of the record (553-567) a connect finds
  the device connected.
- Android: a callback that comes before the client is recorded (978) is dropped,
  as are those of a client that a second connect has replaced (979); a refused
  `discoverServices` (996) and a forget (899) leave their waiters with nothing to
  come (`unheard`). The end of one client clears a newer one (322). A future
  dropped at its await gives the lock back while Android is busy, and a forget
  drops the lock with the record: after the next grant a waiter left in a slot may
  be handed another's answer (`abandoned`).
  Waiters for a PHY are not failed with the link (131-138).

## 6. Not modelled, and why

Text and byte formats (UUIDs, D-Bus and HCI encodings, ATT PDUs, AD structures)
are abstracted to the distinctions the properties make. Names, manufacturer data
and the service-changed listeners of the registry repeat what is modelled of
services and disconnect listeners. Drawing, menus, packaging, generated code,
COM identifiers and JNI tables have no state the properties speak of.

Of the platform backends these parts are left out: pairing and bonds, several
adapters, what answers contain, restoration, L2CAP channels of the platforms, and
notifications (routed in `LinkStreams` for raw HCI; the others do the same through
a map of senders). The peripheral role is a second system on each platform, a GATT
server whose behaviour lies with the platform and with the embedder's answers. The
Windows backend awaits each WinRT operation through a channel of its own, so there
is no callback to be matched to a waiter. The browser-hosted and Node bindings are
runtimes of their own (executors, request tokens). Most of the repository's lines
are in such parts, in the two applications, and in the profiles of Bluetooth
Classic: presentation, parsers and data models. `PROJECT.json` has a reason for
each component.

Each platform is external: bluetoothd, CoreBluetooth, Android, the kernel and the
peer are modelled from what the code expects of them, as the module comments say.

## 7. What is left

1. The wasm and Node executors (a task woken while it runs, answers for tokens
   that are gone), and the peripheral role's requests, answered on drop.
2. Pure algorithms against reference definitions over bounded inputs: filter
   matching, long reads and writes (`linux/gatt.rs:476` sizes the next offset from a
   value that may be shorter than the first chunk), AD parsing.
3. The composition of a backend with the facade's handles and streams: today
   `LinkStreams` composes the registry with the raw HCI senders only.
4. Proofs: that each theorem proved under a choice of `Init` or a history variable
   (`oneThread`, `prompt`, `crossed`, `orphaned`, `abandoned`) holds as widely as it
   can; theorems for the compositions of item 3.
