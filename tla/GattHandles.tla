---------------------------- MODULE GattHandles ----------------------------
(***************************************************************************)
(* What a program does with the registry through the facade                *)
(* (webbluetooth/src/gatt.rs): it discovers a service, is given a handle   *)
(* that remembers a generation, and uses the handle for operations that    *)
(* queue on the device's GATT lock. Every await and every separate lock of *)
(* the registry is a step boundary, across which the link may drop, the    *)
(* peer may change its services and the device may be forgotten and        *)
(* granted again.                                                          *)
(*                                                                         *)
(* A handle to a characteristic or a descriptor copies the generation of   *)
(* the handle it came from, so one handle per client stands for them all.  *)
(* What travels over the link is the backend's: an answer arrives or it    *)
(* does not.                                                               *)
(***************************************************************************)
EXTENDS Registry

CONSTANTS Clients,      \* tasks, each with one handle
          Blocked       \* the services on the GATT blocklist

ASSUME HandlesAssumption == Blocked \subseteq Services

VARIABLES
    pc,         \* where each client's task is
    handle,     \* its handle, or NoHandle
    asking,     \* the discovery it has in hand
    seen,       \* the generation check_generation read first
    queuedOn,   \* the lock object the operation waits for or holds
    calledAt    \* history: `epoch' of the device at that first read

clients  == <<pc, handle, asking, seen, queuedOn, calledAt>>
varsG    == <<vars, clients>>

NoHandle == [dev |-> NoDevice]

(* `minted' is history: how often the device's handles had become stale    *)
(* when the generation was read. `inc' is the incarnation of the record    *)
(* the discovery was allowed by.                                           *)
Handle == [dev : Devices, svc : Services, gen : Nat, minted : Nat, inc : Nat]

Question == [dev : Devices, svc : Services, inc : Nat]
NoQuestion == [dev |-> NoDevice]

TypeOKG ==
    /\ TypeOK
    /\ pc \in [Clients -> {"idle", "discovering", "answered", "checking",
                           "checked", "queued", "operating"}]
    /\ handle \in [Clients -> Handle \cup {NoHandle}]
    /\ asking \in [Clients -> Question \cup {NoQuestion}]
    /\ seen \in [Clients -> Nat]
    /\ queuedOn \in [Clients -> Nat]
    /\ calledAt \in [Clients -> Nat]

InitG ==
    /\ Init
    /\ pc = [c \in Clients |-> "idle"]
    /\ handle = [c \in Clients |-> NoHandle]
    /\ asking = [c \in Clients |-> NoQuestion]
    /\ seen = [c \in Clients |-> 0]
    /\ queuedOn = [c \in Clients |-> 0]
    /\ calledAt = [c \in Clients |-> 0]

Goto(c, from, to) == pc[c] = from /\ pc' = [pc EXCEPT ![c] = to]

-----------------------------------------------------------------------------
(* get_primary_service. *)

(* Mutant: one of the two checks is missing. *)
Guard_NoBlocklist(d, s) == d \in granted /\ s \in allowed[d]

Guard(d, s) == d \in granted /\ s \notin Blocked /\ s \in allowed[d]

Discover(c, d, s) ==
    /\ Goto(c, "idle", "discovering")
    /\ Guard(d, s)
    /\ asking' = [asking EXCEPT ![c] =
                    [dev |-> d, svc |-> s, inc |-> incarnation[d]]]
    /\ UNCHANGED <<vars, handle, seen, queuedOn, calledAt>>

(* The backend's answer, over a link that is up. The peer may have changed *)
(* its services since it was asked, and the device been granted again.     *)
DiscoverAnswer(c) ==
    /\ Goto(c, "discovering", "answered")
    /\ asking[c].dev \in granted /\ connected[asking[c].dev]
    /\ UNCHANGED <<vars, handle, asking, seen, queuedOn, calledAt>>

(* Any error, and an answer without the service. *)
DiscoverFails(c) ==
    /\ Goto(c, "discovering", "idle")
    /\ asking' = [asking EXCEPT ![c] = NoQuestion]
    /\ UNCHANGED <<vars, handle, seen, queuedOn, calledAt>>

(* service_from, which reads the generation now, after the await. *)
Mint(c) ==
    LET q == asking[c] IN
    /\ Goto(c, "answered", "idle")
    /\ IF q.dev \in granted
       THEN handle' = [handle EXCEPT ![c] =
                [dev |-> q.dev, svc |-> q.svc, gen |-> generation[q.dev],
                 minted |-> epoch[q.dev], inc |-> q.inc]]
       ELSE UNCHANGED handle
    /\ asking' = [asking EXCEPT ![c] = NoQuestion]
    /\ UNCHANGED <<vars, seen, queuedOn, calledAt>>

-----------------------------------------------------------------------------
(* An operation on a handle. *)

Held(c) == handle[c] # NoHandle

(* check_generation, the first of its two reads. *)
ReadGeneration(c) ==
    /\ Held(c) /\ handle[c].dev \in granted
    /\ Goto(c, "idle", "checking")
    /\ seen' = [seen EXCEPT ![c] = generation[handle[c].dev]]
    /\ calledAt' = [calledAt EXCEPT ![c] = epoch[handle[c].dev]]
    /\ UNCHANGED <<vars, handle, asking, queuedOn>>

(* Mutant: a connected device is enough. *)
Passes_Connected(c) == connected[handle[c].dev]

Passes(c) == connected[handle[c].dev] /\ seen[c] = handle[c].gen

(* check_generation, the second read, and the verdict. A record removed    *)
(* between the two is one that is not connected.                           *)
CheckGeneration(c) ==
    /\ pc[c] = "checking"
    /\ pc' = [pc EXCEPT ![c] = IF Passes(c) THEN "checked" ELSE "idle"]
    /\ seen' = [seen EXCEPT ![c] = 0]
    /\ UNCHANGED <<vars, handle, asking, queuedOn, calledAt>>

(* gatt_lock: take the record's lock object and wait for it. *)
QueueOnLock(c) ==
    LET d == handle[c].dev IN
    /\ pc[c] = "checked"
    /\ IF d \in granted
       THEN /\ pc' = [pc EXCEPT ![c] = "queued"]
            /\ queuedOn' = [queuedOn EXCEPT ![c] = lock[d]]
       ELSE /\ pc' = [pc EXCEPT ![c] = "idle"]
            /\ UNCHANGED queuedOn
    /\ UNCHANGED <<vars, handle, asking, seen, calledAt>>

(* Lock objects are numbered across devices by `locks', which every fresh  *)
(* record advances, so equal numbers are one object.                       *)
LockFree(c) ==
    \A b \in Clients : pc[b] = "operating" => queuedOn[b] # queuedOn[c]

Operate(c) ==
    /\ LockFree(c)
    /\ Goto(c, "queued", "operating")
    /\ UNCHANGED <<vars, handle, asking, seen, queuedOn, calledAt>>

Finish(c) ==
    /\ Goto(c, "operating", "idle")
    /\ queuedOn' = [queuedOn EXCEPT ![c] = 0]
    /\ UNCHANGED <<vars, handle, asking, seen, calledAt>>

-----------------------------------------------------------------------------
Client(c) ==
    \/ \E d \in Devices, s \in Services : Discover(c, d, s)
    \/ DiscoverAnswer(c) \/ DiscoverFails(c) \/ Mint(c)
    \/ ReadGeneration(c) \/ CheckGeneration(c)
    \/ QueueOnLock(c) \/ Operate(c) \/ Finish(c)

NextG ==
    \/ Next /\ UNCHANGED clients
    \/ \E c \in Clients : Client(c)

SpecG == InitG /\ [][NextG]_varsG

-----------------------------------------------------------------------------
(* Properties. *)

SameRecord(c) == Held(c) /\ handle[c].inc = incarnation[handle[c].dev]

(* What check_generation would say of c's handle, were it one read. *)
Usable(c) ==
    /\ Held(c)
    /\ handle[c].dev \in granted
    /\ connected[handle[c].dev]
    /\ handle[c].gen = generation[handle[c].dev]

(* While the record stays, a handle is usable only if nothing has made the *)
(* device's handles stale since its generation was read: no reconnection   *)
(* and no second grant revives it (registry.rs:339-344, 511-525).          *)
HandleNotRevived ==
    \A c \in Clients :
        Usable(c) /\ SameRecord(c) => handle[c].minted = epoch[handle[c].dev]

(* While the record stays, what a client holds is within the grant and off *)
(* the blocklist, whatever was granted since (registry.rs:25-29).          *)
HandleWithinGrant ==
    \A c \in Clients :
        SameRecord(c) => handle[c].svc \in allowed[handle[c].dev] \ Blocked

(* Operations on one record run one at a time, whatever is granted again   *)
(* while one of them runs (registry.rs:356-360).                           *)
OneOperation ==
    \A b, c \in Clients :
        /\ b # c /\ pc[b] = "operating" /\ pc[c] = "operating"
        /\ SameRecord(b) /\ SameRecord(c)
        => handle[b].dev # handle[c].dev

(* A handle that check_generation refused as stale is refused for good,    *)
(* while the record stays.                                                 *)
StaleForGood ==
    [][\A c \in Clients :
          /\ SameRecord(c) /\ SameRecord(c)' /\ handle'[c] = handle[c]
          /\ handle[c].dev \in granted
          /\ handle[c].gen # generation[handle[c].dev]
          => ~Usable(c)']_varsG

(* An operation that gets as far as the lock was called on a handle that   *)
(* was current when it was called, although check_generation reads the     *)
(* generation and the link separately (registry.rs:514-523).               *)
CalledOnCurrent ==
    \A c \in Clients :
        pc[c] \in {"checked", "queued", "operating"} /\ SameRecord(c)
            => handle[c].minted = calledAt[c]

(* "every handle under it is invalid afterwards" (device.rs:652-653): a    *)
(* handle into a device that was forgotten since is not usable.            *)
ForgottenStaysInvalid ==
    \A c \in Clients : Usable(c) => SameRecord(c)
=============================================================================
