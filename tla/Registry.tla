------------------------------ MODULE Registry ------------------------------
(***************************************************************************)
(* The device registry every backend shares                                *)
(* (webbluetooth-core/src/registry.rs): which devices are granted, what    *)
(* each grant reaches, whether the link is up, the generation that makes   *)
(* old handles stale, the identity of the lock that serialises GATT        *)
(* operations, and who is to be told of a disconnection.                   *)
(*                                                                         *)
(* The map of devices and the map of listeners have a mutex each. An       *)
(* action is one critical section; mark_disconnected and remove, which     *)
(* take one after the other, are two actions each.                         *)
(*                                                                         *)
(* Not modelled: names, manufacturer data (a second set beside the         *)
(* services, joined by the same union), and the service listeners.         *)
(***************************************************************************)
EXTENDS Naturals, FiniteSets

CONSTANTS Devices, Services,
          Watchers,     \* receivers of a disconnect stream
          NoDevice,
          MaxEpoch,     \* bound: how often a device's handles become stale
          MaxForgets    \* bound: how often a device is forgotten

ASSUME RegistryAssumption ==
    /\ NoDevice \notin Devices
    /\ MaxEpoch \in Nat /\ MaxForgets \in Nat

VARIABLES
    granted,      \* the keys of `devices'
    allowed, connected, generation, lock,   \* struct Device, by id
    listening,    \* the device whose `listeners' entry holds w's sender
    signals,      \* how many () wait in w's channel
    telling,      \* threads between the two halves of mark_disconnected
    forgetting,   \* devices between the two halves of remove
    epoch,        \* history: times d's handles became stale, never reset
    incarnation,  \* history: times d's record was removed
    locks,        \* history: how many lock objects have been created
    due           \* history: disconnections of w's device since w listens

records == <<granted, allowed, connected, generation, lock, locks>>
streams == <<listening, signals, due>>
vars    == <<records, streams, telling, forgetting, epoch, incarnation>>

TypeOK ==
    /\ granted \subseteq Devices
    /\ allowed \in [Devices -> SUBSET Services]
    /\ connected \in [Devices -> BOOLEAN]
    /\ generation \in [Devices -> Nat]
    /\ lock \in [Devices -> Nat] /\ locks \in Nat
    /\ listening \in [Watchers -> Devices \cup {NoDevice}]
    /\ signals \in [Watchers -> Nat] /\ due \in [Watchers -> Nat]
    /\ telling \in [Devices -> Nat]
    /\ forgetting \subseteq Devices
    /\ epoch \in [Devices -> Nat] /\ incarnation \in [Devices -> Nat]

Init ==
    /\ granted = {}
    /\ allowed = [d \in Devices |-> {}]
    /\ connected = [d \in Devices |-> FALSE]
    /\ generation = [d \in Devices |-> 0]
    /\ lock = [d \in Devices |-> 0] /\ locks = 0
    /\ listening = [w \in Watchers |-> NoDevice]
    /\ signals = [w \in Watchers |-> 0] /\ due = [w \in Watchers |-> 0]
    /\ telling = [d \in Devices |-> 0]
    /\ forgetting = {}
    /\ epoch = [d \in Devices |-> 0]
    /\ incarnation = [d \in Devices |-> 0]

-----------------------------------------------------------------------------
(* Granting. What a removed record held does not matter any more: a fresh  *)
(* record starts from nothing.                                             *)

(* Mutants of what a second grant does: it starts the generation again; it *)
(* makes a lock of its own.                                                *)
CarriedGeneration_Reset(d) == 0
CarriedLock_Fresh(d)       == locks + 1

Union(d, services) ==
    IF d \in granted THEN allowed[d] \cup services ELSE services

CarriedGeneration(d) == IF d \in granted THEN generation[d] ELSE 0

CarriedLock(d) == IF d \in granted THEN lock[d] ELSE locks + 1

(* `up' is what the backend believes of the link: some pass false whatever *)
(* the link's state, some ask the platform.                                *)
Insert(d, services, up) ==
    /\ granted' = granted \cup {d}
    /\ allowed' = [allowed EXCEPT ![d] = Union(d, services)]
    /\ connected' = [connected EXCEPT ![d] = up]
    /\ generation' = [generation EXCEPT ![d] = CarriedGeneration(d)]
    /\ lock' = [lock EXCEPT ![d] = CarriedLock(d)]
    /\ locks' = IF CarriedLock(d) > locks THEN CarriedLock(d) ELSE locks
    /\ UNCHANGED <<streams, telling, forgetting, epoch, incarnation>>

(* `update(id, |d| d.connected = true)', which every backend does when its *)
(* platform reports the link up.                                           *)
LinkUp(d) ==
    /\ d \in granted /\ ~connected[d]
    /\ connected' = [connected EXCEPT ![d] = TRUE]
    /\ UNCHANGED <<granted, allowed, generation, lock, locks, streams,
                   telling, forgetting, epoch, incarnation>>

-----------------------------------------------------------------------------
(* Invalidating. *)

(* Mutant: only a disconnection counts. *)
Bump_Not(d) == UNCHANGED generation

Bump(d) == generation' = [generation EXCEPT ![d] = @ + 1]

Stale(d) ==
    /\ epoch[d] < MaxEpoch
    /\ epoch' = [epoch EXCEPT ![d] = @ + 1]

MarkServicesChanged(d) ==
    /\ d \in granted
    /\ Stale(d) /\ Bump(d)
    /\ UNCHANGED <<granted, allowed, connected, lock, locks, streams,
                   telling, forgetting, incarnation>>

(* mark_disconnected, first half: the record. A device that is not known   *)
(* has no record to update, but its listeners are told all the same.       *)
MarkDisconnected(d) ==
    /\ Stale(d)
    /\ IF d \in granted
       THEN /\ connected' = [connected EXCEPT ![d] = FALSE]
            /\ Bump(d)
       ELSE UNCHANGED <<connected, generation>>
    /\ telling' = [telling EXCEPT ![d] = @ + 1]
    /\ due' = [w \in Watchers |-> IF listening[w] = d THEN due[w] + 1 ELSE due[w]]
    /\ UNCHANGED <<granted, allowed, lock, locks, listening, signals,
                   forgetting, incarnation>>

(* Mutant: nobody is told of a device that is not known. *)
Told_Granted(d) == {w \in Watchers : listening[w] = d /\ d \in granted}

Told(d) == {w \in Watchers : listening[w] = d}

(* Mutant: the listeners are told though nothing was marked. *)
TellDisconnected_Unasked(d) ==
    /\ telling' = [telling EXCEPT ![d] = @ - 1]
    /\ signals' = [w \in Watchers |->
                     IF w \in Told(d) THEN signals[w] + 1 ELSE signals[w]]
    /\ UNCHANGED <<records, listening, due, forgetting, epoch, incarnation>>

(* mark_disconnected, second half: the listeners. *)
TellDisconnected(d) ==
    /\ telling[d] > 0
    /\ telling' = [telling EXCEPT ![d] = @ - 1]
    /\ signals' = [w \in Watchers |->
                     IF w \in Told(d) THEN signals[w] + 1 ELSE signals[w]]
    /\ UNCHANGED <<records, listening, due, forgetting, epoch, incarnation>>

-----------------------------------------------------------------------------
(* Watching and forgetting. *)

Watch(w, d) ==
    /\ listening[w] = NoDevice
    /\ listening' = [listening EXCEPT ![w] = d]
    /\ signals' = [signals EXCEPT ![w] = 0]
    /\ due' = [due EXCEPT ![w] = 0]
    /\ UNCHANGED <<records, telling, forgetting, epoch, incarnation>>

(* The receiver is dropped. Its sender stays in the map until the next     *)
(* disconnection finds it dead, which nobody can see.                      *)
Unwatch(w) ==
    /\ listening[w] # NoDevice
    /\ listening' = [listening EXCEPT ![w] = NoDevice]
    /\ UNCHANGED <<records, signals, due, telling, forgetting, epoch, incarnation>>

(* remove, first half: whoever watches is cut off, and its stream ends     *)
(* once the signals already sent are read.                                 *)
RemoveListeners(d) ==
    /\ incarnation[d] < MaxForgets
    /\ d \in granted /\ d \notin forgetting
    /\ forgetting' = forgetting \cup {d}
    /\ listening' = [w \in Watchers |->
                       IF listening[w] = d THEN NoDevice ELSE listening[w]]
    /\ UNCHANGED <<records, signals, due, telling, epoch, incarnation>>

(* remove, second half: the record, and its generation with it. *)
RemoveRecord(d) ==
    /\ d \in forgetting
    /\ forgetting' = forgetting \ {d}
    /\ granted' = granted \ {d}
    /\ allowed' = [allowed EXCEPT ![d] = {}]
    /\ connected' = [connected EXCEPT ![d] = FALSE]
    /\ generation' = [generation EXCEPT ![d] = 0]
    /\ incarnation' = [incarnation EXCEPT ![d] = @ + 1]
    /\ UNCHANGED <<lock, locks, streams, telling, epoch>>

-----------------------------------------------------------------------------
Next == \E d \in Devices :
    \/ \E services \in SUBSET Services, up \in BOOLEAN : Insert(d, services, up)
    \/ LinkUp(d)
    \/ MarkServicesChanged(d)
    \/ MarkDisconnected(d)
    \/ TellDisconnected(d)
    \/ RemoveListeners(d)
    \/ RemoveRecord(d)
    \/ \E w \in Watchers : Watch(w, d) \/ Unwatch(w)

Spec == Init /\ [][Next]_vars

-----------------------------------------------------------------------------
(* Properties. *)

(* A permission only ever widens, until it is forgotten: no later grant    *)
(* takes away what an earlier one gave (registry.rs:206-208, 332-337).     *)
GrantOnlyWidens ==
    [][\A d \in Devices :
          d \in granted /\ d \in granted' => allowed[d] \subseteq allowed'[d]]_vars

(* The generation of a record that stays never goes back, and goes forward *)
(* exactly when the handles into the device become stale, so a number      *)
(* recorded before a disconnection or a change of services never matches   *)
(* afterwards (registry.rs:339-344).                                       *)
GenerationCounts ==
    [][\A d \in Devices :
          d \in granted /\ d \in granted' =>
             generation'[d] - generation[d] = epoch'[d] - epoch[d]]_vars

(* A watcher is signalled for every disconnection since it began to watch, *)
(* once the threads that report them are done (registry.rs:578-604).       *)
NoDisconnectMissed ==
    \A w \in Watchers, d \in Devices :
        listening[w] = d /\ telling[d] = 0 => signals[w] >= due[w]
=============================================================================
