------------------------------- MODULE ScanHub -------------------------------
(***************************************************************************)
(* One radio scan shared by everybody who wants advertisements             *)
(* (webbluetooth-core/src/scan.rs, and its callers: choose, request_le_scan*)
(* and watch_advertisements, and the two streams' Drop).                   *)
(*                                                                         *)
(* The hub's list has a mutex; the radio is told to start or stop after    *)
(* that mutex is released. So joining is two steps, Join and StartRadio,   *)
(* and so is leaving, Leave and StopRadio. On a single-threaded executor   *)
(* no task runs between the two halves, for there is no await there        *)
(* (OneThread); callbacks from the radio's thread come at any time.        *)
(*                                                                         *)
(* The radio is the kind that takes a filter: CoreBluetooth, BlueZ and     *)
(* Android. Starting it replaces the scan that runs; a start that fails    *)
(* has stopped that scan or not, and a stop that fails leaves it running.  *)
(* A filter is a set of services, and the empty set is everything. Left    *)
(* out: grants, names, the queues of the streams (Backlog has them), and a *)
(* start that succeeds though the platform refused the stop or the filter  *)
(* before it (BlueZ and Android discard both answers).                     *)
(***************************************************************************)
EXTENDS Naturals, FiniteSets

CONSTANTS Watchers,     \* calls in flight or streams handed out
          Services, Devices,
          Advertised,   \* which services each device advertises
          Wants,        \* what a watcher may ask for
          OneThread     \* do all tasks run on one thread?

Kinds == {"request", "scan", "device"}

\* `device' matters when kind is "device", and `services' when it is not.
Want == [kind : Kinds, services : SUBSET Services, repeats : BOOLEAN,
         device : Devices]

ASSUME HubAssumption ==
    /\ Advertised \in [Devices -> SUBSET Services]
    /\ Wants \subseteq Want /\ Wants # {}
    /\ \A n \in Wants : n.kind # "scan" => n.repeats
    /\ OneThread \in BOOLEAN

VARIABLES
    pc,        \* where each watcher's call is
    want,      \* what it asked for
    hub,       \* who is in the hub's list
    told,      \* the devices each watcher has been told of
    radio,     \* the scan that runs, if any
    reported,  \* the devices this scan has reported
    failed,    \* history: did a start that failed leave no scan?
    unstopped, \* history: did the last stop fail?
    dying      \* a failure the platform has not yet called back about

vars == <<pc, want, hub, told, radio, reported, failed, unstopped, dying>>

Off == [on |-> FALSE, services |-> {}, repeats |-> FALSE]

TypeOK ==
    /\ pc \in [Watchers -> {"out", "starting", "live", "stopping", "abandoned"}]
    /\ want \in [Watchers -> Wants]
    /\ hub \subseteq Watchers
    /\ told \in [Watchers -> SUBSET Devices]
    /\ radio \in [on : BOOLEAN, services : SUBSET Services, repeats : BOOLEAN]
    /\ reported \subseteq Devices
    /\ failed \in BOOLEAN /\ unstopped \in BOOLEAN /\ dying \in BOOLEAN

Init ==
    /\ pc = [w \in Watchers |-> "out"]
    /\ want = [w \in Watchers |-> CHOOSE n \in Wants : TRUE]
    /\ hub = {}
    /\ told = [w \in Watchers |-> {}]
    /\ radio = Off
    /\ reported = {}
    /\ failed = FALSE /\ unstopped = FALSE /\ dying = FALSE

Goto(w, from, to) == pc[w] = from /\ pc' = [pc EXCEPT ![w] = to]

\* Nobody is between the hub's mutex and the radio.
Settled == \A w \in Watchers : pc[w] \notin {"starting", "stopping"}

MayRun(w) == OneThread => \A v \in Watchers \ {w} : pc[v] \notin {"starting", "stopping"}

-----------------------------------------------------------------------------
(* The filter of the radio. *)

FilterOf(n) == IF n.kind = "device" THEN {} ELSE n.services

(* Mutant: what cannot be filtered is ignored, and does not widen.         *)
RadioFilter_Narrow(ws, n) == UNION {FilterOf(n[w]) : w \in ws}

(* radio_filter, over the watchers ws who ask for n. *)
RadioFilter(ws, n) ==
    IF \E w \in ws : FilterOf(n[w]) = {}
    THEN {}
    ELSE UNION {FilterOf(n[w]) : w \in ws}

WantsRepeats == \E w \in hub : want[w].repeats

(* Mutant: only the first starts it. *)
Restarts_OnlyFirst(w, n) == hub = {}

Restarts(w, n) ==
    \/ RadioFilter(hub, n) # RadioFilter(hub \cup {w}, n)
    \/ hub = {}

-----------------------------------------------------------------------------
(* Joining. *)

(* ScanHub::add. A watcher that need not restart the radio is live.        *)
Join(w) ==
    /\ MayRun(w)
    /\ pc[w] = "out"
    /\ \E n \in Wants :
        LET asks == [want EXCEPT ![w] = n] IN
        /\ want' = asks
        /\ pc' = [pc EXCEPT ![w] = IF Restarts(w, asks) THEN "starting" ELSE "live"]
    /\ hub' = hub \cup {w}
    /\ told' = [told EXCEPT ![w] = {}]
    /\ UNCHANGED <<radio, reported, failed, unstopped, dying>>

(* set_radio_scanning(true): the filter is read from the hub now. *)
StartRadio(w) ==
    /\ MayRun(w)
    /\ Goto(w, "starting", "live")
    /\ radio' = [on |-> TRUE, services |-> RadioFilter(hub, want),
                 repeats |-> WantsRepeats]
    /\ reported' = {}
    /\ failed' = FALSE /\ unstopped' = FALSE
    /\ UNCHANGED <<want, hub, told, dying>>

(* The start fails once the scan that ran was stopped, or before that (no  *)
(* adapter, no scanner, a call refused). The caller takes its watcher out  *)
(* and reports the error; what remove says is not looked at.               *)
StartFails(w) ==
    /\ MayRun(w)
    /\ Goto(w, "starting", "out")
    /\ hub' = hub \ {w}
    /\ \/ radio' = Off /\ failed' = TRUE
       \/ UNCHANGED <<radio, failed>>
    /\ UNCHANGED <<want, told, reported, unstopped, dying>>

-----------------------------------------------------------------------------
(* Leaving. *)

(* Mutant: the last to leave does not stop the radio. *)
Last_Never(w) == FALSE

Last(w) == hub \ {w} = {}

(* ScanHub::remove, when the chooser has chosen or the stream is dropped.  *)
Leave(w) ==
    /\ MayRun(w)
    /\ Goto(w, "live", IF Last(w) THEN "stopping" ELSE "out")
    /\ hub' = hub \ {w}
    /\ UNCHANGED <<want, told, radio, reported, failed, unstopped, dying>>

StopRadio(w) ==
    /\ MayRun(w)
    /\ Goto(w, "stopping", "out")
    /\ radio' = Off
    /\ unstopped' = FALSE
    /\ UNCHANGED <<want, hub, told, reported, failed, dying>>

(* The stop fails, its error is discarded, and the scan runs on.           *)
StopFails(w) ==
    /\ MayRun(w)
    /\ Goto(w, "stopping", "out")
    /\ unstopped' = TRUE
    /\ UNCHANGED <<want, hub, told, radio, reported, failed, dying>>

(* The future of a request is dropped while its chooser deliberates:       *)
(* nothing takes its watcher out of the hub.                               *)
Abandon(w) ==
    /\ MayRun(w)
    /\ want[w].kind = "request"
    /\ Goto(w, "live", "abandoned")
    /\ UNCHANGED <<want, hub, told, radio, reported, failed, unstopped, dying>>

-----------------------------------------------------------------------------
(* The radio's thread. *)

Accepts(w, d) ==
    LET n == want[w] IN
    IF n.kind = "device" THEN n.device = d
    ELSE n.services = {} \/ n.services \cap Advertised[d] # {}

(* What the platform's filter lets through; without repeats it reports     *)
(* each device once in a scan.                                             *)
Hears(d) ==
    /\ radio.on
    /\ radio.services = {} \/ radio.services \cap Advertised[d] # {}
    /\ radio.repeats \/ d \notin reported

(* ScanHub::publish. Being told again changes nothing here. *)
Publish(d) ==
    /\ Hears(d)
    /\ reported' = reported \cup {d}
    /\ told' = [w \in Watchers |->
                  IF w \in hub /\ Accepts(w, d) THEN told[w] \cup {d} ELSE told[w]]
    /\ UNCHANGED <<pc, want, hub, radio, failed, unstopped, dying>>

RadioDies ==
    /\ radio.on
    /\ radio' = Off
    /\ dying' = TRUE
    /\ UNCHANGED <<pc, want, hub, told, reported, failed, unstopped>>

(* ScanHub::close_all, from the platform's callback: every stream ends, and *)
(* its owner has yet to leave.                                             *)
CloseAll ==
    /\ dying
    /\ dying' = FALSE
    /\ hub' = {}
    /\ UNCHANGED <<pc, want, told, radio, reported, failed, unstopped>>

-----------------------------------------------------------------------------
Next ==
    \/ \E w \in Watchers : \/ Join(w) \/ StartRadio(w) \/ StartFails(w)
                           \/ Leave(w) \/ StopRadio(w) \/ StopFails(w)
                           \/ Abandon(w)
    \/ \E d \in Devices : Publish(d)
    \/ RadioDies \/ CloseAll

Spec == Init /\ [][Next]_vars

(* A call that is between the hub and the radio goes on. A device keeps    *)
(* advertising, and the platform calls back.                               *)
Fairness ==
    /\ \A w \in Watchers : /\ WF_vars(StartRadio(w) \/ StartFails(w))
                           /\ WF_vars(StopRadio(w) \/ StopFails(w))
    /\ \A d \in Devices : WF_vars(Publish(d))
    /\ WF_vars(CloseAll)

FairSpec == Spec /\ Fairness

-----------------------------------------------------------------------------
(* Properties. *)

Wide(services, needed) == services = {} \/ (needed # {} /\ needed \subseteq services)

(* While anybody is in the hub the radio runs, wide enough for every one   *)
(* of them, unless a start that failed left none or it has died: "The first*)
(* watcher starts the radio and the last one stops it" and a requestDevice *)
(* does not cancel a scan somebody else relies on (scan.rs:15-22).         *)
RadioCovers ==
    Settled /\ ~failed /\ ~dying =>
        \A w \in hub : radio.on /\ Wide(radio.services, FilterOf(want[w]))

(* Once every call has returned and every stream is dropped, a radio that  *)
(* still runs is one that refused the last call to stop it: whatever else  *)
(* failed, a start that left the old scan running among it, somebody made  *)
(* that call (scan.rs:15-16, 338-340). It is stated for tasks on one       *)
(* thread: on several, a start may fail when the others have left, and     *)
(* what remove then says is lost (scan.rs:325-328).                        *)
RadioOffAtRest == (\A w \in Watchers : pc[w] = "out") /\ radio.on => unstopped

(* A device that keeps advertising is reported to whoever waits for it,    *)
(* whoever joins and leaves meanwhile, unless the scan fails. It holds     *)
(* while everyone wants repeats; "Duplicates are wanted" (scan.rs:50-51)   *)
(* is what it says of those who join a scan that does without.             *)
Reported ==
    \A w \in Watchers, d \in Devices :
        pc[w] = "live" /\ w \in hub /\ Accepts(w, d) ~>
            d \in told[w] \/ pc[w] # "live" \/ w \notin hub \/ failed \/ dying

(* "the last one stops it" (scan.rs:15-16): the radio does not run on for  *)
(* requests whose callers have gone.                                       *)
NobodyLeftNoRadio ==
    (\A w \in Watchers : pc[w] \in {"out", "abandoned"}) => ~radio.on
=============================================================================
