------------------------------- MODULE HciScan -------------------------------
(***************************************************************************)
(* The scan thread of the raw HCI backend                                  *)
(* (webbluetooth-linux/src/backend_hci.rs, set_radio_scanning, and         *)
(* hci.rs, scan), with what the hub asks of it.                            *)
(*                                                                         *)
(* The hub is the set of those who watch; ScanHub has its filters. This    *)
(* radio takes none, so a watcher that joins asks for a start at most, and *)
(* a start finds a thread already there. A thread opens a socket of its    *)
(* own, enables scanning, reads until its flag is raised, disables         *)
(* scanning and ends; closing the socket disables it again if that failed. *)
(* The controller obeys the last command it was given.                     *)
(***************************************************************************)
EXTENDS Naturals, FiniteSets

CONSTANTS Watchers,
          MaxThreads    \* bound: scan threads spawned

ASSUME ScanAssumption == MaxThreads \in Nat

NoThread == 0
Threads  == 1 .. MaxThreads

VARIABLES
    pc,         \* where each watcher's call is
    hub,        \* who is in the hub's list
    slot,       \* the thread in scan_stop
    stopped,    \* the threads whose flag is raised
    thread,     \* where each thread is
    joining,    \* the thread each watcher's call waits for
    spawned,
    radio,      \* does the controller scan?
    stuck,      \* history: did the last thread to end fail to stop the scan?
    broken,     \* history: has a thread failed to scan?
    alone       \* do all watchers' tasks share a thread?

scanVars == <<pc, hub, slot, stopped, thread, joining, spawned, radio, stuck, broken, alone>>

ScanTypeOK ==
    /\ pc \in [Watchers -> {"out", "starting", "live", "stopping", "joining"}]
    /\ hub \subseteq Watchers
    /\ slot \in Threads \cup {NoThread}
    /\ stopped \subseteq Threads
    /\ thread \in [Threads -> {"none", "opening", "enabling", "reading",
                               "disabling", "dropping", "gone"}]
    /\ joining \in [Watchers -> Threads \cup {NoThread}]
    /\ \A w \in Watchers : pc[w] = "joining" => joining[w] \in stopped
    /\ spawned \in 0 .. MaxThreads
    /\ radio \in BOOLEAN /\ stuck \in BOOLEAN
    /\ broken \in BOOLEAN /\ alone \in BOOLEAN

ScanInit ==
    /\ pc = [w \in Watchers |-> "out"]
    /\ hub = {} /\ slot = NoThread /\ stopped = {}
    /\ thread = [t \in Threads |-> "none"] /\ spawned = 0
    /\ joining = [w \in Watchers |-> NoThread]
    /\ radio = FALSE /\ stuck = FALSE /\ broken = FALSE
    /\ alone \in BOOLEAN

Move(w, from, to) == pc[w] = from /\ pc' = [pc EXCEPT ![w] = to]

Run(t, from, to) == thread[t] = from /\ thread' = [thread EXCEPT ![t] = to]

\* Nothing is awaited between the hub and the radio, and join blocks.
MayProceed(w) ==
    alone => \A v \in Watchers \ {w} : pc[v] \in {"out", "live"}

-----------------------------------------------------------------------------
(* The watchers. *)

Join(w) ==
    /\ MayProceed(w)
    /\ Move(w, "out", "starting")
    /\ hub' = hub \cup {w}
    /\ UNCHANGED <<slot, stopped, thread, joining, spawned, radio, stuck, broken, alone>>

(* Mutant: there is no look at whether a thread runs. *)
Start_Always(w) ==
    /\ MayProceed(w)
    /\ spawned < MaxThreads
    /\ Move(w, "starting", "live")
    /\ slot' = spawned + 1 /\ spawned' = spawned + 1
    /\ thread' = [thread EXCEPT ![spawned + 1] = "opening"]
    /\ UNCHANGED <<hub, stopped, joining, radio, stuck, broken, alone>>

(* set_radio_scanning(true), under the mutex. *)
Start(w) ==
    /\ MayProceed(w)
    /\ slot = NoThread => spawned < MaxThreads
    /\ Move(w, "starting", "live")
    /\ IF slot = NoThread
       THEN /\ slot' = spawned + 1 /\ spawned' = spawned + 1
            /\ thread' = [thread EXCEPT ![spawned + 1] = "opening"]
       ELSE UNCHANGED <<slot, spawned, thread>>
    /\ UNCHANGED <<hub, stopped, joining, radio, stuck, broken, alone>>

(* No thread is spawned. The caller takes its watcher out and reports the  *)
(* error; what remove says is not looked at.                               *)
StartFails(w) ==
    /\ MayProceed(w)
    /\ slot = NoThread
    /\ Move(w, "starting", "out")
    /\ hub' = hub \ {w}
    /\ UNCHANGED <<slot, stopped, thread, joining, spawned, radio, stuck, broken, alone>>

Leave(w) ==
    /\ MayProceed(w)
    /\ Move(w, "live", IF hub \ {w} = {} THEN "stopping" ELSE "out")
    /\ hub' = hub \ {w}
    /\ UNCHANGED <<slot, stopped, thread, joining, spawned, radio, stuck, broken, alone>>

(* set_radio_scanning(false): the entry is taken and the mutex given back, *)
(* the flag raised, and the thread waited for.                             *)
Stop(w) ==
    /\ MayProceed(w)
    /\ Move(w, "stopping", IF slot = NoThread THEN "out" ELSE "joining")
    /\ slot' = NoThread
    /\ joining' = [joining EXCEPT ![w] = slot]
    /\ stopped' = stopped \cup ({slot} \ {NoThread})
    /\ UNCHANGED <<hub, thread, spawned, radio, stuck, broken, alone>>

(* Mutant: stopping does not wait. *)
Joined_AtOnce(w) ==
    /\ MayProceed(w)
    /\ Move(w, "joining", "out")
    /\ UNCHANGED <<hub, slot, stopped, thread, joining, spawned, radio, stuck, broken, alone>>

Joined(w) ==
    /\ MayProceed(w)
    /\ Move(w, "joining", "out")
    /\ thread[joining[w]] = "gone"
    /\ UNCHANGED <<hub, slot, stopped, thread, joining, spawned, radio, stuck, broken, alone>>

-----------------------------------------------------------------------------
(* The scan threads. *)

OpenSocket(t) ==
    /\ Run(t, "opening", "enabling")
    /\ UNCHANGED <<pc, hub, slot, stopped, joining, spawned, radio, stuck, broken, alone>>

(* Without a socket every stream is ended. The entry stays.                *)
OpenFails(t) ==
    /\ Run(t, "opening", "gone")
    /\ hub' = {}
    /\ broken' = TRUE
    /\ UNCHANGED <<pc, slot, stopped, joining, spawned, radio, stuck, alone>>

Enable(t) ==
    /\ Run(t, "enabling", "reading")
    /\ radio' = TRUE /\ stuck' = FALSE
    /\ UNCHANGED <<pc, hub, slot, stopped, joining, spawned, broken, alone>>

(* The controller refuses a command, and the thread ends at once.          *)
EnableFails(t) ==
    /\ Run(t, "enabling", "gone")
    /\ broken' = TRUE
    /\ UNCHANGED <<pc, hub, slot, stopped, joining, spawned, radio, stuck, alone>>

SeesFlag(t) == t \in stopped

LeaveLoop(t) ==
    /\ Run(t, "reading", "disabling")
    /\ \/ SeesFlag(t) /\ UNCHANGED broken
       \/ broken' = TRUE                    \* a read failed
    /\ UNCHANGED <<pc, hub, slot, stopped, joining, spawned, radio, stuck, alone>>

Disable(t) ==
    /\ Run(t, "disabling", "gone")
    /\ radio' = FALSE /\ stuck' = FALSE
    /\ UNCHANGED <<pc, hub, slot, stopped, joining, spawned, broken, alone>>

(* The command fails. Its error is discarded, and the socket still knows   *)
(* that it scans.                                                          *)
DisableFails(t) ==
    /\ Run(t, "disabling", "dropping")
    /\ UNCHANGED <<pc, hub, slot, stopped, joining, spawned, radio, stuck, broken, alone>>

(* HciSocket::drop tries once more, and discards that error too.           *)
CloseSocket(t) ==
    /\ Run(t, "dropping", "gone")
    /\ \/ radio' = FALSE /\ stuck' = FALSE
       \/ stuck' = TRUE /\ UNCHANGED radio
    /\ UNCHANGED <<pc, hub, slot, stopped, joining, spawned, broken, alone>>

-----------------------------------------------------------------------------
ScanThread(t) ==
    \/ OpenSocket(t) \/ OpenFails(t) \/ Enable(t) \/ EnableFails(t)
    \/ LeaveLoop(t) \/ Disable(t) \/ DisableFails(t) \/ CloseSocket(t)

ScanNext ==
    \/ \E w \in Watchers : \/ Join(w) \/ Start(w) \/ StartFails(w)
                           \/ Leave(w) \/ Stop(w) \/ Joined(w)
    \/ \E t \in Threads : ScanThread(t)

ScanSpec == ScanInit /\ [][ScanNext]_scanVars

(* A thread runs until it reads, and reads until it is told to stop: its   *)
(* read has a timeout.                                                     *)
ScanFairness ==
    /\ \A t \in Threads :
        /\ WF_scanVars(OpenSocket(t) \/ OpenFails(t))
        /\ WF_scanVars(Enable(t) \/ EnableFails(t))
        /\ WF_scanVars(SeesFlag(t) /\ LeaveLoop(t))
        /\ WF_scanVars(Disable(t) \/ DisableFails(t))
        /\ WF_scanVars(CloseSocket(t))
    /\ \A w \in Watchers : WF_scanVars(Stop(w)) /\ WF_scanVars(Joined(w))

-----------------------------------------------------------------------------
(* Properties. *)

Resting == \A w \in Watchers : pc[w] \in {"out", "live"}

(* Once the last watcher's stop has returned, on however many threads the  *)
(* tasks run, no scan thread is left that could send the controller a      *)
(* command, so none lands in the middle of a connection being made         *)
(* (backend_hci.rs:245-248); and a controller that scans all the same has  *)
(* refused the last command to stop, and the socket's as it closed.        *)
QuietAfterStop ==
    (\A w \in Watchers : pc[w] = "out") =>
        /\ \A t \in Threads : thread[t] \in {"none", "gone"}
        /\ radio => stuck

(* While somebody watches, and nothing has failed, the thread in the slot  *)
(* scans or is about to, and there is no other that could turn its scan off*)
(* (backend_hci.rs:240-253, 255-257).                                      *)
NobodyStopsMyScan ==
    alone /\ Resting /\ hub # {} /\ ~broken =>
        /\ slot # NoThread /\ thread[slot] \in {"opening", "enabling", "reading"}
        /\ \A t \in Threads \ {slot} : thread[t] \in {"none", "gone"}

(* "end the streams rather than leave every watcher waiting"               *)
(* (backend_hci.rs:271-272): whoever watches is scanned for, or its stream *)
(* ends.                                                                   *)
ScannedOrEnded ==
    \A w \in Watchers :
        pc[w] = "live" /\ w \in hub ~> radio \/ pc[w] # "live" \/ w \notin hub
=============================================================================
