------------------------------ MODULE HciLinks ------------------------------
(***************************************************************************)
(* One device of the raw HCI backend (webbluetooth-linux/src/backend_hci.rs):*)
(* what the record of it says, and the connections made to it, each with a *)
(* reader thread that reports the end of its link and the peer's word that *)
(* its attribute table has changed.                                        *)
(*                                                                         *)
(* A connection is a number, in the order in which the kernel made them.   *)
(* Dropping the last Arc of one closes its channel. A calling task is in   *)
(* `connect' or in `discover_characteristics', whose steps are the calls   *)
(* that block on the peer and the critical sections of the registry; the   *)
(* other operations touch the record once. An attribute table is its       *)
(* version, and a cache remembers the connection and version it was read   *)
(* from. The generation of the handles is Registry's, requests and replies *)
(* are AttConnection's.                                                    *)
(***************************************************************************)
EXTENDS Naturals, FiniteSets

CONSTANTS Callers,
          MaxLinks,     \* bound: connections made
          MaxTables     \* bound: times the peer rearranges its table

ASSUME LinksAssumption == MaxLinks \in Nat /\ MaxTables \in Nat

None  == 0
Links == 1 .. MaxLinks

VARIABLES
    granted, connected, conn,   \* the record, and the connection in it
    tree, chars,    \* its cached services and characteristics
    knowsSc,        \* does it hold a Service Changed handle?
    up,             \* the connections whose channel is open
    opened,         \* how many have been made
    reader,         \* where the reader thread of each is
    step,           \* where each caller is
    own,            \* the connection it holds, outside the record
    found,          \* what it has discovered and not yet stored
    gotSc,          \* has it subscribed to Service Changed?
    table,          \* the version of the peer's attribute table
    indicates,      \* the connection the peer indicates a change on
    indication,     \* an indication on its way to that one's reader
    noted,          \* history: the last version a change to was noted
    prompt,         \* does an ended link's report come before what follows?
    oneThread       \* do all callers share a thread?

record   == <<granted, connected, conn, tree, chars, knowsSc>>
channels == <<up, opened, reader>>
calls    == <<step, own, found, gotSc>>
peer     == <<table, indicates, indication, noted>>
linkVars == <<record, channels, calls, peer, prompt, oneThread>>

Cache   == [link : Links \cup {None}, version : 0 .. MaxTables]
Nothing == [link |-> None, version |-> 0]

LinksTypeOK ==
    /\ granted \in BOOLEAN /\ connected \in BOOLEAN /\ knowsSc \in BOOLEAN
    /\ conn \in Links \cup {None}
    /\ tree \in Cache /\ chars \in Cache
    /\ opened \in 0 .. MaxLinks /\ up \subseteq 1 .. opened
    /\ reader \in [Links -> {"none", "running", "marking", "done"}]
    /\ \A l \in up : reader[l] = "running"
    /\ step \in [Callers -> {"idle", "opening", "exploring", "subscribing",
                             "publishing", "browsing", "storing"}]
    /\ own \in [Callers -> Links \cup {None}]
    /\ found \in [Callers -> Cache] /\ gotSc \in [Callers -> BOOLEAN]
    /\ table \in 0 .. MaxTables /\ noted \in 0 .. table
    /\ indicates \in Links \cup {None} /\ indication \in Links \cup {None}
    /\ prompt \in BOOLEAN /\ oneThread \in BOOLEAN

LinksInit ==
    /\ granted = FALSE /\ connected = FALSE /\ conn = None
    /\ tree = Nothing /\ chars = Nothing /\ knowsSc = FALSE
    /\ up = {} /\ opened = 0 /\ reader = [l \in Links |-> "none"]
    /\ step = [c \in Callers |-> "idle"]
    /\ own = [c \in Callers |-> None]
    /\ found = [c \in Callers |-> Nothing]
    /\ gotSc = [c \in Callers |-> FALSE]
    /\ table = 0 /\ noted = 0 /\ indicates = None /\ indication = None
    /\ prompt \in BOOLEAN /\ oneThread \in BOOLEAN

Goto(c, from, to) == step[c] = from /\ step' = [step EXCEPT ![c] = to]

\* c's call returns, and lets go of all it had.
Returns(c) ==
    /\ own' = [own EXCEPT ![c] = None]
    /\ found' = [found EXCEPT ![c] = Nothing]
    /\ gotSc' = [gotSc EXCEPT ![c] = FALSE]

\* No call awaits anything but a lock, so on one thread it is not interrupted.
MayCall(c) == oneThread => \A b \in Callers \ {c} : step[b] = "idle"
NobodyCalls == oneThread => \A c \in Callers : step[c] = "idle"

\* Of those open, the ones somebody still holds.
StillHeld(open) == open \cap ({conn'} \cup {own'[c] : c \in Callers})

Reported(l) == reader[l] \in {"none", "done"}

\* Every link that has ended has been reported so.
NoneUnreported == prompt => \A l \in Links \ up : Reported(l)

-----------------------------------------------------------------------------
(* connect. *)

Connect(c) ==
    /\ MayCall(c)
    /\ granted /\ ~connected
    /\ Goto(c, "idle", "opening")
    /\ UNCHANGED <<record, channels, own, found, gotSc, peer, prompt, oneThread>>

(* Connection::open. The kernel has one ATT channel to a link, and refuses *)
(* a second while the first is open.                                       *)
Open(c) ==
    /\ MayCall(c) /\ NoneUnreported
    /\ up = {} /\ opened < MaxLinks
    /\ Goto(c, "opening", "exploring")
    /\ opened' = opened + 1
    /\ own' = [own EXCEPT ![c] = opened + 1]
    /\ up' = {opened + 1}
    /\ reader' = [reader EXCEPT ![opened + 1] = "running"]
    /\ UNCHANGED <<record, found, gotSc, peer, prompt, oneThread>>

(* The socket cannot be opened, or the services not discovered, and the    *)
(* connection is dropped.                                                  *)
ConnectFails(c) ==
    /\ MayCall(c)
    /\ \/ Goto(c, "opening", "idle")
       \/ Goto(c, "exploring", "idle")
    /\ Returns(c)
    /\ UNCHANGED <<record, opened, reader, peer, prompt, oneThread>>
    /\ up' = StillHeld(up)

Explore(c) ==
    /\ MayCall(c)
    /\ own[c] \in up
    /\ Goto(c, "exploring", "subscribing")
    /\ found' = [found EXCEPT ![c] = [link |-> own[c], version |-> table]]
    /\ UNCHANGED <<record, channels, own, gotSc, peer, prompt, oneThread>>

(* subscribe_to_service_changed. The peer may not have the characteristic, *)
(* and a link that has dropped is taken for such a peer.                   *)
SubscribeToServiceChanged(c) ==
    /\ MayCall(c)
    /\ Goto(c, "subscribing", "publishing")
    /\ \E took \in BOOLEAN :
        /\ took => own[c] \in up
        /\ gotSc' = [gotSc EXCEPT ![c] = took]
        /\ indicates' = IF took THEN own[c] ELSE indicates
    /\ UNCHANGED <<record, channels, own, found, table, indication, noted,
                   prompt, oneThread>>

(* Mutant: the characteristics of the last connection stay. *)
Record_OldChars(c) ==
    /\ connected' = TRUE /\ conn' = own[c]
    /\ tree' = found[c]
    /\ knowsSc' = gotSc[c]
    /\ UNCHANGED <<granted, chars>>

Record(c) ==
    /\ connected' = TRUE /\ conn' = own[c]
    /\ tree' = found[c] /\ chars' = Nothing
    /\ knowsSc' = gotSc[c]
    /\ UNCHANGED granted

(* The record takes the connection. If the device was forgotten meanwhile  *)
(* there is none to take it, and connect says Ok all the same.             *)
Publish(c) ==
    /\ MayCall(c) /\ NoneUnreported
    /\ Goto(c, "publishing", "idle")
    /\ IF granted THEN Record(c) ELSE UNCHANGED record
    /\ Returns(c)
    /\ UNCHANGED <<opened, reader, peer, prompt, oneThread>>
    /\ up' = StillHeld(up)

-----------------------------------------------------------------------------
(* discover_characteristics, of the one service, under the device's lock.  *)

Locked == \E c \in Callers : step[c] \in {"browsing", "storing"}

Browse(c) ==
    /\ MayCall(c)
    /\ ~Locked
    /\ granted /\ conn # None /\ chars = Nothing
    /\ Goto(c, "idle", "browsing")
    /\ own' = [own EXCEPT ![c] = conn]
    /\ UNCHANGED <<record, channels, found, gotSc, peer, prompt, oneThread>>

BrowseEnds(c) ==
    /\ MayCall(c)
    /\ \/ /\ own[c] \in up
          /\ Goto(c, "browsing", "storing")
          /\ found' = [found EXCEPT ![c] = [link |-> own[c], version |-> table]]
          /\ UNCHANGED <<own, gotSc>>
       \/ Goto(c, "browsing", "idle") /\ Returns(c)
    /\ UNCHANGED <<record, opened, reader, peer, prompt, oneThread>>
    /\ up' = StillHeld(up)

Store(c) ==
    /\ MayCall(c)
    /\ Goto(c, "storing", "idle")
    /\ chars' = IF granted THEN found[c] ELSE chars
    /\ Returns(c)
    /\ UNCHANGED <<granted, connected, conn, tree, knowsSc, opened, reader,
                   peer, prompt, oneThread>>
    /\ up' = StillHeld(up)

-----------------------------------------------------------------------------
(* disconnect, forget, request_device and adopt_device. *)

Disconnect ==
    /\ NobodyCalls
    /\ conn \in up
    /\ up' = up \ {conn}
    /\ UNCHANGED <<record, opened, reader, calls, peer, prompt, oneThread>>

\* A record with no link and nothing cached.
FreshRecord ==
    /\ connected' = FALSE /\ conn' = None
    /\ tree' = Nothing /\ chars' = Nothing /\ knowsSc' = FALSE

Forget ==
    /\ NobodyCalls
    /\ granted
    /\ granted' = FALSE
    /\ FreshRecord
    /\ up' = up \ {conn}
    /\ UNCHANGED <<opened, reader, calls, peer, prompt, oneThread>>

(* A second grant replaces what the backend knew of the device, and drops  *)
(* the connection with it.                                                 *)
Grant ==
    /\ NobodyCalls
    /\ granted' = TRUE
    /\ FreshRecord
    /\ UNCHANGED <<opened, reader, calls, peer, prompt, oneThread>>
    /\ up' = StillHeld(up)

-----------------------------------------------------------------------------
(* The peer, the link, and the reader threads.                             *)

LinkDrops ==
    /\ up # {}
    /\ up' = {}
    /\ UNCHANGED <<record, opened, reader, calls, peer, prompt, oneThread>>

(* A peer indicates once and waits to be told that it was seen.            *)
TableChanges ==
    /\ table < MaxTables /\ indication = None
    /\ table' = table + 1
    /\ indication' = IF indicates \in up THEN indicates ELSE None
    /\ UNCHANGED <<record, channels, calls, indicates, noted, prompt, oneThread>>

(* on_notification: the generation moves if the record knows the handle.   *)
(* Otherwise it is a value, which nobody subscribed to.                    *)
Indicated ==
    /\ indication # None /\ reader[indication] = "running"
    /\ noted' = IF granted /\ knowsSc THEN table ELSE noted
    /\ indication' = None
    /\ UNCHANGED <<record, channels, calls, table, indicates, prompt, oneThread>>

(* Mutant: the record keeps its connection. *)
ReaderClears_KeepsConn(l) ==
    /\ reader[l] = "running" /\ l \notin up
    /\ reader' = [reader EXCEPT ![l] = "marking"]
    /\ indication' = IF indication = l THEN None ELSE indication
    /\ indicates' = IF indicates = l THEN None ELSE indicates
    /\ IF granted
       THEN tree' = Nothing /\ chars' = Nothing
       ELSE UNCHANGED <<tree, chars>>
    /\ UNCHANGED <<granted, connected, conn, knowsSc, opened, calls, table, noted,
                   prompt, oneThread>>
    /\ up' = StillHeld(up)

(* on_disconnected, first half: the record of the device, whichever        *)
(* connection it holds by now.                                             *)
ReaderClears(l) ==
    /\ reader[l] = "running" /\ l \notin up
    /\ reader' = [reader EXCEPT ![l] = "marking"]
    /\ indication' = IF indication = l THEN None ELSE indication
    /\ indicates' = IF indicates = l THEN None ELSE indicates
    /\ IF granted
       THEN conn' = None /\ tree' = Nothing /\ chars' = Nothing
       ELSE UNCHANGED <<conn, tree, chars>>
    /\ UNCHANGED <<granted, connected, knowsSc, opened, calls, table, noted, prompt,
                   oneThread>>
    /\ up' = StillHeld(up)

(* Mutant: only a link whose connection is still recorded is marked.       *)
ReaderMarks_Recorded(l) ==
    /\ reader[l] = "marking"
    /\ reader' = [reader EXCEPT ![l] = "done"]
    /\ connected' = IF conn = l THEN FALSE ELSE connected
    /\ UNCHANGED <<granted, conn, tree, chars, knowsSc, up, opened, calls,
                   peer, prompt, oneThread>>

(* ... and mark_disconnected. *)
ReaderMarks(l) ==
    /\ reader[l] = "marking"
    /\ reader' = [reader EXCEPT ![l] = "done"]
    /\ connected' = FALSE
    /\ UNCHANGED <<granted, conn, tree, chars, knowsSc, up, opened, calls,
                   peer, prompt, oneThread>>

-----------------------------------------------------------------------------
LinksNext ==
    \/ \E c \in Callers :
        \/ Connect(c) \/ Open(c) \/ ConnectFails(c) \/ Explore(c)
        \/ SubscribeToServiceChanged(c) \/ Publish(c)
        \/ Browse(c) \/ BrowseEnds(c) \/ Store(c)
    \/ Disconnect \/ Forget \/ Grant
    \/ LinkDrops \/ TableChanges \/ Indicated
    \/ \E l \in Links : ReaderClears(l) \/ ReaderMarks(l)

LinksSpec == LinksInit /\ [][LinksNext]_linkVars

(* A reader whose link is down finds that out: it polls.                   *)
LinksFairness ==
    \A l \in Links : WF_linkVars(ReaderClears(l)) /\ WF_linkVars(ReaderMarks(l))

-----------------------------------------------------------------------------
(* Properties. *)

(* When every ended link is reported before the next is opened or recorded,*)
(* the two fields that say whether the device is connected agree whenever  *)
(* no report is half-way (backend_hci.rs:169-174, 604-610).                *)
RecordAgrees ==
    prompt /\ (\A l \in Links : reader[l] # "marking") => (connected <=> conn # None)

(* Where callers share a thread, what is cached under a connection was     *)
(* read over it: a discovery that outlives its link leaves nothing behind  *)
(* for the next (backend_hci.rs:169-173, 604-610, 711-713).                *)
CacheOfThisLink ==
    oneThread /\ conn # None =>
        tree.link = conn /\ chars.link \in {None, conn}

(* A recorded connection whose reader still runs does not stay recorded    *)
(* once its link is down, whatever else happens (backend_hci.rs:165-175).  *)
LossNoticed ==
    \A l \in Links :
        conn = l /\ l \notin up /\ reader[l] = "running" ~> conn # l

(* "the tree is cached for the life of the connection and invalidated by   *)
(* the Service Changed indication" (backend_hci.rs:589-591): a tree older  *)
(* than a change that was noted is not answered from.                      *)
TreeIsCurrent == conn # None => tree.version >= noted
=============================================================================
