------------------------------ MODULE HciProofs ------------------------------
(***************************************************************************)
(* Safety of the raw HCI backend, for any callers, watchers, links, tables *)
(* and scan threads: first of its links, then of its scan, then of both.   *)
(* Nothing here needs fairness.                                            *)
(***************************************************************************)
EXTENDS HciBackend, TLAPS

-----------------------------------------------------------------------------
(* The links: the record agrees with itself where ended links are reported *)
(* in time, and holds caches of its own connection where callers share a   *)
(* thread.                                                                 *)

Calling == {"exploring", "subscribing", "publishing", "browsing", "storing"}

(* What the fields of the record say of each other. A forgotten device has *)
(* no connection, and a report that is half-way has taken the connection.  *)
RecordInv ==
    /\ ~granted => conn = None /\ ~connected
    /\ prompt /\ (\E l \in Links : reader[l] = "marking") => conn = None
    /\ RecordAgrees

(* What a call carries from one of its steps to the next.                  *)
CallInv ==
    \A c \in Callers :
        /\ step[c] \in Calling => own[c] # None
        /\ step[c] \in {"subscribing", "publishing", "storing"} =>
                found[c].link = own[c]
        /\ oneThread /\ step[c] \in {"browsing", "storing"} => conn \in {None, own[c]}

LinksInv == LinksTypeOK /\ RecordInv /\ CallInv

CacheInv == LinksInv /\ CacheOfThisLink

CallerStep(c) ==
    \/ Connect(c) \/ Open(c) \/ ConnectFails(c) \/ Explore(c)
    \/ SubscribeToServiceChanged(c) \/ Publish(c)
    \/ Browse(c) \/ BrowseEnds(c) \/ Store(c)

OtherStep ==
    \/ Disconnect \/ Forget \/ Grant
    \/ LinkDrops \/ TableChanges \/ Indicated
    \/ \E l \in Links : ReaderClears(l) \/ ReaderMarks(l)

-----------------------------------------------------------------------------
(* Types. *)

LEMMA NothingTyped == Nothing \in Cache /\ Nothing.link = None
  BY LinksAssumption DEF Nothing, Cache, None

LEMMA FoundTyped ==
    ASSUME NEW l \in Links \cup {None}, table \in 0 .. MaxTables
    PROVE  [link |-> l, version |-> table] \in Cache
  BY DEF Cache

LEMMA HeldAreOpen == ASSUME NEW open PROVE StillHeld(open) \subseteq open
  BY DEF StillHeld

(* What a caller's return leaves of the types of the calls.                *)
LEMMA ReturnsTyped ==
    ASSUME LinksTypeOK, NEW c \in Callers, Returns(c)
    PROVE  /\ own' \in [Callers -> Links \cup {None}]
           /\ found' \in [Callers -> Cache]
           /\ gotSc' \in [Callers -> BOOLEAN]
<1>1. own' \in [Callers -> Links \cup {None}] /\ found' \in [Callers -> Cache]
  BY NothingTyped DEF LinksTypeOK, Returns
<1>2. gotSc' \in [Callers -> BOOLEAN]
  BY Zenon DEF LinksTypeOK, Returns
<1> QED
  BY <1>1, <1>2

LEMMA CallerTypes ==
    ASSUME LinksTypeOK, NEW c \in Callers, CallerStep(c)
    PROVE  LinksTypeOK'
<1>1. CASE Connect(c)
  BY <1>1 DEF LinksTypeOK, Connect, Goto, record, channels, peer
<1>2. CASE Open(c)
  <2>1. opened + 1 \in Links /\ opened + 1 \in 0 .. MaxLinks
    BY <1>2, LinksAssumption DEF LinksTypeOK, Open, Links
  <2>2. /\ own' \in [Callers -> Links \cup {None}]
        /\ reader' \in [Links -> {"none", "running", "marking", "done"}]
        /\ reader'[opened + 1] = "running"
    BY <1>2, <2>1 DEF LinksTypeOK, Open
  <2>3. opened' \in 0 .. MaxLinks /\ up' \subseteq 1 .. opened'
    BY <1>2, <2>1 DEF LinksTypeOK, Open
  <2> QED
    BY <1>2, <2>2, <2>3 DEF LinksTypeOK, Open, Goto, record, peer
<1>3. CASE ConnectFails(c)
  <2>1. up' \subseteq up
    BY <1>3, HeldAreOpen DEF ConnectFails
  <2>2. Returns(c)
    BY <1>3 DEF ConnectFails
  <2> QED
    BY <1>3, <2>1, <2>2, ReturnsTyped DEF LinksTypeOK, ConnectFails, Goto, record, peer
<1>4. CASE Explore(c)
  <2>1. found' \in [Callers -> Cache]
    BY <1>4, FoundTyped DEF LinksTypeOK, Explore
  <2> QED
    BY <1>4, <2>1 DEF LinksTypeOK, Explore, Goto, record, channels, peer
<1>5. CASE SubscribeToServiceChanged(c)
  <2>1. PICK took \in BOOLEAN : gotSc' = [gotSc EXCEPT ![c] = took]
    BY <1>5 DEF SubscribeToServiceChanged
  <2>2. gotSc' \in [Callers -> BOOLEAN]
    BY <2>1, Zenon DEF LinksTypeOK
  <2>3. indicates' \in Links \cup {None}
    BY <1>5 DEF LinksTypeOK, SubscribeToServiceChanged
  <2> QED
    BY <1>5, <2>2, <2>3
    DEF LinksTypeOK, SubscribeToServiceChanged, Goto, record, channels
<1>6. CASE Publish(c)
  <2>1. up' \subseteq up
    BY <1>6, HeldAreOpen DEF Publish
  <2>2. Returns(c)
    BY <1>6 DEF Publish
  <2>3. /\ granted' \in BOOLEAN /\ connected' \in BOOLEAN /\ knowsSc' \in BOOLEAN
        /\ conn' \in Links \cup {None} /\ tree' \in Cache /\ chars' \in Cache
    <3>1. CASE granted
      <4>1. gotSc[c] \in BOOLEAN
        BY Zenon DEF LinksTypeOK
      <4> QED
        BY <1>6, <3>1, <4>1, NothingTyped DEF LinksTypeOK, Publish, Record
    <3>2. CASE ~granted
      BY <1>6, <3>2 DEF LinksTypeOK, Publish, record
    <3> QED
      BY <3>1, <3>2
  <2> QED
    BY <1>6, <2>1, <2>2, <2>3, ReturnsTyped DEF LinksTypeOK, Publish, Goto, peer
<1>7. CASE Browse(c)
  BY <1>7 DEF LinksTypeOK, Browse, Goto, record, channels, peer
<1>8. CASE BrowseEnds(c)
  <2>1. up' \subseteq up
    BY <1>8, HeldAreOpen DEF BrowseEnds
  <2>2. /\ own' \in [Callers -> Links \cup {None}]
        /\ found' \in [Callers -> Cache]
        /\ gotSc' \in [Callers -> BOOLEAN]
    BY <1>8, FoundTyped, ReturnsTyped DEF LinksTypeOK, BrowseEnds
  <2>3. step' \in [Callers -> {"idle", "opening", "exploring", "subscribing",
                               "publishing", "browsing", "storing"}]
    BY <1>8 DEF LinksTypeOK, BrowseEnds, Goto
  <2> QED
    BY <1>8, <2>1, <2>2, <2>3 DEF LinksTypeOK, BrowseEnds, record, peer
<1>9. CASE Store(c)
  <2>1. up' \subseteq up
    BY <1>9, HeldAreOpen DEF Store
  <2>2. Returns(c)
    BY <1>9 DEF Store
  <2>3. chars' \in Cache
    BY <1>9 DEF LinksTypeOK, Store
  <2> QED
    BY <1>9, <2>1, <2>2, <2>3, ReturnsTyped DEF LinksTypeOK, Store, Goto, peer
<1> QED
  BY <1>1, <1>2, <1>3, <1>4, <1>5, <1>6, <1>7, <1>8, <1>9 DEF CallerStep

LEMMA OtherTypes ==
    ASSUME LinksTypeOK, OtherStep
    PROVE  LinksTypeOK'
<1>1. CASE Disconnect
  BY <1>1 DEF LinksTypeOK, Disconnect, record, calls, peer
<1>2. CASE Forget
  BY <1>2, NothingTyped DEF LinksTypeOK, Forget, FreshRecord, calls, peer
<1>3. CASE Grant
  <2>1. up' \subseteq up
    BY <1>3, HeldAreOpen DEF Grant
  <2> QED
    BY <1>3, <2>1, NothingTyped DEF LinksTypeOK, Grant, FreshRecord, calls, peer
<1>4. CASE LinkDrops
  BY <1>4 DEF LinksTypeOK, LinkDrops, record, calls, peer
<1>5. CASE TableChanges
  BY <1>5, LinksAssumption
  DEF LinksTypeOK, TableChanges, record, channels, calls, Cache
<1>6. CASE Indicated
  BY <1>6 DEF LinksTypeOK, Indicated, record, channels, calls
<1>7. ASSUME NEW l \in Links, ReaderClears(l) PROVE LinksTypeOK'
  <2>1. up' \subseteq up /\ l \notin up'
    BY <1>7, HeldAreOpen DEF ReaderClears
  <2>2. \A m \in up' : reader'[m] = "running"
    BY <1>7, <2>1 DEF LinksTypeOK, ReaderClears, Links
  <2>3. conn' \in Links \cup {None} /\ tree' \in Cache /\ chars' \in Cache
    BY <1>7, NothingTyped DEF LinksTypeOK, ReaderClears
  <2> QED
    BY <1>7, <2>1, <2>2, <2>3 DEF LinksTypeOK, ReaderClears, calls
<1>8. ASSUME NEW l \in Links, ReaderMarks(l) PROVE LinksTypeOK'
  <2>1. \A m \in up : m # l /\ reader[m] = "running"
    BY <1>8 DEF LinksTypeOK, ReaderMarks
  <2>2. \A m \in up : reader'[m] = "running"
    BY <1>8, <2>1 DEF LinksTypeOK, ReaderMarks, Links
  <2> QED
    BY <1>8, <2>2 DEF LinksTypeOK, ReaderMarks, calls, peer
<1> QED
  BY <1>1, <1>2, <1>3, <1>4, <1>5, <1>6, <1>7, <1>8 DEF OtherStep

LEMMA StutterTypes ==
    ASSUME LinksTypeOK, UNCHANGED linkVars PROVE LinksTypeOK'
  BY DEF LinksTypeOK, linkVars, record, channels, calls, peer

LEMMA InitTypes == LinksInit => LinksTypeOK
<1> SUFFICES ASSUME LinksInit PROVE LinksTypeOK
  OBVIOUS
<1>1. gotSc \in [Callers -> BOOLEAN]
  BY Zenon DEF LinksInit
<1> QED
  <2>1. /\ opened \in 0 .. MaxLinks /\ up \subseteq 1 .. opened
        /\ table \in 0 .. MaxTables /\ noted \in 0 .. table
        /\ \A l \in up : reader[l] = "running"
    BY LinksAssumption DEF LinksInit
  <2>2. /\ conn \in Links \cup {None} /\ tree \in Cache /\ chars \in Cache
        /\ own \in [Callers -> Links \cup {None}] /\ found \in [Callers -> Cache]
        /\ indicates \in Links \cup {None} /\ indication \in Links \cup {None}
    BY NothingTyped DEF LinksInit
  <2>3. /\ granted \in BOOLEAN /\ connected \in BOOLEAN /\ knowsSc \in BOOLEAN
        /\ prompt \in BOOLEAN /\ oneThread \in BOOLEAN
    BY DEF LinksInit
  <2>4. reader \in [Links -> {"none", "running", "marking", "done"}]
    BY DEF LinksInit
  <2>5. step \in [Callers -> {"idle", "opening", "exploring", "subscribing",
                              "publishing", "browsing", "storing"}]
    BY DEF LinksInit
  <2> QED
    BY <1>1, <2>1, <2>2, <2>3, <2>4, <2>5 DEF LinksTypeOK

(* Every variable keeps its type, whichever callers, links and tables there*)
(* are.                                                                    *)
THEOREM LinksTyped == LinksSpec => []LinksTypeOK
<1>1. LinksTypeOK /\ [LinksNext]_linkVars => LinksTypeOK'
  BY CallerTypes, OtherTypes, StutterTypes DEF LinksNext, CallerStep, OtherStep
<1> QED
  BY InitTypes, <1>1, PTL DEF LinksSpec
-----------------------------------------------------------------------------
(* What a call carries.                                                    *)

LEMMA CallerCalls ==
    ASSUME LinksTypeOK, CallInv, NEW c \in Callers, CallerStep(c)
    PROVE  CallInv'
<1> USE DEF Calling
<1>1. CASE Connect(c)
  BY <1>1 DEF LinksTypeOK, CallInv, Connect, Goto, record
<1>2. CASE Open(c)
  <2>1. opened + 1 # None
    BY <1>2, LinksAssumption DEF LinksTypeOK, None
  <2> QED
    BY <1>2, <2>1 DEF LinksTypeOK, CallInv, Open, Goto, record
<1>3. CASE ConnectFails(c)
  BY <1>3 DEF LinksTypeOK, CallInv, ConnectFails, Goto, Returns, record
<1>4. CASE Explore(c)
  BY <1>4 DEF LinksTypeOK, CallInv, Explore, Goto, record, channels
<1>5. CASE SubscribeToServiceChanged(c)
  BY <1>5 DEF LinksTypeOK, CallInv, SubscribeToServiceChanged, Goto, record, channels
<1>6. CASE Publish(c)
  <2>1. ASSUME NEW b \in Callers, b # c
        PROVE  /\ step'[b] = step[b] /\ own'[b] = own[b] /\ found'[b] = found[b]
               /\ oneThread => step[b] = "idle"
    BY <1>6, <2>1 DEF LinksTypeOK, Publish, Goto, Returns, MayCall
  <2>2. step'[c] = "idle" /\ oneThread' = oneThread
    BY <1>6 DEF LinksTypeOK, Publish, Goto
  <2> QED
    BY <2>1, <2>2 DEF CallInv
<1>7. CASE Browse(c)
  <2>1. conn' = conn /\ conn # None
    BY <1>7 DEF Browse, record
  <2> QED
    BY <1>7, <2>1 DEF LinksTypeOK, CallInv, Browse, Goto
<1>8. CASE BrowseEnds(c)
  <2>1. conn' = conn /\ oneThread' = oneThread
    BY <1>8 DEF BrowseEnds, record
  <2>2. ASSUME NEW b \in Callers, b # c
        PROVE  step'[b] = step[b] /\ own'[b] = own[b] /\ found'[b] = found[b]
    BY <1>8, <2>2 DEF LinksTypeOK, BrowseEnds, Goto, Returns
  <2>3. CASE step'[c] = "idle"
    BY <2>1, <2>2, <2>3 DEF CallInv
  <2>4. CASE step'[c] # "idle"
    <3>1. /\ step[c] = "browsing" /\ step'[c] = "storing"
          /\ own'[c] = own[c] /\ found'[c].link = own[c]
      BY <1>8, <2>4 DEF LinksTypeOK, BrowseEnds, Goto
    <3> QED
      BY <2>1, <2>2, <3>1 DEF CallInv
  <2> QED
    BY <2>3, <2>4
<1>9. CASE Store(c)
  BY <1>9 DEF LinksTypeOK, CallInv, Store, Goto, Returns
<1> QED
  BY <1>1, <1>2, <1>3, <1>4, <1>5, <1>6, <1>7, <1>8, <1>9 DEF CallerStep

(* The others leave a call what it has, and only let go of a connection.   *)
LEMMA OtherCalls ==
    ASSUME LinksTypeOK, CallInv, OtherStep
    PROVE  CallInv'
<1>1. UNCHANGED calls /\ UNCHANGED oneThread /\ conn' \in {None, conn}
  BY DEF OtherStep, Disconnect, Forget, Grant, FreshRecord, LinkDrops, TableChanges,
         Indicated, ReaderClears, ReaderMarks, record
<1> QED
  BY <1>1 DEF CallInv, calls

-----------------------------------------------------------------------------
(* What the record says of itself.                                         *)

(* With none unreported, no report is half-way: its link is down.          *)
LEMMA NoneHalfway ==
    ASSUME LinksTypeOK, NoneUnreported, prompt
    PROVE  \A l \in Links : reader[l] # "marking"
  BY DEF LinksTypeOK, NoneUnreported, Reported

LEMMA CallerRecord ==
    ASSUME LinksTypeOK, CallInv, RecordInv, NEW c \in Callers, CallerStep(c)
    PROVE  RecordInv'
<1>1. CASE UNCHANGED record /\ UNCHANGED reader /\ UNCHANGED prompt
  BY <1>1 DEF RecordInv, RecordAgrees, record
<1>2. CASE Open(c)
  <2>1. UNCHANGED record /\ UNCHANGED prompt
    BY <1>2 DEF Open
  <2>2. prompt => \A l \in Links : reader[l] # "marking" /\ reader'[l] # "marking"
    BY <1>2, NoneHalfway DEF Open, LinksTypeOK
  <2> QED
    BY <2>1, <2>2 DEF RecordInv, RecordAgrees, record
<1>3. CASE Publish(c) /\ granted
  <2>1. granted' /\ connected' /\ conn' = own[c] /\ UNCHANGED <<reader, prompt>>
    BY <1>3 DEF Publish, Record
  <2>2. own[c] # None
    BY <1>3 DEF Publish, Goto, CallInv, Calling
  <2>3. prompt => \A l \in Links : reader[l] # "marking"
    BY <1>3, NoneHalfway DEF Publish
  <2> QED
    BY <2>1, <2>2, <2>3 DEF RecordInv, RecordAgrees
<1>4. CASE Store(c)
  BY <1>4 DEF Store, RecordInv, RecordAgrees
<1> QED
  BY <1>1, <1>2, <1>3, <1>4
  DEF CallerStep, Connect, ConnectFails, Explore, SubscribeToServiceChanged, Publish,
      Browse, BrowseEnds, channels

LEMMA OtherRecord ==
    ASSUME LinksTypeOK, RecordInv, OtherStep
    PROVE  RecordInv'
<1>1. CASE UNCHANGED record /\ UNCHANGED reader /\ UNCHANGED prompt
  BY <1>1 DEF RecordInv, RecordAgrees, record
<1>2. CASE Forget \/ Grant
  BY <1>2 DEF Forget, Grant, FreshRecord, RecordInv, RecordAgrees
<1>3. ASSUME NEW l \in Links, ReaderClears(l) PROVE RecordInv'
  <2>1. reader'[l] = "marking" /\ UNCHANGED <<granted, connected, prompt>>
    BY <1>3 DEF ReaderClears, LinksTypeOK
  <2>2. conn' = None
    BY <1>3 DEF ReaderClears, RecordInv
  <2> QED
    BY <2>1, <2>2 DEF RecordInv, RecordAgrees
<1>4. ASSUME NEW l \in Links, ReaderMarks(l) PROVE RecordInv'
  <2>1. ~connected' /\ UNCHANGED <<granted, conn, prompt>>
    BY <1>4 DEF ReaderMarks
  <2>2. prompt => conn = None
    BY <1>4 DEF ReaderMarks, RecordInv
  <2> QED
    BY <2>1, <2>2 DEF RecordInv, RecordAgrees
<1> QED
  BY <1>1, <1>2, <1>3, <1>4
  DEF OtherStep, Disconnect, LinkDrops, TableChanges, Indicated, channels

LEMMA InitLinksInv == LinksInit => LinksInv
<1> SUFFICES ASSUME LinksInit PROVE LinksInv
  OBVIOUS
<1>1. RecordInv /\ CallInv
  BY DEF LinksInit, RecordInv, RecordAgrees, CallInv, Calling
<1> QED
  BY <1>1, InitTypes DEF LinksInv

LEMMA StepLinksInv == LinksInv /\ [LinksNext]_linkVars => LinksInv'
<1>1. ASSUME LinksInv, NEW c \in Callers, CallerStep(c) PROVE LinksInv'
  BY <1>1, CallerTypes, CallerCalls, CallerRecord DEF LinksInv
<1>2. ASSUME LinksInv, OtherStep PROVE LinksInv'
  BY <1>2, OtherTypes, OtherCalls, OtherRecord DEF LinksInv
<1>3. ASSUME LinksInv, UNCHANGED linkVars PROVE LinksInv'
  <2>1. RecordInv' /\ CallInv'
    BY <1>3 DEF LinksInv, RecordInv, RecordAgrees, CallInv, linkVars, record, channels,
                calls
  <2> QED
    BY <1>3, <2>1, StutterTypes DEF LinksInv
<1> QED
  BY <1>1, <1>2, <1>3 DEF LinksNext, CallerStep, OtherStep

(* Where ended links are reported in time, the two fields that say whether *)
(* the device is connected agree whenever no report is half-way.           *)
THEOREM RecordAgreesAlways == LinksSpec => []RecordAgrees
<1>1. LinksInv => RecordAgrees
  BY DEF LinksInv, RecordInv
<1> QED
  BY InitLinksInv, StepLinksInv, <1>1, PTL DEF LinksSpec

-----------------------------------------------------------------------------
(* The caches.                                                             *)

LEMMA CallerCache ==
    ASSUME LinksInv, CacheOfThisLink, NEW c \in Callers, CallerStep(c)
    PROVE  CacheOfThisLink'
<1>1. CASE UNCHANGED record /\ UNCHANGED oneThread
  BY <1>1 DEF CacheOfThisLink, record
<1>2. CASE Publish(c) /\ granted
  <2>1. conn' = own[c] /\ tree' = found[c] /\ chars' = Nothing
    BY <1>2 DEF Publish, Record
  <2>2. found[c].link = own[c]
    BY <1>2 DEF Publish, Goto, LinksInv, CallInv
  <2> QED
    BY <2>1, <2>2, NothingTyped DEF CacheOfThisLink
<1>3. CASE Store(c)
  <2>1. UNCHANGED <<conn, tree, oneThread>> /\ chars' \in {found[c], chars}
    BY <1>3 DEF Store
  <2>2. found[c].link = own[c] /\ (oneThread => conn \in {None, own[c]})
    BY <1>3 DEF Store, Goto, LinksInv, CallInv
  <2> QED
    BY <2>1, <2>2 DEF CacheOfThisLink
<1> QED
  BY <1>1, <1>2, <1>3
  DEF CallerStep, Connect, Open, ConnectFails, Explore, SubscribeToServiceChanged,
      Publish, Browse, BrowseEnds

LEMMA OtherCache ==
    ASSUME LinksInv, CacheOfThisLink, OtherStep
    PROVE  CacheOfThisLink'
<1>1. UNCHANGED oneThread /\ (conn' = None \/ UNCHANGED <<conn, tree, chars>>)
  BY DEF OtherStep, Disconnect, Forget, Grant, FreshRecord, LinkDrops, TableChanges,
         Indicated, ReaderClears, ReaderMarks, record
<1> QED
  BY <1>1 DEF CacheOfThisLink

(* Where callers share a thread, what is cached under a connection was read*)
(* over it.                                                                *)
THEOREM CacheOfThisLinkAlways == LinksSpec => []CacheOfThisLink
<1>1. LinksInit => CacheInv
  BY InitLinksInv DEF CacheInv, LinksInit, CacheOfThisLink
<1>2. CacheInv /\ [LinksNext]_linkVars => CacheInv'
  <2>1. ASSUME CacheInv, NEW c \in Callers, CallerStep(c) PROVE CacheOfThisLink'
    BY <2>1, CallerCache DEF CacheInv
  <2>2. ASSUME CacheInv, OtherStep PROVE CacheOfThisLink'
    BY <2>2, OtherCache DEF CacheInv
  <2>3. ASSUME CacheInv, UNCHANGED linkVars PROVE CacheOfThisLink'
    BY <2>3 DEF CacheInv, CacheOfThisLink, linkVars, record
  <2> QED
    BY <2>1, <2>2, <2>3, StepLinksInv DEF CacheInv, LinksNext, CallerStep, OtherStep
<1>3. CacheInv => CacheOfThisLink
  BY DEF CacheInv
<1> QED
  BY <1>1, <1>2, <1>3, PTL DEF LinksSpec

-----------------------------------------------------------------------------
(* The scan: after the last stop the controller is left alone, and where   *)
(* watchers share a thread a scan that somebody watches is not stopped.    *)

Runs(t)      == thread[t] \in {"opening", "enabling", "reading", "disabling", "dropping"}
Scans(t)     == thread[t] \in {"reading", "disabling", "dropping"}
Unsettled(w) == pc[w] \notin {"out", "live"}

(* A thread that runs is the one in the slot, or somebody waits for it; the*)
(* radio is on for one that will turn it off, or for one that could not;   *)
(* the one in the slot has not been told to stop, and only a failure keeps *)
(* it from scanning.                                                       *)
ThreadInv ==
    /\ \A t \in Threads : Runs(t) =>
            t = slot \/ \E w \in Watchers : pc[w] = "joining" /\ joining[w] = t
    /\ radio => stuck \/ \E t \in Threads : Scans(t)
    /\ slot # NoThread /\ ~broken => thread[slot] \in {"opening", "enabling", "reading"}
    /\ slot \in 0 .. spawned /\ stopped \subseteq 1 .. spawned /\ slot \notin stopped

(* Who is in the hub watches, or is about to, and somebody is there to     *)
(* empty the slot.                                                         *)
HubInv ==
    /\ \A w \in hub : pc[w] \in {"starting", "live"}
    /\ slot # NoThread => \E w \in Watchers : pc[w] \in {"starting", "live", "stopping"}

(* Where watchers share a thread: one call at a time is under way, one that*)
(* stops the scan stops it for nobody, and whoever watches has a thread.   *)
AloneInv ==
    alone =>
        /\ \A v, w \in Watchers : Unsettled(v) /\ Unsettled(w) => v = w
        /\ (\E w \in Watchers : pc[w] = "stopping") => hub = {}
        /\ (\E w \in hub : pc[w] = "live") => slot # NoThread

ScanInv == ScanTypeOK /\ ThreadInv /\ HubInv /\ AloneInv

WatcherStep(w) ==
    Join(w) \/ Start(w) \/ StartFails(w) \/ Leave(w) \/ Stop(w) \/ Joined(w)

-----------------------------------------------------------------------------
(* Types. *)

LEMMA NoThreadIsNone == NoThread \notin Threads
  BY DEF NoThread, Threads

LEMMA WatcherTypes ==
    ASSUME ScanTypeOK, NEW w \in Watchers, WatcherStep(w)
    PROVE  ScanTypeOK'
<1>1. CASE Join(w)
  BY <1>1 DEF ScanTypeOK, Join, Move
<1>2. CASE Start(w)
  <2>1. CASE slot = NoThread
    <3>1. spawned + 1 \in Threads /\ spawned + 1 \in 0 .. MaxThreads
      BY <1>2, <2>1, ScanAssumption DEF ScanTypeOK, Start, Threads
    <3> QED
      BY <1>2, <2>1, <3>1 DEF ScanTypeOK, Start, Move
  <2>2. CASE slot # NoThread
    BY <1>2, <2>2 DEF ScanTypeOK, Start, Move
  <2> QED
    BY <2>1, <2>2
<1>3. CASE Leave(w)
  BY <1>3 DEF ScanTypeOK, Leave, Move
<1>4. CASE Stop(w)
  <2>1. stopped' \subseteq Threads /\ stopped \subseteq stopped'
    BY <1>4, NoThreadIsNone DEF ScanTypeOK, Stop
  <2>2. joining' \in [Watchers -> Threads \cup {NoThread}]
    BY <1>4 DEF ScanTypeOK, Stop
  <2>3. \A v \in Watchers : pc'[v] = "joining" => joining'[v] \in stopped'
    BY <1>4 DEF ScanTypeOK, Stop, Move
  <2> QED
    BY <1>4, <2>1, <2>2, <2>3 DEF ScanTypeOK, Stop, Move
<1>5. CASE Joined(w)
  BY <1>5 DEF ScanTypeOK, Joined, Move
<1>6. CASE StartFails(w)
  BY <1>6 DEF ScanTypeOK, StartFails, Move
<1> QED
  BY <1>1, <1>2, <1>3, <1>4, <1>5, <1>6 DEF WatcherStep

LEMMA ThreadTypes ==
    ASSUME ScanTypeOK, NEW t \in Threads, ScanThread(t)
    PROVE  ScanTypeOK'
<1>1. /\ thread' \in [Threads -> {"none", "opening", "enabling", "reading",
                                  "disabling", "dropping", "gone"}]
      /\ hub' \subseteq Watchers
  BY DEF ScanTypeOK, ScanThread, OpenSocket, OpenFails, Enable, EnableFails,
         LeaveLoop, Disable, DisableFails, CloseSocket, Run
<1>2. radio' \in BOOLEAN /\ stuck' \in BOOLEAN /\ broken' \in BOOLEAN
  BY DEF ScanTypeOK, ScanThread, OpenSocket, OpenFails, Enable, EnableFails, LeaveLoop,
         Disable, DisableFails, CloseSocket
<1>3. UNCHANGED <<pc, slot, stopped, joining, spawned, alone>>
  BY DEF ScanThread, OpenSocket, OpenFails, Enable, EnableFails, LeaveLoop, Disable,
         DisableFails, CloseSocket
<1> QED
  BY <1>1, <1>2, <1>3 DEF ScanTypeOK

-----------------------------------------------------------------------------
(* The threads. *)

LEMMA WatcherThreads ==
    ASSUME ScanTypeOK, ThreadInv, NEW w \in Watchers, WatcherStep(w)
    PROVE  ThreadInv'
<1> USE DEF Runs, Scans
<1>1. CASE Join(w)
  BY <1>1 DEF ScanTypeOK, ThreadInv, Join, Move
<1>2. CASE Start(w) /\ slot = NoThread
  <2>1. /\ spawned + 1 \in Threads /\ slot' = spawned + 1 /\ spawned' = spawned + 1
        /\ spawned \in Nat /\ slot' # NoThread
    BY <1>2, ScanAssumption DEF ScanTypeOK, Start, Threads, NoThread
  <2>2. /\ thread'[spawned + 1] = "opening"
        /\ \A t \in Threads : t # spawned + 1 => thread'[t] = thread[t]
    BY <1>2, <2>1 DEF ScanTypeOK, Start
  <2>3. ASSUME NEW t \in Threads, Runs(t)'
        PROVE  t = slot' \/ \E v \in Watchers : pc'[v] = "joining" /\ joining'[v] = t
    <3>1. CASE t # spawned + 1
      <4>1. t # slot /\ Runs(t)
        BY <1>2, <2>2, <2>3, <3>1, NoThreadIsNone
      <4>2. PICK v \in Watchers : pc[v] = "joining" /\ joining[v] = t
        BY <4>1 DEF ThreadInv
      <4> QED
        BY <1>2, <4>2 DEF ScanTypeOK, Start, Move
    <3> QED
      BY <2>1, <3>1
  <2>4. radio' => stuck' \/ \E t \in Threads : Scans(t)'
    <3>1. SUFFICES ASSUME radio, ~stuck
                   PROVE  \E t \in Threads : Scans(t)'
      BY <1>2 DEF Start
    <3>2. PICK t \in Threads : Scans(t)
      BY <3>1 DEF ThreadInv
    <3>3. PICK v \in Watchers : pc[v] = "joining" /\ joining[v] = t
      BY <1>2, <3>2, NoThreadIsNone DEF ThreadInv
    <3>4. t \in 1 .. spawned
      BY <3>3 DEF ScanTypeOK, ThreadInv
    <3> QED
      BY <2>1, <2>2, <3>2, <3>4
  <2>5. /\ slot' \in 0 .. spawned' /\ stopped' \subseteq 1 .. spawned'
        /\ slot' \notin stopped'
    BY <1>2, <2>1 DEF ThreadInv, Start
  <2> QED
    BY <2>1, <2>2, <2>3, <2>4, <2>5 DEF ThreadInv
<1>3. CASE Start(w) /\ slot # NoThread
  BY <1>3 DEF ScanTypeOK, ThreadInv, Start, Move
<1>4. CASE Leave(w)
  BY <1>4 DEF ScanTypeOK, ThreadInv, Leave, Move
<1>5. CASE Stop(w)
  <2>1. ASSUME NEW t \in Threads, Runs(t)
        PROVE  \E v \in Watchers : pc'[v] = "joining" /\ joining'[v] = t
    <3>1. CASE t = slot
      BY <1>5, <3>1, NoThreadIsNone DEF ScanTypeOK, Stop, Move
    <3>2. CASE t # slot
      <4>1. PICK v \in Watchers : pc[v] = "joining" /\ joining[v] = t
        BY <2>1, <3>2 DEF ThreadInv
      <4> QED
        BY <1>5, <4>1 DEF ScanTypeOK, Stop, Move
    <3> QED
      BY <3>1, <3>2
  <2>2. spawned \in Nat /\ slot' \in 0 .. spawned /\ slot' \notin stopped'
        /\ stopped' \subseteq 1 .. spawned
    BY <1>5 DEF ScanTypeOK, ThreadInv, Stop, NoThread
  <2> QED
    BY <1>5, <2>1, <2>2 DEF ThreadInv, Stop
<1>6. CASE Joined(w)
  <2>1. ASSUME NEW t \in Threads, Runs(t)
        PROVE  t = slot \/ \E v \in Watchers : pc'[v] = "joining" /\ joining'[v] = t
    BY <1>6, <2>1 DEF ScanTypeOK, ThreadInv, Joined, Move
  <2> QED
    BY <1>6, <2>1 DEF ThreadInv, Joined
<1>7. CASE StartFails(w)
  BY <1>7 DEF ScanTypeOK, ThreadInv, StartFails, Move
<1> QED
  BY <1>1, <1>2, <1>3, <1>4, <1>5, <1>6, <1>7 DEF WatcherStep

LEMMA ThreadThreads ==
    ASSUME ScanTypeOK, ThreadInv, NEW t \in Threads, ScanThread(t)
    PROVE  ThreadInv'
<1>1. UNCHANGED <<pc, slot, stopped, joining, spawned>>
  BY DEF ScanThread, OpenSocket, OpenFails, Enable, EnableFails, LeaveLoop, Disable,
         DisableFails, CloseSocket
<1>2. Runs(t) /\ \A u \in Threads : u # t => thread'[u] = thread[u]
  BY DEF ScanTypeOK, Runs, ScanThread, OpenSocket, OpenFails, Enable, EnableFails,
         LeaveLoop, Disable, DisableFails, CloseSocket, Run
<1>3. \A u \in Threads : Runs(u)' => Runs(u)
  BY <1>2 DEF Runs
<1>4. radio' => stuck' \/ \E u \in Threads : Scans(u)'
  <2>1. CASE Disable(t) \/ CloseSocket(t)
    <3>1. CASE stuck'
      BY <3>1
    <3>2. CASE ~radio'
      BY <3>2
    <3> QED
      BY <2>1, <3>1, <3>2 DEF Disable, CloseSocket
  <2>2. CASE Enable(t)
    BY <2>2 DEF ScanTypeOK, Enable, Run, Scans
  <2>3. CASE OpenSocket(t) \/ OpenFails(t) \/ EnableFails(t) \/ LeaveLoop(t)
             \/ DisableFails(t)
    <3>1. SUFFICES ASSUME radio, ~stuck
                   PROVE  \E u \in Threads : Scans(u)'
      BY <2>3 DEF OpenSocket, OpenFails, EnableFails, LeaveLoop, DisableFails
    <3>2. PICK u \in Threads : Scans(u)
      BY <3>1 DEF ThreadInv
    <3>3. CASE u = t
      BY <2>3, <3>2, <3>3
      DEF ScanTypeOK, OpenSocket, OpenFails, EnableFails, LeaveLoop, DisableFails, Run,
          Scans
    <3>4. CASE u # t
      BY <1>2, <3>2, <3>4 DEF Scans
    <3> QED
      BY <3>3, <3>4
  <2> QED
    BY <2>1, <2>2, <2>3 DEF ScanThread
<1>5. slot # NoThread /\ ~broken' =>
        thread'[slot] \in {"opening", "enabling", "reading"}
  <2>1. SUFFICES ASSUME slot # NoThread, ~broken'
                 PROVE  thread'[slot] \in {"opening", "enabling", "reading"}
    OBVIOUS
  <2>2. slot \in Threads /\ slot \notin stopped /\ ~broken
    BY <2>1 DEF ScanTypeOK, ThreadInv, ScanThread, OpenSocket, OpenFails, Enable,
                EnableFails, LeaveLoop, Disable,
         DisableFails, CloseSocket
  <2>3. thread[slot] \in {"opening", "enabling", "reading"}
    BY <2>1, <2>2 DEF ThreadInv
  <2>4. CASE t # slot
    BY <1>2, <2>2, <2>3, <2>4
  <2>5. CASE t = slot
    BY <2>1, <2>2, <2>3, <2>5
    DEF ScanTypeOK, ScanThread, OpenSocket, OpenFails, Enable, EnableFails, LeaveLoop,
        Disable, DisableFails, CloseSocket, Run, SeesFlag
  <2> QED
    BY <2>4, <2>5
<1> QED
  BY <1>1, <1>3, <1>4, <1>5 DEF ThreadInv

-----------------------------------------------------------------------------
(* The hub, and one call at a time.                                        *)

LEMMA WatcherHub ==
    ASSUME ScanTypeOK, HubInv, NEW w \in Watchers, WatcherStep(w)
    PROVE  HubInv'
<1>1. \A v \in Watchers : v # w => pc'[v] = pc[v]
  BY DEF ScanTypeOK, WatcherStep, Join, Start, StartFails, Leave, Stop, Joined, Move
<1>2. CASE Join(w)
  <2>1. pc'[w] = "starting" /\ hub' = hub \cup {w}
    BY <1>2 DEF ScanTypeOK, Join, Move
  <2> QED
    BY <1>1, <2>1 DEF HubInv, ScanTypeOK
<1>3. CASE Start(w)
  <2>1. pc'[w] = "live" /\ hub' = hub
    BY <1>3 DEF ScanTypeOK, Start, Move
  <2> QED
    BY <1>1, <2>1 DEF HubInv, ScanTypeOK
<1>4. CASE StartFails(w)
  <2>1. slot' = NoThread /\ hub' = hub \ {w}
    BY <1>4 DEF StartFails
  <2> QED
    BY <1>1, <2>1 DEF HubInv, ScanTypeOK
<1>5. CASE Leave(w)
  <2>1. hub' = hub \ {w} /\ pc'[w] = IF hub \ {w} = {} THEN "stopping" ELSE "out"
    BY <1>5 DEF ScanTypeOK, Leave, Move
  <2>2. \E v \in Watchers : pc'[v] \in {"starting", "live", "stopping"}
    <3>1. CASE hub \ {w} = {}
      BY <2>1, <3>1
    <3>2. CASE hub \ {w} # {}
      <4>1. PICK v \in hub : v # w
        BY <3>2
      <4> QED
        BY <1>1, <4>1 DEF HubInv, ScanTypeOK
    <3> QED
      BY <3>1, <3>2
  <2> QED
    BY <1>1, <2>1, <2>2 DEF HubInv, ScanTypeOK
<1>6. CASE Stop(w)
  <2>1. slot' = NoThread /\ hub' = hub /\ pc[w] = "stopping"
    BY <1>6 DEF Stop, Move
  <2> QED
    BY <1>1, <2>1 DEF HubInv, ScanTypeOK
<1>7. CASE Joined(w)
  <2>1. hub' = hub /\ slot' = slot /\ pc[w] = "joining"
    BY <1>7 DEF Joined, Move
  <2> QED
    BY <1>1, <2>1 DEF HubInv, ScanTypeOK
<1> QED
  BY <1>2, <1>3, <1>4, <1>5, <1>6, <1>7 DEF WatcherStep

\* The first of AloneInv: whoever proceeds is the one under way.
LEMMA OneCall ==
    ASSUME ScanTypeOK, AloneInv, alone, NEW w \in Watchers, WatcherStep(w)
    PROVE  /\ alone'
           /\ \A v \in Watchers \ {w} : pc[v] \in {"out", "live"} /\ pc'[v] = pc[v]
  BY DEF ScanTypeOK, WatcherStep, Join, Start, StartFails, Leave, Stop, Joined, Move,
         MayProceed

LEMMA WatcherAlone ==
    ASSUME ScanTypeOK, HubInv, AloneInv, NEW w \in Watchers, WatcherStep(w)
    PROVE  AloneInv'
<1> SUFFICES ASSUME alone PROVE AloneInv'
  BY DEF AloneInv, WatcherStep, Join, Start, StartFails, Leave, Stop, Joined
<1>1. /\ \A v \in Watchers \ {w} : pc[v] \in {"out", "live"} /\ pc'[v] = pc[v]
      /\ hub \subseteq Watchers
  BY OneCall DEF ScanTypeOK
<1>2. \A u, v \in Watchers : Unsettled(u)' /\ Unsettled(v)' => u = v
  BY <1>1 DEF Unsettled
<1>3. CASE Join(w)
  <2>1. pc[w] = "out" /\ pc'[w] = "starting" /\ hub' = hub \cup {w} /\ slot' = slot
    BY <1>3 DEF ScanTypeOK, Join, Move
  <2> QED
    BY <1>1, <1>2, <2>1 DEF AloneInv
<1>4. CASE Start(w)
  <2>1. pc'[w] = "live" /\ slot' # NoThread
    BY <1>4, ScanAssumption DEF ScanTypeOK, Start, Move, NoThread
  <2> QED
    BY <1>1, <1>2, <2>1 DEF AloneInv
<1>5. CASE Leave(w)
  <2>1. /\ pc[w] = "live" /\ slot' = slot /\ hub' = hub \ {w}
        /\ pc'[w] = IF hub \ {w} = {} THEN "stopping" ELSE "out"
    BY <1>5 DEF ScanTypeOK, Leave, Move
  <2>2. CASE hub \ {w} = {}
    BY <1>1, <1>2, <2>1, <2>2 DEF AloneInv
  <2>3. CASE hub \ {w} # {}
    <3>1. \A u \in Watchers : pc'[u] # "stopping"
      BY <1>1, <2>1, <2>3
    <3>2. (\E u \in hub' : pc'[u] = "live") => slot' # NoThread
      BY <1>1, <2>1 DEF AloneInv
    <3> QED
      BY <1>2, <3>1, <3>2 DEF AloneInv
  <2> QED
    BY <2>2, <2>3
<1>6. CASE Stop(w)
  <2>1. /\ pc[w] = "stopping" /\ pc'[w] \in {"out", "joining"}
        /\ slot' = NoThread /\ hub' = hub
    BY <1>6 DEF ScanTypeOK, Stop, Move
  <2>2. hub = {}
    BY <2>1 DEF AloneInv
  <2> QED
    BY <1>1, <1>2, <2>1, <2>2 DEF AloneInv
<1>7. CASE Joined(w)
  <2>1. /\ pc[w] = "joining" /\ pc'[w] = "out" /\ slot' = slot /\ hub' = hub
    BY <1>7 DEF ScanTypeOK, Joined, Move
  <2> QED
    BY <1>1, <1>2, <2>1 DEF AloneInv
<1>8. CASE StartFails(w)
  <2>1. pc'[w] = "out" /\ slot' = slot /\ hub' = hub \ {w}
    BY <1>8 DEF ScanTypeOK, StartFails, Move
  <2> QED
    BY <1>1, <1>2, <2>1 DEF AloneInv
<1> QED
  BY <1>3, <1>4, <1>5, <1>6, <1>7, <1>8 DEF WatcherStep

LEMMA ThreadRest ==
    ASSUME HubInv, AloneInv, NEW t \in Threads, ScanThread(t)
    PROVE  HubInv' /\ AloneInv'
<1>1. UNCHANGED <<pc, slot, alone>> /\ hub' \in {hub, {}}
  BY DEF ScanThread, OpenSocket, OpenFails, Enable, EnableFails, LeaveLoop, Disable,
         DisableFails, CloseSocket
<1> QED
  BY <1>1 DEF HubInv, AloneInv, Unsettled

-----------------------------------------------------------------------------
(* The theorems. *)

LEMMA InitScanInv == ScanInit => ScanInv
<1> SUFFICES ASSUME ScanInit PROVE ScanInv
  OBVIOUS
<1>1. ScanTypeOK
  <2>1. spawned \in 0 .. MaxThreads
    BY ScanAssumption DEF ScanInit
  <2> QED
    BY <2>1 DEF ScanInit, ScanTypeOK
<1>2. ThreadInv
  BY DEF ScanInit, ThreadInv, Runs, NoThread
<1>3. HubInv /\ AloneInv
  BY DEF ScanInit, HubInv, AloneInv, Unsettled
<1> QED
  BY <1>1, <1>2, <1>3 DEF ScanInv

LEMMA StepScanInv == ScanInv /\ [ScanNext]_scanVars => ScanInv'
<1>1. ASSUME ScanInv, NEW w \in Watchers, WatcherStep(w) PROVE ScanInv'
  BY <1>1, WatcherTypes, WatcherThreads, WatcherHub, WatcherAlone DEF ScanInv
<1>2. ASSUME ScanInv, NEW t \in Threads, ScanThread(t) PROVE ScanInv'
  BY <1>2, ThreadTypes, ThreadThreads, ThreadRest DEF ScanInv
<1>3. ASSUME ScanInv, UNCHANGED scanVars PROVE ScanInv'
  BY <1>3 DEF ScanInv, ScanTypeOK, ThreadInv, HubInv, AloneInv, Runs, Scans, Unsettled,
              scanVars
<1> QED
  BY <1>1, <1>2, <1>3 DEF ScanNext, WatcherStep

LEMMA ScanInvAlways == ScanSpec => []ScanInv
  BY InitScanInv, StepScanInv, PTL DEF ScanSpec

(* Every variable keeps its type, whichever watchers and threads there are.*)
THEOREM ScanTyped == ScanSpec => []ScanTypeOK
<1>1. ScanInv => ScanTypeOK
  BY DEF ScanInv
<1> QED
  BY ScanInvAlways, <1>1, PTL

(* Once the last watcher's stop has returned no scan thread is left, and a *)
(* controller that scans refused the last command to stop; on any number   *)
(* of the tasks' threads.                                                  *)
THEOREM QuietAfterStopAlways == ScanSpec => []QuietAfterStop
<1>1. ScanInv => QuietAfterStop
  <2> SUFFICES ASSUME ScanInv, \A w \in Watchers : pc[w] = "out"
               PROVE  /\ \A t \in Threads : thread[t] \in {"none", "gone"}
                      /\ radio => stuck
    BY DEF QuietAfterStop
  <2>1. slot = NoThread
    BY DEF ScanInv, HubInv
  <2>2. \A t \in Threads : ~Runs(t)
    BY <2>1, NoThreadIsNone DEF ScanInv, ThreadInv
  <2>3. \A t \in Threads : thread[t] \in {"none", "gone"}
    BY <2>2 DEF ScanInv, ScanTypeOK, Runs
  <2>4. radio => stuck
    BY <2>3 DEF ScanInv, ThreadInv, Scans
  <2> QED
    BY <2>3, <2>4
<1> QED
  BY ScanInvAlways, <1>1, PTL

(* While somebody watches and nothing has failed, the thread in the slot   *)
(* scans or is about to, and no other could turn its scan off.             *)
THEOREM NobodyStopsMyScanAlways == ScanSpec => []NobodyStopsMyScan
<1>1. ScanInv => NobodyStopsMyScan
  <2> SUFFICES ASSUME ScanInv, alone, Resting, hub # {}, ~broken
               PROVE  /\ slot # NoThread
                      /\ thread[slot] \in {"opening", "enabling", "reading"}
                      /\ \A t \in Threads \ {slot} : thread[t] \in {"none", "gone"}
    BY DEF NobodyStopsMyScan
  <2>1. PICK w \in hub : pc[w] = "live"
    BY DEF ScanInv, ScanTypeOK, HubInv, Resting
  <2>2. slot # NoThread
    BY <2>1 DEF ScanInv, AloneInv
  <2>3. thread[slot] \in {"opening", "enabling", "reading"}
    BY <2>2 DEF ScanInv, ThreadInv
  <2>4. \A t \in Threads \ {slot} : ~Runs(t)
    BY DEF ScanInv, ThreadInv, Resting
  <2> QED
    BY <2>2, <2>3, <2>4 DEF ScanInv, ScanTypeOK, Runs
<1> QED
  BY ScanInvAlways, <1>1, PTL

-----------------------------------------------------------------------------
(* The backend.                                                            *)

LEMMA StepsOfHalves ==
    [LinksStep \/ ScanStep]_vars => [LinksNext]_linkVars /\ [ScanNext]_scanVars
  BY DEF LinksStep, ScanStep, vars

LEMMA LinksOfBackend == Spec => LinksSpec
<1>1. Init => LinksInit
  BY DEF Init
<1> QED
  BY <1>1, StepsOfHalves, PTL DEF Spec, LinksSpec

LEMMA ScanOfBackend == Spec => ScanSpec
<1>1. Init => ScanInit
  BY DEF Init
<1> QED
  BY <1>1, StepsOfHalves, PTL DEF Spec, ScanSpec

(* All four hold of the backend as the run has it: neither half disturbs   *)
(* the other.                                                              *)
THEOREM BackendSafe ==
    Spec => [](RecordAgrees /\ CacheOfThisLink /\ QuietAfterStop /\ NobodyStopsMyScan)
  BY LinksOfBackend, ScanOfBackend, RecordAgreesAlways, CacheOfThisLinkAlways,
     QuietAfterStopAlways, NobodyStopsMyScanAlways, PTL
=============================================================================
