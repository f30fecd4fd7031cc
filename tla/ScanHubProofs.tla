---------------------------- MODULE ScanHubProofs ----------------------------
(***************************************************************************)
(* Safety of ScanHub for any watchers, services, devices and wants, with   *)
(* tasks on one thread, which is where both properties hold.               *)
(***************************************************************************)
EXTENDS ScanHub, TLAPS

Unsettled(w) == pc[w] \in {"starting", "stopping"}

HubInv == \A w \in Watchers : pc[w] \in {"out", "stopping"} => w \notin hub

\* On one thread, one call at a time is between the hub and the radio.
OneAtATime ==
    /\ \A v, w \in Watchers : Unsettled(v) /\ Unsettled(w) => v = w
    /\ (\E w \in Watchers : pc[w] = "stopping") => hub = {}

IInv == TypeOK /\ HubInv

\* On one thread, somebody whose start has returned answers for a radio
\* that runs.
StopOwed ==
    radio.on /\ ~unstopped =>
        \E w \in Watchers : pc[w] \in {"live", "stopping", "abandoned"}

\* RadioCovers while a start is under way, which may fail and leave the
\* radio as it is.
Covered ==
    ~failed /\ ~dying =>
        \A w \in hub : pc[w] # "starting" =>
            radio.on /\ Wide(radio.services, FilterOf(want[w]))

CoverInv == IInv /\ OneAtATime /\ Covered

-----------------------------------------------------------------------------
(* The filter of the radio. *)

LEMMA FilterTyped ==
    ASSUME NEW n \in Wants
    PROVE  FilterOf(n) \in SUBSET Services
  BY HubAssumption DEF FilterOf, Want

LEMMA RadioFilterTyped ==
    ASSUME TypeOK, NEW ws \in SUBSET Watchers
    PROVE  RadioFilter(ws, want) \in SUBSET Services
<1>1. \A w \in ws : FilterOf(want[w]) \in SUBSET Services
  BY FilterTyped DEF TypeOK
<1> QED
  BY <1>1 DEF RadioFilter

(* It is wide enough for each of those it is for. *)
LEMMA RadioFilterWide ==
    ASSUME NEW ws, NEW n, NEW w \in ws
    PROVE  Wide(RadioFilter(ws, n), FilterOf(n[w]))
<1>1. CASE \E v \in ws : FilterOf(n[v]) = {}
  BY <1>1 DEF RadioFilter, Wide
<1>2. CASE \A v \in ws : FilterOf(n[v]) # {}
  BY <1>2 DEF RadioFilter, Wide
<1> QED
  BY <1>1, <1>2

(* A scan wide enough for all of them is wide enough for a newcomer who    *)
(* does not change the filter.                                             *)
LEMMA NewcomerCovered ==
    ASSUME NEW ws, ws # {}, NEW n, NEW w, NEW services,
           RadioFilter(ws, n) = RadioFilter(ws \cup {w}, n),
           \A v \in ws : Wide(services, FilterOf(n[v]))
    PROVE  Wide(services, FilterOf(n[w]))
<1>1. CASE \E v \in ws : FilterOf(n[v]) = {}
  BY <1>1 DEF Wide
<1>2. CASE \A v \in ws : FilterOf(n[v]) # {}
  <2>1. RadioFilter(ws, n) = UNION {FilterOf(n[v]) : v \in ws}
    BY <1>2 DEF RadioFilter
  <2>2. RadioFilter(ws, n) # {}
    BY <1>2, <2>1
  <2>3. RadioFilter(ws \cup {w}, n) = UNION {FilterOf(n[v]) : v \in ws \cup {w}}
        /\ FilterOf(n[w]) # {}
    BY <2>2 DEF RadioFilter
  <2>4. CASE services = {}
    BY <2>4 DEF Wide
  <2>5. CASE services # {}
    <3>1. \A v \in ws : FilterOf(n[v]) \subseteq services
      BY <2>5 DEF Wide
    <3>2. FilterOf(n[w]) \subseteq UNION {FilterOf(n[v]) : v \in ws}
      BY <2>1, <2>3
    <3> QED
      BY <2>3, <3>1, <3>2 DEF Wide
  <2> QED
    BY <2>4, <2>5
<1> QED
  BY <1>1, <1>2

-----------------------------------------------------------------------------
(* Types, and the hub against the radio. *)

LEMMA OffTyped ==
    Off \in [on : BOOLEAN, services : SUBSET Services, repeats : BOOLEAN] /\ ~Off.on
  BY DEF Off

LEMMA InitIInv == Init => IInv
<1> SUFFICES ASSUME Init PROVE IInv
  OBVIOUS
<1>1. (CHOOSE n \in Wants : TRUE) \in Wants
  BY HubAssumption
<1>2. TypeOK
  BY <1>1, OffTyped DEF Init, TypeOK
<1>3. HubInv
  BY OffTyped DEF Init, HubInv
<1> QED
  BY <1>2, <1>3 DEF IInv

LEMMA WatcherIInv ==
    ASSUME IInv, NEW w \in Watchers,
           \/ Join(w) \/ StartRadio(w) \/ StartFails(w)
           \/ Leave(w) \/ StopRadio(w) \/ StopFails(w) \/ Abandon(w)
    PROVE  IInv'
<1>1. CASE Join(w)
  <2>1. PICK n \in Wants : want' = [want EXCEPT ![w] = n]
    BY <1>1 DEF Join
  <2>2. /\ pc[w] = "out" /\ hub' = hub \cup {w} /\ told' = [told EXCEPT ![w] = {}]
        /\ pc' \in [Watchers -> {"out", "starting", "live", "stopping", "abandoned"}]
        /\ pc'[w] \in {"starting", "live"}
        /\ \A v \in Watchers : v # w => pc'[v] = pc[v]
        /\ UNCHANGED <<radio, reported, failed, unstopped, dying>>
    BY <1>1 DEF Join, IInv, TypeOK
  <2>3. TypeOK'
    BY <2>1, <2>2 DEF IInv, TypeOK
  <2>4. HubInv'
    BY <2>2 DEF IInv, HubInv
  <2> QED
    BY <2>3, <2>4 DEF IInv
<1>2. CASE StartRadio(w)
  <2>1. RadioFilter(hub, want) \in SUBSET Services
    BY RadioFilterTyped DEF IInv, TypeOK
  <2>2. radio' \in [on : BOOLEAN, services : SUBSET Services, repeats : BOOLEAN]
    BY <1>2, <2>1 DEF StartRadio, WantsRepeats
  <2>3. TypeOK'
    BY <1>2, <2>2 DEF StartRadio, Goto, IInv, TypeOK
  <2>4. HubInv'
    BY <1>2 DEF StartRadio, Goto, IInv, HubInv, TypeOK
  <2> QED
    BY <2>3, <2>4 DEF IInv
<1>3. CASE StartFails(w) \/ StopRadio(w) \/ StopFails(w)
  <2>1. TypeOK'
    BY <1>3, OffTyped DEF StartFails, StopRadio, StopFails, Goto, IInv, TypeOK
  <2>2. HubInv'
    BY <1>3, OffTyped DEF StartFails, StopRadio, StopFails, Goto, IInv, HubInv, TypeOK
  <2> QED
    BY <2>1, <2>2 DEF IInv
<1>4. CASE Leave(w)
  <2>1. TypeOK'
    BY <1>4 DEF Leave, Goto, IInv, TypeOK
  <2>2. HubInv'
    BY <1>4 DEF Leave, Goto, Last, IInv, HubInv, TypeOK
  <2> QED
    BY <2>1, <2>2 DEF IInv
<1>5. CASE Abandon(w)
  BY <1>5 DEF Abandon, Goto, IInv, HubInv, TypeOK
<1> QED
  BY <1>1, <1>2, <1>3, <1>4, <1>5

LEMMA RadioIInv ==
    ASSUME IInv, (\E d \in Devices : Publish(d)) \/ RadioDies \/ CloseAll
    PROVE  IInv'
<1>1. CASE \E d \in Devices : Publish(d)
  BY <1>1 DEF Publish, IInv, HubInv, TypeOK
<1>2. CASE RadioDies
  BY <1>2, OffTyped DEF RadioDies, IInv, HubInv, TypeOK
<1>3. CASE CloseAll
  BY <1>3 DEF CloseAll, IInv, HubInv, TypeOK
<1> QED
  BY <1>1, <1>2, <1>3

LEMMA NextIInv == IInv /\ [Next]_vars => IInv'
<1>1. IInv /\ UNCHANGED vars => IInv'
  BY DEF IInv, TypeOK, HubInv, vars
<1> QED
  BY <1>1, WatcherIInv, RadioIInv DEF Next

-----------------------------------------------------------------------------
(* On one thread. *)

LEMMA OwedStep ==
    ASSUME OneThread, IInv, StopOwed, [Next]_vars
    PROVE  StopOwed'
<1>1. ASSUME NEW w \in Watchers, Join(w) PROVE StopOwed'
  <2>1. /\ pc[w] = "out" /\ UNCHANGED <<radio, unstopped>>
        /\ \A v \in Watchers : v # w => pc'[v] = pc[v]
    BY <1>1 DEF Join, IInv, TypeOK
  <2> QED
    BY <2>1 DEF StopOwed
<1>2. ASSUME NEW w \in Watchers, StartRadio(w) PROVE StopOwed'
  <2>1. pc'[w] = "live"
    BY <1>2 DEF StartRadio, Goto, IInv, TypeOK
  <2> QED
    BY <2>1 DEF StopOwed
<1>3. ASSUME NEW w \in Watchers, StartFails(w) PROVE StopOwed'
  <2>1. /\ pc[w] = "starting" /\ (radio'.on => radio.on) /\ UNCHANGED unstopped
        /\ \A v \in Watchers : v # w => pc'[v] = pc[v]
    BY <1>3, OffTyped DEF StartFails, Goto, IInv, TypeOK
  <2> QED
    BY <2>1 DEF StopOwed
<1>4. ASSUME NEW w \in Watchers, Leave(w) PROVE StopOwed'
  <2>1. /\ pc'[w] = IF Last(w) THEN "stopping" ELSE "out"
        /\ \A v \in Watchers : v # w => pc'[v] = pc[v] /\ ~Unsettled(v)
    BY <1>4 DEF Leave, Goto, MayRun, Unsettled, IInv, TypeOK
  <2>2. CASE Last(w)
    BY <2>1, <2>2 DEF StopOwed
  <2>3. CASE ~Last(w)
    <3>1. PICK v \in hub : v # w
      BY <2>3 DEF Last
    <3>2. v \in Watchers /\ pc[v] \in {"live", "abandoned"}
      BY <2>1, <3>1 DEF Unsettled, IInv, HubInv, TypeOK
    <3> QED
      BY <2>1, <3>1, <3>2 DEF StopOwed
  <2> QED
    BY <2>2, <2>3
<1>5. ASSUME NEW w \in Watchers, StopRadio(w) \/ StopFails(w) PROVE StopOwed'
  BY <1>5, OffTyped DEF StopRadio, StopFails, StopOwed
<1>6. ASSUME NEW w \in Watchers, Abandon(w) PROVE StopOwed'
  <2>1. pc'[w] = "abandoned"
    BY <1>6 DEF Abandon, Goto, IInv, TypeOK
  <2> QED
    BY <2>1 DEF StopOwed
<1>7. CASE (\E d \in Devices : Publish(d)) \/ RadioDies \/ CloseAll
  BY <1>7, OffTyped DEF Publish, RadioDies, CloseAll, StopOwed
<1>8. CASE UNCHANGED vars
  BY <1>8 DEF StopOwed, vars
<1> QED
  BY <1>1, <1>2, <1>3, <1>4, <1>5, <1>6, <1>7, <1>8 DEF Next

LEMMA CoverStep ==
    ASSUME OneThread, CoverInv, [Next]_vars
    PROVE  OneAtATime' /\ Covered'
<1> USE DEF CoverInv, IInv
<1>1. ASSUME NEW w \in Watchers, Join(w) PROVE OneAtATime' /\ Covered'
  <2>1. /\ \A v \in Watchers : ~Unsettled(v)
        /\ pc[w] = "out" /\ w \notin hub /\ hub' = hub \cup {w}
        /\ \A v \in Watchers : v # w => pc'[v] = pc[v]
        /\ UNCHANGED <<radio, failed, dying>>
    BY <1>1 DEF Join, MayRun, Unsettled, TypeOK, HubInv
  <2>2. PICK n \in Wants :
          /\ want' = [want EXCEPT ![w] = n]
          /\ pc'[w] = IF Restarts(w, want') THEN "starting" ELSE "live"
    BY <1>1 DEF Join, TypeOK
  <2>3. OneAtATime'
    BY <2>1, <2>2 DEF OneAtATime, Unsettled
  <2>4. ASSUME ~failed, ~dying, NEW v \in hub', pc'[v] # "starting"
        PROVE  radio.on /\ Wide(radio.services, FilterOf(want'[v]))
    <3>1. \A u \in hub : radio.on /\ Wide(radio.services, FilterOf(want'[u]))
      BY <2>1, <2>2, <2>4 DEF Covered, Unsettled, TypeOK
    <3>2. CASE v \in hub
      BY <3>1, <3>2
    <3>3. CASE v = w
      <4>1. hub # {} /\ RadioFilter(hub, want') = RadioFilter(hub \cup {w}, want')
        BY <2>2, <2>4, <3>3 DEF Restarts
      <4> QED
        BY <3>1, <3>3, <4>1, NewcomerCovered
    <3> QED
      BY <2>1, <3>2, <3>3
  <2> QED
    BY <2>1, <2>3, <2>4 DEF Covered
<1>2. ASSUME NEW w \in Watchers, StartRadio(w) PROVE OneAtATime' /\ Covered'
  <2>1. /\ pc[w] = "starting" /\ pc'[w] = "live"
        /\ \A v \in Watchers : v # w => pc'[v] = pc[v]
        /\ radio'.on /\ radio'.services = RadioFilter(hub, want)
        /\ UNCHANGED <<want, hub>>
    BY <1>2 DEF StartRadio, Goto, TypeOK
  <2>2. Covered'
    BY <2>1, RadioFilterWide DEF Covered
  <2>3. OneAtATime'
    BY <2>1 DEF OneAtATime, Unsettled
  <2> QED
    BY <2>2, <2>3
<1>3. ASSUME NEW w \in Watchers, StartFails(w) PROVE OneAtATime' /\ Covered'
  <2>1. /\ pc[w] = "starting" /\ pc'[w] = "out" /\ hub' = hub \ {w}
        /\ \A v \in Watchers : v # w => pc'[v] = pc[v]
        /\ failed' \/ UNCHANGED <<radio, failed>>
        /\ UNCHANGED <<want, dying>>
    BY <1>3 DEF StartFails, Goto, TypeOK
  <2>2. OneAtATime'
    BY <2>1 DEF OneAtATime, Unsettled
  <2>3. Covered'
    BY <2>1 DEF Covered, TypeOK
  <2> QED
    BY <2>2, <2>3
<1>4. ASSUME NEW w \in Watchers, Leave(w) PROVE OneAtATime' /\ Covered'
  <2>1. /\ \A v \in Watchers : ~Unsettled(v)
        /\ pc'[w] = IF Last(w) THEN "stopping" ELSE "out"
        /\ hub' = hub \ {w}
        /\ \A v \in Watchers : v # w => pc'[v] = pc[v]
        /\ UNCHANGED <<want, radio, failed, dying>>
    BY <1>4 DEF Leave, Goto, MayRun, Unsettled, TypeOK
  <2>2. OneAtATime'
    BY <2>1 DEF OneAtATime, Unsettled, Last
  <2>3. Covered'
    BY <2>1 DEF Covered, Unsettled, TypeOK
  <2> QED
    BY <2>2, <2>3
<1>5. ASSUME NEW w \in Watchers, StopRadio(w) \/ StopFails(w)
      PROVE  OneAtATime' /\ Covered'
  <2>1. /\ pc[w] = "stopping" /\ pc'[w] = "out" /\ hub' = hub
        /\ \A v \in Watchers : v # w => pc'[v] = pc[v]
    BY <1>5 DEF StopRadio, StopFails, Goto, TypeOK
  <2>2. hub = {}
    BY <2>1 DEF OneAtATime
  <2> QED
    BY <2>1, <2>2 DEF OneAtATime, Covered, Unsettled
<1>6. ASSUME NEW w \in Watchers, Abandon(w) PROVE OneAtATime' /\ Covered'
  <2>1. /\ pc[w] = "live" /\ pc'[w] = "abandoned"
        /\ \A v \in Watchers : v # w => pc'[v] = pc[v]
        /\ UNCHANGED <<want, hub, radio, failed, dying>>
    BY <1>6 DEF Abandon, Goto, TypeOK
  <2> QED
    BY <2>1 DEF OneAtATime, Covered, Unsettled, TypeOK
<1>7. ASSUME NEW d \in Devices, Publish(d) PROVE OneAtATime' /\ Covered'
  BY <1>7 DEF Publish, OneAtATime, Covered, Unsettled
<1>8. CASE RadioDies \/ CloseAll
  BY <1>8 DEF RadioDies, CloseAll, OneAtATime, Covered, Unsettled
<1>9. CASE UNCHANGED vars
  BY <1>9 DEF OneAtATime, Covered, Unsettled, vars
<1> QED
  BY <1>1, <1>2, <1>3, <1>4, <1>5, <1>6, <1>7, <1>8, <1>9 DEF Next

-----------------------------------------------------------------------------
(* The types of the hub, the calls and the radio, in every execution. *)
THEOREM TypeCorrect == Spec => []TypeOK
<1>1. IInv => TypeOK
  BY DEF IInv
<1> QED
  BY <1>1, InitIInv, NextIInv, PTL DEF Spec

(* When every call has returned and every stream is dropped, a radio that  *)
(* runs on refused the last call to stop it (choose, ScanHub::remove).     *)
THEOREM OffAtRest ==
    ASSUME OneThread
    PROVE  Spec => []RadioOffAtRest
<1>1. Init => IInv /\ StopOwed
  BY InitIInv, OffTyped DEF Init, StopOwed
<1>2. IInv /\ StopOwed /\ [Next]_vars => IInv' /\ StopOwed'
  BY NextIInv, OwedStep
<1>3. StopOwed => RadioOffAtRest
  BY DEF StopOwed, RadioOffAtRest
<1> QED
  BY <1>1, <1>2, <1>3, PTL DEF Spec

(* With tasks on one thread the scan is as wide as the widest watcher, a   *)
(* newcomer who needs no restart included (ScanHub::add, radio_filter).    *)
THEOREM RadioServes ==
    ASSUME OneThread
    PROVE  Spec => []RadioCovers
<1>1. Init => CoverInv
  BY InitIInv DEF Init, CoverInv, OneAtATime, Unsettled, Covered
<1>2. CoverInv /\ [Next]_vars => CoverInv'
  BY NextIInv, CoverStep DEF CoverInv
<1>3. CoverInv => RadioCovers
  BY DEF CoverInv, IInv, TypeOK, Covered, RadioCovers, Settled
<1> QED
  BY <1>1, <1>2, <1>3, PTL DEF Spec
=============================================================================
