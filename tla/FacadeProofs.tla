---------------------------- MODULE FacadeProofs ----------------------------
(***************************************************************************)
(* Safety of what the facade keeps, for any devices, services, clients and *)
(* watchers: Registry, and the two modules over it. Every step of those is *)
(* one of the registry's or leaves it alone, so what is proved of Registry *)
(* holds under them.                                                       *)
(***************************************************************************)
EXTENDS GattHandles, LinkStreams, TLAPS, SequenceTheorems

(*************************** Registry **************************************)

LEMMA InitTypeOK == Init => TypeOK
  BY RegistryAssumption DEF Init, TypeOK

LEMMA InsertTypeOK ==
    ASSUME TypeOK, NEW d \in Devices, NEW services \in SUBSET Services,
           NEW up \in BOOLEAN, Insert(d, services, up)
    PROVE  TypeOK'
<1>1. /\ Union(d, services) \in SUBSET Services
      /\ CarriedGeneration(d) \in Nat /\ CarriedLock(d) \in Nat
  BY DEF TypeOK, Union, CarriedGeneration, CarriedLock
<1> QED
  BY <1>1 DEF Insert, TypeOK, streams

LEMMA MarkTypeOK ==
    ASSUME TypeOK, NEW d \in Devices,
           LinkUp(d) \/ MarkServicesChanged(d) \/ MarkDisconnected(d)
    PROVE  TypeOK'
<1>1. CASE LinkUp(d)
  BY <1>1 DEF LinkUp, TypeOK, streams
<1>2. CASE MarkServicesChanged(d)
  BY <1>2 DEF MarkServicesChanged, Stale, Bump, TypeOK, streams
<1>3. CASE MarkDisconnected(d)
  <2>1. connected' \in [Devices -> BOOLEAN] /\ generation' \in [Devices -> Nat]
    <3>1. CASE d \in granted
      <4>1. /\ connected' = [connected EXCEPT ![d] = FALSE]
            /\ generation' = [generation EXCEPT ![d] = @ + 1]
        BY <1>3, <3>1 DEF MarkDisconnected, Bump
      <4> QED
        BY <4>1 DEF TypeOK
    <3>2. CASE d \notin granted
      BY <1>3, <3>2 DEF MarkDisconnected, TypeOK
    <3> QED
      BY <3>1, <3>2
  <2>2. due' \in [Watchers -> Nat]
    BY <1>3 DEF MarkDisconnected, TypeOK
  <2>3. /\ telling' \in [Devices -> Nat] /\ epoch' \in [Devices -> Nat]
        /\ UNCHANGED <<granted, allowed, lock, locks, listening, signals,
                       forgetting, incarnation>>
    BY <1>3 DEF MarkDisconnected, Stale, TypeOK
  <2> QED
    BY <2>1, <2>2, <2>3 DEF TypeOK
<1> QED
  BY <1>1, <1>2, <1>3

LEMMA TellTypeOK ==
    ASSUME TypeOK, NEW d \in Devices, TellDisconnected(d)
    PROVE  TypeOK'
<1>1. telling' \in [Devices -> Nat] /\ signals' \in [Watchers -> Nat]
  BY DEF TellDisconnected, TypeOK
<1> QED
  BY <1>1 DEF TellDisconnected, TypeOK, records

LEMMA RemoveTypeOK ==
    ASSUME TypeOK, NEW d \in Devices, RemoveListeners(d) \/ RemoveRecord(d)
    PROVE  TypeOK'
<1>1. CASE RemoveListeners(d)
  <2>1. listening' \in [Watchers -> Devices \cup {NoDevice}]
    BY <1>1 DEF RemoveListeners, TypeOK
  <2> QED
    BY <1>1, <2>1 DEF RemoveListeners, TypeOK, records
<1>2. CASE RemoveRecord(d)
  BY <1>2 DEF RemoveRecord, TypeOK, streams
<1> QED
  BY <1>1, <1>2

LEMMA WatchTypeOK ==
    ASSUME TypeOK, NEW w \in Watchers, NEW d \in Devices, Watch(w, d) \/ Unwatch(w)
    PROVE  TypeOK'
  BY DEF Watch, Unwatch, TypeOK, records

LEMMA NextTypeOK == TypeOK /\ [Next]_vars => TypeOK'
<1>1. TypeOK /\ UNCHANGED vars => TypeOK'
  BY DEF TypeOK, vars, records, streams
<1> QED
  BY <1>1, InsertTypeOK, MarkTypeOK, TellTypeOK, RemoveTypeOK, WatchTypeOK DEF Next

-----------------------------------------------------------------------------
(* What a step may do to a record that stays: its grant widens, its lock   *)
(* is the same object, its generation moves with its epoch. What was       *)
(* counted is never uncounted.                                             *)
Kept(d) ==
    /\ d \in granted' /\ allowed[d] \subseteq allowed'[d]
    /\ lock'[d] = lock[d]
    /\ generation'[d] + epoch[d] = generation[d] + epoch'[d]

Steady(d) ==
    /\ epoch'[d] >= epoch[d] /\ incarnation'[d] >= incarnation[d]
    /\ d \in granted /\ incarnation'[d] = incarnation[d] => Kept(d)

LEMMA RecordStep ==
    ASSUME TypeOK, [Next]_vars, NEW d \in Devices
    PROVE  Steady(d)
<1>1. ASSUME NEW e \in Devices, NEW services \in SUBSET Services,
             NEW up \in BOOLEAN, Insert(e, services, up)
      PROVE  Steady(d)
  BY <1>1 DEF Insert, Union, CarriedGeneration, CarriedLock, TypeOK, Steady, Kept
<1>2. ASSUME NEW e \in Devices, LinkUp(e) \/ MarkServicesChanged(e)
      PROVE  Steady(d)
  BY <1>2 DEF LinkUp, MarkServicesChanged, Stale, Bump, TypeOK, Steady, Kept
<1>3. ASSUME NEW e \in Devices, MarkDisconnected(e)
      PROVE  Steady(d)
  <2>1. CASE e \in granted
    BY <1>3, <2>1 DEF MarkDisconnected, Stale, Bump, TypeOK, Steady, Kept
  <2>2. CASE e \notin granted
    BY <1>3, <2>2 DEF MarkDisconnected, Stale, TypeOK, Steady, Kept
  <2> QED
    BY <2>1, <2>2
<1>4. ASSUME NEW e \in Devices, RemoveRecord(e)
      PROVE  Steady(d)
  BY <1>4 DEF RemoveRecord, TypeOK, Steady, Kept
<1>5. CASE UNCHANGED <<granted, allowed, generation, lock, epoch, incarnation>>
  BY <1>5 DEF TypeOK, Steady, Kept
<1> QED
  BY <1>1, <1>2, <1>3, <1>4, <1>5
     DEF Next, TellDisconnected, RemoveListeners, Watch, Unwatch, vars, records

-----------------------------------------------------------------------------
(* A watcher's signals, with those on their way, make up what is due. *)
NothingMissed ==
    \A w \in Watchers, d \in Devices :
        listening[w] = d => signals[w] + telling[d] >= due[w]

LEMMA MissedStep == TypeOK /\ NothingMissed /\ [Next]_vars => NothingMissed'
<1> SUFFICES ASSUME TypeOK, NothingMissed, [Next]_vars,
                    NEW w \in Watchers, NEW d \in Devices, listening'[w] = d
             PROVE  signals'[w] + telling'[d] >= due'[w]
  BY DEF NothingMissed
<1>1. ASSUME NEW e \in Devices, MarkDisconnected(e)
      PROVE  signals'[w] + telling'[d] >= due'[w]
  BY <1>1 DEF MarkDisconnected, NothingMissed, TypeOK
<1>2. ASSUME NEW e \in Devices, TellDisconnected(e)
      PROVE  signals'[w] + telling'[d] >= due'[w]
  BY <1>2 DEF TellDisconnected, Told, NothingMissed, TypeOK
<1>3. ASSUME NEW v \in Watchers, NEW e \in Devices, Watch(v, e)
      PROVE  signals'[w] + telling'[d] >= due'[w]
  BY <1>3 DEF Watch, NothingMissed, TypeOK
<1>4. CASE /\ UNCHANGED <<signals, telling, due>>
           /\ \A v \in Watchers : listening'[v] = listening[v] \/ listening'[v] = NoDevice
  BY <1>4, RegistryAssumption DEF NothingMissed
<1>5. ASSUME NEW e \in Devices, RemoveListeners(e) \/ \E v \in Watchers : Unwatch(v)
      PROVE  signals'[w] + telling'[d] >= due'[w]
  BY <1>4, <1>5 DEF RemoveListeners, Unwatch, streams, TypeOK
<1> QED
  BY <1>1, <1>2, <1>3, <1>4, <1>5
     DEF Next, Insert, LinkUp, MarkServicesChanged, RemoveRecord, vars, streams

LEMMA Invariance == Spec => [](TypeOK /\ NothingMissed)
<1>1. Init => TypeOK /\ NothingMissed
  BY InitTypeOK, RegistryAssumption DEF Init, NothingMissed
<1> QED
  BY <1>1, NextTypeOK, MissedStep, PTL DEF Spec

-----------------------------------------------------------------------------
(* The types of the registry's state, in every execution. *)
THEOREM RegistryTypeCorrect == Spec => []TypeOK
  BY Invariance, PTL

(* Whoever watches a device is told of every disconnection since, although *)
(* the record and the listeners have a mutex each (mark_disconnected).     *)
THEOREM NoneMissed == Spec => []NoDisconnectMissed
<1>1. TypeOK /\ NothingMissed => NoDisconnectMissed
  BY DEF TypeOK, NothingMissed, NoDisconnectMissed
<1> QED
  BY <1>1, Invariance, PTL

(* No later grant takes away what an earlier one gave (Grant::union). *)
THEOREM GrantsWiden == Spec => GrantOnlyWidens
<1>1. TypeOK /\ [Next]_vars =>
        [\A d \in Devices :
            d \in granted /\ d \in granted' => allowed[d] \subseteq allowed'[d]]_vars
  <2> SUFFICES ASSUME TypeOK, Next, NEW d \in Devices, d \in granted, d \in granted'
               PROVE  allowed[d] \subseteq allowed'[d]
    OBVIOUS
  <2>1. ASSUME NEW e \in Devices, RemoveRecord(e) PROVE e # d
    BY <2>1 DEF RemoveRecord
  <2> QED
    BY <2>1 DEF TypeOK, Next, Insert, Union, LinkUp, MarkServicesChanged,
       MarkDisconnected, TellDisconnected, RemoveListeners, RemoveRecord, Watch,
       Unwatch, records
<1> QED
  BY <1>1, RegistryTypeCorrect, PTL DEF Spec, GrantOnlyWidens

(* A record's generation moves exactly with what makes its handles stale.  *)
THEOREM GenerationsCount == Spec => GenerationCounts
<1>1. TypeOK /\ [Next]_vars =>
        [\A d \in Devices : d \in granted /\ d \in granted' =>
            generation'[d] - generation[d] = epoch'[d] - epoch[d]]_vars
  <2> SUFFICES ASSUME TypeOK, TypeOK', Next,
                      NEW d \in Devices, d \in granted, d \in granted'
               PROVE  generation'[d] - generation[d] = epoch'[d] - epoch[d]
    BY NextTypeOK
  <2>1. CASE incarnation'[d] = incarnation[d]
    BY <2>1, RecordStep DEF Steady, Kept, TypeOK
  <2>2. CASE incarnation'[d] # incarnation[d]
    <3>1. RemoveRecord(d)
      BY <2>2 DEF TypeOK, Next, Insert, LinkUp, MarkServicesChanged,
         MarkDisconnected, TellDisconnected, RemoveListeners, RemoveRecord, Watch,
         Unwatch
    <3> QED
      BY <3>1 DEF RemoveRecord
  <2> QED
    BY <2>1, <2>2
<1> QED
  BY <1>1, RegistryTypeCorrect, PTL DEF Spec, GenerationCounts

-----------------------------------------------------------------------------
(*************************** GattHandles ***********************************)
(* What a handle remembers is tied to the record it came from: the         *)
(* incarnation it names is never a later one, and while it is the current  *)
(* one the record is there, as wide as it was, with the same lock, and     *)
(* with a generation as far from the handle's as the record's epoch is     *)
(* from the handle's.                                                      *)

Asking(c) == pc[c] \in {"discovering", "answered"}

\* Of a question or a handle: its record is the one still there.
Current(x) == x.inc = incarnation[x.dev]

\* What both rest on.
Rooted(x) ==
    /\ x.inc <= incarnation[x.dev]
    /\ x.svc \notin Blocked
    /\ Current(x) => x.dev \in granted /\ x.svc \in allowed[x.dev]

QuestionsRooted ==
    \A c \in Clients : asking[c] # NoQuestion => Rooted(asking[c])

HandlesRooted ==
    \A c \in Clients : Held(c) =>
        LET h == handle[c] IN
        /\ Rooted(h)
        /\ h.minted <= epoch[h.dev]
        /\ Current(h) => generation[h.dev] + h.minted = h.gen + epoch[h.dev]

\* An operation's two reads, and its lock.
OperationsRooted ==
    \A c \in Clients :
        LET h == handle[c] IN
        /\ pc[c] \in {"checking", "checked", "queued", "operating"} => Held(c)
        /\ pc[c] = "checking" /\ Current(h) => seen[c] + h.minted = h.gen + calledAt[c]
        /\ pc[c] \in {"checked", "queued", "operating"} /\ Current(h)
              => h.minted = calledAt[c]
        /\ pc[c] \in {"queued", "operating"} /\ Current(h)
              => queuedOn[c] = lock[h.dev]

OneHolder ==
    \A b, c \in Clients :
        b # c /\ pc[b] = "operating" /\ pc[c] = "operating"
            => queuedOn[b] # queuedOn[c]

HandlesInv ==
    /\ TypeOKG
    /\ QuestionsRooted
    /\ HandlesRooted
    /\ OperationsRooted
    /\ OneHolder
-----------------------------------------------------------------------------
(* Types. *)

LEMMA NoHandleIsNone == NoHandle \notin Handle /\ NoQuestion \notin Question
<1>1. NoHandle.dev \notin Devices /\ NoQuestion.dev \notin Devices
  BY RegistryAssumption DEF NoHandle, NoQuestion
<1> QED
  BY <1>1 DEF Handle, Question

LEMMA HandleTyped ==
    ASSUME TypeOKG, NEW c \in Clients, Held(c)
    PROVE  /\ handle[c] \in Handle
           /\ handle[c].dev \in Devices /\ handle[c].svc \in Services
           /\ handle[c].gen \in Nat /\ handle[c].minted \in Nat
           /\ handle[c].inc \in Nat
<1>1. handle[c] \in Handle
  BY DEF TypeOKG, Held
<1> QED
  BY <1>1 DEF Handle

LEMMA QuestionTyped ==
    ASSUME TypeOKG, NEW c \in Clients, asking[c] # NoQuestion
    PROVE  /\ asking[c] \in Question
           /\ asking[c].dev \in Devices /\ asking[c].svc \in Services
           /\ asking[c].inc \in Nat
<1>1. asking[c] \in Question
  BY DEF TypeOKG
<1> QED
  BY <1>1 DEF Question

LEMMA SameRegistry == TypeOK /\ UNCHANGED vars => TypeOK'
  BY DEF TypeOK, vars, records, streams

LEMMA InitTypeOKG == InitG => TypeOKG
  BY InitTypeOK DEF InitG, TypeOKG

LEMMA AnswerTyped ==
    ASSUME TypeOKG, NEW c \in Clients, asking[c].dev \in granted
    PROVE  asking[c] # NoQuestion
  BY RegistryAssumption DEF TypeOKG, TypeOK, NoQuestion

LEMMA DiscoveryTypeOKG ==
    ASSUME TypeOKG, NEW c \in Clients,
           \/ \E d \in Devices, s \in Services : Discover(c, d, s)
           \/ DiscoverAnswer(c) \/ DiscoverFails(c) \/ Mint(c)
    PROVE  TypeOKG'
<1>1. TypeOK'
  BY SameRegistry DEF TypeOKG, Discover, DiscoverAnswer, DiscoverFails, Mint
<1>2. ASSUME NEW d \in Devices, NEW s \in Services, Discover(c, d, s)
      PROVE  TypeOKG'
  <2>1. [dev |-> d, svc |-> s, inc |-> incarnation[d]] \in Question
    BY DEF TypeOKG, TypeOK, Question
  <2> QED
    BY <1>1, <1>2, <2>1 DEF Discover, Goto, TypeOKG
<1>3. CASE DiscoverAnswer(c)
  BY <1>1, <1>3 DEF DiscoverAnswer, Goto, TypeOKG
<1>4. CASE DiscoverFails(c)
  BY <1>1, <1>4 DEF DiscoverFails, Goto, TypeOKG
<1>5. CASE Mint(c)
  <2>1. handle' \in [Clients -> Handle \cup {NoHandle}]
    <3>1. CASE asking[c].dev \in granted
      <4>1. /\ asking[c].dev \in Devices /\ asking[c].svc \in Services
            /\ asking[c].inc \in Nat
        BY <3>1, AnswerTyped, QuestionTyped
      <4>2. [dev |-> asking[c].dev, svc |-> asking[c].svc,
             gen |-> generation[asking[c].dev], minted |-> epoch[asking[c].dev],
             inc |-> asking[c].inc] \in Handle
        BY <4>1 DEF TypeOKG, TypeOK, Handle
      <4> QED
        BY <1>5, <3>1, <4>2 DEF Mint, TypeOKG
    <3>2. CASE asking[c].dev \notin granted
      BY <1>5, <3>2 DEF Mint, TypeOKG
    <3> QED
      BY <3>1, <3>2
  <2> QED
    BY <1>1, <1>5, <2>1 DEF Mint, Goto, TypeOKG
<1> QED
  BY <1>2, <1>3, <1>4, <1>5

LEMMA OperationTypeOKG ==
    ASSUME TypeOKG, NEW c \in Clients,
           \/ ReadGeneration(c) \/ CheckGeneration(c) \/ QueueOnLock(c)
           \/ Operate(c) \/ Finish(c)
    PROVE  TypeOKG'
<1>1. TypeOK'
  BY SameRegistry DEF TypeOKG, ReadGeneration, CheckGeneration, QueueOnLock,
     Operate, Finish
<1>2. CASE ReadGeneration(c)
  BY <1>1, <1>2, HandleTyped DEF ReadGeneration, Goto, TypeOKG, TypeOK
<1>3. CASE CheckGeneration(c)
  BY <1>1, <1>3 DEF CheckGeneration, TypeOKG
<1>4. CASE QueueOnLock(c)
  <2>1. CASE handle[c].dev \in granted
    <3>1. lock[handle[c].dev] \in Nat
      BY <2>1 DEF TypeOKG, TypeOK
    <3> QED
      BY <1>1, <1>4, <2>1, <3>1 DEF QueueOnLock, TypeOKG
  <2>2. CASE handle[c].dev \notin granted
    BY <1>1, <1>4, <2>2 DEF QueueOnLock, TypeOKG
  <2> QED
    BY <2>1, <2>2
<1>5. CASE Operate(c) \/ Finish(c)
  BY <1>1, <1>5 DEF Operate, Finish, Goto, TypeOKG
<1> QED
  BY <1>2, <1>3, <1>4, <1>5

LEMMA NextTypeOKG == TypeOKG /\ [NextG]_varsG => TypeOKG'
<1> SUFFICES ASSUME TypeOKG, [NextG]_varsG PROVE TypeOKG'
  OBVIOUS
<1>1. CASE [Next]_vars /\ UNCHANGED clients
  BY <1>1, NextTypeOK DEF TypeOKG, clients
<1>2. CASE \E c \in Clients : Client(c)
  BY <1>2, DiscoveryTypeOKG, OperationTypeOKG DEF Client
<1> QED
  BY <1>1, <1>2 DEF NextG, varsG

-----------------------------------------------------------------------------
(* A step of the registry, the clients standing still. *)

LEMMA RootedStep ==
    ASSUME TypeOK, [Next]_vars, NEW x, x.dev \in Devices, x.inc \in Nat, Rooted(x)
    PROVE  /\ Rooted(x)'
           /\ Current(x)' => Current(x) /\ Kept(x.dev)
<1>1. Steady(x.dev)
  BY RecordStep
<1>2. incarnation[x.dev] \in Nat /\ incarnation'[x.dev] \in Nat
  BY NextTypeOK DEF TypeOK
<1>3. x.inc <= incarnation[x.dev] /\ incarnation'[x.dev] >= incarnation[x.dev]
  BY <1>1 DEF Rooted, Steady
<1>4. Current(x)' => Current(x)
  BY <1>2, <1>3 DEF Current
<1>5. Current(x)' => x.dev \in granted /\ x.svc \in allowed[x.dev] /\ Kept(x.dev)
  BY <1>1, <1>4 DEF Rooted, Current, Steady
<1> QED
  BY <1>2, <1>3, <1>4, <1>5 DEF Rooted, Kept

LEMMA RegistryIInv ==
    ASSUME HandlesInv, [Next]_vars, UNCHANGED clients
    PROVE  HandlesInv'
<1>1. TypeOKG' /\ TypeOK /\ TypeOK' /\ TypeOKG
  BY NextTypeOKG, NextTypeOK DEF HandlesInv, TypeOKG, NextG, varsG, clients
<1>2. QuestionsRooted'
  <2> SUFFICES ASSUME NEW c \in Clients, asking'[c] # NoQuestion
               PROVE  Rooted(asking[c])'
    BY DEF QuestionsRooted
  <2>1. PICK x \in Question : x = asking[c]
    BY <1>1, QuestionTyped DEF clients
  <2>2. x.dev \in Devices /\ x.inc \in Nat
    BY DEF Question
  <2>3. Rooted(x)
    BY <2>1 DEF HandlesInv, QuestionsRooted, clients
  <2>4. Rooted(x)'
    BY <1>1, <2>2, <2>3, RootedStep
  <2> QED
    BY <2>1, <2>4 DEF clients
<1>3. ASSUME NEW c \in Clients, Held(c)
      PROVE  \E h \in Handle :
               /\ h = handle[c] /\ h = handle'[c] /\ h.dev \in Devices
               /\ h.gen \in Nat /\ h.minted \in Nat
               /\ Rooted(h)'
               /\ Current(h)' => Current(h) /\ Kept(h.dev)
  <2>1. PICK h \in Handle : h = handle[c]
    BY <1>1, <1>3, HandleTyped
  <2>2. h.dev \in Devices /\ h.inc \in Nat /\ h.gen \in Nat /\ h.minted \in Nat
    BY DEF Handle
  <2>3. Rooted(h)
    BY <1>3, <2>1 DEF HandlesInv, HandlesRooted
  <2>4. Rooted(h)' /\ (Current(h)' => Current(h) /\ Kept(h.dev))
    BY <1>1, <2>2, <2>3, RootedStep
  <2> QED
    BY <2>1, <2>2, <2>4 DEF clients
<1>4. HandlesRooted'
  <2> SUFFICES ASSUME NEW c \in Clients, Held(c)'
               PROVE  /\ Rooted(handle[c])'
                      /\ handle'[c].minted <= epoch'[handle'[c].dev]
                      /\ Current(handle[c])' =>
                           generation'[handle'[c].dev] + handle'[c].minted
                              = handle'[c].gen + epoch'[handle'[c].dev]
    BY DEF HandlesRooted
  <2>1. Held(c)
    BY DEF Held, clients
  <2>2. PICK h \in Handle :
               /\ h = handle[c] /\ h = handle'[c] /\ h.dev \in Devices
               /\ h.gen \in Nat /\ h.minted \in Nat
               /\ Rooted(h)'
               /\ Current(h)' => Current(h) /\ Kept(h.dev)
    BY <1>3, <2>1
  <2>3. /\ epoch[h.dev] \in Nat /\ epoch'[h.dev] \in Nat
        /\ generation[h.dev] \in Nat /\ generation'[h.dev] \in Nat
    BY <1>1, <2>2 DEF TypeOK
  <2>4. /\ h.minted <= epoch[h.dev]
        /\ Current(h) => generation[h.dev] + h.minted = h.gen + epoch[h.dev]
    BY <2>1, <2>2 DEF HandlesInv, HandlesRooted
  <2>5. epoch'[h.dev] >= epoch[h.dev]
    BY <1>1, <2>2, RecordStep DEF Steady
  <2>6. h.minted <= epoch'[h.dev]
    BY <2>2, <2>3, <2>4, <2>5
  <2>7. Current(h)' => generation'[h.dev] + h.minted = h.gen + epoch'[h.dev]
    <3> SUFFICES ASSUME Current(h)'
                 PROVE  generation'[h.dev] + h.minted = h.gen + epoch'[h.dev]
      OBVIOUS
    <3>1. /\ generation'[h.dev] + epoch[h.dev] = generation[h.dev] + epoch'[h.dev]
          /\ generation[h.dev] + h.minted = h.gen + epoch[h.dev]
      BY <2>2, <2>4 DEF Kept
    <3> QED
      BY <2>2, <2>3, <3>1
  <2> QED
    BY <2>2, <2>6, <2>7
<1>5. OperationsRooted'
  <2> SUFFICES ASSUME NEW c \in Clients,
                      pc[c] \in {"checking", "checked", "queued", "operating"}
               PROVE  /\ Held(c)'
                      /\ pc[c] = "checking" /\ Current(handle[c])' =>
                           seen[c] + handle[c].minted = handle[c].gen + calledAt[c]
                      /\ pc[c] \in {"checked", "queued", "operating"}
                            /\ Current(handle[c])'
                           => handle[c].minted = calledAt[c]
                      /\ pc[c] \in {"queued", "operating"} /\ Current(handle[c])'
                           => queuedOn[c] = lock'[handle[c].dev]
    BY DEF OperationsRooted, clients
  <2>1. Held(c) /\ Held(c)'
    BY DEF HandlesInv, OperationsRooted, Held, clients
  <2>2. PICK h \in Handle :
               /\ h = handle[c] /\ h = handle'[c]
               /\ Current(h)' => Current(h) /\ Kept(h.dev)
    BY <1>3, <2>1
  <2>3. Current(handle[c])' =>
           Current(handle[c]) /\ lock'[handle[c].dev] = lock[handle[c].dev]
    BY <2>2 DEF Kept
  <2> QED
    BY <2>1, <2>3 DEF HandlesInv, OperationsRooted
<1>6. OneHolder'
  BY DEF HandlesInv, OneHolder, clients
<1> QED
  BY <1>1, <1>2, <1>4, <1>5, <1>6 DEF HandlesInv

-----------------------------------------------------------------------------
(* A step of a client, the registry standing still: what is rooted stays   *)
(* so, and only the client's own question, handle or operation moves.      *)

LEMMA DiscoverIInv ==
    ASSUME HandlesInv, NEW c \in Clients, NEW d \in Devices, NEW s \in Services,
           Discover(c, d, s)
    PROVE  HandlesInv'
<1>1. TypeOKG'
  BY DiscoveryTypeOKG DEF HandlesInv
<1>2. /\ UNCHANGED <<vars, handle, seen, queuedOn, calledAt>>
      /\ pc' = [pc EXCEPT ![c] = "discovering"] /\ Guard(d, s)
      /\ \A b \in Clients : b # c => asking'[b] = asking[b]
      /\ asking'[c] = [dev |-> d, svc |-> s, inc |-> incarnation[d]]
  BY DEF Discover, Goto, HandlesInv, TypeOKG
<1>3. UNCHANGED <<granted, allowed, generation, lock, epoch, incarnation>>
  BY <1>2 DEF vars, records
<1>4. incarnation[d] \in Nat
  BY DEF HandlesInv, TypeOKG, TypeOK
<1>5. QuestionsRooted'
  BY <1>2, <1>3, <1>4 DEF HandlesInv, QuestionsRooted, Rooted, Current, Guard
<1>6. HandlesRooted'
  BY <1>2, <1>3 DEF HandlesInv, HandlesRooted, Held, Rooted, Current
<1>7. OperationsRooted' /\ OneHolder'
  BY <1>2, <1>3 DEF HandlesInv, OperationsRooted, OneHolder, Held, Current, TypeOKG
<1> QED
  BY <1>1, <1>5, <1>6, <1>7 DEF HandlesInv

LEMMA AnswerIInv ==
    ASSUME HandlesInv, NEW c \in Clients, DiscoverAnswer(c) \/ DiscoverFails(c)
    PROVE  HandlesInv'
<1>1. TypeOKG'
  BY DiscoveryTypeOKG DEF HandlesInv
<1>2. /\ UNCHANGED <<vars, handle, seen, queuedOn, calledAt>>
      /\ \A b \in Clients : asking'[b] = asking[b] \/ asking'[b] = NoQuestion
      /\ \A b \in Clients : pc'[b] = pc[b] \/ pc'[b] \in {"answered", "idle"}
  BY DEF DiscoverAnswer, DiscoverFails, Goto, HandlesInv, TypeOKG
<1>3. UNCHANGED <<granted, allowed, generation, lock, epoch, incarnation>>
  BY <1>2 DEF vars, records
<1>4. QuestionsRooted'
  BY <1>2, <1>3 DEF HandlesInv, QuestionsRooted, Rooted, Current
<1>5. HandlesRooted'
  BY <1>2, <1>3 DEF HandlesInv, HandlesRooted, Held, Rooted, Current
<1>6. OperationsRooted' /\ OneHolder'
  BY <1>2, <1>3 DEF HandlesInv, OperationsRooted, OneHolder, Held, Current
<1> QED
  BY <1>1, <1>4, <1>5, <1>6 DEF HandlesInv

LEMMA MintIInv ==
    ASSUME HandlesInv, NEW c \in Clients, Mint(c)
    PROVE  HandlesInv'
<1>1. TypeOKG'
  BY DiscoveryTypeOKG DEF HandlesInv
<1>2. /\ UNCHANGED <<vars, seen, queuedOn, calledAt>>
      /\ \A b \in Clients : asking'[b] = asking[b] \/ asking'[b] = NoQuestion
      /\ pc[c] = "answered" /\ pc'[c] = "idle"
      /\ \A b \in Clients : b # c => pc'[b] = pc[b] /\ handle'[b] = handle[b]
  BY DEF Mint, Goto, HandlesInv, TypeOKG
<1>3. UNCHANGED <<granted, allowed, generation, lock, epoch, incarnation>>
  BY <1>2 DEF vars, records
<1>4. QuestionsRooted'
  BY <1>2, <1>3 DEF HandlesInv, QuestionsRooted, Rooted, Current
<1>5. HandlesRooted'
  <2> SUFFICES ASSUME NEW b \in Clients, Held(b)'
               PROVE  /\ Rooted(handle[b])'
                      /\ handle'[b].minted <= epoch'[handle'[b].dev]
                      /\ Current(handle[b])' =>
                           generation'[handle'[b].dev] + handle'[b].minted
                              = handle'[b].gen + epoch'[handle'[b].dev]
    BY DEF HandlesRooted
  <2>1. CASE handle'[b] = handle[b]
    BY <1>3, <2>1 DEF HandlesInv, HandlesRooted, Held, Rooted, Current
  <2>2. CASE handle'[b] # handle[b]
    <3>1. b = c /\ asking[c].dev \in granted
      BY <1>2, <2>2 DEF Mint
    <3>2. handle'[c] = [dev |-> asking[c].dev, svc |-> asking[c].svc,
                        gen |-> generation[asking[c].dev],
                        minted |-> epoch[asking[c].dev], inc |-> asking[c].inc]
      BY <3>1 DEF Mint, HandlesInv, TypeOKG
    <3>3. asking[c] # NoQuestion
      BY <3>1, AnswerTyped DEF HandlesInv
    <3>4. Rooted(asking[c]) /\ asking[c].dev \in Devices
      BY <3>3, QuestionTyped DEF HandlesInv, QuestionsRooted
    <3>5. epoch[asking[c].dev] \in Nat /\ generation[asking[c].dev] \in Nat
      BY <3>4 DEF HandlesInv, TypeOKG, TypeOK
    <3> QED
      BY <1>3, <3>1, <3>2, <3>4, <3>5 DEF Rooted, Current
  <2> QED
    BY <2>1, <2>2
<1>6. OperationsRooted' /\ OneHolder'
  BY <1>2, <1>3 DEF HandlesInv, OperationsRooted, OneHolder, Held, Current
<1> QED
  BY <1>1, <1>4, <1>5, <1>6 DEF HandlesInv

LEMMA OperationIInv ==
    ASSUME HandlesInv, NEW c \in Clients,
           \/ ReadGeneration(c) \/ CheckGeneration(c) \/ QueueOnLock(c)
           \/ Operate(c) \/ Finish(c)
    PROVE  HandlesInv'
<1>1. TypeOKG'
  BY OperationTypeOKG DEF HandlesInv
<1>2. /\ UNCHANGED <<vars, handle, asking>>
      /\ \A b \in Clients : b # c =>
           UNCHANGED <<pc[b], seen[b], queuedOn[b], calledAt[b]>>
  BY DEF ReadGeneration, CheckGeneration, QueueOnLock, Operate, Finish, Goto,
         HandlesInv, TypeOKG
<1>3. UNCHANGED <<granted, allowed, generation, lock, epoch, incarnation>>
  BY <1>2 DEF vars, records
<1>4. QuestionsRooted' /\ HandlesRooted'
  BY <1>2, <1>3 DEF HandlesInv, QuestionsRooted, HandlesRooted, Held, Rooted, Current
<1>5. Held(c) => /\ handle[c].dev \in Devices /\ handle[c].gen \in Nat
                 /\ handle[c].minted \in Nat
  BY HandleTyped DEF HandlesInv
<1>6. ASSUME pc'[c] \in {"checking", "checked", "queued", "operating"}
      PROVE  /\ Held(c)
             /\ pc'[c] = "checking" /\ Current(handle[c])
                   => seen'[c] + handle[c].minted = handle[c].gen + calledAt'[c]
             /\ pc'[c] \in {"checked", "queued", "operating"} /\ Current(handle[c])
                   => handle[c].minted = calledAt'[c]
             /\ pc'[c] \in {"queued", "operating"} /\ Current(handle[c])
                   => queuedOn'[c] = lock[handle[c].dev]
  <2>1. CASE ReadGeneration(c)
    <3>1. /\ Held(c) /\ pc'[c] = "checking"
          /\ seen'[c] = generation[handle[c].dev]
          /\ calledAt'[c] = epoch[handle[c].dev]
      BY <2>1 DEF ReadGeneration, Goto, HandlesInv, TypeOKG
    <3> QED
      BY <3>1 DEF HandlesInv, HandlesRooted
  <2>2. CASE CheckGeneration(c)
    <3>1. /\ pc[c] = "checking" /\ pc'[c] = "checked" /\ seen[c] = handle[c].gen
          /\ calledAt'[c] = calledAt[c]
      BY <1>6, <2>2 DEF CheckGeneration, Passes, HandlesInv, TypeOKG
    <3>2. Held(c) /\ calledAt[c] \in Nat
      BY <3>1 DEF HandlesInv, OperationsRooted, TypeOKG
    <3>3. Current(handle[c]) => handle[c].minted = calledAt[c]
      <4>1. Current(handle[c]) =>
               handle[c].gen + handle[c].minted = handle[c].gen + calledAt[c]
        BY <3>1 DEF HandlesInv, OperationsRooted
      <4> QED
        BY <1>5, <3>2, <4>1
    <3> QED
      BY <3>1, <3>2, <3>3
  <2>3. CASE QueueOnLock(c)
    <3>1. /\ pc[c] = "checked" /\ pc'[c] = "queued"
          /\ queuedOn'[c] = lock[handle[c].dev] /\ calledAt'[c] = calledAt[c]
      BY <1>6, <2>3 DEF QueueOnLock, HandlesInv, TypeOKG
    <3> QED
      BY <3>1 DEF HandlesInv, OperationsRooted
  <2>4. CASE Operate(c)
    <3>1. /\ pc[c] = "queued" /\ pc'[c] = "operating"
          /\ queuedOn'[c] = queuedOn[c] /\ calledAt'[c] = calledAt[c]
      BY <2>4 DEF Operate, Goto, HandlesInv, TypeOKG
    <3> QED
      BY <3>1 DEF HandlesInv, OperationsRooted
  <2>5. CASE Finish(c)
    BY <1>6, <2>5 DEF Finish, Goto, HandlesInv, TypeOKG
  <2> QED
    BY <2>1, <2>2, <2>3, <2>4, <2>5
<1>7. OperationsRooted'
  <2>1. \A b \in Clients : Held(b)' <=> Held(b)
    BY <1>2 DEF Held
  <2>2. \A b \in Clients : Current(handle[b])' <=> Current(handle[b])
    BY <1>2, <1>3 DEF Current
  <2> SUFFICES ASSUME NEW b \in Clients,
                      pc'[b] \in {"checking", "checked", "queued", "operating"}
               PROVE  /\ Held(b)
                      /\ pc'[b] = "checking" /\ Current(handle[b])
                            => seen'[b] + handle[b].minted
                                  = handle[b].gen + calledAt'[b]
                      /\ pc'[b] \in {"checked", "queued", "operating"}
                            /\ Current(handle[b])
                            => handle[b].minted = calledAt'[b]
                      /\ pc'[b] \in {"queued", "operating"} /\ Current(handle[b])
                            => queuedOn'[b] = lock[handle[b].dev]
    BY <1>2, <1>3, <2>1, <2>2 DEF OperationsRooted
  <2>3. CASE b = c
    BY <1>6, <2>3
  <2>4. CASE b # c
    BY <1>2, <2>4 DEF HandlesInv, OperationsRooted
  <2> QED
    BY <2>3, <2>4
<1>8. OneHolder'
  <2>1. CASE Operate(c)
    <3>1. /\ \A b \in Clients : pc[b] = "operating" => queuedOn[b] # queuedOn[c]
          /\ queuedOn' = queuedOn
      BY <2>1 DEF Operate, LockFree
    <3> QED
      BY <1>2, <3>1 DEF HandlesInv, OneHolder
  <2>2. CASE ~Operate(c)
    <3>1. pc'[c] # "operating"
      BY <2>2 DEF ReadGeneration, CheckGeneration, QueueOnLock, Finish, Goto,
                  HandlesInv, TypeOKG
    <3> QED
      BY <1>2, <3>1 DEF HandlesInv, OneHolder
  <2> QED
    BY <2>1, <2>2
<1> QED
  BY <1>1, <1>4, <1>7, <1>8 DEF HandlesInv

LEMMA InitHandlesInv == InitG => HandlesInv
<1> SUFFICES ASSUME InitG PROVE HandlesInv
  OBVIOUS
<1>1. \A c \in Clients : pc[c] = "idle" /\ ~Held(c) /\ asking[c] = NoQuestion
  BY DEF InitG, Held
<1> QED
  BY <1>1, InitTypeOKG
     DEF HandlesInv, QuestionsRooted, HandlesRooted, OperationsRooted, OneHolder

LEMMA NextHandlesInv == HandlesInv /\ [NextG]_varsG => HandlesInv'
<1> SUFFICES ASSUME HandlesInv, [NextG]_varsG PROVE HandlesInv'
  OBVIOUS
<1>1. CASE [Next]_vars /\ UNCHANGED clients
  BY <1>1, RegistryIInv
<1>2. CASE \E c \in Clients : Client(c)
  BY <1>2, DiscoverIInv, AnswerIInv, MintIInv, OperationIInv DEF Client
<1> QED
  BY <1>1, <1>2 DEF NextG, varsG

LEMMA HandlesInvariance == SpecG => []HandlesInv
  BY InitHandlesInv, NextHandlesInv, PTL DEF SpecG

-----------------------------------------------------------------------------
(* Clients use the registry by its operations alone, so what is proved of  *)
(* it holds under them (service_from, check_generation, gatt_lock).        *)
THEOREM HandlesUseRegistry == SpecG => Spec
<1>1. InitG => Init
  BY DEF InitG
<1>2. [NextG]_varsG => [Next]_vars
  BY DEF NextG, varsG, Client, Discover, DiscoverAnswer, DiscoverFails, Mint,
     ReadGeneration, CheckGeneration, QueueOnLock, Operate, Finish
<1> QED
  BY <1>1, <1>2, PTL DEF SpecG, Spec

(* The types of the clients' state and of the registry under them. *)
THEOREM HandlesTypeCorrect == SpecG => []TypeOKG
<1>1. HandlesInv => TypeOKG
  BY DEF HandlesInv
<1> QED
  BY <1>1, HandlesInvariance, PTL

(* While its record stays, a handle that became stale is never usable      *)
(* again: no reconnection, change of services or second grant revives it   *)
(* (check_generation).                                                     *)
THEOREM NeverRevived == SpecG => []HandleNotRevived
<1>1. HandlesInv => HandleNotRevived
  <2> SUFFICES ASSUME HandlesInv, NEW c \in Clients, Usable(c), SameRecord(c)
               PROVE  handle[c].minted = epoch[handle[c].dev]
    BY DEF HandleNotRevived
  <2>1. /\ generation[handle[c].dev] + handle[c].minted
                = handle[c].gen + epoch[handle[c].dev]
        /\ handle[c].gen = generation[handle[c].dev]
    BY DEF HandlesInv, HandlesRooted, SameRecord, Current, Usable
  <2>2. /\ handle[c].dev \in Devices
        /\ handle[c].minted \in Nat /\ handle[c].gen \in Nat
    BY HandleTyped DEF HandlesInv, Usable
  <2>3. generation[handle[c].dev] \in Nat /\ epoch[handle[c].dev] \in Nat
    BY <2>2 DEF HandlesInv, TypeOKG, TypeOK
  <2> QED
    BY <2>1, <2>2, <2>3
<1> QED
  BY <1>1, HandlesInvariance, PTL

(* While its record stays, a handle is within the grant and off the        *)
(* blocklist (guard_service, and Grant::union for what is granted later).  *)
THEOREM WithinGrant == SpecG => []HandleWithinGrant
<1>1. HandlesInv => HandleWithinGrant
  BY DEF HandlesInv, HandlesRooted, Rooted, Current, SameRecord, HandleWithinGrant
<1> QED
  BY <1>1, HandlesInvariance, PTL

(* An operation that passed check_generation was called on a handle that   *)
(* was current at its first read.                                          *)
THEOREM CalledCurrent == SpecG => []CalledOnCurrent
<1>1. HandlesInv => CalledOnCurrent
  BY DEF HandlesInv, OperationsRooted, Current, SameRecord, CalledOnCurrent
<1> QED
  BY <1>1, HandlesInvariance, PTL

(* One operation at a time runs on a record, whatever is granted meanwhile *)
(* (DeviceRegistry::insert carries the lock over, gatt_lock hands it out). *)
THEOREM OperationsExclude == SpecG => []OneOperation
<1>1. HandlesInv => OneOperation
  <2> SUFFICES ASSUME HandlesInv, NEW b \in Clients, NEW c \in Clients, b # c,
                      pc[b] = "operating", pc[c] = "operating",
                      SameRecord(b), SameRecord(c), handle[b].dev = handle[c].dev
               PROVE  FALSE
    BY DEF OneOperation
  <2>1. queuedOn[b] = lock[handle[b].dev] /\ queuedOn[c] = lock[handle[c].dev]
    BY DEF HandlesInv, OperationsRooted, SameRecord, Current
  <2> QED
    BY <2>1 DEF HandlesInv, OneHolder
<1> QED
  BY <1>1, HandlesInvariance, PTL

(* A handle refused as stale is refused for good while the record stays:   *)
(* generations and epochs move together, and neither goes back.            *)
THEOREM RefusedForGood == SpecG => StaleForGood
<1>1. HandlesInv /\ HandlesInv' /\ [NextG]_varsG =>
        [\A c \in Clients :
          /\ SameRecord(c) /\ SameRecord(c)' /\ handle'[c] = handle[c]
          /\ handle[c].dev \in granted
          /\ handle[c].gen # generation[handle[c].dev]
          => ~Usable(c)']_varsG
  <2> SUFFICES ASSUME HandlesInv, HandlesInv', NextG, NEW c \in Clients,
                      SameRecord(c), SameRecord(c)', handle'[c] = handle[c],
                      handle[c].dev \in granted,
                      handle[c].gen # generation[handle[c].dev],
                      Usable(c)'
               PROVE  FALSE
    OBVIOUS
  <2>1. PICK h \in Handle : h = handle[c] /\ h = handle'[c]
    BY HandleTyped DEF HandlesInv, SameRecord
  <2>2. h.dev \in Devices /\ h.gen \in Nat /\ h.minted \in Nat
    BY DEF Handle
  <2>3. /\ generation[h.dev] + h.minted = h.gen + epoch[h.dev]
        /\ h.minted <= epoch[h.dev]
    BY <2>1 DEF HandlesInv, HandlesRooted, SameRecord, Current
  <2>4. /\ generation'[h.dev] + h.minted = h.gen + epoch'[h.dev]
        /\ generation'[h.dev] = h.gen
    BY <2>1 DEF HandlesInv, HandlesRooted, SameRecord, Current, Usable
  <2>5. epoch'[h.dev] >= epoch[h.dev]
    <3>1. CASE [Next]_vars
      BY <2>2, <3>1, RecordStep DEF HandlesInv, TypeOKG, Steady
    <3>2. CASE UNCHANGED vars
      BY <2>2, <3>2 DEF HandlesInv, TypeOKG, TypeOK, vars
    <3> QED
      BY <3>1, <3>2 DEF NextG, Client, Discover, DiscoverAnswer, DiscoverFails,
         Mint, ReadGeneration, CheckGeneration, QueueOnLock, Operate, Finish
  <2>6. /\ generation[h.dev] \in Nat /\ generation'[h.dev] \in Nat
        /\ epoch[h.dev] \in Nat /\ epoch'[h.dev] \in Nat
    BY <2>2 DEF HandlesInv, TypeOKG, TypeOK
  <2>7. generation[h.dev] # h.gen
    BY <2>1
  <2> QED
    BY <2>2, <2>3, <2>4, <2>5, <2>6, <2>7
<1> QED
  BY <1>1, HandlesInvariance, PTL DEF SpecG, StaleForGood

-----------------------------------------------------------------------------
(*************************** LinkStreams ***********************************)
(* Why a stream ends is an invariant of the streams and the registry       *)
(* together.                                                               *)

\* A call or stream that has begun to watch and has not let go.
Watching(w) == task[w] \in {"enabling", "reading", "between", "parked",
                            "watching", "asking", "waiting"}

\* One that has not begun to.
Unwatched(w) == task[w] \in {"none", "checked", "subscribed"}

\* A stream that should have a sender.
Fed(w) == task[w] \in {"subscribed", "enabling", "reading", "between", "parked"}

(* A watcher is cut off only by a forgetting, and so is a stream without a *)
(* sender; one who began between reports is told of nothing that was not   *)
(* marked since.                                                           *)
Reason(w) ==
    /\ Unwatched(w) => heard[w] = 0
    /\ task[w] \notin {"none", "dropped"} => of[w] \in Devices
    /\ Watching(w) => listening[w] = of[w] \/ cut[w]
    /\ Fed(w) => w \in subs \/ cut[w]
    /\ \A d \in Devices :
         listening[w] = d /\ ~halfTold[w] => signals[w] + telling[d] <= due[w]
    /\ task[w] \in {"ended", "waited"} => due[w] > 0 \/ cut[w] \/ halfTold[w]

ReasonInv == \A w \in Watchers : Reason(w)

StreamsInv == TypeOKL /\ ReasonInv

-----------------------------------------------------------------------------
(* Every step is the registry's or leaves it alone. *)

LEMMA WatchIsNext ==
    ASSUME NEW w \in Watchers, NEW d \in Devices, Watch(w, d)
    PROVE  Next
  BY DEF Next

LEMMA UnwatchIsNext ==
    ASSUME TypeOK, NEW w \in Watchers, Unwatch(w)
    PROVE  Next
<1>1. PICK d \in Devices : listening[w] = d
  BY DEF TypeOK, Unwatch
<1> QED
  BY <1>1 DEF Next

LEMMA CallbackIsNext ==
    ASSUME TypeOK, NEW d \in Devices, Callback(d)
    PROVE  Next
<1>1. connected[d] \in BOOLEAN
  BY DEF TypeOK
<1>2. ASSUME NEW services \in SUBSET Services, Grant(d, services)
      PROVE  Next
  BY <1>1, <1>2 DEF Grant, Next
<1> QED
  BY <1>2 DEF Callback, Connects, Disconnects, Forget, Forgotten, Next

LEMMA StepIsRegistrys == TypeOK /\ ReasonInv /\ [NextL]_varsL => [Next]_vars
<1> SUFFICES ASSUME TypeOK, ReasonInv, [NextL]_varsL PROVE [Next]_vars
  OBVIOUS
<1>1. ASSUME NEW w \in Watchers, NEW d \in Devices, CheckHandle(w, d) \/ WatchFirst(w, d)
      PROVE  [Next]_vars
  BY <1>1, WatchIsNext DEF CheckHandle, WatchFirst, Begin
<1>2. ASSUME NEW w \in Watchers, Drop(w)
      PROVE  [Next]_vars
  BY <1>2, UnwatchIsNext DEF Drop
<1>3. ASSUME NEW w \in Watchers, Stream(w) \/ Waiting(w) \/ Subscribe(w)
      PROVE  UNCHANGED vars
  BY <1>3 DEF Stream, Waiting, Enable, PollValues, PollDisconnects, AskToClose,
              LookIfConnected, WaitEnds, Subscribe
<1>4. ASSUME NEW w \in Watchers, WatchDisconnect(w)
      PROVE  Next
  <2>1. of[w] \in Devices
    BY <1>4 DEF WatchDisconnect, Advance, ReasonInv, Reason
  <2> QED
    BY <1>4, <2>1, WatchIsNext DEF WatchDisconnect, Begin
<1>5. ASSUME NEW d \in Devices, Notify(d) \/ StopNotifications(d)
      PROVE  UNCHANGED vars
  BY <1>5 DEF Notify, StopNotifications
<1> QED
  BY <1>1, <1>2, <1>3, <1>4, <1>5, CallbackIsNext DEF NextL, Starting, varsL

-----------------------------------------------------------------------------
(* Types. *)

LEMMA InitTypeOKL == InitL => TypeOKL
<1>1. <<>> \in Seq(ValueOf)
  OBVIOUS
<1> QED
  BY <1>1, InitTypeOK, StreamsAssumption DEF InitL, TypeOKL, Init, Tasks

(* The registry does not take back a signal, except from who begins.       *)
LEMMA SignalsKept ==
    ASSUME TypeOK, NEW d \in Devices, Callback(d), NEW w \in Watchers
    PROVE  signals'[w] >= signals[w]
<1>1. CASE TellDisconnected(d)
  BY <1>1 DEF TellDisconnected, Told, TypeOK
<1>2. CASE UNCHANGED signals
  BY <1>2 DEF TypeOK
<1> QED
  BY <1>1, <1>2 DEF Callback, Connects, LinkUp, Disconnects, MarkDisconnected, Forget,
     RemoveListeners, Forgotten, RemoveRecord, Grant, Insert, MarkServicesChanged, streams

(* What beginning to watch leaves of the types of signals and history.     *)
LEMMA BeginTyped ==
    ASSUME TypeOKL, NEW w \in Watchers, NEW d \in Devices, Begin(w, d), heard[w] = 0
    PROVE  /\ halfTold' \in [Watchers -> BOOLEAN]
           /\ \A v \in Watchers : heard[v] <= signals'[v]
<1>1. /\ \A v \in Watchers : v # w => signals'[v] = signals[v]
      /\ signals'[w] = 0
  BY DEF Begin, Watch, TypeOKL, TypeOK
<1>2. \A v \in Watchers : heard[v] <= signals'[v]
  <2>1. \A v \in Watchers : heard[v] <= signals[v]
    BY DEF TypeOKL
  <2> QED
    BY <1>1, <2>1
<1>3. halfTold' \in [Watchers -> BOOLEAN]
  <2>1. halfTold' = [halfTold EXCEPT ![w] = telling[d] > 0]
    BY DEF Begin
  <2>2. \A half : half = (telling[d] > 0) => half \in BOOLEAN
    <3>1. telling[d] \in Nat
      BY DEF TypeOKL, TypeOK
    <3> QED
      BY <3>1, SMT
  <2>3. halfTold \in [Watchers -> BOOLEAN]
    BY DEF TypeOKL
  <2> QED
    BY <2>1, <2>2, <2>3, Zenon
<1> QED
  BY <1>2, <1>3

LEMMA BeginTypeOKL ==
    ASSUME TypeOKL, TypeOK', NEW w \in Watchers, NEW d \in Devices,
           CheckHandle(w, d) \/ WatchFirst(w, d), heard[w] = 0
    PROVE  TypeOKL'
<1>1. task' \in [Watchers -> Tasks] /\ of' \in [Watchers -> Devices \cup {NoDevice}]
  <2>1. \/ task' = [task EXCEPT ![w] = "checked"]
        \/ task' = [task EXCEPT ![w] = "watching"]
    BY DEF CheckHandle, WatchFirst, Advance
  <2>2. of' = [of EXCEPT ![w] = d]
    BY DEF CheckHandle, WatchFirst
  <2> QED
    BY <2>1, <2>2 DEF TypeOKL, Tasks, Midway
<1>2. CASE CheckHandle(w, d)
  <2>1. since' \in [Watchers -> Nat] /\ signals' = signals
    BY <1>2 DEF CheckHandle, TypeOKL, vars, streams
  <2> QED
    BY <1>1, <1>2, <2>1 DEF CheckHandle, TypeOKL
<1>3. CASE WatchFirst(w, d)
  <2>1. /\ halfTold' \in [Watchers -> BOOLEAN]
        /\ \A v \in Watchers : heard[v] <= signals'[v]
    BY <1>3, BeginTyped DEF WatchFirst
  <2> QED
    BY <1>1, <1>3, <2>1 DEF WatchFirst, TypeOKL
<1> QED
  BY <1>2, <1>3

LEMMA StartTypeOKL ==
    ASSUME TypeOKL, TypeOK', NEW w \in Watchers, of[w] \in Devices, heard[w] = 0, Starting(w)
    PROVE  TypeOKL'
<1>1. task' \in [Watchers -> Tasks]
  BY DEF Starting, Subscribe, WatchDisconnect, Advance, TypeOKL, Tasks, Midway
<1>2. CASE Subscribe(w)
  <2>1. cut' \in [Watchers -> BOOLEAN]
    <3>1. cut' = [cut EXCEPT ![w] = of[w] \notin granted]
      BY <1>2 DEF Subscribe
    <3>2. cut \in [Watchers -> BOOLEAN] /\ (of[w] \notin granted) \in BOOLEAN
      BY DEF TypeOKL
    <3> QED
      BY <3>1, <3>2, Zenon
  <2>2. subs' \subseteq Watchers /\ signals' = signals
    BY <1>2 DEF Subscribe, TypeOKL, vars, streams
  <2> QED
    BY <1>1, <1>2, <2>1, <2>2 DEF Subscribe, TypeOKL
<1>3. CASE WatchDisconnect(w)
  <2>1. /\ halfTold' \in [Watchers -> BOOLEAN]
        /\ \A v \in Watchers : heard[v] <= signals'[v]
    BY <1>3, BeginTyped DEF WatchDisconnect
  <2> QED
    BY <1>1, <1>3, <2>1 DEF WatchDisconnect, TypeOKL
<1> QED
  BY <1>2, <1>3 DEF Starting

LEMMA StreamTypeOKL ==
    ASSUME TypeOKL, TypeOK', NEW w \in Watchers, of[w] \in Devices,
           Stream(w) \/ Waiting(w) \/ Drop(w)
    PROVE  TypeOKL'
<1>1. CASE Enable(w) \/ AskToClose(w) \/ LookIfConnected(w)
  <2>1. task' \in [Watchers -> Tasks] /\ enabled' \subseteq Devices /\ asked' \subseteq Devices
    <3>1. CASE Enable(w)
      <4>1. of[w] \in Devices
        BY <3>1 DEF Enable, TypeOKL, TypeOK
      <4> QED
        BY <3>1, <4>1 DEF Enable, Advance, TypeOKL, Tasks
    <3>2. CASE AskToClose(w)
      BY <3>2 DEF AskToClose, Advance, TypeOKL, Tasks
    <3>3. CASE LookIfConnected(w)
      BY <3>3 DEF LookIfConnected, Advance, TypeOKL, Tasks
    <3> QED
      BY <1>1, <3>1, <3>2, <3>3
  <2>2. UNCHANGED <<signals, of, queue, subs, heard, past>>
    BY <1>1 DEF Enable, AskToClose, LookIfConnected, vars, streams
  <2> QED
    BY <2>1, <2>2 DEF TypeOKL, past
<1>2. CASE PollValues(w)
  <2>1. queue' \in [Watchers -> Seq(ValueOf)]
    <3>1. queue[w] \in Seq(ValueOf)
      BY DEF TypeOKL
    <3>2. (IF queue[w] # <<>> THEN Tail(queue[w]) ELSE queue[w]) \in Seq(ValueOf)
      BY <3>1, HeadTailProperties
    <3> QED
      BY <1>2, <3>2 DEF PollValues, TypeOKL
  <2> QED
    BY <1>2, <2>1 DEF PollValues, TypeOKL, Tasks, Midway, past, vars, streams
<1>3. CASE PollDisconnects(w) \/ WaitEnds(w)
  <2>1. heard[w] \in Nat /\ signals[w] \in Nat
    BY DEF TypeOKL, TypeOK
  <2>2. heard' \in [Watchers -> Nat] /\ \A v \in Watchers : heard'[v] <= signals'[v]
    <3>1. /\ heard' = [heard EXCEPT ![w] = IF heard[w] < signals[w] THEN @ + 1 ELSE @]
          /\ signals' = signals
      BY <1>3 DEF PollDisconnects, WaitEnds, Signalled, vars, streams
    <3>2. heard \in [Watchers -> Nat] /\ \A v \in Watchers : heard[v] <= signals[v]
      BY DEF TypeOKL
    <3> QED
      BY <2>1, <3>1, <3>2
  <2> QED
    BY <1>3, <2>2 DEF PollDisconnects, WaitEnds, Advance, TypeOKL, Tasks, past
<1>4. CASE Drop(w)
  <2>1. signals' = signals
    BY <1>4 DEF Drop, Unwatch, vars, streams
  <2>2. <<>> \in Seq(ValueOf)
    OBVIOUS
  <2> QED
    BY <1>4, <2>1, <2>2 DEF Drop, TypeOKL, Tasks, past
<1> QED
  BY <1>1, <1>2, <1>3, <1>4 DEF Stream, Waiting

LEMMA NotifyTypeOKL ==
    ASSUME TypeOKL, TypeOK', NEW d \in Devices, Notify(d) \/ StopNotifications(d)
    PROVE  TypeOKL'
<1>1. CASE Notify(d)
  <2> DEFINE v == [n |-> made + 1, link |-> link[d]]
  <2>1. v \in ValueOf /\ made' \in 0 .. MaxValues
    BY <1>1, StreamsAssumption DEF Notify, TypeOKL, ValueOf
  <2>2. queue' \in [Watchers -> Seq(ValueOf)]
    <3>1. \A w \in Watchers : Append(queue[w], v) \in Seq(ValueOf)
      BY <2>1, AppendProperties DEF TypeOKL
    <3> HIDE DEF v
    <3>2. \A w \in Watchers : queue[w] \in Seq(ValueOf)
      BY DEF TypeOKL
    <3>3. queue' = [w \in Watchers |->
                      IF w \in {u \in Alive : of[u] = d} THEN Append(queue[w], v) ELSE queue[w]]
      BY <1>1 DEF Notify, v
    <3> QED
      BY <3>1, <3>2, <3>3
  <2> QED
    BY <1>1, <2>1, <2>2 DEF Notify, TypeOKL, vars, streams
<1>2. CASE StopNotifications(d)
  BY <1>2 DEF StopNotifications, TypeOKL, past, vars, streams
<1> QED
  BY <1>1, <1>2

LEMMA CallbackTypeOKL ==
    ASSUME TypeOKL, TypeOK', NEW d \in Devices, Callback(d)
    PROVE  TypeOKL'
<1>1. \A w \in Watchers : heard[w] <= signals'[w]
  <2> SUFFICES ASSUME NEW w \in Watchers PROVE heard[w] <= signals'[w]
    OBVIOUS
  <2>1. signals'[w] >= signals[w] /\ heard[w] <= signals[w]
    BY SignalsKept DEF TypeOKL
  <2>2. heard[w] \in Nat /\ signals[w] \in Nat /\ signals'[w] \in Nat
    BY DEF TypeOKL, TypeOK
  <2> QED
    BY <2>1, <2>2
<1>2. heard' = heard /\ task' = task /\ of' = of /\ queue' = queue /\ subs' = subs
  BY DEF Callback, Connects, Disconnects, Forget, Forgotten, Grant, streaming
<1>3. enabled' \subseteq Devices /\ asked' \subseteq Devices
  BY DEF Callback, Connects, Disconnects, Forget, Forgotten, Grant, streaming, TypeOKL
<1>4. made' = made /\ since' = since /\ halfTold' = halfTold /\ oneThread' = oneThread
  BY DEF Callback, Connects, Disconnects, Forget, Forgotten, Grant, past
<1>5. link' \in [Devices -> Nat] /\ cut' \in [Watchers -> BOOLEAN]
  <2>1. \/ link' = [link EXCEPT ![d] = @ + 1] /\ cut' = cut
        \/ link' = link /\ cut' = [w \in Watchers |-> cut[w] \/ listening[w] = d]
        \/ link' = link /\ cut' = cut
    BY DEF Callback, Connects, Disconnects, Forget, Forgotten, Grant, past
  <2>2. \A w \in Watchers : (cut[w] \/ listening[w] = d) \in BOOLEAN
    OBVIOUS
  <2>3. link \in [Devices -> Nat] /\ cut \in [Watchers -> BOOLEAN]
    BY DEF TypeOKL
  <2>4. link' \in [Devices -> Nat]
    BY <2>1, <2>3
  <2> QED
    BY <2>1, <2>2, <2>3, <2>4
<1> QED
  BY <1>1, <1>2, <1>3, <1>4, <1>5 DEF TypeOKL

-----------------------------------------------------------------------------
(* Why a stream ends. *)

LEMMA InitReason == InitL => ReasonInv
  BY RegistryAssumption DEF InitL, Init, ReasonInv, Reason, Watching, Fed

(* A watcher of whom nothing moves but its task, to where it owes no more. *)
LEMMA SameReason ==
    ASSUME NEW w \in Watchers, Reason(w),
           UNCHANGED <<vars, of, cut, halfTold>>,
           w \in subs' \/ (w \in subs => ~Fed(w)),
           \/ task'[w] = task[w] /\ heard'[w] = heard[w]
           \/ /\ task[w] \notin {"none", "dropped"}
              /\ ~Unwatched(w)' /\ task'[w] \notin {"ended", "waited"}
              /\ Watching(w)' => Watching(w)
              /\ Fed(w)' => Fed(w)
    PROVE  Reason(w)'
<1>1. UNCHANGED <<listening, signals, telling, due>>
  BY DEF vars, streams
<1>2. Fed(w)' => w \in subs' \/ cut'[w]
  BY DEF Reason, Fed
<1> QED
  BY <1>1, <1>2 DEF Reason, Watching, Unwatched

(* Beginning to watch, of a watcher whose queue of signals is empty.       *)
LEMMA BeginReason ==
    ASSUME StreamsInv, NEW w \in Watchers, NEW d \in Devices, Begin(w, d),
           UNCHANGED <<heard, cut, telling, subs>>,
           Unwatched(w), of'[w] = d, Watching(w)', Fed(w)' => Fed(w)
    PROVE  Reason(w)'
<1>1. Reason(w)
  BY DEF StreamsInv, ReasonInv
<1>2. listening'[w] = d /\ signals'[w] = 0 /\ due'[w] = 0
  BY DEF Begin, Watch, StreamsInv, TypeOKL, TypeOK
<1>3. telling[d] \in Nat
  BY DEF StreamsInv, TypeOKL, TypeOK
<1>4. telling[d] > 0 => halfTold'[w]
  <2>1. halfTold' = [halfTold EXCEPT ![w] = telling[d] > 0] /\ halfTold \in [Watchers -> BOOLEAN]
    BY DEF Begin, StreamsInv, TypeOKL
  <2> QED
    BY <2>1
<1>5. ASSUME ~halfTold'[w] PROVE signals'[w] + telling'[d] <= due'[w]
  <2>1. telling[d] = 0
    BY <1>3, <1>4, <1>5
  <2> QED
    BY <1>2, <2>1
<1>6. task'[w] \notin {"none", "dropped", "ended", "waited"} /\ ~Unwatched(w)'
  BY DEF Watching, Unwatched
<1> QED
  BY <1>1, <1>2, <1>5, <1>6 DEF Reason

(* ... and of the others.                                                  *)
LEMMA OthersReason ==
    ASSUME StreamsInv, NEW w \in Watchers, NEW v \in Watchers, v # w,
           \/ \E d \in Devices : CheckHandle(w, d) \/ WatchFirst(w, d)
           \/ Starting(w) \/ Stream(w) \/ Waiting(w) \/ Drop(w)
    PROVE  Reason(v)'
<1>1. task'[v] = task[v] /\ of'[v] = of[v] /\ heard'[v] = heard[v]
  BY DEF CheckHandle, WatchFirst, Starting, Subscribe, WatchDisconnect, Stream, Enable,
         PollValues, PollDisconnects, Waiting, AskToClose, LookIfConnected, WaitEnds,
         Drop, Advance, StreamsInv, TypeOKL
<1>2. cut'[v] = cut[v] /\ halfTold'[v] = halfTold[v] /\ (v \in subs => v \in subs')
  BY DEF CheckHandle, WatchFirst, Starting, Subscribe, WatchDisconnect, Begin, Stream,
         Enable, PollValues, PollDisconnects, Waiting, AskToClose, LookIfConnected,
         WaitEnds, Drop, StreamsInv, TypeOKL, past
<1>3. /\ listening'[v] = listening[v] /\ signals'[v] = signals[v] /\ due'[v] = due[v]
      /\ telling' = telling
  <2>1. CASE UNCHANGED vars
    BY <2>1 DEF vars, streams
  <2>2. CASE (\E d \in Devices : Watch(w, d)) \/ Unwatch(w)
    BY <2>2 DEF Watch, Unwatch, StreamsInv, TypeOKL, TypeOK
  <2>3. ASSUME WatchDisconnect(w) PROVE of[w] \in Devices /\ Watch(w, of[w])
    BY <2>3 DEF WatchDisconnect, Begin, Advance, StreamsInv, ReasonInv, Reason
  <2> QED
    BY <2>1, <2>2, <2>3 DEF CheckHandle, WatchFirst, Starting, Subscribe, Begin, Stream,
       Enable, PollValues, PollDisconnects, Waiting, AskToClose, LookIfConnected,
       WaitEnds, Drop
<1> QED
  BY <1>1, <1>2, <1>3 DEF StreamsInv, ReasonInv, Reason, Watching, Unwatched, Fed

LEMMA StartReason ==
    ASSUME StreamsInv, NEW w \in Watchers,
           (\E d \in Devices : CheckHandle(w, d) \/ WatchFirst(w, d)) \/ Starting(w)
    PROVE  Reason(w)'
<1>1. Reason(w) /\ task \in [Watchers -> Tasks]
  BY DEF StreamsInv, ReasonInv, TypeOKL
<1>2. ASSUME NEW d \in Devices, CheckHandle(w, d) PROVE Reason(w)'
  <2>1. /\ task[w] = "none" /\ task'[w] = "checked" /\ of'[w] = d
        /\ UNCHANGED <<listening, signals, telling, due, heard, halfTold>>
    BY <1>2 DEF CheckHandle, Advance, StreamsInv, TypeOKL, vars, streams
  <2> QED
    BY <1>1, <2>1 DEF Reason, Watching, Unwatched, Fed
<1>3. ASSUME NEW d \in Devices, WatchFirst(w, d) PROVE Reason(w)'
  <2>1. task[w] = "none" /\ task'[w] = "watching" /\ of'[w] = d
    BY <1>3 DEF WatchFirst, Advance, StreamsInv, TypeOKL
  <2>2. Begin(w, d) /\ UNCHANGED <<heard, cut, telling, subs>>
    BY <1>3 DEF WatchFirst, Begin, Watch
  <2> QED
    BY <2>1, <2>2, BeginReason DEF Watching, Unwatched, Fed
<1>4. CASE Subscribe(w)
  <2>1. /\ task[w] = "checked" /\ task'[w] = "subscribed"
        /\ UNCHANGED <<listening, signals, telling, due, heard, halfTold, of>>
    BY <1>4 DEF Subscribe, Advance, StreamsInv, TypeOKL, vars, streams
  <2>2. w \in subs' \/ cut'[w]
    BY <1>4 DEF Subscribe, StreamsInv, TypeOKL
  <2> QED
    BY <1>1, <2>1, <2>2 DEF Reason, Watching, Unwatched
<1>5. CASE WatchDisconnect(w)
  <2>1. task[w] = "subscribed" /\ task'[w] = "enabling" /\ of' = of
    BY <1>5 DEF WatchDisconnect, Advance, StreamsInv, TypeOKL
  <2>2. of[w] \in Devices
    BY <1>1, <2>1 DEF Reason
  <2>3. Begin(w, of[w]) /\ UNCHANGED <<heard, cut, telling, subs>>
    BY <1>5 DEF WatchDisconnect, Begin, Watch
  <2> QED
    BY <2>1, <2>2, <2>3, BeginReason DEF Watching, Unwatched, Fed
<1> QED
  BY <1>2, <1>3, <1>4, <1>5 DEF Starting

LEMMA EndReason ==
    ASSUME StreamsInv, NEW w \in Watchers, PollDisconnects(w) \/ WaitEnds(w)
    PROVE  Reason(w)'
<1>1. /\ UNCHANGED <<listening, signals, telling, due, of, cut, halfTold, subs>>
      /\ \/ task[w] = "between" /\ task'[w] = "ended" /\ Over(w)
         \/ task[w] = "between" /\ task'[w] = "parked"
         \/ task[w] = "waiting" /\ task'[w] = "waited" /\ Over(w)
  BY DEF PollDisconnects, WaitEnds, Advance, StreamsInv, TypeOKL, vars, streams, past
<1>2. Reason(w)
  BY DEF StreamsInv, ReasonInv
<1>3. Over(w) => due[w] > 0 \/ cut[w] \/ halfTold[w]
  <2> SUFFICES ASSUME Over(w), ~cut[w], ~halfTold[w]
               PROVE  due[w] > 0
    OBVIOUS
  <2>1. PICK d \in Devices : listening[w] = d
    BY <1>1, <1>2 DEF Reason, Watching
  <2>2. signals[w] + telling[d] <= due[w]
    BY <1>2, <2>1 DEF Reason
  <2>3. heard[w] < signals[w]
    BY <2>1, RegistryAssumption DEF Over, Signalled
  <2>4. /\ heard[w] \in Nat /\ signals[w] \in Nat /\ telling[d] \in Nat
        /\ due[w] \in Nat
    BY DEF StreamsInv, TypeOKL, TypeOK
  <2> QED
    BY <2>2, <2>3, <2>4
<1> QED
  BY <1>1, <1>2, <1>3 DEF Reason, Watching, Unwatched, Fed

LEMMA StreamReason ==
    ASSUME StreamsInv, NEW w \in Watchers, Stream(w) \/ Waiting(w) \/ Drop(w)
    PROVE  Reason(w)'
<1>1. Reason(w) /\ task \in [Watchers -> Tasks]
  BY DEF StreamsInv, ReasonInv, TypeOKL
<1>2. UNCHANGED <<of, subs, cut, halfTold, telling, due, signals>>
  BY DEF Stream, Enable, PollValues, PollDisconnects, Waiting, AskToClose, LookIfConnected,
     WaitEnds, Drop, Unwatch, vars, streams, past
<1>3. CASE PollDisconnects(w) \/ WaitEnds(w)
  BY <1>3, EndReason
<1>4. CASE PollValues(w) /\ queue[w] = <<>> /\ w \notin subs
  <2>1. task[w] \in {"reading", "parked"} /\ task'[w] = "ended" /\ listening' = listening
    BY <1>1, <1>4 DEF PollValues, Polled, vars, streams
  <2>2. cut[w]
    BY <1>1, <1>4, <2>1 DEF Reason, Fed
  <2> QED
    BY <1>1, <1>2, <2>1, <2>2 DEF Reason, Watching, Unwatched, Fed
<1>5. CASE \/ Enable(w) \/ AskToClose(w) \/ LookIfConnected(w)
           \/ PollValues(w) /\ (queue[w] # <<>> \/ w \in subs)
  <2>1. /\ UNCHANGED vars /\ Watching(w) /\ ~Unwatched(w)'
        /\ task'[w] \notin {"ended", "waited"} /\ (Fed(w)' => Fed(w))
    BY <1>1, <1>5 DEF Enable, PollValues, Polled, AskToClose, LookIfConnected, Advance,
       Watching, Unwatched, Fed
  <2>2. task[w] \notin {"none", "dropped"} /\ (w \in subs' \/ (w \in subs => ~Fed(w)))
    BY <1>2, <2>1 DEF Watching
  <2> QED
    BY <1>1, <1>2, <2>1, <2>2, SameReason
<1>6. CASE Drop(w)
  <2>1. task'[w] = "dropped" /\ (listening'[w] = listening[w] \/ listening'[w] = NoDevice)
    BY <1>1, <1>6 DEF Drop, Unwatch, vars, streams, StreamsInv, TypeOKL, TypeOK
  <2> QED
    BY <1>1, <1>2, <2>1, RegistryAssumption DEF Reason, Watching, Unwatched, Fed
<1> QED
  BY <1>3, <1>4, <1>5, <1>6 DEF Stream, Waiting

LEMMA CallbackReason ==
    ASSUME StreamsInv, TypeOK', NEW d \in Devices, Callback(d), NEW w \in Watchers
    PROVE  Reason(w)'
<1>1. Reason(w) /\ UNCHANGED <<task, heard, of, halfTold, subs>>
  BY DEF StreamsInv, ReasonInv, Callback, Connects, Disconnects, Forget, Forgotten, Grant,
     streaming, past
<1>2. signals[w] \in Nat /\ due[w] \in Nat /\ \A e \in Devices : telling[e] \in Nat
  BY DEF StreamsInv, TypeOKL, TypeOK
<1>3. CASE Disconnects(d)
  <2>1. /\ UNCHANGED <<listening, signals, cut>>
        /\ due'[w] = IF listening[w] = d THEN due[w] + 1 ELSE due[w]
        /\ \A e \in Devices : telling'[e] = IF e = d THEN telling[e] + 1 ELSE telling[e]
    BY <1>3 DEF Disconnects, MarkDisconnected, past, StreamsInv, TypeOKL, TypeOK
  <2> QED
    BY <1>1, <1>2, <2>1 DEF Reason, Watching, Unwatched, Fed
<1>4. CASE TellDisconnected(d) /\ UNCHANGED <<streaming, past>>
  <2>1. /\ UNCHANGED <<listening, due, cut>> /\ telling[d] > 0
        /\ signals'[w] = IF listening[w] = d THEN signals[w] + 1 ELSE signals[w]
        /\ \A e \in Devices : telling'[e] = IF e = d THEN telling[e] - 1 ELSE telling[e]
    BY <1>4 DEF TellDisconnected, Told, past, StreamsInv, TypeOKL, TypeOK
  <2> QED
    BY <1>1, <1>2, <2>1 DEF Reason, Watching, Unwatched, Fed
<1>5. CASE Forget(d)
  <2>1. /\ UNCHANGED <<signals, due, telling>>
        /\ cut'[w] = (cut[w] \/ listening[w] = d)
        /\ listening'[w] = IF listening[w] = d THEN NoDevice ELSE listening[w]
    BY <1>5 DEF Forget, RemoveListeners, StreamsInv, TypeOKL, TypeOK
  <2> QED
    BY <1>1, <1>2, <2>1, RegistryAssumption DEF Reason, Watching, Unwatched, Fed
<1>6. CASE UNCHANGED <<listening, signals, telling, due, cut>>
  BY <1>1, <1>6 DEF Reason, Watching, Unwatched, Fed
<1> QED
  BY <1>3, <1>4, <1>5, <1>6
     DEF Callback, Connects, LinkUp, Forgotten, RemoveRecord, Grant, Insert,
         MarkServicesChanged, streams, past

LEMMA InitStreamsInv == InitL => StreamsInv
  BY InitTypeOKL, InitReason DEF StreamsInv

LEMMA NextStreamsInv == StreamsInv /\ [NextL]_varsL => StreamsInv'
<1> SUFFICES ASSUME StreamsInv, [NextL]_varsL PROVE StreamsInv'
  OBVIOUS
<1>1. TypeOK'
  BY StepIsRegistrys, NextTypeOK DEF StreamsInv, TypeOKL
<1>2. CASE UNCHANGED varsL
  <2>1. UNCHANGED <<vars, streaming, past>>
    BY <1>2 DEF varsL
  <2>2. TypeOKL'
    BY <1>1, <2>1 DEF StreamsInv, TypeOKL, vars, streams, streaming, past
  <2>3. ReasonInv'
    BY <2>1 DEF StreamsInv, ReasonInv, Reason, Watching, Unwatched, Fed, vars, streams,
                streaming, past
  <2> QED
    BY <2>2, <2>3 DEF StreamsInv
<1>3. ASSUME NEW w \in Watchers,
             \/ \E d \in Devices : CheckHandle(w, d) \/ WatchFirst(w, d)
             \/ Starting(w)
      PROVE  StreamsInv'
  <2>1. heard[w] = 0 /\ (task[w] # "none" => of[w] \in Devices)
    BY <1>3 DEF CheckHandle, WatchFirst, Starting, Subscribe, WatchDisconnect, Advance,
                StreamsInv, ReasonInv, Reason, Unwatched
  <2>2. Starting(w) => task[w] # "none"
    BY DEF Starting, Subscribe, WatchDisconnect, Advance
  <2>3. TypeOKL'
    BY <1>1, <1>3, <2>1, <2>2, BeginTypeOKL, StartTypeOKL DEF StreamsInv
  <2>4. \A v \in Watchers : Reason(v)'
    BY <1>3, StartReason, OthersReason
  <2> QED
    BY <2>3, <2>4 DEF StreamsInv, ReasonInv
<1>4. ASSUME NEW w \in Watchers, Stream(w) \/ Waiting(w) \/ Drop(w)
      PROVE  StreamsInv'
  <2>1. task[w] \notin {"none", "dropped"}
    BY <1>4 DEF Stream, Enable, PollValues, Polled, PollDisconnects, Waiting, AskToClose,
                LookIfConnected, WaitEnds, Drop, Advance
  <2>2. of[w] \in Devices
    BY <2>1 DEF StreamsInv, ReasonInv, Reason
  <2>3. TypeOKL'
    BY <1>1, <1>4, <2>2, StreamTypeOKL DEF StreamsInv
  <2>4. \A v \in Watchers : Reason(v)'
    BY <1>4, StreamReason, OthersReason
  <2> QED
    BY <2>3, <2>4 DEF StreamsInv, ReasonInv
<1>5. ASSUME NEW d \in Devices, Notify(d) \/ StopNotifications(d)
      PROVE  StreamsInv'
  <2>1. UNCHANGED <<vars, task, of, heard, halfTold, cut>>
    BY <1>5 DEF Notify, StopNotifications, past
  <2>2. \A w \in subs : Fed(w) => w \in subs'
    BY <1>5 DEF Notify, StopNotifications, Alive, Fed
  <2>3. ReasonInv'
    BY <2>1, <2>2, SameReason DEF StreamsInv, ReasonInv
  <2> QED
    BY <1>1, <1>5, <2>3, NotifyTypeOKL DEF StreamsInv
<1>6. ASSUME NEW d \in Devices, Callback(d)
      PROVE  StreamsInv'
  BY <1>1, <1>6, CallbackTypeOKL, CallbackReason DEF StreamsInv, ReasonInv
<1> QED
  BY <1>2, <1>3, <1>4, <1>5, <1>6 DEF NextL

LEMMA StreamsInvariance == SpecL => []StreamsInv
  BY InitStreamsInv, NextStreamsInv, PTL DEF SpecL

-----------------------------------------------------------------------------
(* The types of the streams' state, signals never counted twice among them. *)
THEOREM StreamsTypeCorrect == SpecL => []TypeOKL
<1>1. StreamsInv => TypeOKL
  BY DEF StreamsInv
<1> QED
  BY <1>1, StreamsInvariance, PTL

(* Streams and waits use the registry by its operations alone: what is     *)
(* proved of it holds under them (start_notifications, disconnect_and_wait). *)
THEOREM StreamsUseRegistry == SpecL => Spec
<1>1. InitL => Init
  BY DEF InitL
<1>2. StreamsInv /\ [NextL]_varsL => [Next]_vars
  BY StepIsRegistrys DEF StreamsInv, TypeOKL
<1> QED
  BY <1>1, <1>2, StreamsInvariance, PTL DEF SpecL, Spec

(* A stream or a wait is told of every disconnection since it began.       *)
THEOREM StreamsMissNone == SpecL => []NoDisconnectMissed
  BY StreamsUseRegistry, NoneMissed, PTL

(* Under every history of links, grants and forgettings a grant widens ... *)
THEOREM StreamsGrantsWiden == SpecL => GrantOnlyWidens
  BY StreamsUseRegistry, GrantsWiden, PTL

(* ... and a generation moves exactly with what makes handles stale.       *)
THEOREM StreamsGenerationsCount == SpecL => GenerationCounts
  BY StreamsUseRegistry, GenerationsCount, PTL

(* No notification stream ends for nothing, and no wait that found the link*)
(* up returns for nothing: the link was marked down, the device forgotten, *)
(* or an older report was half-way (poll_until_disconnect,                 *)
(* disconnect_and_wait).                                                   *)
THEOREM EndsHonestly == SpecL => []EndsForAReason
<1>1. StreamsInv => EndsForAReason
  BY DEF StreamsInv, ReasonInv, Reason, EndsForAReason
<1> QED
  BY <1>1, StreamsInvariance, PTL

-----------------------------------------------------------------------------
(* Between the two polls of a stream nothing is queued to it, if callbacks *)
(* and tasks share a thread.                                               *)
NothingBetween ==
    oneThread => \A w \in Watchers : task[w] = "between" => queue[w] = <<>>

BetweenInv == StreamsInv /\ NothingBetween

(* Only its own poll takes a stream between its two polls, and there its   *)
(* queue is empty; a value that would fill it waits until it is through.   *)
LEMMA NextBetween ==
    ASSUME BetweenInv, NextL
    PROVE  NothingBetween'
<1> SUFFICES ASSUME oneThread, NEW w \in Watchers, task'[w] = "between"
             PROVE  queue'[w] = <<>>
  <2>1. oneThread' = oneThread
    BY DEF NextL, CheckHandle, WatchFirst, Starting, Subscribe, WatchDisconnect, Stream,
           Enable, PollValues, PollDisconnects, Drop, Waiting, AskToClose,
           LookIfConnected, WaitEnds, Notify, StopNotifications, Callback, Connects,
           Disconnects, Forget, Forgotten, Grant, past
  <2> QED
    BY <2>1 DEF NothingBetween
<1>1. /\ task[w] = "between" => queue[w] = <<>>
      /\ task \in [Watchers -> Tasks]
      /\ queue \in [Watchers -> Seq(ValueOf)]
  BY DEF BetweenInv, NothingBetween, StreamsInv, TypeOKL
<1>2. CASE \E v \in Watchers : PollValues(v)
  <2>1. PICK v \in Watchers : PollValues(v)
    BY <1>2
  <2>2. CASE v = w
    BY <1>1, <2>1, <2>2 DEF PollValues
  <2>3. CASE v # w
    BY <1>1, <2>1, <2>3 DEF PollValues
  <2> QED
    BY <2>2, <2>3
<1>3. CASE \E v \in Watchers : Drop(v)
  BY <1>1, <1>3 DEF Drop
<1>4. CASE \E d \in Devices : Notify(d)
  BY <1>4 DEF Notify, NobodyBetween, Midway
<1>5. CASE \/ \E v \in Watchers : \/ Enable(v) \/ PollDisconnects(v)
                                  \/ Waiting(v) \/ Starting(v)
           \/ \E v \in Watchers, d \in Devices : CheckHandle(v, d) \/ WatchFirst(v, d)
  <2>1. queue' = queue
    BY <1>5 DEF Enable, PollDisconnects, Waiting, AskToClose, LookIfConnected, WaitEnds,
           Starting, Subscribe, WatchDisconnect, CheckHandle, WatchFirst
  <2>2. task[w] = "between"
    BY <1>1, <1>5 DEF Enable, PollDisconnects, Waiting, AskToClose, LookIfConnected,
           WaitEnds, Starting, Subscribe, WatchDisconnect, CheckHandle, WatchFirst, Advance
  <2> QED
    BY <1>1, <2>1, <2>2
<1>6. CASE \E d \in Devices : StopNotifications(d) \/ Callback(d)
  <2>1. UNCHANGED <<task, queue>>
    BY <1>6 DEF StopNotifications, Callback, Connects, Disconnects, Forget, Forgotten,
           Grant, streaming
  <2> QED
    BY <1>1, <2>1
<1> QED
  BY <1>2, <1>3, <1>4, <1>5, <1>6 DEF NextL, Stream

(* A stream ends in the second of its two polls, or with nothing queued.   *)
LEMMA EndsBetween ==
    ASSUME StreamsInv, NextL, NEW w \in Watchers, task[w] # "ended", task'[w] = "ended"
    PROVE  task[w] = "between" \/ queue[w] = <<>>
<1>1. task \in [Watchers -> Tasks]
  BY DEF StreamsInv, TypeOKL
<1>2. CASE \E v \in Watchers : Starting(v) \/ Stream(v) \/ Drop(v) \/ Waiting(v)
  BY <1>1, <1>2 DEF Starting, Subscribe, WatchDisconnect, Stream, Enable, PollValues,
     PollDisconnects, Drop, Waiting, AskToClose, LookIfConnected, WaitEnds, Advance
<1>3. CASE \E v \in Watchers, d \in Devices : CheckHandle(v, d) \/ WatchFirst(v, d)
  BY <1>1, <1>3 DEF CheckHandle, WatchFirst, Advance
<1>4. CASE \E d \in Devices : Notify(d) \/ StopNotifications(d) \/ Callback(d)
  BY <1>4 DEF Notify, StopNotifications, Callback, Connects, Disconnects, Forget,
     Forgotten, Grant, streaming
<1> QED
  BY <1>2, <1>3, <1>4 DEF NextL

(* Where callbacks and tasks share a thread, a stream that ends has        *)
(* delivered everything of its link (poll_until_disconnect, gatt.rs:1111). *)
THEOREM DeliveredBeforeEnd == SpecL => DeliveredOnOneThread
<1>1. InitL => BetweenInv
  <2> SUFFICES ASSUME InitL PROVE NothingBetween
    BY InitStreamsInv DEF BetweenInv
  <2> QED
    BY DEF InitL, NothingBetween
<1>2. BetweenInv /\ [NextL]_varsL => BetweenInv'
  <2> SUFFICES ASSUME BetweenInv, [NextL]_varsL PROVE NothingBetween'
    BY NextStreamsInv DEF BetweenInv
  <2>1. CASE UNCHANGED varsL
    BY <2>1 DEF BetweenInv, NothingBetween, varsL, streaming, past
  <2> QED
    BY <2>1, NextBetween
<1>3. BetweenInv /\ [NextL]_varsL =>
        [oneThread => \A w \in Watchers : AllRead(w)]_varsL
  <2> SUFFICES ASSUME BetweenInv, NextL, oneThread, NEW w \in Watchers,
                      task[w] # "ended", task'[w] = "ended"
               PROVE  \A i \in DOMAIN queue[w] : queue[w][i].link # since[w]
    BY DEF AllRead
  <2>1. queue[w] = <<>>
    BY EndsBetween DEF BetweenInv, NothingBetween
  <2> QED
    BY <2>1
<1> QED
  BY <1>1, <1>2, <1>3, PTL DEF SpecL, DeliveredOnOneThread
=============================================================================
