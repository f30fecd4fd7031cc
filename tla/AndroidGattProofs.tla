-------------------------- MODULE AndroidGattProofs --------------------------
(***************************************************************************)
(* Safety of AndroidGatt for any callers, clients and requests: as long as *)
(* the lock was held until the answer, an answer reaches the request it is *)
(* the answer to, and no operation meets another that had the lock. Both   *)
(* say that a read of the recorded client which is not answered yet is the *)
(* one the holder of the lock waits for. And nobody waits for what will    *)
(* not be said.                                                            *)
(***************************************************************************)
EXTENDS AndroidGatt, TLAPS, SequenceTheorems

\* The lock's holder waits for n, asked of g.
IsHolder(g, n) ==
    /\ lock \in Callers /\ pc[lock] = "waiting" /\ kind[lock] = "read"
    /\ own[lock] = g /\ mine[lock] = n /\ reply[lock] = NoReply

\* No read of g is under way, nor an answer to one on its way.
NoReads(g) ==
    /\ \A op \in inflight[g] : op.kind # "read"
    /\ \A i \in 1 .. Len(calls[g]) : calls[g][i].kind # "read"

\* A step after which the reads of g are some of those there were, and its
\* callbacks are where they were, or one place nearer.
NoNewReads(g) ==
    /\ \A op \in inflight'[g] : op.kind = "read" => op \in inflight[g]
    /\ \E d \in {0, 1} : \A i \in 1 .. Len(calls'[g]) :
          calls'[g][i].kind = "read" =>
              i + d \in 1 .. Len(calls[g]) /\ calls'[g][i] = calls[g][i + d]

(* Whoever has the lock reads, and nobody else does while it was kept. *)
LockInv ==
    \A c \in Callers :
        /\ ~abandoned /\ kind[c] = "read" => lock = c
        /\ lock = c => kind[c] = "read" /\ pc[c] = "waiting"
        /\ pc[c] = "idle" => reply[c] = NoReply

(* A client not yet recorded is one caller's, and nobody has read from it. *)
FreshInv ==
    /\ \A g \in Clients : g > clients => state[g] = "none" /\ NoReads(g)
    /\ \A c \in Callers : pc[c] = "dialled" =>
        /\ own[c] \in 1 .. clients /\ own[c] # gatt /\ NoReads(own[c])
        /\ \A d \in Callers : pc[d] = "dialled" /\ own[d] = own[c] => c = d

(* The end of a link is the last that is heard of it. *)
OrderInv ==
    \A g \in Clients :
        /\ state[g] # "up" => inflight[g] = {}
        /\ \A i \in 1 .. Len(calls[g]) : calls[g][i].kind \in {"down", "clear", "mark"} =>
            /\ state[g] \in {"down", "closed"}
            /\ \A j \in 1 .. Len(calls[g]) : i < j => calls[g][j].kind # "read"

(* A read of the recorded client, or the answer to one, is the holder's,   *)
(* and there is one of them.                                               *)
OwnedInv ==
    ~abandoned /\ gatt # 0 =>
        /\ \A op \in inflight[gatt] : op.kind = "read" => IsHolder(gatt, op.n)
        /\ \A i \in 1 .. Len(calls[gatt]) : calls[gatt][i].kind = "read" =>
            /\ IsHolder(gatt, calls[gatt][i].n)
            /\ \A op \in inflight[gatt] : op.kind # "read"
            /\ \A j \in 1 .. Len(calls[gatt]) : calls[gatt][j].kind = "read" => i = j

IInv == TypeOK /\ LockInv /\ FreshInv /\ OrderInv /\ OwnedInv /\ AnswerIsMine

-----------------------------------------------------------------------------
(* What becomes of the callbacks of a client: the first is made, another   *)
(* takes its place, or one more is to come.                                *)

LEMMA Heads ==
    ASSUME TypeOK, NEW g \in Clients, calls[g] # <<>>
    PROVE  /\ Len(calls[g]) \in Nat \ {0} /\ Head(calls[g]) = calls[g][1]
           /\ Head(calls[g]) \in Callback /\ Tail(calls[g]) \in Seq(Callback)
           /\ Len(Tail(calls[g])) = Len(calls[g]) - 1
           /\ \A i \in 1 .. Len(calls[g]) - 1 : Tail(calls[g])[i] = calls[g][i + 1]
<1>1. calls[g] \in Seq(Callback)
  BY DEF TypeOK
<1>2. Len(calls[g]) \in Nat \ {0}
  BY <1>1, EmptySeq
<1> QED
  BY <1>1, <1>2, HeadTailProperties

LEMMA DoneCalls ==
    ASSUME TypeOK, NEW g \in Clients, calls[g] # <<>>, Done(g)
    PROVE  /\ calls' \in [Clients -> Seq(Callback)]
           /\ \A h \in Clients \ {g} : calls'[h] = calls[h]
           /\ Len(calls[g]) \in Nat \ {0} /\ Len(calls'[g]) = Len(calls[g]) - 1
           /\ \A i \in 1 .. Len(calls[g]) - 1 : calls'[g][i] = calls[g][i + 1]
<1>1. calls' = [calls EXCEPT ![g] = Tail(calls[g])] /\ calls \in [Clients -> Seq(Callback)]
  BY DEF Done, TypeOK
<1>2. calls'[g] = Tail(calls[g]) /\ calls' \in [Clients -> Seq(Callback)]
  BY <1>1, Heads
<1> QED
  BY <1>1, <1>2, Heads

LEMMA DueCalls ==
    ASSUME TypeOK, NEW g \in Clients, NEW k, NEW n,
           [kind |-> k, n |-> n] \in Callback, Due(g, k, n)
    PROVE  /\ calls' \in [Clients -> Seq(Callback)]
           /\ \A h \in Clients \ {g} : calls'[h] = calls[h]
           /\ Len(calls[g]) \in Nat /\ Len(calls'[g]) = Len(calls[g]) + 1
           /\ \A i \in 1 .. Len(calls[g]) : calls'[g][i] = calls[g][i]
           /\ calls'[g][Len(calls[g]) + 1] = [kind |-> k, n |-> n]
<1> DEFINE m == [kind |-> k, n |-> n]
<1>1. calls' = [calls EXCEPT ![g] = Append(calls[g], m)] /\ calls \in [Clients -> Seq(Callback)]
  BY DEF Due, TypeOK
<1>2. calls[g] \in Seq(Callback) /\ m \in Callback
  BY <1>1
<1> HIDE DEF m
<1>3. /\ Append(calls[g], m) \in Seq(Callback) /\ Len(calls[g]) \in Nat
      /\ Len(Append(calls[g], m)) = Len(calls[g]) + 1
      /\ \A i \in 1 .. Len(calls[g]) : Append(calls[g], m)[i] = calls[g][i]
      /\ Append(calls[g], m)[Len(calls[g]) + 1] = m
  BY <1>2, AppendProperties
<1>4. calls'[g] = Append(calls[g], m) /\ calls' \in [Clients -> Seq(Callback)]
  BY <1>1, <1>3
<1> QED
  BY <1>1, <1>3, <1>4 DEF m

LEMMA ThenCalls ==
    ASSUME TypeOK, NEW g \in Clients, calls[g] # <<>>, NEW k \in {"clear", "mark"},
           Then(g, k)
    PROVE  /\ calls' \in [Clients -> Seq(Callback)]
           /\ \A h \in Clients \ {g} : calls'[h] = calls[h]
           /\ Len(calls[g]) \in Nat \ {0} /\ Len(calls'[g]) = Len(calls[g])
           /\ calls'[g][1] = [kind |-> k, n |-> 0]
           /\ \A i \in 2 .. Len(calls[g]) : calls'[g][i] = calls[g][i]
<1> DEFINE m == [kind |-> k, n |-> 0]
<1>1. calls' = [calls EXCEPT ![g] = <<m>> \o Tail(calls[g])]
      /\ calls \in [Clients -> Seq(Callback)]
  BY DEF Then, TypeOK
<1>2. m \in Callback
  BY AndroidAssumption DEF Callback
<1> HIDE DEF m
<1>3. <<m>> \in Seq(Callback) /\ Len(<<m>>) = 1 /\ <<m>>[1] = m
  BY <1>2
<1>4. /\ <<m>> \o Tail(calls[g]) \in Seq(Callback)
      /\ Len(<<m>> \o Tail(calls[g])) = Len(calls[g])
      /\ (<<m>> \o Tail(calls[g]))[1] = m
      /\ \A i \in 2 .. Len(calls[g]) : (<<m>> \o Tail(calls[g]))[i] = Tail(calls[g])[i - 1]
  BY <1>3, Heads, ConcatProperties
<1>5. \A i \in 2 .. Len(calls[g]) : Tail(calls[g])[i - 1] = calls[g][i]
  <2> TAKE i \in 2 .. Len(calls[g])
  <2>1. i - 1 \in 1 .. Len(calls[g]) - 1 /\ (i - 1) + 1 = i
    BY Heads
  <2> QED
    BY <2>1, Heads
<1>6. calls'[g] = <<m>> \o Tail(calls[g]) /\ calls' \in [Clients -> Seq(Callback)]
  BY <1>1, <1>4
<1> QED
  BY <1>1, <1>4, <1>5, <1>6, Heads DEF m

-----------------------------------------------------------------------------
(* Types. *)

LEMMA Replies ==
    /\ NoReply \in Reply /\ Failure \in Reply /\ AnswerTo(0) \in Reply
    /\ \A n \in 0 .. MaxRequests : AnswerTo(n) \in Reply
  BY AndroidAssumption DEF NoReply, Failure, AnswerTo, Reply

LEMMA OverTypes ==
    ASSUME TypeOK, NEW c \in Callers, Over(c)
    PROVE  /\ lock' \in Callers \cup {NoOne} /\ kind' \in [Callers -> Kinds]
           /\ mine' \in [Callers -> 0 .. MaxRequests]
           /\ own' \in [Callers -> 0 .. clients] /\ reply' \in [Callers -> Reply]
  BY Replies, AndroidAssumption DEF TypeOK, Over, Kinds

LEMMA FreeNumber ==
    ASSUME Free # {}
    PROVE  (CHOOSE m \in Free : TRUE) \in Requests
  BY DEF Free

LEMMA TakesTypes ==
    ASSUME TypeOK, NEW g \in Clients, NEW k \in {"services", "read"},
           NEW n \in 0 .. MaxRequests, Takes(g, k, n)
    PROVE  inflight' \in [Clients -> SUBSET Operation]
  BY DEF Takes, TypeOK, Operation, Kinds

LEMMA ResolveTypes ==
    ASSUME TypeOK, NEW ks, NEW what \in Reply, Resolve(ks, what)
    PROVE  reply' \in [Callers -> Reply]
  BY DEF TypeOK, Resolve

LEMMA CallTypes ==
    ASSUME TypeOK, NEW c \in Callers,
           ConnectGatt(c) \/ Call(c) \/ CallerStep(c) \/ GiveUp(c)
    PROVE  TypeOK'
<1>1. CASE ConnectGatt(c)
  <2>1. clients + 1 \in Clients /\ clients' = clients + 1 /\ clients' \in 0 .. MaxClients
    BY <1>1, AndroidAssumption DEF ConnectGatt, TypeOK, Clients
  <2>2. own' \in [Callers -> 0 .. clients'] /\ gatt \in 0 .. clients'
    BY <1>1, <2>1 DEF ConnectGatt, TypeOK
  <2> QED
    BY <1>1, <2>1, <2>2 DEF ConnectGatt, Goto, TypeOK, record, history
<1>2. CASE Call(c)
  <2>1. gatt \in Clients
    BY <1>2, AndroidAssumption DEF Call, TypeOK, Clients
  <2>2. PICK n \in Requests : Takes(gatt, "read", n) /\ mine' = [mine EXCEPT ![c] = n]
    BY <1>2, FreeNumber DEF Call
  <2>3. n \in 0 .. MaxRequests
    BY AndroidAssumption DEF Requests
  <2>4. inflight' \in [Clients -> SUBSET Operation] /\ mine' \in [Callers -> 0 .. MaxRequests]
    BY <2>1, <2>2, <2>3, TakesTypes DEF Kinds, TypeOK
  <2> QED
    BY <1>2, <2>1, <2>4 DEF Call, Goto, TypeOK, record, history, Kinds
<1>3. CASE Record(c)
  BY <1>3 DEF Record, Goto, TypeOK, request, android, history
<1>4. CASE Discover(c)
  <2>1. gatt \in Clients
    BY <1>4, AndroidAssumption DEF Discover, TypeOK, Clients
  <2>2. inflight' \in [Clients -> SUBSET Operation]
    <3>1. "services" \in Kinds \ {"connect"} /\ 0 \in 0 .. MaxRequests
      BY AndroidAssumption DEF Kinds
    <3>2. CASE Takes(gatt, "services", 0)
      BY <2>1, <3>1, <3>2, TakesTypes DEF TypeOK
    <3>3. CASE UNCHANGED inflight
      BY <3>3 DEF TypeOK
    <3> QED
      BY <1>4, <3>2, <3>3 DEF Discover
  <2>3. unheard' \in BOOLEAN
    BY <1>4, <2>1 DEF Discover, TypeOK
  <2> QED
    BY <1>4, <2>1, <2>2, <2>3, Replies DEF Discover, Goto, TypeOK, record, Kinds
<1>5. CASE NoClient(c)
  BY <1>5, OverTypes DEF NoClient, Goto, TypeOK, record, android, history
<1>6. CASE Return(c)
  BY <1>6, OverTypes DEF Return, Goto, TypeOK, record, android, history
<1>7. CASE GiveUp(c)
  BY <1>7, OverTypes DEF GiveUp, Goto, TypeOK, record, android
<1> QED
  BY <1>1, <1>2, <1>3, <1>4, <1>5, <1>6, <1>7 DEF CallerStep

LEMMA GrantTypes ==
    ASSUME TypeOK, Grant PROVE TypeOK'
<1>1. /\ granted' = TRUE /\ connected' = FALSE /\ gatt' = 0
      /\ UNCHANGED <<pc, lock, kind, mine, own, reply, clients, state, inflight, calls,
                     unheard, abandoned>>
  BY DEF Grant, request, android, history
<1>2. gatt' \in 0 .. clients'
  BY <1>1, AndroidAssumption DEF TypeOK
<1> QED
  BY <1>1, <1>2 DEF TypeOK

LEMMA ForgetTypes ==
    ASSUME TypeOK, Forget PROVE TypeOK'
<1>1. /\ state' \in [Clients -> {"none", "dialling", "up", "down", "closed"}]
      /\ inflight' \in [Clients -> SUBSET Operation]
  BY DEF Forget, TypeOK
<1>2. unheard' \in BOOLEAN /\ abandoned' \in BOOLEAN /\ lock' \in Callers \cup {NoOne}
  BY DEF Forget, TypeOK
<1>3. /\ granted' = FALSE /\ connected' = FALSE /\ gatt' = 0
      /\ UNCHANGED <<pc, kind, mine, own, reply, clients, calls>>
  BY DEF Forget
<1>4. gatt' \in 0 .. clients'
  BY <1>3, AndroidAssumption DEF TypeOK
<1> QED
  BY <1>1, <1>2, <1>3, <1>4 DEF TypeOK

LEMMA AndroidTypes ==
    ASSUME TypeOK, NEW g \in Clients,
           Established(g) \/ Drop(g) \/ \E k \in Kinds : Complete(g, k)
    PROVE  TypeOK'
<1>1. CASE Established(g)
  <2>1. [kind |-> "up", n |-> 0] \in Callback
    BY AndroidAssumption DEF Callback
  <2>2. calls' \in [Clients -> Seq(Callback)]
    BY <1>1, <2>1, DueCalls DEF Established
  <2> QED
    BY <1>1, <2>2 DEF Established, TypeOK, record, request, history
<1>2. CASE Drop(g)
  <2>1. [kind |-> "down", n |-> 0] \in Callback
    BY AndroidAssumption DEF Callback
  <2>2. calls' \in [Clients -> Seq(Callback)]
    BY <1>2, <2>1, DueCalls DEF Drop
  <2> QED
    BY <1>2, <2>2 DEF Drop, TypeOK, record, request, history
<1>3. ASSUME NEW k \in Kinds, Complete(g, k) PROVE TypeOK'
  <2>1. PICK op \in inflight[g] : /\ inflight' = [inflight EXCEPT ![g] = @ \ {op}]
                                  /\ Due(g, op.kind, op.n)
    BY <1>3 DEF Complete
  <2>2. op \in Operation
    BY DEF TypeOK
  <2>3. [kind |-> op.kind, n |-> op.n] \in Callback
    BY <2>2 DEF Operation, Callback, Requests
  <2>4. calls' \in [Clients -> Seq(Callback)]
    BY <2>1, <2>3, DueCalls
  <2> QED
    BY <1>3, <2>1, <2>4 DEF Complete, TypeOK, record, request, history
<1> QED
  BY <1>1, <1>2, <1>3

LEMMA CallbackTypes ==
    ASSUME TypeOK, NEW g \in Clients, Callbacks(g)
    PROVE  TypeOK'
<1>1. calls[g] # <<>>
  BY DEF Callbacks, OnConnected, OnDisconnected, Clear, Mark, OnAnswer, Coming
<1>2. ASSUME Unheard(g) PROVE unheard' \in BOOLEAN
  BY <1>2 DEF Unheard, TypeOK
<1>3. CASE OnConnected(g)
  <2>1. calls' \in [Clients -> Seq(Callback)]
    BY <1>1, <1>3, DoneCalls DEF OnConnected
  <2>2. reply' \in [Callers -> Reply] /\ connected' \in BOOLEAN
    BY <1>3, ResolveTypes, Replies DEF OnConnected, TypeOK
  <2> QED
    BY <1>2, <1>3, <2>1, <2>2 DEF OnConnected, TypeOK
<1>4. ASSUME NEW k \in Kinds, OnAnswer(g, k) PROVE TypeOK'
  <2>1. calls' \in [Clients -> Seq(Callback)]
    BY <1>1, <1>4, DoneCalls DEF OnAnswer
  <2>2. AnswerTo(Head(calls[g]).n) \in Reply
    BY <1>1, Heads, Replies DEF Callback
  <2>3. reply' \in [Callers -> Reply]
    BY <1>4, <2>2, ResolveTypes DEF OnAnswer, TypeOK
  <2> QED
    BY <1>2, <1>4, <2>1, <2>3 DEF OnAnswer, TypeOK, record
<1>5. CASE OnDisconnected(g)
  <2>1. calls' \in [Clients -> Seq(Callback)]
    BY <1>1, <1>5, DoneCalls, ThenCalls DEF OnDisconnected
  <2>2. reply' \in [Callers -> Reply]
    BY <1>5, ResolveTypes, Replies DEF OnDisconnected, TypeOK
  <2> QED
    BY <1>2, <1>5, <2>1, <2>2 DEF OnDisconnected, TypeOK, record
<1>6. CASE Clear(g)
  <2>1. calls' \in [Clients -> Seq(Callback)]
    BY <1>1, <1>6, ThenCalls DEF Clear
  <2> QED
    BY <1>6, <2>1 DEF Clear, TypeOK, request, history
<1>7. CASE Mark(g)
  <2>1. calls' \in [Clients -> Seq(Callback)]
    BY <1>1, <1>7, DoneCalls DEF Mark
  <2> QED
    BY <1>7, <2>1 DEF Mark, TypeOK, request, history
<1> QED
  BY <1>3, <1>4, <1>5, <1>6, <1>7 DEF Callbacks

-----------------------------------------------------------------------------
(* The lock.                                                               *)

LEMMA CallLock ==
    ASSUME TypeOK, LockInv, NEW c \in Callers,
           ConnectGatt(c) \/ Call(c) \/ CallerStep(c) \/ GiveUp(c)
    PROVE  LockInv'
<1>1. CASE ConnectGatt(c)
  BY <1>1 DEF ConnectGatt, Goto, TypeOK, LockInv, history
<1>2. CASE Call(c)
  BY <1>2, AndroidAssumption DEF Call, Goto, TypeOK, LockInv, LockFree, history
<1>3. CASE Record(c)
  BY <1>3 DEF Record, Goto, TypeOK, LockInv, request, history
<1>4. CASE Discover(c)
  BY <1>4 DEF Discover, Goto, TypeOK, LockInv
<1>5. CASE NoClient(c) \/ Return(c) \/ GiveUp(c)
  <2>1. Goto(c, "waiting", "idle") /\ Over(c) /\ (~abandoned' => ~abandoned)
    BY <1>5 DEF NoClient, Return, GiveUp, history
  <2> QED
    BY <2>1, AndroidAssumption DEF Goto, Over, TypeOK, LockInv
<1> QED
  BY <1>1, <1>2, <1>3, <1>4, <1>5 DEF CallerStep

(* Nobody's reply is set who does not wait, and nothing else changes.      *)
LEMMA CallbackLock ==
    ASSUME TypeOK, LockInv, NEW g \in Clients, Callbacks(g)
    PROVE  LockInv'
<1>1. UNCHANGED <<lock, kind, pc, abandoned>>
  BY DEF Callbacks, OnConnected, OnAnswer, OnDisconnected, Clear, Mark, request, record,
         history
<1>2. \A c \in Callers : pc[c] = "idle" => reply'[c] = reply[c]
  BY DEF Callbacks, OnConnected, OnAnswer, OnDisconnected, Clear, Mark, Resolve, request
<1> QED
  BY <1>1, <1>2 DEF LockInv

LEMMA RestLock ==
    ASSUME LockInv, Grant \/ \E g \in Clients :
               Established(g) \/ Drop(g) \/ \E k \in Kinds : Complete(g, k)
    PROVE  LockInv'
  BY DEF LockInv, Grant, Established, Drop, Complete, request, history

(* A record that goes takes its lock with it; whoever had it has none.     *)
LEMMA ForgetLock ==
    ASSUME LockInv, Forget
    PROVE  LockInv'
<1>1. \A c \in Callers : lock' # c
  BY AndroidAssumption DEF Forget
<1>2. ~abandoned' => ~abandoned /\ \A c \in Callers : lock # c
  BY AndroidAssumption DEF Forget
<1>3. UNCHANGED <<kind, pc, reply>>
  BY DEF Forget
<1> QED
  BY <1>1, <1>2, <1>3 DEF LockInv

-----------------------------------------------------------------------------
(* Reads. *)

LEMMA NoneNew ==
    ASSUME NEW g \in Clients, NoReads(g), NoNewReads(g)
    PROVE  NoReads(g)'
  BY DEF NoReads, NoNewReads

LEMMA SameReads ==
    ASSUME TypeOK, NEW g \in Clients, calls'[g] = calls[g],
           \A op \in inflight'[g] : op.kind = "read" => op \in inflight[g]
    PROVE  NoNewReads(g)
<1>1. Len(calls[g]) \in Nat
  BY LenProperties DEF TypeOK
<1>2. \A i \in 1 .. Len(calls'[g]) : i + 0 \in 1 .. Len(calls[g]) /\ calls'[g][i] = calls[g][i + 0]
  BY <1>1
<1> QED
  BY <1>2 DEF NoNewReads

(* What is asked of client h only adds to what h does.                     *)
LEMMA AskedReads ==
    ASSUME TypeOK, NEW h \in Clients, NEW k, NEW n, Takes(h, k, n), UNCHANGED calls
    PROVE  \A g \in Clients \ {h} : NoReads(g) => NoReads(g)'
<1>1. \A g \in Clients \ {h} : inflight'[g] = inflight[g]
  BY DEF Takes, TypeOK
<1> QED
  BY <1>1 DEF NoReads

(* A callback that is to come is about a read if an operation was.         *)
LEMMA DueReads ==
    ASSUME TypeOK, NEW g \in Clients, NEW k, NEW n, k # "read",
           [kind |-> k, n |-> n] \in Callback, Due(g, k, n),
           \A h \in Clients : inflight'[h] \subseteq inflight[h]
    PROVE  \A h \in Clients : NoNewReads(h)
<1>1. \A i \in 1 .. Len(calls'[g]) : calls'[g][i].kind = "read" =>
          i + 0 \in 1 .. Len(calls[g]) /\ calls'[g][i] = calls[g][i + 0]
  <2>1. /\ Len(calls[g]) \in Nat /\ Len(calls'[g]) = Len(calls[g]) + 1
        /\ \A i \in 1 .. Len(calls[g]) : calls'[g][i] = calls[g][i]
        /\ calls'[g][Len(calls[g]) + 1].kind = k
    BY DueCalls
  <2>2. \A i \in 1 .. Len(calls'[g]) : calls'[g][i].kind = "read" =>
            i \in 1 .. Len(calls[g]) /\ i + 0 = i
    BY <2>1
  <2> QED
    BY <2>1, <2>2
<1>2. NoNewReads(g)
  BY <1>1 DEF NoNewReads
<1>3. \A h \in Clients \ {g} : NoNewReads(h)
  BY DueCalls, SameReads
<1> QED
  BY <1>2, <1>3

(* One that is made, or gives way to another, makes up none.               *)
LEMMA MadeReads ==
    ASSUME TypeOK, NEW g \in Clients, calls[g] # <<>>, UNCHANGED inflight,
           Done(g) \/ Then(g, "clear") \/ Then(g, "mark")
    PROVE  \A h \in Clients : NoNewReads(h)
<1>1. CASE Done(g)
  <2>1. \A i \in 1 .. Len(calls'[g]) :
            i + 1 \in 1 .. Len(calls[g]) /\ calls'[g][i] = calls[g][i + 1]
    BY <1>1, DoneCalls
  <2>2. NoNewReads(g)
    BY <2>1 DEF NoNewReads
  <2>3. \A h \in Clients \ {g} : NoNewReads(h)
    BY <1>1, DoneCalls, SameReads
  <2> QED
    BY <2>2, <2>3
<1>2. ASSUME NEW k \in {"clear", "mark"}, Then(g, k) PROVE \A h \in Clients : NoNewReads(h)
  <2>1. \A i \in 1 .. Len(calls'[g]) : calls'[g][i].kind = "read" =>
            i + 0 \in 1 .. Len(calls[g]) /\ calls'[g][i] = calls[g][i + 0]
    <3>1. calls'[g][1].kind # "read"
      BY <1>2, ThenCalls
    <3>2. \A i \in 1 .. Len(calls'[g]) :
              i \in Nat /\ (i = 1 \/ i \in 2 .. Len(calls[g])) /\ i \in 1 .. Len(calls[g])
      BY <1>2, ThenCalls
    <3>3. \A i \in 2 .. Len(calls[g]) : i + 0 = i /\ calls'[g][i] = calls[g][i]
      BY <1>2, ThenCalls
    <3> QED
      BY <3>1, <3>2, <3>3
  <2>2. NoNewReads(g)
    BY <2>1 DEF NoNewReads
  <2>3. \A h \in Clients \ {g} : NoNewReads(h)
    BY <1>2, ThenCalls, SameReads
  <2> QED
    BY <2>2, <2>3
<1> QED
  BY <1>1, <1>2

LEMMA CallbackReads ==
    ASSUME TypeOK, NEW g \in Clients, Callbacks(g)
    PROVE  \A h \in Clients : NoNewReads(h)
<1>1. calls[g] # <<>> /\ UNCHANGED inflight
  BY DEF Callbacks, OnConnected, OnDisconnected, Clear, Mark, OnAnswer, Coming
<1>2. Done(g) \/ Then(g, "clear") \/ Then(g, "mark")
  BY DEF Callbacks, OnConnected, OnDisconnected, Clear, Mark, OnAnswer
<1> QED
  BY <1>1, <1>2, MadeReads

LEMMA LinkReads ==
    ASSUME TypeOK, NEW g \in Clients, Established(g) \/ Drop(g)
    PROVE  \A h \in Clients : NoNewReads(h)
<1>1. [kind |-> "up", n |-> 0] \in Callback /\ [kind |-> "down", n |-> 0] \in Callback
  BY AndroidAssumption DEF Callback
<1>2. Due(g, "up", 0) \/ Due(g, "down", 0)
  BY DEF Established, Drop
<1>3. \A h \in Clients : inflight'[h] \subseteq inflight[h]
  BY DEF Established, Drop, TypeOK
<1> QED
  BY <1>1, <1>2, <1>3, DueReads

(* What an operation becomes when Android has done it. *)
LEMMA Completed ==
    ASSUME TypeOK, NEW g \in Clients, NEW k \in Kinds, Complete(g, k)
    PROVE  \E op \in inflight[g] :
              /\ op.kind = k /\ inflight' = [inflight EXCEPT ![g] = @ \ {op}]
              /\ op = [kind |-> op.kind, n |-> op.n] /\ op \in Callback
              /\ Due(g, op.kind, op.n)
<1>1. PICK op \in inflight[g] : /\ op.kind = k /\ inflight' = [inflight EXCEPT ![g] = @ \ {op}]
                                /\ Due(g, op.kind, op.n)
  BY DEF Complete
<1>2. op \in Operation
  BY DEF TypeOK
<1>3. op = [kind |-> op.kind, n |-> op.n] /\ op \in Callback
  BY <1>2, AndroidAssumption DEF Operation, Callback, Requests
<1> QED
  BY <1>1, <1>3

LEMMA CompleteReads ==
    ASSUME TypeOK, NEW g \in Clients, NEW k \in Kinds, Complete(g, k)
    PROVE  /\ k # "read" => \A h \in Clients : NoNewReads(h)
           /\ \A h \in Clients \ {g} : NoNewReads(h)
           /\ ~NoReads(g) \/ k # "read"
<1>1. PICK op \in inflight[g] : /\ op.kind = k /\ inflight' = [inflight EXCEPT ![g] = @ \ {op}]
                                /\ op = [kind |-> op.kind, n |-> op.n] /\ op \in Callback
                                /\ Due(g, op.kind, op.n)
  BY Completed
<1>2. \A h \in Clients : inflight'[h] \subseteq inflight[h]
  BY <1>1 DEF TypeOK
<1>3. k # "read" => \A h \in Clients : NoNewReads(h)
  BY <1>1, <1>2, DueReads
<1>4. \A h \in Clients \ {g} : NoNewReads(h)
  BY <1>1, <1>2, DueCalls, SameReads
<1> QED
  BY <1>1, <1>3, <1>4 DEF NoReads

-----------------------------------------------------------------------------
(* Clients that are not recorded yet.                                      *)

LEMMA CallFresh ==
    ASSUME TypeOK, LockInv, FreshInv, NEW c \in Callers,
           ConnectGatt(c) \/ Call(c) \/ CallerStep(c) \/ GiveUp(c)
    PROVE  FreshInv'
<1>1. CASE ConnectGatt(c)
  <2>1. clients \in Nat /\ clients' = clients + 1 /\ clients + 1 \in Clients
    BY <1>1, AndroidAssumption DEF ConnectGatt, TypeOK, Clients
  <2>2. \A g : NoReads(g) => NoReads(g)'
    BY <1>1 DEF ConnectGatt, NoReads
  <2>3. /\ own'[c] = clients + 1 /\ pc'[c] = "dialled" /\ UNCHANGED gatt
        /\ \A d \in Callers \ {c} : own'[d] = own[d] /\ pc'[d] = pc[d]
    BY <1>1 DEF ConnectGatt, Goto, TypeOK, record
  <2>4. \A g \in Clients : g > clients' => state'[g] = "none" /\ NoReads(g)'
    <3>1. \A g \in Clients : g > clients' => g > clients /\ g # clients + 1
      BY <2>1, AndroidAssumption DEF Clients
    <3>2. \A g \in Clients : g # clients + 1 => state'[g] = state[g]
      BY <1>1 DEF ConnectGatt, TypeOK
    <3> QED
      BY <2>2, <3>1, <3>2 DEF FreshInv
  <2>5. NoReads(own[c])' /\ own'[c] # gatt' /\ own'[c] \in 1 .. clients'
    BY <2>1, <2>2, <2>3 DEF FreshInv, TypeOK, Clients
  <2>6. \A d \in Callers \ {c} : pc'[d] = "dialled" =>
            /\ own'[d] \in 1 .. clients' /\ own'[d] # gatt' /\ NoReads(own[d])'
            /\ own'[d] # own'[c]
    BY <2>1, <2>2, <2>3 DEF FreshInv
  <2>7. \A d, e \in Callers \ {c} : pc'[d] = "dialled" /\ pc'[e] = "dialled"
            /\ own'[d] = own'[e] => d = e
    BY <2>3 DEF FreshInv
  <2> QED
    BY <2>3, <2>4, <2>5, <2>6, <2>7 DEF FreshInv
<1>2. CASE Call(c) \/ Discover(c)
  <2>1. gatt \in Clients /\ gatt \in 1 .. clients
    BY <1>2, AndroidAssumption DEF Call, Discover, TypeOK, Clients
  <2>2. \A g \in Clients \ {gatt} : NoReads(g) => NoReads(g)'
    <3>1. UNCHANGED calls
      BY <1>2 DEF Call, Discover
    <3>2. CASE \E k, n : Takes(gatt, k, n)
      BY <2>1, <3>1, <3>2, AskedReads
    <3>3. CASE UNCHANGED inflight
      BY <3>1, <3>3 DEF NoReads
    <3> QED
      BY <1>2, <3>2, <3>3 DEF Call, Discover
  <2>3. /\ UNCHANGED <<clients, state, gatt>> /\ pc'[c] # "dialled"
        /\ \A d \in Callers \ {c} : own'[d] = own[d] /\ pc'[d] = pc[d]
    BY <1>2 DEF Call, Discover, Goto, TypeOK, record
  <2>4. \A g \in Clients : g > clients => g # gatt
    BY <2>1, AndroidAssumption DEF TypeOK, Clients
  <2>5. \A g \in 1 .. clients : g \in Clients
    BY AndroidAssumption DEF TypeOK, Clients
  <2>6. \A g \in Clients : g > clients' => state'[g] = "none" /\ NoReads(g)'
    BY <2>2, <2>3, <2>4 DEF FreshInv
  <2>7. ASSUME NEW d \in Callers, pc'[d] = "dialled"
        PROVE  /\ d # c /\ pc[d] = "dialled" /\ own'[d] = own[d]
               /\ own[d] \in 1 .. clients /\ own[d] # gatt /\ NoReads(own[d])'
    <3>1. d # c /\ pc[d] = "dialled" /\ own'[d] = own[d]
      BY <2>3, <2>7
    <3>2. own[d] \in 1 .. clients /\ own[d] # gatt /\ NoReads(own[d])
      BY <3>1 DEF FreshInv
    <3>3. PICK g \in Clients \ {gatt} : g = own[d]
      BY <2>5, <3>2
    <3> QED
      BY <2>2, <3>1, <3>2, <3>3
  <2> QED
    BY <2>3, <2>6, <2>7 DEF FreshInv
<1>3. CASE Record(c)
  <2>1. \A g : NoReads(g) => NoReads(g)'
    BY <1>3 DEF Record, NoReads, android
  <2>2. /\ UNCHANGED <<clients, state, own>> /\ gatt' \in {gatt, own[c]} /\ pc[c] = "dialled"
        /\ pc'[c] # "dialled" /\ \A d \in Callers \ {c} : pc'[d] = pc[d]
    BY <1>3 DEF Record, Goto, TypeOK, android, request
  <2> QED
    BY <2>1, <2>2 DEF FreshInv
<1>4. CASE NoClient(c) \/ Return(c) \/ GiveUp(c)
  <2>1. \A g : NoReads(g) => NoReads(g)'
    BY <1>4 DEF NoClient, Return, GiveUp, NoReads, android
  <2>2. /\ UNCHANGED <<clients, state, gatt>> /\ pc'[c] # "dialled"
        /\ \A d \in Callers \ {c} : own'[d] = own[d] /\ pc'[d] = pc[d]
    BY <1>4 DEF NoClient, Return, GiveUp, Over, Goto, TypeOK, android, record
  <2> QED
    BY <2>1, <2>2 DEF FreshInv
<1> QED
  BY <1>1, <1>2, <1>3, <1>4 DEF CallerStep

LEMMA RestFresh ==
    ASSUME TypeOK, FreshInv, NEW g \in Clients,
           \/ Established(g) \/ Drop(g) \/ Callbacks(g)
           \/ \E k \in Kinds : Complete(g, k)
    PROVE  FreshInv'
<1>1. UNCHANGED <<clients, pc, own>> /\ gatt' \in {gatt, 0}
  BY DEF Established, Drop, Complete, Callbacks, OnConnected, OnDisconnected,
         Clear, Mark, OnAnswer, request, record
<1>2. \A h \in 1 .. clients : h \in Clients /\ h # 0
  BY AndroidAssumption DEF TypeOK, Clients
<1>3. \A h \in Clients : NoReads(h) => NoReads(h)'
  BY NoneNew, CallbackReads, LinkReads, CompleteReads
<1>4. \A h \in Clients : h > clients /\ state[h] = "none" => state'[h] = "none"
  <2>1. CASE Established(g) \/ Drop(g)
    BY <2>1 DEF Established, Drop, TypeOK
  <2>2. CASE Callbacks(g) \/ \E k \in Kinds : Complete(g, k)
    BY <2>2 DEF Complete, Callbacks, OnConnected, OnDisconnected, Clear, Mark, OnAnswer
  <2> QED
    BY <2>1, <2>2
<1> QED
  BY <1>1, <1>2, <1>3, <1>4 DEF FreshInv

-----------------------------------------------------------------------------
(* The end of a link is the last that is heard. *)

LEMMA CallOrder ==
    ASSUME TypeOK, FreshInv, OrderInv, NEW c \in Callers,
           ConnectGatt(c) \/ Call(c) \/ CallerStep(c) \/ GiveUp(c)
    PROVE  OrderInv'
<1>1. CASE ConnectGatt(c)
  <2>1. clients + 1 \in Clients /\ clients + 1 > clients
    BY <1>1, AndroidAssumption DEF ConnectGatt, TypeOK, Clients
  <2>2. state[clients + 1] = "none"
    BY <2>1 DEF FreshInv
  <2>3. UNCHANGED <<inflight, calls>> /\ state' = [state EXCEPT ![clients + 1] = "dialling"]
    BY <1>1 DEF ConnectGatt
  <2> QED
    BY <2>1, <2>2, <2>3 DEF OrderInv, TypeOK
<1>2. CASE Call(c) \/ Discover(c)
  <2>1. gatt \in Clients
    BY <1>2, AndroidAssumption DEF Call, Discover, TypeOK, Clients
  <2>2. UNCHANGED <<state, calls>>
    BY <1>2 DEF Call, Discover
  <2>3. \A h \in Clients : state[h] # "up" => inflight'[h] = inflight[h]
    BY <1>2, <2>1 DEF Call, Discover, Accepts, Takes, TypeOK
  <2> QED
    BY <2>2, <2>3 DEF OrderInv
<1>3. CASE Record(c) \/ NoClient(c) \/ Return(c) \/ GiveUp(c)
  <2>1. UNCHANGED <<state, inflight, calls>>
    BY <1>3 DEF Record, NoClient, Return, GiveUp, android
  <2> QED
    BY <2>1 DEF OrderInv
<1> QED
  BY <1>1, <1>2, <1>3 DEF CallerStep

LEMMA LinkOrder ==
    ASSUME TypeOK, OrderInv, NEW g \in Clients,
           Established(g) \/ Drop(g) \/ \E k \in Kinds : Complete(g, k)
    PROVE  OrderInv'
<1>1. ASSUME NEW k, NEW n, [kind |-> k, n |-> n] \in Callback, Due(g, k, n),
             state[g] \notin {"down", "closed"},
             k \in {"down", "clear", "mark"} => state'[g] = "down",
             state'[g] # "up" => inflight'[g] = {},
             \A h \in Clients \ {g} : state'[h] = state[h] /\ inflight'[h] = inflight[h]
      PROVE  OrderInv'
  <2>1. \A h \in Clients \ {g} : calls'[h] = calls[h]
    BY <1>1, DueCalls
  <2>2. \A i \in 1 .. Len(calls[g]) : calls[g][i].kind \notin {"down", "clear", "mark"}
    BY <1>1 DEF OrderInv
  <2>3. \A i \in 1 .. Len(calls'[g]) :
            \/ i \in 1 .. Len(calls[g]) /\ calls'[g][i] = calls[g][i]
            \/ i = Len(calls'[g]) /\ calls'[g][i].kind = k
    BY <1>1, DueCalls
  <2>4. Len(calls'[g]) \in Nat
    BY <1>1, DueCalls
  <2>5. ASSUME NEW i \in 1 .. Len(calls'[g]), calls'[g][i].kind \in {"down", "clear", "mark"}
        PROVE  /\ state'[g] \in {"down", "closed"}
               /\ \A j \in 1 .. Len(calls'[g]) : i < j => calls'[g][j].kind # "read"
    <3>1. i = Len(calls'[g]) /\ calls'[g][i].kind = k
      BY <2>2, <2>3, <2>5
    <3> QED
      BY <1>1, <2>4, <2>5, <3>1
  <2> QED
    BY <1>1, <2>1, <2>5 DEF OrderInv
<1>2. CASE Established(g)
  <2>1. [kind |-> "up", n |-> 0] \in Callback
    BY AndroidAssumption DEF Callback
  <2>2. /\ state[g] = "dialling" /\ state'[g] = "up" /\ Due(g, "up", 0)
        /\ \A h \in Clients \ {g} : state'[h] = state[h] /\ inflight'[h] = inflight[h]
    BY <1>2 DEF Established, TypeOK
  <2> QED
    BY <1>1, <2>1, <2>2
<1>3. CASE Drop(g)
  <2>1. [kind |-> "down", n |-> 0] \in Callback
    BY AndroidAssumption DEF Callback
  <2>2. /\ state[g] \in {"dialling", "up"} /\ state'[g] = "down" /\ Due(g, "down", 0)
        /\ inflight'[g] = {}
        /\ \A h \in Clients \ {g} : state'[h] = state[h] /\ inflight'[h] = inflight[h]
    BY <1>3 DEF Drop, TypeOK
  <2> QED
    BY <1>1, <2>1, <2>2
<1>4. ASSUME NEW k \in Kinds, Complete(g, k) PROVE OrderInv'
  <2>1. PICK op \in inflight[g] : /\ op.kind = k /\ inflight' = [inflight EXCEPT ![g] = @ \ {op}]
                                  /\ op = [kind |-> op.kind, n |-> op.n] /\ op \in Callback
                                  /\ Due(g, op.kind, op.n)
    BY <1>4, Completed
  <2>2. state[g] = "up" /\ UNCHANGED state
    BY <1>4 DEF Complete, OrderInv
  <2>3. \A h \in Clients \ {g} : inflight'[h] = inflight[h]
    BY <2>1 DEF TypeOK
  <2>4. op.kind \notin {"down", "clear", "mark"}
    BY <2>1 DEF Kinds
  <2> QED
    BY <1>1, <2>1, <2>2, <2>3, <2>4
<1> QED
  BY <1>1, <1>2, <1>3, <1>4

LEMMA CallbackOrder ==
    ASSUME TypeOK, OrderInv, NEW g \in Clients, Callbacks(g)
    PROVE  OrderInv'
<1>1. calls[g] # <<>> /\ UNCHANGED <<state, inflight>>
  BY DEF Callbacks, OnConnected, OnDisconnected, Clear, Mark, OnAnswer, Coming
<1>2. CASE Done(g)
  <2>1. \A h \in Clients \ {g} : calls'[h] = calls[h]
    BY <1>1, <1>2, DoneCalls
  <2>2. \A i \in 1 .. Len(calls'[g]) :
            /\ i \in Nat /\ i + 1 \in 1 .. Len(calls[g]) /\ calls'[g][i] = calls[g][i + 1]
    BY <1>1, <1>2, DoneCalls
  <2>3. \A i, j \in 1 .. Len(calls'[g]) : i < j => i + 1 < j + 1
    BY <2>2
  <2>4. ASSUME NEW i \in 1 .. Len(calls'[g]), calls'[g][i].kind \in {"down", "clear", "mark"}
        PROVE  /\ state[g] \in {"down", "closed"}
               /\ \A j \in 1 .. Len(calls'[g]) : i < j => calls'[g][j].kind # "read"
    BY <2>2, <2>3, <2>4 DEF OrderInv
  <2> QED
    BY <1>1, <2>1, <2>4 DEF OrderInv
<1>3. ASSUME NEW k \in {"clear", "mark"}, Then(g, k), calls[g][1].kind \in {"down", "clear"}
      PROVE  OrderInv'
  <2>1. \A h \in Clients \ {g} : calls'[h] = calls[h]
    BY <1>1, <1>3, ThenCalls
  <2>2. /\ Len(calls'[g]) = Len(calls[g]) /\ Len(calls[g]) \in Nat \ {0}
        /\ \A i \in 2 .. Len(calls[g]) : calls'[g][i] = calls[g][i]
    BY <1>1, <1>3, ThenCalls
  <2>3. 1 \in 1 .. Len(calls[g])
    BY <2>2
  <2>4. /\ state[g] \in {"down", "closed"}
        /\ \A j \in 1 .. Len(calls[g]) : 1 < j => calls[g][j].kind # "read"
    BY <1>3, <2>3 DEF OrderInv
  <2>5. \A i, j \in 1 .. Len(calls'[g]) : i < j => j \in 2 .. Len(calls[g]) /\ 1 < j
    BY <2>2
  <2>6. \A i, j \in 1 .. Len(calls'[g]) : i < j => calls'[g][j].kind # "read"
    BY <2>2, <2>4, <2>5
  <2> QED
    BY <1>1, <2>1, <2>4, <2>6 DEF OrderInv
<1>4. Head(calls[g]) = calls[g][1]
  BY <1>1, Heads
<1> QED
  BY <1>2, <1>3, <1>4
  DEF Callbacks, OnConnected, OnDisconnected, Clear, Mark, OnAnswer, Coming

-----------------------------------------------------------------------------
(* The reads of the recorded client. *)

\* Whoever waits for a read does so as before.
SameHolder == ~abandoned =>
    /\ lock' = lock
    /\ \A c \in Callers : kind[c] = "read" =>
        /\ pc'[c] = pc[c] /\ kind'[c] = kind[c] /\ mine'[c] = mine[c]
        /\ own'[c] = own[c] /\ reply'[c] = reply[c]

LEMMA SameOwner ==
    ASSUME OwnedInv, UNCHANGED <<gatt, abandoned>>, SameHolder,
           gatt # 0 => NoNewReads(gatt)
    PROVE  OwnedInv'
<1> SUFFICES ASSUME ~abandoned, NEW g \in {gatt}, g # 0 PROVE OwnedInv'
  BY DEF OwnedInv
<1>1. \A n : IsHolder(g, n) => IsHolder(g, n)'
  BY DEF IsHolder, SameHolder
<1>2. \A op \in inflight'[g] : op.kind = "read" => IsHolder(g, op.n)'
  BY <1>1 DEF NoNewReads, OwnedInv
<1>3. PICK d \in {0, 1} : \A i \in 1 .. Len(calls'[g]) :
          calls'[g][i].kind = "read" =>
              i + d \in 1 .. Len(calls[g]) /\ calls'[g][i] = calls[g][i + d]
  BY DEF NoNewReads
<1>4. ASSUME NEW i \in 1 .. Len(calls'[g]), calls'[g][i].kind = "read"
      PROVE  /\ \A n : n = calls'[g][i].n => IsHolder(g, n)'
             /\ \A op \in inflight'[g] : op.kind # "read"
             /\ \A j \in 1 .. Len(calls'[g]) : calls'[g][j].kind = "read" => i = j
  <2>1. i + d \in 1 .. Len(calls[g]) /\ calls'[g][i] = calls[g][i + d]
    BY <1>3, <1>4
  <2>2. /\ IsHolder(g, calls[g][i + d].n)
        /\ \A op \in inflight[g] : op.kind # "read"
        /\ \A j \in 1 .. Len(calls[g]) : calls[g][j].kind = "read" => i + d = j
    BY <1>4, <2>1 DEF OwnedInv
  <2>3. \A op \in inflight'[g] : op.kind # "read"
    BY <2>2 DEF NoNewReads
  <2>4. ASSUME NEW j \in 1 .. Len(calls'[g]), calls'[g][j].kind = "read" PROVE i = j
    <3>1. j + d \in 1 .. Len(calls[g]) /\ calls[g][j + d].kind = "read"
      BY <1>3, <2>4
    <3>2. i + d = j + d
      BY <2>2, <3>1
    <3> QED
      BY <3>2
  <2> QED
    BY <1>1, <2>1, <2>2, <2>3, <2>4
<1> QED
  BY <1>2, <1>4 DEF OwnedInv, IsHolder

LEMMA CallOwned ==
    ASSUME TypeOK, LockInv, FreshInv, OwnedInv, NEW c \in Callers,
           ConnectGatt(c) \/ Call(c) \/ CallerStep(c) \/ GiveUp(c)
    PROVE  OwnedInv'
<1>0. gatt # 0 => gatt \in Clients
  BY AndroidAssumption DEF TypeOK, Clients
<1>1. CASE ConnectGatt(c)
  <2>1. SameHolder
    BY <1>1 DEF ConnectGatt, Goto, SameHolder, LockInv, TypeOK
  <2>2. UNCHANGED <<gatt, abandoned, inflight, calls>>
    BY <1>1 DEF ConnectGatt, record, history
  <2> QED
    BY <1>0, <2>1, <2>2, SameReads, SameOwner
<1>2. CASE Call(c)
  <2> DEFINE n == CHOOSE m \in Free : TRUE
             op == [kind |-> "read", n |-> n]
  <2>1. PICK g \in Clients : g = gatt
    BY <1>0, <1>2 DEF Call
  <2>2. /\ gatt' = g /\ g # 0 /\ lock = NoOne /\ pc[c] = "idle"
        /\ UNCHANGED <<abandoned, calls, reply>> /\ lock' = c
        /\ pc' = [pc EXCEPT ![c] = "waiting"] /\ kind' = [kind EXCEPT ![c] = "read"]
        /\ own' = [own EXCEPT ![c] = g]
    BY <1>2, <2>1 DEF Call, Goto, LockFree, record, history
  <2>3. /\ mine' = [mine EXCEPT ![c] = n]
        /\ inflight'[g] \subseteq inflight[g] \cup {op}
    BY <1>2, <2>1 DEF Call, Takes, TypeOK
  <2>4. ~abandoned => NoReads(g)
    BY <2>1, <2>2, AndroidAssumption DEF OwnedInv, IsHolder, NoReads
  <2> HIDE DEF n
  <2>5. reply[c] = NoReply
    BY <2>2 DEF LockInv
  <2>6. \A m : m = n => IsHolder(g, m)'
    BY <2>2, <2>3, <2>5 DEF IsHolder, TypeOK
  <2>7. op.n = n
    OBVIOUS
  <2> HIDE DEF op
  <2>8. ~abandoned => \A o \in inflight'[g] : o.kind = "read" => o.n = n
    BY <2>3, <2>4, <2>7 DEF NoReads
  <2>9. ~abandoned => \A i \in 1 .. Len(calls'[g]) : calls'[g][i].kind # "read"
    BY <2>2, <2>4 DEF NoReads
  <2> QED
    BY <2>2, <2>6, <2>8, <2>9 DEF OwnedInv, IsHolder
<1>3. CASE Record(c)
  <2>1. SameHolder
    BY <1>3 DEF Record, Goto, SameHolder, LockInv, TypeOK, request
  <2>2. UNCHANGED <<abandoned, inflight, calls>> /\ gatt' \in {gatt, own[c]}
    BY <1>3 DEF Record, android, history
  <2>3. CASE gatt' = gatt
    BY <1>0, <2>1, <2>2, <2>3, SameReads, SameOwner
  <2>4. CASE gatt' = own[c]
    <3>1. NoReads(own[c])
      BY <1>3 DEF Record, Goto, FreshInv
    <3> QED
      BY <2>2, <2>4, <3>1 DEF OwnedInv, NoReads
  <2> QED
    BY <2>2, <2>3, <2>4
<1>4. CASE Discover(c)
  <2>1. gatt \in Clients
    BY <1>0, <1>4 DEF Discover
  <2>2. SameHolder
    BY <1>4 DEF Discover, Goto, SameHolder, TypeOK
  <2>3. UNCHANGED <<gatt, abandoned, calls>>
    BY <1>4 DEF Discover, record
  <2>4. \A op \in inflight'[gatt] : op.kind = "read" => op \in inflight[gatt]
    BY <1>4, <2>1 DEF Discover, Takes, TypeOK
  <2> QED
    BY <2>1, <2>2, <2>3, <2>4, SameReads, SameOwner
<1>5. CASE NoClient(c) \/ Return(c)
  <2>1. /\ UNCHANGED <<gatt, abandoned, inflight, calls>>
        /\ Goto(c, "waiting", "idle") /\ Over(c)
    BY <1>5 DEF NoClient, Return, record, android, history
  <2>2. CASE lock = c
    <3>1. \A g, n : ~IsHolder(g, n)
      BY <1>5, <2>2 DEF NoClient, Return, IsHolder
    <3>2. ~abandoned /\ gatt # 0 => NoReads(gatt)
      BY <3>1 DEF OwnedInv, NoReads
    <3> QED
      BY <2>1, <3>2 DEF OwnedInv, NoReads
  <2>3. CASE lock # c
    <3>1. SameHolder
      BY <2>1, <2>3 DEF Goto, Over, SameHolder, LockInv, TypeOK
    <3> QED
      BY <1>0, <2>1, <3>1, SameReads, SameOwner
  <2> QED
    BY <2>2, <2>3
<1>6. CASE GiveUp(c)
  BY <1>6 DEF GiveUp, OwnedInv
<1> QED
  BY <1>1, <1>2, <1>3, <1>4, <1>5, <1>6 DEF CallerStep

LEMMA AndroidOwned ==
    ASSUME TypeOK, OwnedInv, NEW g \in Clients,
           Established(g) \/ Drop(g) \/ \E k \in Kinds : Complete(g, k)
    PROVE  OwnedInv'
<1>0. gatt # 0 => gatt \in Clients
  BY AndroidAssumption DEF TypeOK, Clients
<1>1. CASE Established(g) \/ Drop(g)
  <2>1. UNCHANGED <<gatt, abandoned>> /\ SameHolder
    BY <1>1 DEF Established, Drop, SameHolder, record, request, history
  <2> QED
    BY <1>0, <1>1, <2>1, LinkReads, SameOwner
<1>2. ASSUME NEW k \in Kinds, Complete(g, k) PROVE OwnedInv'
  <2>1. UNCHANGED <<gatt, abandoned>> /\ SameHolder
    BY <1>2 DEF Complete, SameHolder, record, request, history
  <2>2. CASE k # "read" \/ gatt # g
    BY <1>0, <1>2, <2>1, <2>2, CompleteReads, SameOwner
  <2>3. CASE k = "read" /\ gatt = g /\ ~abandoned
    <3>1. PICK op \in inflight[g] : /\ op.kind = k /\ inflight' = [inflight EXCEPT ![g] = @ \ {op}]
                                    /\ op = [kind |-> op.kind, n |-> op.n] /\ op \in Callback
                                    /\ Due(g, op.kind, op.n)
      BY <1>2, Completed
    <3>2. gatt # 0
      BY <2>3, AndroidAssumption DEF Clients
    <3>3. IsHolder(g, op.n)
      BY <2>3, <3>1, <3>2 DEF OwnedInv
    <3>4. IsHolder(g, op.n)'
      BY <2>1, <2>3, <3>3 DEF IsHolder, SameHolder
    <3>5. \A o \in inflight[g] : o.kind = "read" => o = op
      <4>1. ASSUME NEW o \in inflight[g], o.kind = "read" PROVE o = op
        <5>1. IsHolder(g, o.n)
          BY <2>3, <3>2, <4>1 DEF OwnedInv
        <5>2. o.n = op.n
          BY <3>3, <5>1 DEF IsHolder
        <5>3. o = [kind |-> o.kind, n |-> o.n]
          BY <4>1 DEF TypeOK, Operation
        <5> QED
          BY <2>3, <3>1, <4>1, <5>2, <5>3
      <4> QED
        BY <4>1
    <3>6. \A o \in inflight'[g] : o.kind # "read"
      BY <3>1, <3>5 DEF TypeOK
    <3>7. \A i \in 1 .. Len(calls[g]) : calls[g][i].kind # "read"
      BY <2>3, <3>1, <3>2 DEF OwnedInv
    <3>8. /\ Len(calls[g]) \in Nat /\ Len(calls'[g]) = Len(calls[g]) + 1
          /\ \A i \in 1 .. Len(calls[g]) : calls'[g][i] = calls[g][i]
          /\ calls'[g][Len(calls[g]) + 1] = op
      BY <3>1, DueCalls
    <3>9. \A i \in 1 .. Len(calls'[g]) : calls'[g][i].kind = "read" =>
              i = Len(calls[g]) + 1 /\ calls'[g][i].n = op.n
      BY <3>7, <3>8
    <3> QED
      BY <2>1, <2>3, <3>4, <3>6, <3>9 DEF OwnedInv, IsHolder
  <2> QED
    BY <2>1, <2>2, <2>3 DEF OwnedInv
<1> QED
  BY <1>1, <1>2

LEMMA CallbackOwned ==
    ASSUME TypeOK, OrderInv, OwnedInv, NEW g \in Clients, Callbacks(g)
    PROVE  OwnedInv'
<1>0. gatt # 0 => gatt \in Clients
  BY AndroidAssumption DEF TypeOK, Clients
<1>1. calls[g] # <<>> /\ UNCHANGED <<inflight, abandoned>>
  BY DEF Callbacks, OnConnected, OnDisconnected, Clear, Mark, OnAnswer, Coming, history
<1>2. /\ Len(calls[g]) \in Nat \ {0} /\ Head(calls[g]) = calls[g][1] /\ 1 \in 1 .. Len(calls[g])
  BY <1>1, Heads
<1>3. ASSUME SameHolder, UNCHANGED gatt PROVE OwnedInv'
  BY <1>0, <1>1, <1>3, CallbackReads, SameOwner
<1>4. CASE Clear(g)
  BY <1>4 DEF Clear, OwnedInv
<1>5. CASE Mark(g)
  <2>1. SameHolder /\ UNCHANGED gatt
    BY <1>5 DEF Mark, SameHolder, request
  <2> QED
    BY <1>3, <2>1
<1>6. CASE OnConnected(g)
  <2>1. SameHolder /\ UNCHANGED gatt
    BY <1>6 DEF OnConnected, SameHolder, Resolve
  <2> QED
    BY <1>3, <2>1
<1>7. ASSUME NEW k \in Kinds, OnAnswer(g, k) PROVE OwnedInv'
  <2>1. UNCHANGED <<gatt, pc, lock, kind, mine, own>>
    BY <1>7 DEF OnAnswer, record
  <2>2. CASE k # "read" \/ ~IsRecorded(g)
    <3>1. SameHolder
      BY <1>7, <2>1, <2>2 DEF OnAnswer, SameHolder, Resolve
    <3> QED
      BY <1>3, <2>1, <3>1
  <2>3. CASE k = "read" /\ IsRecorded(g) /\ ~abandoned
    <3>1. gatt = g /\ gatt # 0 /\ calls[g][1].kind = "read" /\ Done(g)
      BY <1>2, <1>7, <2>3, AndroidAssumption DEF IsRecorded, OnAnswer, Coming, Clients
    <3>2. /\ \A op \in inflight[g] : op.kind # "read"
          /\ \A j \in 1 .. Len(calls[g]) : calls[g][j].kind = "read" => 1 = j
      BY <1>2, <2>3, <3>1 DEF OwnedInv
    <3>3. \A i \in 1 .. Len(calls'[g]) :
              i + 1 \in 1 .. Len(calls[g]) /\ i + 1 # 1 /\ calls'[g][i] = calls[g][i + 1]
      BY <1>1, <3>1, DoneCalls
    <3>4. NoReads(g)'
      BY <1>1, <3>2, <3>3 DEF NoReads
    <3> QED
      BY <2>1, <3>1, <3>4 DEF OwnedInv, NoReads
  <2> QED
    BY <1>1, <2>2, <2>3 DEF OwnedInv
<1>8. CASE OnDisconnected(g)
  <2>1. UNCHANGED <<gatt, pc, lock, kind, mine, own>>
    BY <1>8 DEF OnDisconnected, record
  <2>2. CASE IsRecorded(g)
    <3>1. gatt = g /\ calls[g][1].kind = "down" /\ Then(g, "clear")
      BY <1>2, <1>8, <2>2 DEF IsRecorded, OnDisconnected, Coming
    <3>2. /\ inflight[g] = {}
          /\ \A j \in 1 .. Len(calls[g]) : 1 < j => calls[g][j].kind # "read"
      BY <1>2, <3>1 DEF OrderInv
    <3>3. \A j \in 1 .. Len(calls[g]) : calls[g][j].kind # "read"
      BY <1>2, <3>1, <3>2
    <3>4. NoReads(g)
      BY <3>2, <3>3 DEF NoReads
    <3>5. NoReads(g)'
      BY <3>4, CallbackReads, NoneNew
    <3> QED
      BY <2>1, <3>1, <3>5 DEF OwnedInv, NoReads
  <2>3. CASE ~IsRecorded(g)
    <3>1. SameHolder
      BY <1>8, <2>1, <2>3 DEF OnDisconnected, SameHolder
    <3> QED
      BY <1>3, <2>1, <3>1
  <2> QED
    BY <2>2, <2>3
<1> QED
  BY <1>4, <1>5, <1>6, <1>7, <1>8 DEF Callbacks

-----------------------------------------------------------------------------
(* Answers. *)

(* A reply that is not touched is still the answer to what was asked.      *)
LEMMA SameAnswers ==
    ASSUME AnswerIsMine, abandoned => abandoned',
           \A c \in Callers : kind'[c] = "read" =>
               \/ reply'[c].kind # "answer"
               \/ kind[c] = "read" /\ reply'[c] = reply[c] /\ mine'[c] = mine[c]
    PROVE  AnswerIsMine'
  BY DEF AnswerIsMine

LEMMA CallAnswers ==
    ASSUME TypeOK, LockInv, AnswerIsMine, NEW c \in Callers,
           ConnectGatt(c) \/ Call(c) \/ CallerStep(c) \/ GiveUp(c)
    PROVE  AnswerIsMine'
<1>1. CASE ConnectGatt(c) \/ Record(c)
  BY <1>1, SameAnswers DEF ConnectGatt, Record, request, history
<1>2. CASE Call(c)
  <2>1. reply[c].kind = "none"
    BY <1>2 DEF Call, Goto, LockInv, NoReply
  <2>2. /\ UNCHANGED <<reply, abandoned>>
        /\ \A d \in Callers \ {c} : kind'[d] = kind[d] /\ mine'[d] = mine[d]
    BY <1>2 DEF Call, TypeOK, history
  <2> QED
    BY <2>1, <2>2, SameAnswers
<1>3. CASE Discover(c)
  BY <1>3, SameAnswers DEF Discover, TypeOK
<1>4. CASE NoClient(c) \/ Return(c) \/ GiveUp(c)
  <2>1. Over(c) /\ (abandoned => abandoned')
    BY <1>4 DEF NoClient, Return, GiveUp, history
  <2> QED
    BY <2>1, SameAnswers DEF Over, TypeOK
<1> QED
  BY <1>1, <1>2, <1>3, <1>4 DEF CallerStep

LEMMA RestAnswers ==
    ASSUME TypeOK, LockInv, OwnedInv, AnswerIsMine, NEW g \in Clients,
           \/ Established(g) \/ Drop(g) \/ Callbacks(g)
           \/ \E k \in Kinds : Complete(g, k)
    PROVE  AnswerIsMine'
<1>1. UNCHANGED <<kind, mine, abandoned>>
  BY DEF Established, Drop, Complete, Callbacks, OnConnected, OnDisconnected,
         Clear, Mark, OnAnswer, request, record, history
<1>2. ASSUME \A c \in Callers : kind[c] = "read" =>
                 reply'[c] = reply[c] \/ reply'[c] = Failure
      PROVE  AnswerIsMine'
  BY <1>1, <1>2, SameAnswers DEF Failure
<1>3. CASE Established(g) \/ Drop(g) \/ \E k \in Kinds : Complete(g, k)
  BY <1>2, <1>3 DEF Established, Drop, Complete, request
<1>4. CASE OnConnected(g) \/ OnDisconnected(g) \/ Clear(g) \/ Mark(g)
  BY <1>2, <1>4 DEF OnConnected, OnDisconnected, Clear, Mark, Resolve, request
<1>5. ASSUME NEW k \in Kinds, OnAnswer(g, k) PROVE AnswerIsMine'
  <2>1. CASE k # "read" \/ ~IsRecorded(g)
    BY <1>2, <1>5, <2>1 DEF OnAnswer, Resolve
  <2>2. CASE k = "read" /\ IsRecorded(g) /\ ~abandoned
    <3>1. /\ calls[g] # <<>> /\ Head(calls[g]).kind = "read" /\ g = gatt /\ g # 0
          /\ Resolve({"read"}, AnswerTo(Head(calls[g]).n))
      BY <1>5, <2>2, AndroidAssumption DEF OnAnswer, Coming, IsRecorded, Clients
    <3>2. Head(calls[g]) = calls[g][1] /\ 1 \in 1 .. Len(calls[g])
      BY <3>1, Heads
    <3>3. IsHolder(g, Head(calls[g]).n)
      BY <2>2, <3>1, <3>2 DEF OwnedInv
    <3>4. AnswerTo(Head(calls[g]).n).n = mine[lock]
      BY <3>3 DEF IsHolder, AnswerTo
    <3>5. ASSUME NEW c \in Callers, reply'[c].kind = "answer", kind[c] = "read"
          PROVE  reply'[c].n = mine[c]
      <4>1. lock = c
        BY <2>2, <3>5 DEF LockInv
      <4>2. reply'[c] = AnswerTo(Head(calls[g]).n) \/ reply'[c] = reply[c]
        BY <3>1 DEF Resolve
      <4> QED
        BY <2>2, <3>4, <3>5, <4>1, <4>2 DEF AnswerIsMine
    <3> QED
      BY <1>1, <3>5 DEF AnswerIsMine
  <2> QED
    BY <1>1, <2>1, <2>2 DEF AnswerIsMine
<1> QED
  BY <1>3, <1>4, <1>5 DEF Callbacks

-----------------------------------------------------------------------------
(* A grant, or forget: the record has no client, and a client that was     *)
(* closed does nothing more.                                               *)

LEMMA RecordRest ==
    ASSUME TypeOK, FreshInv, OrderInv, AnswerIsMine, Grant \/ Forget
    PROVE  FreshInv' /\ OrderInv' /\ OwnedInv' /\ AnswerIsMine'
<1>1. /\ gatt' = 0 /\ UNCHANGED <<calls, clients, pc, kind, mine, own, reply>>
      /\ ~abandoned' => ~abandoned
  <2>1. gatt' = 0 /\ UNCHANGED <<calls, clients, pc, kind, mine, own, reply>>
    BY DEF Grant, Forget, request, android
  <2>2. ~abandoned' => ~abandoned
    BY DEF Grant, Forget, history
  <2> QED
    BY <2>1, <2>2
<1>2. \A h \in Clients :
          \/ state'[h] = state[h] /\ inflight'[h] = inflight[h]
          \/ h = gatt /\ state'[h] = "closed" /\ inflight'[h] = {}
  BY DEF Grant, Forget, TypeOK, android
<1>3. FreshInv'
  <2>1. \A h \in Clients : NoReads(h) => NoReads(h)'
    BY <1>1, <1>2 DEF NoReads
  <2>2. \A h \in 1 .. clients : h \in Clients /\ h # 0
    BY AndroidAssumption DEF TypeOK, Clients
  <2>3. \A h \in Clients : h > clients => state'[h] = state[h]
    BY <1>2, AndroidAssumption DEF TypeOK, Clients
  <2> QED
    BY <1>1, <2>1, <2>2, <2>3 DEF FreshInv
<1>4. OrderInv'
  BY <1>1, <1>2 DEF OrderInv
<1>5. OwnedInv'
  BY <1>1 DEF OwnedInv
<1>6. AnswerIsMine'
  BY <1>1 DEF AnswerIsMine
<1> QED
  BY <1>3, <1>4, <1>5, <1>6

-----------------------------------------------------------------------------
(* The theorems. *)

LEMMA InitIInv == Init => IInv
<1> SUFFICES ASSUME Init PROVE IInv
  OBVIOUS
<1>1. TypeOK
  <2>1. <<>> \in Seq(Callback) /\ 0 \in 0 .. MaxRequests /\ 0 \in 0 .. MaxClients /\ 0 \in 0 .. 0
    BY AndroidAssumption
  <2>2. /\ gatt \in 0 .. clients /\ clients \in 0 .. MaxClients
        /\ mine \in [Callers -> 0 .. MaxRequests] /\ own \in [Callers -> 0 .. clients]
        /\ reply \in [Callers -> Reply]
    BY <2>1, Replies DEF Init
  <2>3. /\ inflight \in [Clients -> SUBSET Operation]
        /\ calls \in [Clients -> Seq(Callback)]
        /\ state \in [Clients -> {"none", "dialling", "up", "down", "closed"}]
    BY <2>1 DEF Init
  <2>4. /\ pc \in [Callers -> {"idle", "dialled", "waiting"}] /\ kind \in [Callers -> Kinds]
        /\ lock = NoOne /\ {granted, connected, unheard, abandoned} \subseteq BOOLEAN
    BY DEF Init, Kinds
  <2> QED
    BY <2>2, <2>3, <2>4 DEF TypeOK
<1>2. \A g \in Clients : NoReads(g)
  BY DEF Init, NoReads
<1>3. LockInv /\ OwnedInv /\ AnswerIsMine
  BY AndroidAssumption DEF Init, LockInv, OwnedInv, AnswerIsMine, NoReply
<1>4. FreshInv /\ OrderInv
  BY <1>2 DEF Init, FreshInv, OrderInv
<1> QED
  BY <1>1, <1>3, <1>4 DEF IInv

LEMMA StepIInv == IInv /\ [Next]_vars => IInv'
<1> SUFFICES ASSUME IInv, [Next]_vars PROVE IInv'
  OBVIOUS
<1> USE DEF IInv
<1>1. ASSUME NEW c \in Callers, ConnectGatt(c) \/ Call(c) \/ CallerStep(c) \/ GiveUp(c)
      PROVE  IInv'
  BY <1>1, CallTypes, CallLock, CallFresh, CallOrder, CallOwned, CallAnswers
<1>2. CASE Grant \/ Forget
  BY <1>2, GrantTypes, ForgetTypes, RestLock, ForgetLock, RecordRest
<1>3. ASSUME NEW g \in Clients, Established(g) \/ Drop(g) \/ \E k \in Kinds : Complete(g, k)
      PROVE  IInv'
  BY <1>3, AndroidTypes, RestLock, RestFresh, LinkOrder, AndroidOwned, RestAnswers
<1>4. ASSUME NEW g \in Clients, Callbacks(g) PROVE IInv'
  BY <1>4, CallbackTypes, CallbackLock, RestFresh, CallbackOrder, CallbackOwned, RestAnswers
<1>5. CASE UNCHANGED vars
  <2>1. UNCHANGED <<granted, connected, gatt, pc, lock, kind, mine, own, reply, clients,
                    state, inflight, calls, unheard, abandoned>>
    BY <1>5 DEF vars, record, request, android, history
  <2> QED
    BY <2>1 DEF TypeOK, LockInv, FreshInv, NoReads, OrderInv, OwnedInv, IsHolder, AnswerIsMine
<1> QED
  BY <1>1, <1>2, <1>3, <1>4, <1>5 DEF Next

(* What the theorems rest on is kept: whoever has the lock waits for a     *)
(* read, and every read of the recorded client is that one                 *)
(* (backend.rs:1092-1107).                                                 *)
THEOREM SpecIInv == Spec => []IInv
<1>1. Init => IInv
  BY InitIInv
<1>2. IInv /\ [Next]_vars => IInv'
  BY StepIInv
<1> QED
  BY <1>1, <1>2, PTL DEF Spec

(* Every variable keeps its type: no client is recorded that connectGatt   *)
(* did not return (backend.rs:972-978).                                    *)
THEOREM TypeCorrect == Spec => []TypeOK
<1>1. IInv => TypeOK
  BY DEF IInv
<1> QED
  BY <1>1, SpecIInv, PTL

(* An answer reaches the request it is the answer to, though a slot is     *)
(* emptied without naming one, as long as the lock was held until the      *)
(* answer (backend.rs:428-448).                                            *)
THEOREM AnswerIsMineAlways == Spec => []AnswerIsMine
<1>1. IInv => AnswerIsMine
  BY DEF IInv
<1> QED
  BY <1>1, SpecIInv, PTL

(* Whoever gets the lock finds nothing under way on the recorded client    *)
(* but what connect asks for without it, as long as the lock was held      *)
(* until the answer (backend.rs:987-998, 1082-1092).                       *)
THEOREM NoneRefusedAlways == Spec => []NoneRefused
<1>1. IInv => NoneRefused
  <2> SUFFICES ASSUME IInv, ~abandoned, lock = NoOne, NEW g \in Clients, gatt = g,
                      NEW op \in inflight[g], op.kind # "services"
               PROVE  FALSE
    BY DEF NoneRefused
  <2>1. gatt # 0
    BY AndroidAssumption DEF Clients
  <2>2. op.kind # "read"
    BY <2>1, AndroidAssumption DEF IInv, OwnedInv, IsHolder
  <2> QED
    BY <2>2 DEF IInv, TypeOK, Operation, Kinds
<1> QED
  BY <1>1, SpecIInv, PTL

-----------------------------------------------------------------------------
(* What is still to be said to those who wait.                             *)

\* A callback about g is to come whose kind is one of ks.
ToSay(g, ks) == \E i \in 1 .. Len(calls[g]) : calls[g][i].kind \in ks

\* What ends a wait for a k of client g is to come: its callback, or the
\* operation or the attempt that will have one, or the end of the link.
Promised(g, k) ==
    \/ ToSay(g, {k, "down"})
    \/ \E op \in inflight[g] : op.kind = k
    \/ k = "connect" /\ (state[g] = "dialling" \/ ToSay(g, {"up"}))

(* Who has a request has a client, and connects before anything else.      *)
WaitersInv ==
    \A c \in Callers :
        /\ pc[c] \in {"idle", "dialled"} => kind[c] = "connect"
        /\ pc[c] # "idle" => own[c] \in 1 .. clients

HeardInv ==
    ~unheard => \A c \in Callers :
        pc[c] # "idle" /\ reply[c] = NoReply => Promised(own[c], kind[c])

LEMMA DueSays ==
    ASSUME TypeOK, NEW g \in Clients, NEW k, NEW n,
           [kind |-> k, n |-> n] \in Callback, Due(g, k, n)
    PROVE  /\ \A ks : k \in ks => ToSay(g, ks)'
           /\ \A h \in Clients : \A ks : ToSay(h, ks) => ToSay(h, ks)'
<1>1. /\ \A h \in Clients \ {g} : calls'[h] = calls[h]
      /\ Len(calls[g]) \in Nat /\ Len(calls'[g]) = Len(calls[g]) + 1
      /\ \A i \in 1 .. Len(calls[g]) : calls'[g][i] = calls[g][i]
      /\ calls'[g][Len(calls[g]) + 1].kind = k
  BY DueCalls
<1>2. \A i \in 1 .. Len(calls[g]) : i \in 1 .. Len(calls'[g])
  BY <1>1
<1>3. Len(calls[g]) + 1 \in 1 .. Len(calls'[g])
  BY <1>1
<1>4. \A ks : k \in ks => ToSay(g, ks)'
  BY <1>1, <1>3 DEF ToSay
<1>5. \A ks : ToSay(g, ks) => ToSay(g, ks)'
  BY <1>1, <1>2 DEF ToSay
<1>6. \A h \in Clients \ {g} : \A ks : ToSay(h, ks) => ToSay(h, ks)'
  BY <1>1 DEF ToSay
<1> QED
  BY <1>4, <1>5, <1>6

(* The callback that is made is the first: any other is still to come.     *)
LEMMA MadeSays ==
    ASSUME TypeOK, NEW g \in Clients, calls[g] # <<>>,
           Done(g) \/ Then(g, "clear") \/ Then(g, "mark"),
           NEW h \in Clients, NEW ks, ToSay(h, ks),
           h = g => Head(calls[g]).kind \notin ks
    PROVE  ToSay(h, ks)'
<1>1. CASE h # g
  <2>1. calls'[h] = calls[h]
    BY <1>1, DoneCalls, ThenCalls
  <2> QED
    BY <2>1 DEF ToSay
<1>2. CASE h = g
  <2>1. PICK i \in 1 .. Len(calls[g]) : calls[g][i].kind \in ks
    BY <1>2 DEF ToSay
  <2>2. Len(calls[g]) \in Nat \ {0} /\ i # 1
    BY <1>2, <2>1, Heads
  <2>3. CASE Done(g)
    <3>1. i - 1 \in 1 .. Len(calls[g]) - 1 /\ (i - 1) + 1 = i
      BY <2>1, <2>2
    <3>2. i - 1 \in 1 .. Len(calls'[g]) /\ calls'[g][i - 1] = calls[g][i]
      BY <2>3, <3>1, DoneCalls
    <3> QED
      BY <1>2, <2>1, <3>2 DEF ToSay
  <2>4. ASSUME NEW k \in {"clear", "mark"}, Then(g, k) PROVE ToSay(h, ks)'
    <3>1. i \in 2 .. Len(calls[g])
      BY <2>1, <2>2
    <3>2. i \in 1 .. Len(calls'[g]) /\ calls'[g][i] = calls[g][i]
      BY <2>1, <2>4, <3>1, ThenCalls
    <3> QED
      BY <1>2, <2>1, <3>2 DEF ToSay
  <2> QED
    BY <2>3, <2>4
<1> QED
  BY <1>1, <1>2

LEMMA StillPromised ==
    ASSUME NEW g, NEW k, Promised(g, k), calls'[g] = calls[g],
           state[g] = "dialling" => state'[g] = "dialling",
           inflight[g] \subseteq inflight'[g]
    PROVE  Promised(g, k)'
<1>1. \A ks : ToSay(g, ks) => ToSay(g, ks)'
  BY DEF ToSay
<1> QED
  BY <1>1 DEF Promised

(* What a caller does takes nothing back from the others, and a new wait   *)
(* is on a client that dials or took the request, or is left behind.       *)
LEMMA CallHeard ==
    ASSUME TypeOK, LockInv, WaitersInv, HeardInv, NEW c \in Callers,
           ConnectGatt(c) \/ Call(c) \/ CallerStep(c) \/ GiveUp(c)
    PROVE  WaitersInv' /\ HeardInv'
<1>0. \A d \in Callers : pc[d] # "idle" => own[d] \in Clients /\ own[d] # clients + 1
  BY AndroidAssumption DEF WaitersInv, TypeOK, Clients
<1>1. CASE ConnectGatt(c)
  <2>1. /\ clients \in Nat /\ clients' = clients + 1 /\ clients + 1 \in Clients
        /\ pc[c] = "idle" /\ UNCHANGED <<kind, reply, inflight, calls, unheard>>
    BY <1>1, AndroidAssumption DEF ConnectGatt, Goto, TypeOK, Clients, history
  <2>2. /\ pc'[c] = "dialled" /\ own'[c] = clients + 1 /\ state'[clients + 1] = "dialling"
        /\ \A d \in Callers \ {c} : pc'[d] = pc[d] /\ own'[d] = own[d]
        /\ \A g \in Clients : g # clients + 1 => state'[g] = state[g]
    BY <1>1, <2>1 DEF ConnectGatt, Goto, TypeOK
  <2>3. WaitersInv'
    BY <2>1, <2>2 DEF WaitersInv
  <2>4. Promised(own[c], kind[c])'
    BY <2>1, <2>2 DEF Promised, WaitersInv
  <2>5. ASSUME NEW d \in Callers \ {c}, ~unheard, pc[d] # "idle", reply[d] = NoReply
        PROVE  Promised(own[d], kind[d])'
    <3>1. Promised(own[d], kind[d])
      BY <2>5 DEF HeardInv
    <3>2. state'[own[d]] = state[own[d]]
      BY <1>0, <2>2, <2>5
    <3>3. own'[d] = own[d] /\ kind'[d] = kind[d]
      BY <2>1, <2>2
    <3> QED
      BY <2>1, <3>1, <3>2, <3>3, StillPromised DEF Promised, ToSay
  <2> QED
    BY <2>1, <2>2, <2>3, <2>4, <2>5 DEF HeardInv
<1>2. ASSUME NEW k \in {"services", "read"}, gatt # 0, pc'[c] = "waiting",
             own' = [own EXCEPT ![c] = gatt], kind' = [kind EXCEPT ![c] = k],
             \A d \in Callers \ {c} : pc'[d] = pc[d] /\ reply'[d] = reply[d],
             UNCHANGED <<clients, state, calls>>,
             ~unheard' => ~unheard /\ \E n : Takes(gatt, k, n),
             UNCHANGED inflight \/ \E n : Takes(gatt, k, n)
      PROVE  WaitersInv' /\ HeardInv'
  <2>1. gatt \in 1 .. clients /\ gatt \in Clients
    BY <1>2, AndroidAssumption DEF TypeOK, Clients
  <2>2. /\ own'[c] = gatt /\ kind'[c] = k
        /\ \A d \in Callers \ {c} : own'[d] = own[d] /\ kind'[d] = kind[d]
    BY <1>2 DEF TypeOK
  <2>3. WaitersInv'
    BY <1>2, <2>1, <2>2 DEF WaitersInv
  <2>4. \A h \in Clients : inflight[h] \subseteq inflight'[h]
    BY <1>2 DEF Takes, TypeOK
  <2>5. ~unheard' => \E op \in inflight'[gatt] : op.kind = k
    <3>1. PICK n : ~unheard' => Takes(gatt, k, n)
      BY <1>2
    <3>2. ~unheard' => [kind |-> k, n |-> n] \in inflight'[gatt]
      BY <2>1, <3>1 DEF Takes, TypeOK
    <3>3. [kind |-> k, n |-> n].kind = k
      OBVIOUS
    <3> QED
      BY <3>2, <3>3
  <2>6. ~unheard' => Promised(own[c], kind[c])'
    BY <2>2, <2>5 DEF Promised
  <2>7. ASSUME NEW d \in Callers \ {c}, ~unheard, pc[d] # "idle", reply[d] = NoReply
        PROVE  Promised(own[d], kind[d])'
    <3>1. Promised(own[d], kind[d]) /\ own[d] \in Clients
      BY <1>0, <2>7 DEF HeardInv
    <3>2. own'[d] = own[d] /\ kind'[d] = kind[d]
      BY <2>2
    <3> QED
      BY <1>2, <2>4, <3>1, <3>2, StillPromised DEF Promised, ToSay
  <2> QED
    BY <1>2, <2>3, <2>6, <2>7 DEF HeardInv
<1>3. CASE Call(c)
  <2>1. gatt # 0 /\ \E n : Takes(gatt, "read", n)
    BY <1>3 DEF Call
  <2>2. /\ pc'[c] = "waiting" /\ UNCHANGED <<clients, state, calls, reply, unheard>>
        /\ \A d \in Callers \ {c} : pc'[d] = pc[d]
        /\ own' = [own EXCEPT ![c] = gatt] /\ kind' = [kind EXCEPT ![c] = "read"]
    BY <1>3 DEF Call, Goto, TypeOK, history
  <2> QED
    BY <1>2, <2>1, <2>2
<1>4. CASE Discover(c)
  <2>1. /\ gatt # 0 /\ (~unheard' => ~unheard /\ \E n : Takes(gatt, "services", n))
        /\ UNCHANGED inflight \/ \E n : Takes(gatt, "services", n)
    BY <1>4 DEF Discover
  <2>2. /\ pc'[c] = "waiting" /\ UNCHANGED <<clients, state, calls>>
        /\ \A d \in Callers \ {c} : pc'[d] = pc[d] /\ reply'[d] = reply[d]
        /\ own' = [own EXCEPT ![c] = gatt] /\ kind' = [kind EXCEPT ![c] = "services"]
    BY <1>4 DEF Discover, Goto, TypeOK
  <2> QED
    BY <1>2, <2>1, <2>2
<1>5. CASE Record(c)
  <2>1. /\ UNCHANGED <<kind, own, reply, clients, state, inflight, calls, unheard>>
        /\ pc[c] = "dialled" /\ pc'[c] = "waiting" /\ \A d \in Callers \ {c} : pc'[d] = pc[d]
    BY <1>5 DEF Record, Goto, TypeOK, request, android, history
  <2>2. \A d \in Callers : pc'[d] # "idle" => pc[d] # "idle"
    BY <2>1
  <2>3. WaitersInv'
    BY <2>1, <2>2 DEF WaitersInv
  <2> QED
    BY <2>1, <2>2, <2>3 DEF HeardInv, Promised, ToSay
<1>6. CASE NoClient(c) \/ Return(c) \/ GiveUp(c)
  <2>1. /\ Goto(c, "waiting", "idle") /\ Over(c)
        /\ UNCHANGED <<clients, state, inflight, calls, unheard>>
    BY <1>6 DEF NoClient, Return, GiveUp, android, history
  <2>2. /\ pc'[c] = "idle" /\ kind'[c] = "connect"
        /\ \A d \in Callers \ {c} : /\ pc'[d] = pc[d] /\ kind'[d] = kind[d]
                                    /\ own'[d] = own[d] /\ reply'[d] = reply[d]
    BY <2>1 DEF Goto, Over, TypeOK
  <2>3. WaitersInv'
    BY <2>1, <2>2 DEF WaitersInv
  <2> QED
    BY <2>1, <2>2, <2>3 DEF HeardInv, Promised, ToSay
<1> QED
  BY <1>1, <1>3, <1>4, <1>5, <1>6 DEF CallerStep

(* An operation that is done, a link that is made or lost, has its         *)
(* callback.                                                               *)
LEMMA AndroidHeard ==
    ASSUME TypeOK, WaitersInv, HeardInv, NEW g \in Clients,
           Established(g) \/ Drop(g) \/ \E k \in Kinds : Complete(g, k)
    PROVE  WaitersInv' /\ HeardInv'
<1>1. UNCHANGED <<pc, kind, own, reply, clients, unheard>>
  BY DEF Established, Drop, Complete, request, history
<1>2. WaitersInv'
  BY <1>1 DEF WaitersInv
<1>3. SUFFICES ASSUME NEW h \in Clients, NEW k \in Kinds, Promised(h, k) PROVE Promised(h, k)'
  <2>1. \A d \in Callers : pc[d] # "idle" => own[d] \in Clients /\ kind[d] \in Kinds
    BY AndroidAssumption DEF WaitersInv, TypeOK, Clients
  <2>2. \A d \in Callers : pc[d] # "idle" /\ Promised(own[d], kind[d])
            => Promised(own[d], kind[d])'
    <3> SUFFICES ASSUME NEW d \in Callers, pc[d] # "idle", Promised(own[d], kind[d])
                 PROVE  Promised(own[d], kind[d])'
      OBVIOUS
    <3>1. PICK h \in Clients, k \in Kinds : h = own[d] /\ k = kind[d]
      BY <2>1
    <3>2. Promised(h, k)'
      BY <1>3, <3>1
    <3>3. h = own'[d] /\ k = kind'[d]
      BY <1>1, <3>1
    <3> QED
      BY <3>2, <3>3 DEF Promised, ToSay
  <2> QED
    BY <1>1, <1>2, <2>2 DEF HeardInv
<1>4. ASSUME NEW j, NEW n, [kind |-> j, n |-> n] \in Callback, Due(g, j, n)
      PROVE  (\A ks : j \in ks => ToSay(g, ks)') /\ \A ks : ToSay(h, ks) => ToSay(h, ks)'
  BY <1>4, DueSays
<1>5. CASE Established(g)
  <2>1. [kind |-> "up", n |-> 0] \in Callback /\ Due(g, "up", 0)
    BY <1>5, AndroidAssumption DEF Established, Callback
  <2>2. /\ \A ks : "up" \in ks => ToSay(g, ks)'
        /\ \A ks : ToSay(h, ks) => ToSay(h, ks)'
    BY <1>4, <2>1
  <2>3. inflight'[h] = inflight[h] /\ (h = g \/ state'[h] = state[h])
    BY <1>5 DEF Established, TypeOK
  <2> QED
    BY <1>3, <2>2, <2>3 DEF Promised
<1>6. CASE Drop(g)
  <2>1. [kind |-> "down", n |-> 0] \in Callback /\ Due(g, "down", 0)
    BY <1>6, AndroidAssumption DEF Drop, Callback
  <2>2. /\ \A ks : "down" \in ks => ToSay(g, ks)'
        /\ \A ks : ToSay(h, ks) => ToSay(h, ks)'
    BY <1>4, <2>1
  <2>3. h = g \/ (inflight'[h] = inflight[h] /\ state'[h] = state[h])
    BY <1>6 DEF Drop, TypeOK
  <2> QED
    BY <1>3, <2>2, <2>3 DEF Promised
<1>7. ASSUME NEW j \in Kinds, Complete(g, j) PROVE Promised(h, k)'
  <2>1. PICK op \in inflight[g] : /\ op.kind = j /\ inflight' = [inflight EXCEPT ![g] = @ \ {op}]
                                  /\ op = [kind |-> op.kind, n |-> op.n] /\ op \in Callback
                                  /\ Due(g, op.kind, op.n)
    BY <1>7, Completed
  <2>2. /\ \A ks : op.kind \in ks => ToSay(g, ks)'
        /\ \A ks : ToSay(h, ks) => ToSay(h, ks)'
    BY <1>4, <2>1
  <2>3. UNCHANGED state
    BY <1>7 DEF Complete
  <2>4. \A o \in inflight[h] : o \in inflight'[h] \/ (h = g /\ o = op)
    BY <2>1 DEF TypeOK
  <2> QED
    BY <1>3, <2>2, <2>3, <2>4 DEF Promised
<1> QED
  BY <1>5, <1>6, <1>7

(* A callback about the recorded client is heard by all who wait for its   *)
(* kind; one that is dropped is nobody's, as long as nobody is left.       *)
LEMMA CallbackHeard ==
    ASSUME TypeOK, WaitersInv, HeardInv, NEW g \in Clients, Callbacks(g)
    PROVE  WaitersInv' /\ HeardInv'
<1>1. /\ calls[g] # <<>> /\ UNCHANGED <<pc, kind, own, clients, state, inflight>>
      /\ (~unheard' => ~unheard)
      /\ Done(g) \/ Then(g, "clear") \/ Then(g, "mark")
  <2>1. calls[g] # <<>> /\ UNCHANGED <<pc, kind, own, clients, state, inflight>>
    BY DEF Callbacks, OnConnected, OnDisconnected, Clear, Mark, OnAnswer, Coming, request
  <2>2. Unheard(g) \/ UNCHANGED unheard
    BY DEF Callbacks, OnConnected, OnDisconnected, Clear, Mark, OnAnswer, history
  <2>3. ~unheard' => ~unheard
    BY <2>2 DEF Unheard
  <2>4. Done(g) \/ Then(g, "clear") \/ Then(g, "mark")
    BY DEF Callbacks, OnConnected, OnDisconnected, Clear, Mark, OnAnswer
  <2> QED
    BY <2>1, <2>3, <2>4
<1>2. WaitersInv'
  BY <1>1 DEF WaitersInv
<1>3. SUFFICES ASSUME NEW c \in Callers, ~unheard', pc[c] # "idle", reply'[c] = NoReply
               PROVE  Promised(own[c], kind[c])'
  BY <1>1, <1>2 DEF HeardInv
<1>4. /\ own[c] \in Clients /\ kind[c] \in Kinds /\ own'[c] = own[c] /\ kind'[c] = kind[c]
      /\ own[c] # 0 /\ pc[c] \in {"dialled", "waiting"}
  BY <1>1, <1>3, AndroidAssumption DEF WaitersInv, TypeOK, Clients
<1>5. \A n : AnswerTo(n) # NoReply /\ Failure # NoReply
  BY DEF AnswerTo, Failure, NoReply
<1>6. reply[c] = NoReply
  BY <1>3, <1>5 DEF Callbacks, OnConnected, OnDisconnected, Clear, Mark, OnAnswer, Resolve,
                    request
<1>7. Promised(own[c], kind[c])
  BY <1>1, <1>3, <1>6 DEF HeardInv
<1>8. SUFFICES ASSUME own[c] = g
               PROVE  /\ Head(calls[g]).kind \notin {kind[c], "down"}
                      /\ kind[c] = "connect" => Head(calls[g]).kind # "up"
  <2>1. ASSUME NEW ks, own[c] = g => Head(calls[g]).kind \notin ks, ToSay(own[c], ks)
        PROVE  ToSay(own[c], ks)'
    BY <1>1, <1>4, <2>1, MadeSays DEF ToSay
  <2>2. ToSay(own[c], {kind[c], "down"}) => ToSay(own[c], {kind[c], "down"})'
    BY <1>4, <1>8, <2>1 DEF ToSay
  <2>3. kind[c] = "connect" => (ToSay(own[c], {"up"}) => ToSay(own[c], {"up"})')
    BY <1>4, <1>8, <2>1
  <2> QED
    BY <1>1, <1>4, <1>7, <2>2, <2>3 DEF Promised
<1>9. CASE Clear(g) \/ Mark(g)
  BY <1>4, <1>9 DEF Clear, Mark, Coming, Kinds
<1>10. ASSUME Unheard(g) PROVE IsRecorded(g)
  BY <1>3, <1>8, <1>10 DEF Unheard
<1>11. ASSUME NEW ks, NEW what, Resolve(ks, what), what # NoReply PROVE kind[c] \notin ks
  BY <1>3, <1>4, <1>6, <1>11 DEF Resolve
<1>12. CASE OnConnected(g)
  <2>1. Head(calls[g]).kind = "up" /\ Resolve({"connect"}, AnswerTo(0))
    BY <1>10, <1>12 DEF OnConnected, Coming
  <2>2. kind[c] # "connect"
    BY <1>5, <1>11, <2>1
  <2> QED
    BY <1>4, <2>1, <2>2 DEF Kinds
<1>13. ASSUME NEW k \in Kinds, OnAnswer(g, k)
       PROVE  /\ Head(calls[g]).kind \notin {kind[c], "down"}
              /\ kind[c] = "connect" => Head(calls[g]).kind # "up"
  <2>1. Head(calls[g]).kind = k /\ Resolve({k}, AnswerTo(Head(calls[g]).n))
    BY <1>10, <1>13 DEF OnAnswer, Coming
  <2>2. kind[c] # k
    BY <1>5, <1>11, <2>1
  <2> QED
    BY <1>13, <2>1, <2>2 DEF Kinds
<1>14. CASE OnDisconnected(g)
  <2>1. Resolve(Kinds, Failure)
    BY <1>10, <1>14 DEF OnDisconnected, FailedWithLink
  <2>2. kind[c] \notin Kinds
    BY <1>5, <1>11, <2>1
  <2> QED
    BY <1>4, <2>2
<1> QED
  BY <1>9, <1>12, <1>13, <1>14 DEF Callbacks

LEMMA ForgetHeard ==
    ASSUME TypeOK, WaitersInv, HeardInv, Forget
    PROVE  WaitersInv' /\ HeardInv'
<1>1. UNCHANGED <<pc, kind, own, reply, clients>>
  BY DEF Forget
<1>2. WaitersInv'
  BY <1>1 DEF WaitersInv
<1>3. ~unheard' => \A c \in Callers : pc[c] = "idle"
  <2>1. ~unheard' => \A c \in Callers : own[c] = 0
    BY DEF Forget
  <2>2. \A c \in Callers : pc[c] # "idle" => own[c] # 0
    BY DEF WaitersInv, TypeOK
  <2> QED
    BY <2>1, <2>2
<1> QED
  BY <1>1, <1>2, <1>3 DEF HeardInv

(* A grant takes nothing from those who wait until a callback is dropped.  *)
LEMMA GrantHeard ==
    ASSUME WaitersInv, HeardInv, Grant
    PROVE  WaitersInv' /\ HeardInv'
  BY DEF Grant, request, android, history, WaitersInv, HeardInv, Promised, ToSay

LEMMA StepHeard == IInv /\ WaitersInv /\ HeardInv /\ [Next]_vars => WaitersInv' /\ HeardInv'
<1> SUFFICES ASSUME IInv, WaitersInv, HeardInv, [Next]_vars PROVE WaitersInv' /\ HeardInv'
  OBVIOUS
<1>0. TypeOK /\ LockInv
  BY DEF IInv
<1>1. ASSUME NEW c \in Callers, ConnectGatt(c) \/ Call(c) \/ CallerStep(c) \/ GiveUp(c)
      PROVE  WaitersInv' /\ HeardInv'
  BY <1>0, <1>1, CallHeard
<1>2. CASE Grant \/ Forget
  BY <1>0, <1>2, GrantHeard, ForgetHeard
<1>3. ASSUME NEW g \in Clients, Established(g) \/ Drop(g) \/ \E k \in Kinds : Complete(g, k)
      PROVE  WaitersInv' /\ HeardInv'
  BY <1>0, <1>3, AndroidHeard
<1>4. ASSUME NEW g \in Clients, Callbacks(g) PROVE WaitersInv' /\ HeardInv'
  BY <1>0, <1>4, CallbackHeard
<1>5. CASE UNCHANGED vars
  BY <1>5 DEF vars, request, android, history, WaitersInv, HeardInv, Promised, ToSay
<1> QED
  BY <1>1, <1>2, <1>3, <1>4, <1>5 DEF Next

(* Whoever waits in a slot and was handed nothing: what empties the slot,  *)
(* or fails it, is to come, unless a waiter was left behind.               *)
WaiterIsPromised ==
    ~unheard => \A c \in Callers :
        pc[c] = "waiting" /\ reply[c] = NoReply => Promised(own[c], kind[c])

(* A link that drops, an operation that is done, another client's          *)
(* connection take nothing from a waiter: its callback is to come, as long *)
(* as no callback about a client somebody waits on was dropped and no      *)
(* device forgotten under a waiter (backend.rs:123-124).                   *)
THEOREM WaiterIsHeard == Spec => []WaiterIsPromised
<1>1. Init => WaitersInv /\ HeardInv
  BY DEF Init, WaitersInv, HeardInv
<1>2. WaitersInv /\ HeardInv => WaiterIsPromised
  BY DEF HeardInv, WaiterIsPromised
<1> QED
  BY <1>1, <1>2, StepHeard, SpecIInv, PTL DEF Spec
=============================================================================
