---------------------------- MODULE BluezProofs -----------------------------
(***************************************************************************)
(* Safety of BluezBackend, for any number of calls and tasks and every     *)
(* bound. The calls: where the handler of each is, and that whoever ends   *)
(* the connection leaves none behind. The device: what the reader will     *)
(* make of all that is still on the wire is what bluetoothd holds already. *)
(***************************************************************************)
EXTENDS BluezBackend, TLAPS, SequenceTheorems

(*************************** Sequences *************************************)

(* A sequence that loses its element at i. *)
LEMMA Removed ==
    ASSUME NEW S, NEW s \in Seq(S), NEW i \in 1 .. Len(s)
    PROVE  /\ RemoveAt(s, i) \in Seq(S)
           /\ Len(s) \in Nat \ {0}
           /\ Len(RemoveAt(s, i)) = Len(s) - 1
           /\ \A j \in 1 .. Len(s) - 1 :
                RemoveAt(s, i)[j] = IF j < i THEN s[j] ELSE s[j + 1]
<1>1. Len(s) \in Nat \ {0} /\ i \in Nat /\ i <= Len(s) /\ 1 <= i
  BY LenProperties
<1> DEFINE a == SubSeq(s, 1, i - 1)
           b == SubSeq(s, i + 1, Len(s))
<1>2. /\ a \in Seq(S) /\ Len(a) = i - 1
      /\ \A j \in 1 .. i - 1 : a[j] = s[j]
  <2>1. 1 \in 1 .. Len(s) + 1 /\ i - 1 \in 1 - 1 .. Len(s)
    BY <1>1
  <2>2. a \in Seq(S)
    BY <1>1, SubSeqProperties
  <2>3. Len(a) = IF 1 <= i - 1 THEN i - 1 - 1 + 1 ELSE 0
    BY <1>1, SubSeqProperties
  <2>4. \A j \in 1 .. i - 1 : a[j] = s[1 + j - 1]
    BY <1>1, SubSeqProperties
  <2> QED
    BY <1>1, <2>2, <2>3, <2>4
<1>3. /\ b \in Seq(S) /\ Len(b) = Len(s) - i
      /\ \A j \in 1 .. Len(s) - i : b[j] = s[i + j]
  <2>2. b \in Seq(S)
    BY <1>1, SubSeqProperties
  <2>3. Len(b) = IF i + 1 <= Len(s) THEN Len(s) - (i + 1) + 1 ELSE 0
    BY <1>1, SubSeqProperties
  <2>4. \A j \in 1 .. Len(s) - (i + 1) + 1 : b[j] = s[(i + 1) + j - 1]
    BY <1>1, SubSeqProperties
  <2> QED
    BY <1>1, <2>2, <2>3, <2>4
<1>4. /\ a \o b \in Seq(S) /\ Len(a \o b) = Len(a) + Len(b)
      /\ \A j \in 1 .. Len(a) + Len(b) :
            (a \o b)[j] = IF j <= Len(a) THEN a[j] ELSE b[j - Len(a)]
  BY <1>2, <1>3, ConcatProperties
<1>5. RemoveAt(s, i) = a \o b
  BY DEF RemoveAt
<1>6. ASSUME NEW j \in 1 .. Len(s) - 1
      PROVE  (a \o b)[j] = IF j < i THEN s[j] ELSE s[j + 1]
  <2> HIDE DEF a, b
  <2>1. j \in 1 .. Len(a) + Len(b)
    BY <1>1, <1>2, <1>3
  <2>2. CASE j < i
    BY <1>1, <1>2, <1>4, <2>1, <2>2
  <2>3. CASE ~(j < i)
    <3>1. j - Len(a) \in 1 .. Len(s) - i /\ i + (j - Len(a)) = j + 1 /\ ~(j <= Len(a))
      BY <1>1, <1>2, <2>3
    <3>2. (a \o b)[j] = b[j - Len(a)]
      BY <1>4, <2>1, <3>1
    <3> QED
      BY <1>3, <2>3, <3>1, <3>2
  <2> QED
    BY <2>2, <2>3
<1> HIDE DEF a, b
<1> QED
  BY <1>1, <1>2, <1>3, <1>4, <1>5, <1>6

(* One message, or two, at the back of a sequence. *)
LEMMA AtTheBack ==
    ASSUME NEW S, NEW s \in Seq(S), NEW x \in S, NEW y \in S
    PROVE  /\ s \o <<x>> = Append(s, x)
           /\ s \o <<x, y>> = Append(Append(s, x), y)
           /\ Append(s, x) \in Seq(S)
           /\ Append(Append(s, x), y) \in Seq(S)
<1>1. /\ Append(s, x) \in Seq(S) /\ Append(Append(s, x), y) \in Seq(S)
      /\ <<x>> \in Seq(S) /\ <<x, y>> \in Seq(S)
  BY AppendProperties
<1>2. s \o <<x>> = Append(s, x)
  BY <1>1, ConcatProperties, AppendProperties, SeqEqual
<1>3. s \o <<x, y>> = Append(Append(s, x), y)
  <2>1. /\ s \o <<x, y>> \in Seq(S)
        /\ Len(s \o <<x, y>>) = Len(s) + 2
        /\ \A i \in 1 .. Len(s) + 2 : (s \o <<x, y>>)[i] =
              IF i <= Len(s) THEN s[i] ELSE <<x, y>>[i - Len(s)]
    BY <1>1, ConcatProperties
  <2>2. /\ Len(Append(s, x)) = Len(s) + 1
        /\ \A i \in 1 .. Len(s) + 1 : Append(s, x)[i] = IF i <= Len(s) THEN s[i] ELSE x
    BY AppendProperties
  <2>3. /\ Len(Append(Append(s, x), y)) = Len(s) + 2
        /\ \A i \in 1 .. Len(s) + 2 : Append(Append(s, x), y)[i] =
              IF i <= Len(s) + 1 THEN Append(s, x)[i] ELSE y
    BY <1>1, <2>2, AppendProperties
  <2>4. \A i \in 1 .. Len(s) + 2 : (s \o <<x, y>>)[i] = Append(Append(s, x), y)[i]
    BY <2>1, <2>2, <2>3
  <2> QED
    BY <1>1, <2>1, <2>3, <2>4, SeqEqual
<1> QED
  BY <1>1, <1>2, <1>3

LEMMA TwoTogether ==
    ASSUME NEW x, NEW y
    PROVE  <<x>> \o <<y>> = <<x, y>>
<1>1. <<x>> \in Seq({x, y}) /\ <<y>> \in Seq({x, y}) /\ <<x, y>> \in Seq({x, y})
  OBVIOUS
<1>2. /\ <<x>> \o <<y>> \in Seq({x, y}) /\ Len(<<x>> \o <<y>>) = 2
      /\ \A i \in 1 .. 2 :
            (<<x>> \o <<y>>)[i] = IF i <= 1 THEN <<x>>[i] ELSE <<y>>[i - 1]
  BY <1>1, ConcatProperties
<1>3. \A i \in 1 .. 2 : (<<x>> \o <<y>>)[i] = <<x, y>>[i]
  BY <1>2
<1> QED
  BY <1>1, <1>2, <1>3, SeqEqual

(*************************** The device ************************************)

Message ==
    [kind : {"reply"}, task : Tasks, says : {"none", "ok", "error"}, link : Ups \cup {NoLink}]
    \cup
    [kind : {"connected", "disconnected", "resolved", "changed", "seen"},
     task : {NoTask}, says : {"none"}, link : {NoLink}]

DeviceTyped == DeviceTypeOK /\ wire \in Seq(Message)

(* What the reader holds of the link and the tree, and what it holds after *)
(* a message of a kind (Inner::handle, mark_services_changed).             *)
View(on, once, moved) == [on |-> on, once |-> once, moved |-> moved]

After(v, k) ==
    View(IF k = "connected" THEN TRUE ELSE IF k = "disconnected" THEN FALSE ELSE v.on,
         IF k = "resolved" THEN TRUE ELSE IF k = "disconnected" THEN FALSE ELSE v.once,
         IF k \in {"changed", "resolved"} /\ v.once THEN v.moved + 1 ELSE v.moved)

(* Reading all of s takes the reader from v to w. *)
Leads(s, v, w) ==
    \E r : /\ r[0] = v /\ r[Len(s)] = w
           /\ \A i \in 1 .. Len(s) : r[i] = After(r[i - 1], s[i].kind)

(* What is on the wire leads to what bluetoothd holds. Of the link that is *)
(* so as long as none has ended under a task that was connecting: such a   *)
(* task sets the record by itself.                                         *)
WireLeads ==
    \E on, up \in BOOLEAN :
        /\ Leads(wire, View(on, resolvedOnce, gen), View(up, resolved, changes))
        /\ ~crossed => on = connected /\ up = linked

(* What such a task is told is so, until a link ends. *)
ToldIsSo ==
    ~crossed => \A t \in Tasks : /\ wait[t] # "dropped"
                                 /\ wait[t] = "told" => connected

DeviceInv == DeviceTyped /\ WireLeads /\ ToldIsSo

-----------------------------------------------------------------------------
(* Nothing to read leads nowhere. *)
LEMMA LeadsNowhere ==
    ASSUME NEW v, NEW w
    PROVE  Leads(<<>>, v, w) <=> v = w
<1>1. Len(<<>>) = 0
  OBVIOUS
<1>2. ASSUME Leads(<<>>, v, w) PROVE v = w
  BY <1>1, <1>2 DEF Leads
<1>3. ASSUME v = w PROVE Leads(<<>>, v, w)
  <2> DEFINE r == [i \in {0} |-> v]
  <2>1. r[0] = v /\ 1 .. Len(<<>>) = {}
    BY <1>1
  <2> HIDE DEF r
  <2>2. /\ r[0] = v /\ r[Len(<<>>)] = w
        /\ \A i \in 1 .. Len(<<>>) : r[i] = After(r[i - 1], <<>>[i].kind)
    BY <1>1, <1>3, <2>1
  <2> QED
    BY <2>2 DEF Leads
<1> QED
  BY <1>2, <1>3

(* One message read. *)
LEMMA LeadsOn ==
    ASSUME NEW S, NEW s \in Seq(S), s # <<>>, NEW v, NEW w, Leads(s, v, w)
    PROVE  Leads(Tail(s), After(v, Head(s).kind), w)
<1>1. PICK r : /\ r[0] = v /\ r[Len(s)] = w
               /\ \A i \in 1 .. Len(s) : r[i] = After(r[i - 1], s[i].kind)
  BY DEF Leads
<1>2. /\ Len(s) \in Nat \ {0} /\ Len(Tail(s)) = Len(s) - 1 /\ Head(s) = s[1]
      /\ \A i \in 1 .. Len(s) - 1 : Tail(s)[i] = s[i + 1]
  <2>1. Len(s) \in Nat \ {0}
    BY EmptySeq, LenProperties
  <2> QED
    BY <2>1, HeadTailProperties
<1> DEFINE q == [i \in 0 .. Len(s) - 1 |-> r[i + 1]]
<1>3. q[0] = After(v, Head(s).kind)
  <2>1. q[0] = r[1] /\ r[1] = After(r[1 - 1], s[1].kind)
    BY <1>1, <1>2
  <2> QED
    BY <1>1, <1>2, <2>1
<1>4. q[Len(Tail(s))] = w
  BY <1>1, <1>2
<1>5. ASSUME NEW i \in 1 .. Len(Tail(s))
      PROVE  q[i] = After(q[i - 1], Tail(s)[i].kind)
  <2>1. i + 1 \in 1 .. Len(s) /\ i \in 0 .. Len(s) - 1 /\ i - 1 \in 0 .. Len(s) - 1
    BY <1>2
  <2>2. q[i] = r[i + 1] /\ q[i - 1] = r[i] /\ Tail(s)[i] = s[i + 1]
    BY <1>2, <2>1
  <2>3. r[i + 1] = After(r[i], s[i + 1].kind)
    <3>1. r[i + 1] = After(r[(i + 1) - 1], s[i + 1].kind) /\ (i + 1) - 1 = i
      BY <1>1, <2>1
    <3> QED
      BY <3>1
  <2> QED
    BY <2>2, <2>3
<1> HIDE DEF q
<1> QED
  BY <1>3, <1>4, <1>5 DEF Leads

(* One message sent. *)
LEMMA LeadsFurther ==
    ASSUME NEW S, NEW s \in Seq(S), NEW m \in S, NEW v, NEW w, Leads(s, v, w)
    PROVE  Leads(Append(s, m), v, After(w, m.kind))
<1>1. PICK r : /\ r[0] = v /\ r[Len(s)] = w
               /\ \A i \in 1 .. Len(s) : r[i] = After(r[i - 1], s[i].kind)
  BY DEF Leads
<1>2. /\ Len(s) \in Nat /\ Len(Append(s, m)) = Len(s) + 1
      /\ \A i \in 1 .. Len(s) : Append(s, m)[i] = s[i]
      /\ Append(s, m)[Len(s) + 1] = m
  BY LenProperties, AppendProperties
<1> DEFINE q == [i \in 0 .. Len(s) + 1 |-> IF i <= Len(s) THEN r[i] ELSE After(w, m.kind)]
<1>3. q[0] = v /\ q[Len(Append(s, m))] = After(w, m.kind) /\ q[Len(s)] = w
  BY <1>1, <1>2
<1>4. ASSUME NEW i \in 1 .. Len(Append(s, m))
      PROVE  q[i] = After(q[i - 1], Append(s, m)[i].kind)
  <2>1. CASE i = Len(s) + 1
    <3>1. i - 1 = Len(s) /\ q[i] = After(w, m.kind) /\ Append(s, m)[i] = m
      BY <1>2, <2>1
    <3> QED
      BY <1>3, <3>1
  <2>2. CASE i # Len(s) + 1
    <3>1. i \in 1 .. Len(s) /\ i - 1 \in 0 .. Len(s) + 1 /\ i - 1 <= Len(s)
      BY <1>2, <2>2
    <3>2. q[i] = r[i] /\ q[i - 1] = r[i - 1] /\ Append(s, m)[i] = s[i]
      BY <1>2, <3>1
    <3> QED
      BY <1>1, <3>1, <3>2
  <2> QED
    BY <2>1, <2>2
<1> HIDE DEF q
<1> QED
  BY <1>3, <1>4 DEF Leads

(* A reply changes neither, and may as well not be read. *)
LEMMA ReplyChangesNothing ==
    ASSUME NEW v, NEW a, NEW b, NEW c, v = View(a, b, c)
    PROVE  After(v, "reply") = v
<1>1. v.on = a /\ v.once = b /\ v.moved = c
  BY DEF View
<1>2. After(v, "reply") = View(v.on, v.once, v.moved)
  BY DEF After
<1> QED
  BY <1>1, <1>2

LEMMA LeadsWithout ==
    ASSUME NEW S, NEW s \in Seq(S), NEW i \in 1 .. Len(s), s[i].kind = "reply",
           NEW a, NEW b, NEW c, NEW w, Leads(s, View(a, b, c), w)
    PROVE  Leads(RemoveAt(s, i), View(a, b, c), w)
<1>1. PICK r : /\ r[0] = View(a, b, c) /\ r[Len(s)] = w
               /\ \A j \in 1 .. Len(s) : r[j] = After(r[j - 1], s[j].kind)
  BY DEF Leads
<1>2. /\ Len(s) \in Nat \ {0} /\ Len(RemoveAt(s, i)) = Len(s) - 1
      /\ \A j \in 1 .. Len(s) - 1 : RemoveAt(s, i)[j] = IF j < i THEN s[j] ELSE s[j + 1]
      /\ i \in Nat /\ 1 <= i /\ i <= Len(s)
  <2>1. /\ Len(s) \in Nat \ {0} /\ Len(RemoveAt(s, i)) = Len(s) - 1
        /\ \A j \in 1 .. Len(s) - 1 : RemoveAt(s, i)[j] = IF j < i THEN s[j] ELSE s[j + 1]
    BY Removed, Zenon
  <2> QED
    BY <2>1
<1>3. r[i] = r[i - 1]
  <2>1. r[i] = After(r[i - 1], "reply")
    BY <1>1
  <2>2. \E x, y, z : r[i - 1] = View(x, y, z)
    <3>1. CASE i = 1
      BY <1>1, <3>1
    <3>2. CASE i # 1
      <4>1. i - 1 \in 1 .. Len(s)
        BY <1>2, <3>2
      <4>2. r[i - 1] = After(r[(i - 1) - 1], s[i - 1].kind)
        BY <1>1, <4>1
      <4> QED
        BY <4>2 DEF After
    <3> QED
      BY <3>1, <3>2
  <2> QED
    BY <2>1, <2>2, ReplyChangesNothing
<1> DEFINE q == [j \in 0 .. Len(s) - 1 |-> IF j < i THEN r[j] ELSE r[j + 1]]
<1>4. q[0] = View(a, b, c)
  BY <1>1, <1>2
<1>5. q[Len(s) - 1] = w
  <2>1. Len(s) - 1 \in 0 .. Len(s) - 1
    BY <1>2
  <2>2. CASE i = Len(s)
    <3>1. q[Len(s) - 1] = r[i - 1]
      BY <1>2, <2>1, <2>2
    <3> QED
      BY <1>1, <1>3, <2>2, <3>1
  <2>3. CASE i # Len(s)
    <3>1. ~(Len(s) - 1 < i) /\ (Len(s) - 1) + 1 = Len(s)
      BY <1>2, <2>3
    <3> QED
      BY <1>1, <2>1, <3>1
  <2> QED
    BY <2>2, <2>3
<1>6. ASSUME NEW j \in 1 .. Len(s) - 1
      PROVE  q[j] = After(q[j - 1], RemoveAt(s, i)[j].kind)
  <2>1. /\ j \in 0 .. Len(s) - 1 /\ j - 1 \in 0 .. Len(s) - 1
        /\ j \in 1 .. Len(s) /\ j + 1 \in 1 .. Len(s)
        /\ (j + 1) - 1 = j /\ (j - 1) + 1 = j
    <3>1. Len(s) \in Nat /\ j \in Nat /\ 1 <= j /\ j <= Len(s) - 1
      BY <1>2
    <3> QED
      BY <3>1
  <2>2. CASE j < i
    <3>1. q[j] = r[j] /\ q[j - 1] = r[j - 1] /\ RemoveAt(s, i)[j] = s[j]
      BY <1>2, <2>1, <2>2
    <3> QED
      BY <1>1, <2>1, <3>1
  <2>3. CASE ~(j < i)
    <3>1. q[j] = r[j + 1] /\ RemoveAt(s, i)[j] = s[j + 1]
      BY <1>2, <2>1, <2>3
    <3>2. q[j - 1] = r[j]
      <4>1. CASE j = i
        BY <1>2, <1>3, <2>1, <4>1
      <4>2. CASE j # i
        <5>1. ~(j - 1 < i)
          BY <1>2, <2>3, <4>2
        <5> QED
          BY <2>1, <5>1
      <4> QED
        BY <4>1, <4>2
    <3>3. r[j + 1] = After(r[j], s[j + 1].kind)
      <4>1. r[j + 1] = After(r[(j + 1) - 1], s[j + 1].kind)
        BY <1>1, <2>1
      <4> QED
        BY <2>1, <4>1
    <3> QED
      BY <3>1, <3>2, <3>3
  <2> QED
    BY <2>2, <2>3
<1> HIDE DEF q
<1>7. /\ q[0] = View(a, b, c) /\ q[Len(RemoveAt(s, i))] = w
      /\ \A j \in 1 .. Len(RemoveAt(s, i)) : q[j] = After(q[j - 1], RemoveAt(s, i)[j].kind)
  BY <1>2, <1>4, <1>5, <1>6
<1> QED
  BY <1>7 DEF Leads

(* What each kind of message does to what the reader holds. *)
LEMMA AfterEach ==
    ASSUME NEW a, NEW b \in BOOLEAN, NEW c \in Nat
    PROVE  /\ After(View(a, b, c), "connected") = View(TRUE, b, c)
           /\ After(View(a, b, c), "disconnected") = View(FALSE, FALSE, c)
           /\ After(View(a, b, c), "resolved") = View(a, TRUE, IF b THEN c + 1 ELSE c)
           /\ After(View(a, b, c), "changed") = View(a, b, IF b THEN c + 1 ELSE c)
           /\ After(View(a, b, c), "seen") = View(a, b, c)
           /\ After(View(a, b, c), "reply") = View(a, b, c)
<1> DEFINE v == View(a, b, c)
<1>1. v.on = a /\ v.once = b /\ v.moved = c
  BY DEF View
<1> HIDE DEF v
<1>2. After(v, "connected") = View(TRUE, v.once, v.moved)
  BY DEF After
<1>3. After(v, "disconnected") = View(FALSE, FALSE, v.moved)
  BY DEF After
<1>4. After(v, "resolved") = View(v.on, TRUE, IF v.once THEN v.moved + 1 ELSE v.moved)
  BY DEF After
<1>5. After(v, "changed") = View(v.on, v.once, IF v.once THEN v.moved + 1 ELSE v.moved)
  BY DEF After
<1>6. /\ After(v, "seen") = View(v.on, v.once, v.moved)
      /\ After(v, "reply") = View(v.on, v.once, v.moved)
  BY DEF After
<1>7. v = View(a, b, c)
  BY DEF v
<1> QED
  BY <1>1, <1>2, <1>3, <1>4, <1>5, <1>6, <1>7

LEMMA Messages ==
    /\ \A k \in {"connected", "disconnected", "resolved", "changed", "seen"} :
          Signal(k) \in Message /\ Signal(k).kind = k
    /\ \A t \in Tasks, says \in {"none", "ok", "error"}, l \in Ups \cup {NoLink} :
          Reply(t, says, l) \in Message /\ Reply(t, says, l).kind = "reply"
<1>1. \A k \in {"connected", "disconnected", "resolved", "changed", "seen"} :
         Signal(k) = [kind |-> k, task |-> NoTask, says |-> "none", link |-> NoLink]
  BY DEF Signal, Reply
<1> QED
  BY <1>1 DEF Reply, Message

(* One message, or two, that bluetoothd sends. *)
LEMMA SendsOne ==
    ASSUME DeviceTyped, NEW m \in Message, wire' = wire \o <<m>>,
           NEW v, NEW w, Leads(wire, v, w)
    PROVE  wire' \in Seq(Message) /\ Leads(wire', v, After(w, m.kind))
<1>1. wire \in Seq(Message) /\ wire' = Append(wire, m) /\ wire' \in Seq(Message)
  BY AtTheBack DEF DeviceTyped
<1> QED
  BY <1>1, LeadsFurther

LEMMA SendsTwo ==
    ASSUME DeviceTyped, NEW m \in Message, NEW n \in Message, wire' = wire \o <<m, n>>,
           NEW v, NEW w, Leads(wire, v, w)
    PROVE  /\ wire' \in Seq(Message)
           /\ Leads(wire', v, After(After(w, m.kind), n.kind))
<1>1. /\ wire \in Seq(Message) /\ Append(wire, m) \in Seq(Message)
      /\ wire' = Append(Append(wire, m), n) /\ wire' \in Seq(Message)
  BY AtTheBack DEF DeviceTyped
<1>2. Leads(Append(wire, m), v, After(w, m.kind))
  BY <1>1, LeadsFurther
<1> QED
  BY <1>1, <1>2, LeadsFurther

-----------------------------------------------------------------------------
LEMMA InitDeviceInv == DeviceInit => DeviceInv
<1> SUFFICES ASSUME DeviceInit PROVE DeviceInv
  OBVIOUS
<1>1. DeviceTyped
  <2>1. wire \in Seq(Message)
    BY EmptySeq DEF DeviceInit
  <2>2. DeviceTypeOK
    <3>1. 0 \in 0 .. MaxUps /\ 0 \in 0 .. MaxChanges /\ 0 \in 0 .. MaxSights
      BY DeviceAssumption
    <3>2. ups \in 0 .. MaxUps /\ changes \in 0 .. MaxChanges /\ sights \in 0 .. MaxSights
      BY <3>1 DEF DeviceInit
    <3>3. /\ wait \in [Tasks -> {"none", "filed", "told", "dropped"}]
          /\ step \in [Tasks -> {"idle"} \cup Connecting \cup Acquiring \cup Scanning]
          /\ reply \in [Tasks -> {"none", "ok", "error"}]
          /\ fd \in [Tasks -> Ups \cup {NoLink}]
          /\ asked \in [Tasks -> {"nothing", "connect", "acquire", "scan"}]
      BY DEF DeviceInit
    <3>4. /\ connected \in BOOLEAN /\ gen \in Nat /\ resolvedOnce \in BOOLEAN
          /\ socket \in Ups \cup {NoLink} /\ holder \in Tasks \cup {NoTask}
          /\ watching \in BOOLEAN /\ linked \in BOOLEAN /\ resolved \in BOOLEAN
          /\ job \in Jobs /\ crossed \in BOOLEAN /\ refuses \in BOOLEAN
      BY DEF DeviceInit
    <3> QED
      BY <3>2, <3>3, <3>4 DEF DeviceTypeOK
  <2> QED
    BY <2>1, <2>2 DEF DeviceTyped
<1>2. WireLeads
  <2>1. /\ wire = <<>> /\ resolvedOnce = FALSE /\ gen = 0 /\ resolved = FALSE
        /\ changes = 0 /\ connected = FALSE /\ linked = FALSE
    BY DEF DeviceInit
  <2>2. Leads(wire, View(FALSE, resolvedOnce, gen), View(FALSE, resolved, changes))
    BY <2>1, LeadsNowhere
  <2> QED
    BY <2>1, <2>2 DEF WireLeads
<1>3. ToldIsSo
  BY DEF DeviceInit, ToldIsSo
<1> QED
  BY <1>1, <1>2, <1>3 DEF DeviceInv

(* The steps of a task leave what is on its way alone, but for a reply     *)
(* that nobody waits for any more.                                         *)
LEMMA TaskTyped ==
    ASSUME DeviceTyped, NEW t \in Tasks, TaskStep(t)
    PROVE  DeviceTyped'
<1>1. DeviceTypeOK /\ wire \in Seq(Message) /\ UNCHANGED fixed
  BY DEF DeviceTyped, TaskStep, ConnectStep, Connect, Register, AskConnect, ConnectRefused,
         ConnectTaken, Established, ConnectReturns, WantSocket, AskSocket, NoSocket,
         KeepSocket, Watch, Scan, Scanned
<1>2. CASE Connect(t) \/ Register(t) \/ AskConnect(t) \/ ConnectRefused(t)
  <2>1. DeviceTypeOK'
    <3>1. CASE Connect(t)
      BY <1>1, <3>1 DEF DeviceTypeOK, Connecting, Connect, Goes, deviceRecord, bluetoothd, fixed
    <3>2. CASE Register(t)
      BY <1>1, <3>2 DEF DeviceTypeOK, Connecting, Register, Goes, deviceRecord, bluetoothd, fixed
    <3>3. CASE AskConnect(t)
      BY <1>1, <3>3 DEF DeviceTypeOK, Connecting, AskConnect, Goes, Asks, deviceRecord, fixed
    <3>4. CASE ConnectRefused(t)
      BY <1>1, <3>4 DEF DeviceTypeOK, Connecting, ConnectRefused, Goes, Answered, Unregisters,
         deviceRecord, bluetoothd, fixed
    <3> QED
      BY <1>2, <3>1, <3>2, <3>3, <3>4
  <2> QED
    BY <1>1, <1>2, <2>1 DEF DeviceTyped, Connect, Register, AskConnect, ConnectRefused,
       bluetoothd
<1>3. CASE ConnectTaken(t) \/ Established(t) \/ ConnectReturns(t)
  <2>1. DeviceTypeOK'
    <3>1. CASE ConnectTaken(t)
      BY <1>1, <3>1 DEF DeviceTypeOK, ConnectTaken, Goes, Answered, Connecting,
         deviceRecord, bluetoothd, fixed
    <3>2. CASE Established(t)
      BY <1>1, <3>2 DEF DeviceTypeOK, Established, Goes, Connecting, deviceRecord,
         bluetoothd, fixed
    <3>3. CASE ConnectReturns(t)
      BY <1>1, <3>3 DEF DeviceTypeOK, ConnectReturns, Goes, Unregisters,
         deviceRecord, bluetoothd, fixed
    <3> QED
      BY <1>3, <3>1, <3>2, <3>3
  <2> QED
    BY <1>1, <1>3, <2>1 DEF DeviceTyped, ConnectTaken, Established, ConnectReturns, bluetoothd
<1>4. CASE WantSocket(t) \/ AskSocket(t) \/ NoSocket(t)
  <2>1. DeviceTypeOK'
    BY <1>1, <1>4 DEF DeviceTypeOK, WantSocket, AskSocket, NoSocket, Goes, Asks, Answered,
       Acquiring, deviceRecord, bluetoothd, fixed
  <2> QED
    BY <1>1, <1>4, <2>1 DEF DeviceTyped, WantSocket, AskSocket, NoSocket, bluetoothd
<1>5. CASE KeepSocket(t) \/ Watch(t) \/ Scan(t)
  <2>1. DeviceTypeOK'
    <3>1. CASE KeepSocket(t)
      BY <1>1, <3>1 DEF DeviceTypeOK, KeepSocket, Goes, Answered, deviceRecord,
         bluetoothd, fixed
    <3>2. CASE Watch(t)
      BY <1>1, <3>2 DEF DeviceTypeOK, Watch, Goes, Scanning, deviceRecord,
         bluetoothd, fixed
    <3>3. CASE Scan(t)
      BY <1>1, <3>3 DEF DeviceTypeOK, Scan, Goes, Asks, Scanning, deviceRecord,
         bluetoothd, fixed
    <3> QED
      BY <1>5, <3>1, <3>2, <3>3
  <2> QED
    BY <1>1, <1>5, <2>1 DEF DeviceTyped, KeepSocket, Watch, Scan, bluetoothd
<1>6. CASE Scanned(t)
  <2>1. DeviceTypeOK'
    BY <1>1, <1>6 DEF DeviceTypeOK, Scanned, Goes, Answered, deviceRecord, fixed
  <2>2. wire' = wire \/ \E i \in 1 .. Len(wire) : wire' = RemoveAt(wire, i)
    BY <1>1, <1>6 DEF Scanned
  <2>3. wire' \in Seq(Message)
    BY <1>1, <2>2, Removed
  <2> QED
    BY <2>1, <2>3 DEF DeviceTyped
<1> QED
  BY <1>2, <1>3, <1>4, <1>5, <1>6 DEF TaskStep, ConnectStep

(* A task that connects sets the record to what it has been told, which is *)
(* so already unless a link has ended under it (connect).                  *)
LEMMA TaskLeads ==
    ASSUME DeviceInv, NEW t \in Tasks, TaskStep(t)
    PROVE  WireLeads' /\ ToldIsSo'
<1>1. /\ DeviceTypeOK /\ wire \in Seq(Message) /\ WireLeads /\ ToldIsSo
      /\ wait \in [Tasks -> {"none", "filed", "told", "dropped"}]
  BY DEF DeviceInv, DeviceTyped, DeviceTypeOK
<1>2. UNCHANGED <<resolvedOnce, gen, linked, resolved, changes, crossed>>
  BY DEF TaskStep, ConnectStep, Connect, Register, AskConnect, ConnectRefused,
         ConnectTaken, Established, ConnectReturns, WantSocket, AskSocket, NoSocket,
         KeepSocket, Watch, Scan, Scanned, deviceRecord, bluetoothd
<1>3. ~crossed => connected' = connected
  <2>1. CASE Established(t)
    <3> SUFFICES ASSUME ~crossed PROVE connected' = connected
      OBVIOUS
    <3>1. wait[t] = "told" /\ connected' = TRUE
      BY <1>1, <2>1 DEF Established, ToldIsSo
    <3>2. connected
      BY <1>1, <3>1 DEF ToldIsSo
    <3> QED
      BY <1>1, <3>1, <3>2 DEF DeviceTypeOK
  <2>2. CASE ~Established(t)
    BY <2>2 DEF TaskStep, ConnectStep, Connect, Register, AskConnect, ConnectRefused,
       ConnectTaken, ConnectReturns, WantSocket, AskSocket, NoSocket, KeepSocket, Watch,
       Scan, Scanned, deviceRecord
  <2> QED
    BY <2>1, <2>2
<1>4. ToldIsSo'
  <2>1. \A u \in Tasks : wait'[u] = wait[u] \/ wait'[u] \in {"none", "filed"}
    BY <1>1 DEF TaskStep, ConnectStep, Connect, Register, AskConnect, ConnectRefused,
       ConnectTaken, Established, ConnectReturns, WantSocket, AskSocket, NoSocket,
       KeepSocket, Watch, Scan, Scanned, Unregisters
  <2> QED
    BY <1>1, <1>2, <1>3, <2>1 DEF ToldIsSo
<1>5. WireLeads'
  <2>1. PICK on \in BOOLEAN, up \in BOOLEAN :
           /\ Leads(wire, View(on, resolvedOnce, gen), View(up, resolved, changes))
           /\ ~crossed => on = connected /\ up = linked
    BY <1>1 DEF WireLeads
  <2>2. CASE UNCHANGED wire
    <3>1. Leads(wire', View(on, resolvedOnce', gen'), View(up, resolved', changes'))
      BY <1>2, <2>1, <2>2
    <3> QED
      BY <1>2, <1>3, <2>1, <3>1 DEF WireLeads
  <2>3. CASE \E i \in 1 .. Len(wire) : wire[i].task = t /\ wire' = RemoveAt(wire, i)
    <3>1. PICK i \in 1 .. Len(wire) : wire[i].task = t /\ wire' = RemoveAt(wire, i)
      BY <2>3
    <3>2. wire[i].kind = "reply"
      <4>1. wire[i] \in Message
        BY <1>1, ElementOfSeq
      <4> QED
        BY <3>1, <4>1, DeviceAssumption DEF Message
    <3>3. Leads(wire', View(on, resolvedOnce', gen'), View(up, resolved', changes'))
      BY <1>1, <1>2, <2>1, <3>1, <3>2, LeadsWithout
    <3> QED
      BY <1>2, <1>3, <2>1, <3>3 DEF WireLeads
  <2> QED
    BY <1>1, <2>2, <2>3
       DEF TaskStep, ConnectStep, Connect, Register, AskConnect, ConnectRefused,
           ConnectTaken, Established, ConnectReturns, WantSocket, AskSocket, NoSocket,
           KeepSocket, Watch, Scan, Scanned, bluetoothd
<1> QED
  BY <1>4, <1>5

-----------------------------------------------------------------------------
(* The reader takes the first message, and does with it what After says.   *)
LEMMA ReaderTyped ==
    ASSUME DeviceTyped, ReaderNext
    PROVE  /\ DeviceTyped'
           /\ wire # <<>> /\ wire' = Tail(wire) /\ Head(wire) \in Message
           /\ UNCHANGED <<linked, resolved, changes>>
<1>1. /\ wire # <<>> /\ wire' = Tail(wire)
      /\ UNCHANGED <<asked, linked, resolved, ups, changes, sights, fixed, step, holder,
                     watching>>
  BY DEF ReaderNext, OnConnected, OnDisconnected, OnServicesResolved, OnServicesChanged,
         OnDeviceSeen, OnReply, Reads, tasks
<1>2. DeviceTypeOK /\ wire \in Seq(Message)
  BY DEF DeviceTyped
<1>3. wire' \in Seq(Message) /\ Head(wire) \in Message
  BY <1>1, <1>2, HeadTailProperties
<1>4. CASE OnConnected \/ OnDisconnected \/ OnDeviceSeen
  <2>1. DeviceTypeOK'
    <3>1. CASE OnConnected
      BY <1>1, <1>2, <3>1 DEF DeviceTypeOK, OnConnected, End, tasks, fixed, deviceRecord
    <3>2. CASE OnDisconnected
      BY <1>1, <1>2, <3>2 DEF DeviceTypeOK, OnDisconnected, End, tasks, fixed, deviceRecord
    <3>3. CASE OnDeviceSeen
      BY <1>1, <1>2, <3>3 DEF DeviceTypeOK, OnDeviceSeen, tasks, fixed, deviceRecord
    <3> QED
      BY <1>4, <3>1, <3>2, <3>3
  <2> QED
    BY <1>1, <1>3, <2>1 DEF DeviceTyped
<1>5. CASE OnServicesResolved \/ OnServicesChanged
  <2>1. gen' \in Nat /\ resolvedOnce' \in BOOLEAN
    <3>1. gen \in Nat /\ resolvedOnce \in BOOLEAN
      BY <1>2 DEF DeviceTypeOK
    <3>2. /\ gen' = gen \/ gen' = gen + 1
          /\ resolvedOnce' = TRUE \/ resolvedOnce' = resolvedOnce
      BY <1>5 DEF OnServicesResolved, OnServicesChanged, MarksChange
    <3>3. gen' \in Nat
      BY <3>1, <3>2
    <3>4. resolvedOnce' \in BOOLEAN
      BY <3>1, <3>2
    <3> QED
      BY <3>3, <3>4
  <2>2. DeviceTypeOK'
    BY <1>1, <1>2, <1>5, <2>1 DEF DeviceTypeOK, OnServicesResolved, OnServicesChanged,
       tasks, fixed
  <2> QED
    BY <1>1, <1>3, <2>2 DEF DeviceTyped
<1>6. CASE OnReply
  <2>1. /\ Head(wire).says \in {"none", "ok", "error"}
        /\ Head(wire).link \in Ups \cup {NoLink}
    BY <1>3 DEF Message
  <2>2. /\ reply' \in [Tasks -> {"none", "ok", "error"}]
        /\ fd' \in [Tasks -> Ups \cup {NoLink}]
    BY <1>2, <1>6, <2>1 DEF DeviceTypeOK, OnReply
  <2>3. DeviceTypeOK'
    BY <1>1, <1>2, <1>6, <2>2 DEF DeviceTypeOK, OnReply, deviceRecord, fixed
  <2> QED
    BY <1>1, <1>3, <2>3 DEF DeviceTyped
<1> QED
  BY <1>1, <1>3, <1>4, <1>5, <1>6 DEF ReaderNext

LEMMA ReaderLeads ==
    ASSUME DeviceInv, ReaderNext
    PROVE  WireLeads' /\ ToldIsSo'
<1>1. /\ DeviceTypeOK /\ wire \in Seq(Message) /\ WireLeads /\ ToldIsSo
      /\ gen \in Nat /\ resolvedOnce \in BOOLEAN /\ connected \in BOOLEAN
      /\ wait \in [Tasks -> {"none", "filed", "told", "dropped"}]
  BY DEF DeviceInv, DeviceTyped, DeviceTypeOK
<1>2. /\ wire # <<>> /\ wire' = Tail(wire) /\ UNCHANGED <<linked, resolved, changes>>
  BY ReaderTyped DEF DeviceInv
<1>3. PICK on \in BOOLEAN, up \in BOOLEAN :
         /\ Leads(wire, View(on, resolvedOnce, gen), View(up, resolved, changes))
         /\ ~crossed => on = connected /\ up = linked
  BY <1>1 DEF WireLeads
<1> DEFINE held == View(on, resolvedOnce, gen)
<1>4. Leads(wire', After(held, Head(wire).kind), View(up, resolved', changes'))
  BY <1>1, <1>2, <1>3, LeadsOn
<1>a. /\ After(held, "connected") = View(TRUE, resolvedOnce, gen)
      /\ After(held, "disconnected") = View(FALSE, FALSE, gen)
      /\ After(held, "resolved") = View(on, TRUE, IF resolvedOnce THEN gen + 1 ELSE gen)
      /\ After(held, "changed") = View(on, resolvedOnce, IF resolvedOnce THEN gen + 1 ELSE gen)
      /\ After(held, "seen") = held /\ After(held, "reply") = held
  BY <1>1, AfterEach
<1>5. SUFFICES /\ ToldIsSo'
               /\ \E now \in BOOLEAN :
                    /\ After(held, Head(wire).kind) = View(now, resolvedOnce', gen')
                    /\ ~crossed' => now = connected' /\ up = linked'
  BY <1>4 DEF WireLeads
<1>6. CASE OnConnected
  <2>1. /\ Head(wire).kind = "connected" /\ connected' = TRUE
        /\ UNCHANGED <<gen, resolvedOnce, crossed>>
    BY <1>6 DEF OnConnected, Reads
  <2>2. After(held, Head(wire).kind) = View(TRUE, resolvedOnce', gen')
    BY <1>a, <2>1
  <2>3. ToldIsSo'
    BY <1>1, <1>6, <2>1 DEF OnConnected, End, ToldIsSo
  <2> QED
    BY <1>2, <1>3, <2>1, <2>2, <2>3
<1>7. CASE OnDisconnected
  <2>1. /\ Head(wire).kind = "disconnected" /\ connected' = FALSE
        /\ gen' = gen /\ resolvedOnce' = FALSE /\ (crossed => crossed')
    BY <1>7 DEF OnDisconnected, Reads
  <2>2. After(held, Head(wire).kind) = View(FALSE, resolvedOnce', gen')
    BY <1>a, <2>1
  <2>3. ToldIsSo'
    <3> SUFFICES ASSUME ~crossed', NEW t \in Tasks PROVE wait'[t] = "none"
      BY DEF ToldIsSo
    <3>1. wait[t] = "none"
      BY <1>7 DEF OnDisconnected
    <3> QED
      BY <1>7, <3>1 DEF OnDisconnected, End
  <2> QED
    BY <1>2, <1>3, <2>1, <2>2, <2>3
<1>8. CASE OnServicesResolved \/ OnServicesChanged
  <2>1. /\ UNCHANGED <<connected, wait, crossed>>
        /\ gen' = IF resolvedOnce THEN gen + 1 ELSE gen
        /\ \/ Head(wire).kind = "resolved" /\ resolvedOnce' = TRUE
           \/ Head(wire).kind = "changed" /\ resolvedOnce' = resolvedOnce
    BY <1>8 DEF OnServicesResolved, OnServicesChanged, Reads, MarksChange
  <2>2. After(held, Head(wire).kind) = View(on, resolvedOnce', gen')
    BY <1>a, <2>1
  <2>3. ToldIsSo'
    BY <1>1, <2>1 DEF ToldIsSo
  <2> QED
    BY <1>2, <1>3, <2>1, <2>2, <2>3
<1>9. CASE OnDeviceSeen \/ OnReply
  <2>1. /\ UNCHANGED <<connected, wait, crossed, gen, resolvedOnce>>
        /\ Head(wire).kind \in {"seen", "reply"}
    BY <1>9 DEF OnDeviceSeen, OnReply, Reads, deviceRecord
  <2>2. After(held, Head(wire).kind) = View(on, resolvedOnce', gen')
    BY <1>a, <2>1
  <2>3. ToldIsSo'
    BY <1>1, <2>1 DEF ToldIsSo
  <2> QED
    BY <1>2, <1>3, <2>1, <2>2, <2>3
<1> QED
  BY <1>6, <1>7, <1>8, <1>9 DEF ReaderNext

-----------------------------------------------------------------------------
(* What bluetoothd sends takes the reader from what bluetoothd held to     *)
(* what it holds now.                                                      *)
BusStep == (\E t \in Tasks : Answer(t)) \/ LinkUp \/ Resolve \/ LinkDown \/ Rebuild \/ See

(* One message sent, and what becomes of bluetoothd's view with it. *)
LEMMA SentOne ==
    ASSUME DeviceInv, NEW m \in Message, Sends(<<m>>),
           \A up \in BOOLEAN : \E there \in BOOLEAN :
              /\ View(there, resolved', changes') = After(View(up, resolved, changes), m.kind)
              /\ up = linked => there = linked'
    PROVE  wire' \in Seq(Message) /\ WireLeads' /\ ToldIsSo'
<1>1. /\ DeviceTyped /\ ToldIsSo /\ wire' = wire \o <<m>>
      /\ UNCHANGED <<connected, gen, resolvedOnce, wait, crossed>>
  BY DEF DeviceInv, Sends, deviceRecord
<1>2. PICK on \in BOOLEAN, up \in BOOLEAN :
         /\ Leads(wire, View(on, resolvedOnce, gen), View(up, resolved, changes))
         /\ ~crossed => on = connected /\ up = linked
  BY DEF DeviceInv, WireLeads
<1>3. PICK there \in BOOLEAN :
         /\ View(there, resolved', changes') = After(View(up, resolved, changes), m.kind)
         /\ up = linked => there = linked'
  BY <1>2
<1>4. /\ wire' \in Seq(Message)
      /\ Leads(wire', View(on, resolvedOnce, gen),
               After(View(up, resolved, changes), m.kind))
  BY <1>1, <1>2, SendsOne
<1>5. WireLeads'
  BY <1>1, <1>2, <1>3, <1>4 DEF WireLeads
<1>6. ToldIsSo'
  BY <1>1 DEF ToldIsSo
<1> QED
  BY <1>4, <1>5, <1>6

(* ... and two. *)
LEMMA SentTwo ==
    ASSUME DeviceInv, NEW m \in Message, NEW n \in Message, Sends(<<m, n>>),
           \A up \in BOOLEAN : \E there \in BOOLEAN :
              /\ View(there, resolved', changes') =
                    After(After(View(up, resolved, changes), m.kind), n.kind)
              /\ up = linked => there = linked'
    PROVE  wire' \in Seq(Message) /\ WireLeads' /\ ToldIsSo'
<1>1. /\ DeviceTyped /\ ToldIsSo /\ wire' = wire \o <<m, n>>
      /\ UNCHANGED <<connected, gen, resolvedOnce, wait, crossed>>
  BY DEF DeviceInv, Sends, deviceRecord
<1>2. PICK on \in BOOLEAN, up \in BOOLEAN :
         /\ Leads(wire, View(on, resolvedOnce, gen), View(up, resolved, changes))
         /\ ~crossed => on = connected /\ up = linked
  BY DEF DeviceInv, WireLeads
<1>3. PICK there \in BOOLEAN :
         /\ View(there, resolved', changes') =
               After(After(View(up, resolved, changes), m.kind), n.kind)
         /\ up = linked => there = linked'
  BY <1>2
<1>4. /\ wire' \in Seq(Message)
      /\ Leads(wire', View(on, resolvedOnce, gen),
               After(After(View(up, resolved, changes), m.kind), n.kind))
  BY <1>1, <1>2, SendsTwo
<1>5. WireLeads'
  BY <1>1, <1>2, <1>3, <1>4 DEF WireLeads
<1>6. ToldIsSo'
  BY <1>1 DEF ToldIsSo
<1> QED
  BY <1>4, <1>5, <1>6

(* What bluetoothd holds, and each answer it gives, one message or two.    *)
LEMMA HeldTyped ==
    ASSUME DeviceInv
    PROVE  /\ wire \in Seq(Message) /\ resolved \in BOOLEAN /\ changes \in Nat
           /\ linked \in BOOLEAN /\ ups \in Nat /\ ups <= MaxUps
  BY DeviceAssumption DEF DeviceInv, DeviceTyped, DeviceTypeOK

LEMMA AnswerLeads ==
    ASSUME DeviceInv, NEW t \in Tasks, Answer(t)
    PROVE  wire' \in Seq(Message) /\ WireLeads' /\ ToldIsSo'
<1>1. PICK says \in {"ok", "error"}, l \in {NoLink, ups} :
         /\ l = ups => linked \/ l = NoLink
         /\ Answers(t, says, l, <<>>)
  BY DEF Answer
<1>2. /\ wire \in Seq(Message) /\ resolved \in BOOLEAN /\ changes \in Nat
      /\ linked \in BOOLEAN /\ ups \in Nat /\ ups <= MaxUps
  BY HeldTyped
<1>3. l \in Ups \cup {NoLink}
  BY <1>2, DeviceAssumption DEF Ups, NoLink
<1>4. Reply(t, says, l) \in Message /\ Reply(t, says, l).kind = "reply"
  BY <1>3, Messages
<1>5. Sends(<<Reply(t, says, l)>>)
  <2>1. /\ <<>> \o <<Reply(t, says, l)>> = <<Reply(t, says, l)>>
        /\ <<Reply(t, says, l)>> \o <<>> = <<Reply(t, says, l)>>
    BY <1>4, IsASeq, ConcatEmptySeq
  <2> QED
    BY <1>1, <2>1 DEF Answers
<1>6. UNCHANGED <<linked, resolved, changes>>
  BY DEF Answer
<1>7. ASSUME NEW up \in BOOLEAN
      PROVE  View(up, resolved', changes') =
                After(View(up, resolved, changes), Reply(t, says, l).kind)
  <2>1. After(View(up, resolved, changes), "reply") = View(up, resolved, changes)
    BY <1>2, AfterEach
  <2> QED
    BY <1>4, <1>6, <2>1
<1> QED
  BY <1>4, <1>5, <1>6, <1>7, SentOne

(* A link comes up, and its signal is sent, before an answer, after one or *)
(* by itself.                                                              *)
LEMMA LinkUpLeads ==
    ASSUME DeviceInv, LinkUp
    PROVE  wire' \in Seq(Message) /\ WireLeads' /\ ToldIsSo'
<1>1. /\ wire \in Seq(Message) /\ resolved \in BOOLEAN /\ changes \in Nat
  BY HeldTyped
<1>2. linked' = TRUE /\ UNCHANGED <<resolved, changes>>
  BY DEF LinkUp
<1>3. Signal("connected") \in Message /\ Signal("connected").kind = "connected"
  BY Messages
<1>4. ASSUME NEW up \in BOOLEAN
      PROVE  /\ After(View(up, resolved, changes), "connected") = View(TRUE, resolved', changes')
             /\ After(View(up, resolved, changes), "reply") = View(up, resolved', changes')
  <2>1. /\ After(View(up, resolved, changes), "connected") = View(TRUE, resolved, changes)
        /\ After(View(up, resolved, changes), "reply") = View(up, resolved, changes)
    BY <1>1, AfterEach
  <2> QED
    BY <1>2, <2>1
<1>5. CASE Sends(<<Signal("connected")>>)
  <2>1. ASSUME NEW up \in BOOLEAN
        PROVE  View(TRUE, resolved', changes') =
                  After(View(up, resolved, changes), Signal("connected").kind)
    BY <1>3, <1>4
  <2> QED
    BY <1>2, <1>3, <1>5, <2>1, SentOne
<1>6. CASE \E t \in Tasks : Answers(t, "ok", NoLink, <<Signal("connected")>>)
  <2>1. PICK t \in Tasks : Answers(t, "ok", NoLink, <<Signal("connected")>>)
    BY <1>6
  <2> DEFINE r == Reply(t, "ok", NoLink)
             c == Signal("connected")
  <2>2. r \in Message /\ r.kind = "reply" /\ c \in Message /\ c.kind = "connected"
    BY <1>3, Messages
  <2>3. <<c>> \o <<r>> = <<c, r>> /\ <<r>> \o <<c>> = <<r, c>>
    BY TwoTogether
  <2>4. Sends(<<c>> \o <<r>>) \/ Sends(<<r>> \o <<c>>)
    BY <2>1 DEF Answers
  <2> HIDE DEF r, c
  <2>5. Sends(<<c, r>>) \/ Sends(<<r, c>>)
    BY <2>3, <2>4
  <2>6. ASSUME NEW up \in BOOLEAN
        PROVE  /\ After(After(View(up, resolved, changes), "connected"), "reply") =
                     View(TRUE, resolved', changes')
               /\ After(After(View(up, resolved, changes), "reply"), "connected") =
                     View(TRUE, resolved', changes')
    <3>1. After(View(TRUE, resolved, changes), "reply") = View(TRUE, resolved', changes')
      BY <1>4
    <3> QED
      BY <1>2, <1>4, <3>1
  <2>7. CASE Sends(<<c, r>>)
    <3>1. ASSUME NEW up \in BOOLEAN
          PROVE  View(TRUE, resolved', changes') =
                    After(After(View(up, resolved, changes), c.kind), r.kind)
      BY <2>2, <2>6
    <3> QED
      BY <1>2, <2>2, <2>7, <3>1, SentTwo
  <2>8. CASE Sends(<<r, c>>)
    <3>1. ASSUME NEW up \in BOOLEAN
          PROVE  View(TRUE, resolved', changes') =
                    After(After(View(up, resolved, changes), r.kind), c.kind)
      BY <2>2, <2>6
    <3> QED
      BY <1>2, <2>2, <2>8, <3>1, SentTwo
  <2> QED
    BY <2>5, <2>7, <2>8
<1> QED
  BY <1>5, <1>6 DEF LinkUp

(* The tree resolves, is rebuilt or goes with its link: the first and the  *)
(* last move no generation, each change between them moves it once.        *)
LEMMA TreeLeads ==
    ASSUME DeviceInv, Resolve \/ LinkDown \/ Rebuild \/ See
    PROVE  wire' \in Seq(Message) /\ WireLeads' /\ ToldIsSo'
<1>1. /\ wire \in Seq(Message) /\ resolved \in BOOLEAN /\ changes \in Nat
  BY HeldTyped
<1>2. \A k \in {"disconnected", "resolved", "changed", "seen"} :
         Signal(k) \in Message /\ Signal(k).kind = k
  BY Messages
<1>3. ASSUME NEW up \in BOOLEAN, NEW once \in BOOLEAN
      PROVE  /\ After(View(up, once, changes), "disconnected") = View(FALSE, FALSE, changes)
             /\ After(View(up, FALSE, changes), "changed") = View(up, FALSE, changes)
             /\ After(View(up, FALSE, changes), "resolved") = View(up, TRUE, changes)
             /\ After(View(up, TRUE, changes), "changed") = View(up, TRUE, changes + 1)
             /\ After(View(up, TRUE, changes), "resolved") = View(up, TRUE, changes + 1)
             /\ After(View(up, once, changes), "seen") = View(up, once, changes)
  <2>1. FALSE \in BOOLEAN /\ TRUE \in BOOLEAN
    OBVIOUS
  <2>2. /\ After(View(up, FALSE, changes), "changed") = View(up, FALSE, changes)
        /\ After(View(up, FALSE, changes), "resolved") = View(up, TRUE, changes)
    BY <1>1, <2>1, AfterEach
  <2>3. /\ After(View(up, TRUE, changes), "changed") = View(up, TRUE, changes + 1)
        /\ After(View(up, TRUE, changes), "resolved") = View(up, TRUE, changes + 1)
    BY <1>1, <2>1, AfterEach
  <2>4. /\ After(View(up, once, changes), "disconnected") = View(FALSE, FALSE, changes)
        /\ After(View(up, once, changes), "seen") = View(up, once, changes)
    BY <1>1, AfterEach
  <2> QED
    BY <2>2, <2>3, <2>4
<1>4. CASE Resolve
  <2>1. /\ resolved = FALSE /\ resolved' = TRUE /\ UNCHANGED <<linked, changes>>
        /\ Sends(<<Signal("changed"), Signal("resolved")>>)
    BY <1>1, <1>4 DEF Resolve
  <2>2. ASSUME NEW up \in BOOLEAN
        PROVE  View(up, resolved', changes') =
                  After(After(View(up, resolved, changes), Signal("changed").kind),
                        Signal("resolved").kind)
    BY <1>2, <1>3, <2>1
  <2> QED
    BY <1>2, <2>1, <2>2, SentTwo
<1>5. CASE LinkDown
  <2>1. /\ linked' = FALSE /\ resolved' = FALSE /\ changes' = changes
        /\ Sends(<<Signal("disconnected"), Signal("changed")>>)
    BY <1>5 DEF LinkDown
  <2>2. ASSUME NEW up \in BOOLEAN
        PROVE  View(FALSE, resolved', changes') =
                  After(After(View(up, resolved, changes), Signal("disconnected").kind),
                        Signal("changed").kind)
    <3>1. After(View(up, resolved, changes), "disconnected") = View(FALSE, FALSE, changes)
      BY <1>1, <1>3
    <3>2. After(View(FALSE, FALSE, changes), "changed") = View(FALSE, FALSE, changes)
      BY <1>3
    <3> QED
      BY <1>2, <2>1, <3>1, <3>2
  <2> QED
    BY <1>2, <2>1, <2>2, SentTwo
<1>6. CASE Rebuild
  <2>1. PICK kind \in {"changed", "resolved"} : Sends(<<Signal(kind)>>)
    BY <1>6 DEF Rebuild
  <2>2. resolved = TRUE /\ resolved' = TRUE /\ changes' = changes + 1 /\ linked' = linked
    BY <1>1, <1>6 DEF Rebuild
  <2>3. ASSUME NEW up \in BOOLEAN
        PROVE  View(up, resolved', changes') =
                  After(View(up, resolved, changes), Signal(kind).kind)
    <3>1. After(View(up, TRUE, changes), kind) = View(up, TRUE, changes + 1)
      BY <1>3
    <3> QED
      BY <1>2, <2>2, <3>1
  <2> QED
    BY <1>2, <2>1, <2>2, <2>3, SentOne
<1>7. CASE See
  <2>1. Sends(<<Signal("seen")>>) /\ UNCHANGED <<linked, resolved, changes>>
    BY <1>7 DEF See
  <2>2. ASSUME NEW up \in BOOLEAN
        PROVE  View(up, resolved', changes') =
                  After(View(up, resolved, changes), Signal("seen").kind)
    <3>1. After(View(up, resolved, changes), "seen") = View(up, resolved, changes)
      BY <1>1, <1>3
    <3> QED
      BY <1>2, <2>1, <3>1
  <2> QED
    BY <1>2, <2>1, <2>2, SentOne
<1> QED
  BY <1>4, <1>5, <1>6, <1>7

LEMMA BusTyped ==
    ASSUME DeviceTyped, BusStep
    PROVE  DeviceTypeOK'
<1>1. /\ DeviceTypeOK
      /\ UNCHANGED <<deviceRecord, wait, tasks, crossed, fixed>>
  BY DEF DeviceTyped, BusStep, Answer, Answers, LinkUp, Resolve, LinkDown, Rebuild, See, Sends
<1>2. asked' \in [Tasks -> {"nothing", "connect", "acquire", "scan"}]
  BY <1>1 DEF DeviceTypeOK, BusStep, Answer, Answers, LinkUp, Resolve, LinkDown, Rebuild, See
<1>3. /\ ups' \in 0 .. MaxUps /\ changes' \in 0 .. MaxChanges
      /\ sights' \in 0 .. MaxSights
  BY <1>1, DeviceAssumption
     DEF DeviceTypeOK, BusStep, Answer, LinkUp, Resolve, LinkDown, Rebuild, See
<1>4. linked' \in BOOLEAN /\ resolved' \in BOOLEAN
  BY <1>1 DEF DeviceTypeOK, BusStep, Answer, LinkUp, Resolve, LinkDown, Rebuild, See
<1> QED
  BY <1>1, <1>2, <1>3, <1>4 DEF DeviceTypeOK, deviceRecord, tasks, fixed

LEMMA NextDeviceInv == DeviceInv /\ [DeviceNext]_deviceVars => DeviceInv'
<1> SUFFICES ASSUME DeviceInv, [DeviceNext]_deviceVars PROVE DeviceInv'
  OBVIOUS
<1>1. DeviceTyped
  BY DEF DeviceInv
<1>2. ASSUME NEW t \in Tasks, TaskStep(t) PROVE DeviceInv'
  BY <1>1, <1>2, TaskTyped, TaskLeads DEF DeviceInv
<1>3. CASE ReaderNext
  BY <1>1, <1>3, ReaderTyped, ReaderLeads DEF DeviceInv
<1>4. CASE BusStep
  <2>1. wire' \in Seq(Message) /\ WireLeads' /\ ToldIsSo'
    BY <1>4, AnswerLeads, LinkUpLeads, TreeLeads DEF BusStep
  <2> QED
    BY <1>1, <1>4, <2>1, BusTyped DEF DeviceInv, DeviceTyped
<1>5. CASE UNCHANGED deviceVars
  <2>1. UNCHANGED <<deviceRecord, wait, tasks, bluetoothd, crossed, fixed>>
    BY <1>5 DEF deviceVars
  <2>2. DeviceTyped'
    BY <1>1, <2>1 DEF DeviceTyped, DeviceTypeOK, deviceRecord, tasks, bluetoothd, fixed
  <2>3. WireLeads'
    BY <2>1 DEF DeviceInv, WireLeads, deviceRecord, bluetoothd
  <2>4. ToldIsSo'
    BY <2>1 DEF DeviceInv, ToldIsSo, deviceRecord
  <2> QED
    BY <2>2, <2>3, <2>4 DEF DeviceInv
<1> QED
  BY <1>2, <1>3, <1>4, <1>5 DEF DeviceNext, BusStep

(*************************** The calls *************************************)

(* The handler of a call is in one place from the moment it is filed until *)
(* it is run, and in none before and after.                                *)
Held(s) == s \in pending \/ s \in toFail["reader"] \/ s \in toFail["owner"]

HandlerKept ==
    /\ \A s \in Calls : Held(s) <=> at[s] # "none" /\ outcome[s] = "none"
    /\ \A s \in Calls : at[s] = "none" => outcome[s] = "none"
    /\ \A e \in Enders : toFail[e] \cap pending = {}
    /\ toFail["reader"] \cap toFail["owner"] = {}

(* Who ends the connection takes all there is; what is filed afterwards is *)
(* still to be taken back by its caller, which can no longer send.         *)
EndTakesAll ==
    /\ \A e \in Enders : toFail[e] # {} => ending[e] = "failing"
    /\ \A s \in pending, e \in Enders :
          ending[e] \in {"failing", "done"} => at[s] \in {"filed", "checked", "refused"}

EndBegun ==
    /\ ending["reader"] # "no" => ~open
    /\ ending["owner"] # "no" => stopped /\ \A s \in Calls : Unused(s)

CallsInv == CallsTypeOK /\ HandlerKept /\ EndTakesAll /\ EndBegun

LEMMA InitCallsInv == CallsInit => CallsInv
<1> SUFFICES ASSUME CallsInit PROVE CallsInv
  OBVIOUS
<1>1. CallsTypeOK
  BY DEF CallsInit, CallsTypeOK, Enders
<1>2. HandlerKept /\ EndTakesAll /\ EndBegun
  BY DEF CallsInit, HandlerKept, EndTakesAll, EndBegun, Held, Enders
<1> QED
  BY <1>1, <1>2 DEF CallsInv

LEMMA CallTyped ==
    ASSUME CallsTypeOK, NEW s \in Calls, CallStep(s) \/ BusAnswers(s) \/ Dispatch(s)
    PROVE  CallsTypeOK'
<1>1. CASE File(s)
  <2>1. blocking' \subseteq Calls
    BY <1>1 DEF File, CallsTypeOK
  <2> QED
    BY <1>1, <2>1 DEF File, Moves, CallsTypeOK
<1>2. CASE Check(s) \/ Write(s) \/ ComesBack(s)
  BY <1>2 DEF Check, Write, ComesBack, Moves, CallsTypeOK
<1>3. CASE TakeBack(s)
  BY <1>3 DEF TakeBack, Moves, Runs, CallsTypeOK
<1>4. CASE BusAnswers(s) \/ Dispatch(s)
  BY <1>4 DEF BusAnswers, Dispatch, Runs, CallsTypeOK
<1> QED
  BY <1>1, <1>2, <1>3, <1>4 DEF CallStep

LEMMA EnderTyped ==
    ASSUME CallsTypeOK, NEW e \in Enders, Stops(e) \/ Takes(e) \/ Fails(e)
    PROVE  CallsTypeOK'
<1>1. CASE Stops(e)
  BY <1>1 DEF Stops, CallsTypeOK
<1>2. CASE Takes(e)
  BY <1>2 DEF Takes, CallsTypeOK
<1>3. CASE Fails(e)
  BY <1>3 DEF Fails, Runs, CallsTypeOK
<1> QED
  BY <1>1, <1>2, <1>3

(* A caller's own steps. *)
LEMMA CallerCallsInv ==
    ASSUME CallsInv, NEW s \in Calls, CallStep(s)
    PROVE  CallsInv'
<1>1. CallsTypeOK /\ HandlerKept /\ EndTakesAll /\ EndBegun /\ CallsTypeOK'
  BY CallTyped DEF CallsInv
<1>2. /\ at \in [Calls -> {"none", "filed", "checked", "refused", "called", "back"}]
      /\ outcome \in [Calls -> {"none", "reply", "disconnected"}]
      /\ pending \subseteq Calls /\ Enders = {"reader", "owner"}
      /\ toFail \in [Enders -> SUBSET Calls]
  BY <1>1 DEF CallsTypeOK, Enders
<1>a. /\ UNCHANGED <<stopped, ending, toFail, open>>
      /\ \A r \in Calls \ {s} : at'[r] = at[r]
  BY <1>2 DEF CallStep, File, Check, Write, TakeBack, ComesBack, Moves
<1>b. EndBegun'
  <2>1. ASSUME ending["owner"] # "no", NEW r \in Calls PROVE Unused(r)'
    <3>1. Unused(s) /\ Unused(r)
      BY <1>1, <2>1 DEF EndBegun
    <3>2. at[s] = "called" /\ at'[s] = "back" /\ blocking' = blocking
      BY <1>2, <2>1, <3>1 DEF Unused, CallStep, File, Check, Write, TakeBack, ComesBack, Moves
    <3> QED
      BY <1>a, <3>1, <3>2 DEF Unused
  <2> QED
    BY <1>1, <1>a, <2>1 DEF EndBegun
<1>3. CASE File(s)
  <2>1. /\ at[s] = "none" /\ at'[s] = "filed" /\ outcome' = outcome
        /\ pending' = pending \cup {s}
    BY <1>2, <1>3 DEF File, Moves
  <2>2. outcome[s] = "none" /\ ~Held(s)
    BY <1>1, <2>1 DEF HandlerKept
  <2>3. HandlerKept'
    BY <1>1, <1>2, <1>a, <2>1, <2>2 DEF HandlerKept, Held
  <2>4. EndTakesAll'
    BY <1>1, <1>2, <1>a, <2>1 DEF EndTakesAll
  <2> QED
    BY <1>1, <1>b, <2>3, <2>4 DEF CallsInv
<1>4. CASE Check(s) \/ ComesBack(s) \/ Write(s)
  <2>1. /\ UNCHANGED <<outcome, pending>> /\ at[s] # "none" /\ at'[s] # "none"
        /\ \/ at'[s] \in {"checked", "refused"}
           \/ at[s] = "called"
           \/ at[s] = "checked" /\ open
    BY <1>2, <1>4 DEF Check, ComesBack, Write, Moves
  <2>2. HandlerKept'
    BY <1>1, <1>2, <1>a, <2>1 DEF HandlerKept, Held
  <2>3. EndTakesAll'
    <3> SUFFICES ASSUME s \in pending, NEW e \in Enders, ending[e] \in {"failing", "done"}
                 PROVE  at'[s] \in {"filed", "checked", "refused"}
      BY <1>1, <1>2, <1>a, <2>1 DEF EndTakesAll
    <3>1. at[s] \in {"filed", "checked", "refused"}
      BY <1>1 DEF EndTakesAll
    <3>2. CASE e = "reader"
      BY <1>1, <2>1, <3>1, <3>2 DEF EndBegun
    <3>3. CASE e = "owner"
      BY <1>1, <3>1, <3>3 DEF EndBegun, Unused
    <3> QED
      BY <1>2, <3>2, <3>3
  <2> QED
    BY <1>1, <1>b, <2>2, <2>3 DEF CallsInv
<1>5. CASE TakeBack(s)
  <2>1. /\ at[s] = "refused" /\ at'[s] = "called" /\ pending' = pending \ {s}
        /\ \A r \in Calls : outcome'[r] = IF r \in pending \cap {s} THEN "disconnected"
                                                                    ELSE outcome[r]
    BY <1>2, <1>5 DEF TakeBack, Moves, Runs
  <2>2. HandlerKept'
    BY <1>1, <1>2, <1>a, <2>1 DEF HandlerKept, Held
  <2>3. EndTakesAll'
    BY <1>1, <1>2, <1>a, <2>1 DEF EndTakesAll
  <2> QED
    BY <1>1, <1>b, <2>2, <2>3 DEF CallsInv
<1> QED
  BY <1>3, <1>4, <1>5 DEF CallStep

(* The bus and the reader. *)
LEMMA BusCallsInv ==
    ASSUME CallsInv, BusGoes \/ \E s \in Calls : BusAnswers(s) \/ Dispatch(s)
    PROVE  CallsInv'
<1>1. CallsTypeOK /\ HandlerKept /\ EndTakesAll /\ EndBegun
  BY DEF CallsInv
<1>2. CASE BusGoes
  <2>1. open' = FALSE /\ UNCHANGED <<at, blocking, outcome, pending, stopped, ending, toFail,
                                     atBus, replies>>
    BY <1>2 DEF BusGoes
  <2>2. CallsTypeOK' /\ EndBegun'
    BY <1>1, <2>1 DEF CallsTypeOK, EndBegun, Unused
  <2> QED
    BY <1>1, <2>1, <2>2 DEF CallsInv, HandlerKept, Held, EndTakesAll
<1>3. CASE \E s \in Calls : BusAnswers(s)
  <2>1. CallsTypeOK'
    BY <1>1, <1>3, CallTyped
  <2>2. UNCHANGED <<at, blocking, outcome, pending, stopped, ending, toFail, open>>
    BY <1>3 DEF BusAnswers
  <2> QED
    BY <1>1, <2>1, <2>2 DEF CallsInv, HandlerKept, Held, EndTakesAll, EndBegun, Unused
<1>4. CASE \E s \in Calls : Dispatch(s)
  <2>1. PICK s \in Calls : Dispatch(s)
    BY <1>4
  <2>2. /\ UNCHANGED <<at, blocking, stopped, ending, toFail, open>>
        /\ pending' = pending \ {s} /\ CallsTypeOK'
        /\ \A r \in Calls : outcome'[r] = IF r \in pending \cap {s} THEN "reply"
                                                                    ELSE outcome[r]
    BY <1>1, <2>1, CallTyped DEF Dispatch, Runs
  <2>3. HandlerKept'
    BY <1>1, <2>2 DEF HandlerKept, Held, CallsTypeOK, Enders
  <2>4. EndTakesAll' /\ EndBegun'
    BY <1>1, <2>2 DEF EndTakesAll, EndBegun, Unused
  <2> QED
    BY <2>2, <2>3, <2>4 DEF CallsInv
<1> QED
  BY <1>2, <1>3, <1>4

(* The end of the connection. *)
LEMMA EnderCallsInv ==
    ASSUME CallsInv, NEW e \in Enders, Stops(e) \/ Takes(e) \/ Fails(e)
    PROVE  CallsInv'
<1>1. CallsTypeOK /\ HandlerKept /\ EndTakesAll /\ EndBegun /\ CallsTypeOK'
  BY EnderTyped DEF CallsInv
<1>2. /\ Enders = {"reader", "owner"} /\ ending \in [Enders -> {"no", "taking", "failing", "done"}]
      /\ toFail \in [Enders -> SUBSET Calls] /\ pending \subseteq Calls
      /\ outcome \in [Calls -> {"none", "reply", "disconnected"}]
      /\ open \in BOOLEAN
  BY <1>1 DEF CallsTypeOK, Enders
<1>3. CASE Stops(e)
  <2>1. /\ ending' = [ending EXCEPT ![e] = "taking"] /\ stopped' = TRUE /\ MayEnd(e)
        /\ UNCHANGED <<at, blocking, outcome, pending, toFail, open>> /\ ending[e] = "no"
    BY <1>3 DEF Stops
  <2>2. EndBegun'
    BY <1>1, <1>2, <2>1 DEF EndBegun, MayEnd, Unused
  <2>3. EndTakesAll'
    BY <1>1, <1>2, <2>1 DEF EndTakesAll
  <2>4. HandlerKept'
    BY <1>1, <2>1 DEF HandlerKept, Held
  <2> QED
    BY <1>1, <2>2, <2>3, <2>4 DEF CallsInv
<1>4. CASE Takes(e)
  <2>1. /\ ending[e] = "taking" /\ ending' = [ending EXCEPT ![e] = "failing"]
        /\ toFail' = [toFail EXCEPT ![e] = pending] /\ pending' = {}
        /\ UNCHANGED <<at, blocking, outcome, stopped, open>>
    BY <1>4 DEF Takes
  <2>2. toFail[e] = {}
    BY <1>1, <2>1 DEF EndTakesAll
  <2>3. HandlerKept'
    BY <1>1, <1>2, <2>1, <2>2 DEF HandlerKept, Held
  <2>4. EndTakesAll'
    BY <1>1, <1>2, <2>1 DEF EndTakesAll
  <2>5. EndBegun'
    BY <1>1, <1>2, <2>1 DEF EndBegun, Unused
  <2> QED
    BY <1>1, <2>3, <2>4, <2>5 DEF CallsInv
<1>5. CASE Fails(e)
  <2>1. /\ ending[e] = "failing" /\ ending' = [ending EXCEPT ![e] = "done"]
        /\ toFail' = [toFail EXCEPT ![e] = {}]
        /\ open' => open
        /\ UNCHANGED <<at, blocking, pending, stopped>>
        /\ \A r \in Calls : outcome'[r] = IF r \in toFail[e] THEN "disconnected"
                                                             ELSE outcome[r]
    BY <1>2, <1>5 DEF Fails, Runs
  <2>2. HandlerKept'
    BY <1>1, <1>2, <2>1 DEF HandlerKept, Held
  <2>3. EndTakesAll'
    BY <1>1, <1>2, <2>1 DEF EndTakesAll
  <2>4. EndBegun'
    BY <1>1, <1>2, <2>1 DEF EndBegun, Unused
  <2> QED
    BY <1>1, <2>2, <2>3, <2>4 DEF CallsInv
<1> QED
  BY <1>3, <1>4, <1>5

LEMMA NextCallsInv == CallsInv /\ [CallsNext]_callVars => CallsInv'
<1> SUFFICES ASSUME CallsInv, [CallsNext]_callVars PROVE CallsInv'
  OBVIOUS
<1>1. CASE UNCHANGED callVars
  BY <1>1 DEF callVars, CallsInv, CallsTypeOK, HandlerKept, Held, EndTakesAll, EndBegun, Unused
<1>2. CASE CallsNext
  BY <1>2, CallerCallsInv, BusCallsInv, EnderCallsInv DEF CallsNext
<1> QED
  BY <1>1, <1>2

(*************************** The whole *************************************)

IInv == CallsInv /\ DeviceInv

LEMMA InitIInv == Init => IInv
  BY InitCallsInv, InitDeviceInv DEF Init, IInv

(* A step is of one half, and the other rests. *)
LEMMA StepOfHalf ==
    [CallsPart \/ DevicePart]_vars => [CallsNext]_callVars /\ [DeviceNext]_deviceVars
  BY DEF CallsPart, DevicePart, vars

LEMMA NextIInv == IInv /\ [CallsPart \/ DevicePart]_vars => IInv'
  BY StepOfHalf, NextCallsInv, NextDeviceInv DEF IInv

LEMMA Invariance == Spec => []IInv
  BY InitIInv, NextIInv, PTL DEF Spec

-----------------------------------------------------------------------------
(* The types of both halves, what is on the wire included. *)
THEOREM BluezTypeCorrect == Spec => [](CallsTypeOK /\ DeviceTyped)
<1>1. IInv => CallsTypeOK /\ DeviceTyped
  BY DEF IInv, CallsInv, DeviceInv
<1> QED
  BY <1>1, Invariance, PTL

(* However the signals of links and of changes interleave with replies,    *)
(* once they are read the generation has moved once for every one that was *)
(* about a resolved tree (mark_services_changed, Inner::handle).           *)
THEOREM GenerationIsChanges == Spec => []ChangesCounted
<1>1. IInv => ChangesCounted
  <2> SUFFICES ASSUME IInv, wire = <<>> PROVE gen = changes
    BY DEF ChangesCounted
  <2>1. PICK on, up \in BOOLEAN :
           Leads(<<>>, View(on, resolvedOnce, gen), View(up, resolved, changes))
    BY DEF IInv, DeviceInv, WireLeads
  <2>2. View(on, resolvedOnce, gen) = View(up, resolved, changes)
    BY <2>1, LeadsNowhere
  <2>3. View(on, resolvedOnce, gen).moved = View(up, resolved, changes).moved
    BY <2>2
  <2> QED
    BY <2>3 DEF View
<1> QED
  BY <1>1, Invariance, PTL

(* Then the record also says of the device what bluetoothd does, unless a  *)
(* link ended under a task that was connecting (connect, Inner::handle).   *)
THEOREM RecordIsBluetoothds == Spec => []RecordSettles
<1>1. IInv => RecordSettles
  <2> SUFFICES ASSUME IInv, wire = <<>>, ~crossed PROVE connected <=> linked
    BY DEF RecordSettles
  <2>1. PICK on \in BOOLEAN, up \in BOOLEAN :
           /\ Leads(<<>>, View(on, resolvedOnce, gen), View(up, resolved, changes))
           /\ on = connected /\ up = linked
    BY DEF IInv, DeviceInv, WireLeads
  <2>2. View(on, resolvedOnce, gen) = View(up, resolved, changes)
    BY <2>1, LeadsNowhere
  <2>3. View(on, resolvedOnce, gen).on = View(up, resolved, changes).on
    BY <2>2
  <2>4. on = up
    BY <2>3 DEF View
  <2> QED
    BY <2>1, <2>4
<1> QED
  BY <1>1, Invariance, PTL

(* Whoever has ended the connection leaves no call unanswered whose caller *)
(* has sent it or failed to, though callers still file while it ends       *)
(* (shutdown, call_async, send). What is not answered is with  *)
(* the other, that is ending it too.                                       *)
NobodyLeft ==
    \A e \in Enders, s \in Calls :
        ending[e] = "done" /\ at[s] \in {"called", "back"} /\ outcome[s] = "none"
            => \E f \in Enders : s \in toFail[f] /\ ending[f] = "failing"

THEOREM EndLeavesNobody == Spec => []NobodyLeft
<1>1. IInv => NobodyLeft
  BY DEF IInv, CallsInv, HandlerKept, Held, EndTakesAll, NobodyLeft, Enders
<1> QED
  BY <1>1, Invariance, PTL

(* Reply, caller and end race for a handler, and it is run once: with what *)
(* came first (dispatch, call_async, shutdown).                            *)
RunOnce == [][\A s \in Calls : outcome[s] # "none" => outcome'[s] = outcome[s]]_vars

THEOREM HandlersRunOnce == Spec => RunOnce
<1>1. ASSUME IInv, CallsPart, NEW s \in Calls, outcome[s] # "none"
      PROVE  outcome'[s] = outcome[s]
  <2>1. /\ s \notin pending /\ \A e \in Enders : s \notin toFail[e]
        /\ CallsNext
    BY <1>1 DEF IInv, CallsInv, HandlerKept, Held, Enders, CallsPart
  <2> QED
    BY <1>1, <2>1
       DEF CallsNext, CallStep, File, Check, Write, TakeBack, ComesBack, BusAnswers,
           Dispatch, BusGoes, Stops, Takes, Fails, Runs
<1>2. ASSUME IInv, DevicePart PROVE outcome' = outcome
  BY <1>2 DEF DevicePart, callVars
<1>3. IInv /\ [CallsPart \/ DevicePart]_vars =>
        [\A s \in Calls : outcome[s] # "none" => outcome'[s] = outcome[s]]_vars
  BY <1>1, <1>2
<1> QED
  BY <1>3, Invariance, PTL DEF Spec, RunOnce

(*************************** Waiting for the link **************************)

\* A task's messages among those on the wire w, and what they tell it.
NoMessage(w, t)   == \A i \in 1 .. Len(w) : w[i].task # t
OneMessage(w, t)  == \A i, j \in 1 .. Len(w) : w[i].task = t /\ w[j].task = t => i = j
SaysOk(w, t)      == \E i \in 1 .. Len(w) : w[i].task = t /\ w[i].says = "ok"

OfLink == {"connected", "disconnected"}

\* Is word of a link on its way?
SignalComes(w) == \E i \in 1 .. Len(w) : w[i].kind \in OfLink

AtBus == {"called", "acquiring", "scanning"}

(* A task has one request with bluetoothd at most, or its reply on the wire*)
(* or in hand, and has it where it waits for one. One that connects is     *)
(* registered.                                                             *)
OneRequest(t) ==
    /\ asked[t] = "connect" => step[t] = "called"
    /\ asked[t] = "acquire" => step[t] = "acquiring"
    /\ asked[t] = "scan" => step[t] = "scanning"
    /\ step[t] \notin AtBus => reply[t] = "none" /\ NoMessage(wire, t)
    /\ asked[t] # "nothing" => reply[t] = "none" /\ NoMessage(wire, t)
    /\ reply[t] # "none" => NoMessage(wire, t)
    /\ OneMessage(wire, t)
    /\ step[t] \in {"calling", "called", "awaiting", "looking"} => wait[t] # "none"

\* bluetoothd has said that it connected the device for t.
Promised(t) ==
    \/ step[t] = "awaiting"
    \/ step[t] = "called" /\ reply[t] = "ok"
    \/ step[t] = "called" /\ SaysOk(wire, t)

Heralded(t) == refuses /\ wait[t] = "filed" /\ Promised(t) => SignalComes(wire)

SignalInv == \A t \in Tasks : OneRequest(t) /\ Heralded(t)

(* The end of a wire. *)
LEMMA OneMore ==
    ASSUME NEW w \in Seq(Message), NEW m \in Message, NEW t \in Tasks
    PROVE  /\ Append(w, m) \in Seq(Message)
           /\ NoMessage(w, t) /\ m.task # t => NoMessage(Append(w, m), t)
           /\ OneMessage(w, t) /\ m.task # t => OneMessage(Append(w, m), t)
           /\ NoMessage(w, t) => OneMessage(Append(w, m), t)
           /\ SaysOk(Append(w, m), t) =>
                SaysOk(w, t) \/ (m.task = t /\ m.says = "ok")
           /\ SignalComes(w) \/ m.kind \in OfLink => SignalComes(Append(w, m))
<1>1. /\ Append(w, m) \in Seq(Message) /\ Len(w) \in Nat
      /\ Len(Append(w, m)) = Len(w) + 1 /\ Append(w, m)[Len(w) + 1] = m
      /\ \A i \in 1 .. Len(w) : Append(w, m)[i] = w[i]
  BY AppendProperties, LenProperties
<1> DEFINE a == Append(w, m)
<1> HIDE DEF a
<1>2. /\ Len(a) = Len(w) + 1 /\ a[Len(w) + 1] = m /\ Len(w) \in Nat
      /\ \A i \in 1 .. Len(w) : a[i] = w[i] /\ i \in 1 .. Len(a)
      /\ \A i \in 1 .. Len(a) : i \in 1 .. Len(w) \/ i = Len(w) + 1
      /\ Len(w) + 1 \in 1 .. Len(a)
  BY <1>1 DEF a
<1>3. NoMessage(w, t) /\ m.task # t => NoMessage(a, t)
  BY <1>2 DEF NoMessage
<1>4. OneMessage(w, t) /\ m.task # t => OneMessage(a, t)
  BY <1>2 DEF OneMessage
<1>5. NoMessage(w, t) => OneMessage(a, t)
  BY <1>2 DEF NoMessage, OneMessage
<1>6. SaysOk(a, t) => SaysOk(w, t) \/ (m.task = t /\ m.says = "ok")
  BY <1>2 DEF SaysOk
<1>7. SignalComes(w) \/ m.kind \in OfLink => SignalComes(a)
  BY <1>2 DEF SignalComes
<1> QED
  BY <1>1, <1>3, <1>4, <1>5, <1>6, <1>7 DEF a

(* ... and one message taken from it, which is not of a link. *)
LEMMA OneLess ==
    ASSUME NEW w \in Seq(Message), NEW k \in 1 .. Len(w), NEW v \in Seq(Message),
           v = RemoveAt(w, k), NEW t \in Tasks
    PROVE  /\ NoMessage(w, t) => NoMessage(v, t) /\ w[k].task # t
           /\ OneMessage(w, t) => OneMessage(v, t)
           /\ OneMessage(w, t) /\ w[k].task = t => NoMessage(v, t)
           /\ SaysOk(v, t) => SaysOk(w, t)
           /\ SignalComes(w) /\ w[k].kind \notin OfLink => SignalComes(v)
<1>1. /\ Len(w) \in Nat \ {0} /\ Len(v) = Len(w) - 1 /\ k \in Nat
      /\ \A j \in 1 .. Len(w) - 1 : v[j] = IF j < k THEN w[j] ELSE w[j + 1]
  <2>1. /\ Len(w) \in Nat \ {0} /\ Len(v) = Len(w) - 1
        /\ \A j \in 1 .. Len(w) - 1 : v[j] = IF j < k THEN w[j] ELSE w[j + 1]
    BY Removed, Zenon
  <2> QED
    BY <2>1
\* Where an element of v was, and where one of w is.
<1> DEFINE was(j) == IF j < k THEN j ELSE j + 1
           is(i)  == IF i < k THEN i ELSE i - 1
<1>2. ASSUME NEW j \in 1 .. Len(v)
      PROVE  was(j) \in 1 .. Len(w) /\ was(j) # k /\ v[j] = w[was(j)]
  BY <1>1
<1>3. ASSUME NEW i \in 1 .. Len(v), NEW j \in 1 .. Len(v), was(i) = was(j)
      PROVE  i = j
  BY <1>1, <1>3
<1>4. ASSUME NEW i \in 1 .. Len(w), i # k
      PROVE  is(i) \in 1 .. Len(v) /\ v[is(i)] = w[i]
  BY <1>1, <1>4
<1> HIDE DEF was, is
<1>5. NoMessage(w, t) => NoMessage(v, t) /\ w[k].task # t
  BY <1>2 DEF NoMessage
<1>6. OneMessage(w, t) => OneMessage(v, t)
  <2> SUFFICES ASSUME OneMessage(w, t), NEW i \in 1 .. Len(v), NEW j \in 1 .. Len(v),
                      v[i].task = t, v[j].task = t
               PROVE  i = j
    BY DEF OneMessage
  <2>1. /\ was(i) \in 1 .. Len(w) /\ v[i] = w[was(i)]
        /\ was(j) \in 1 .. Len(w) /\ v[j] = w[was(j)]
    BY <1>2
  <2>2. was(i) = was(j)
    BY <2>1 DEF OneMessage
  <2> QED
    BY <2>2, <1>3
<1>7. OneMessage(w, t) /\ w[k].task = t => NoMessage(v, t)
  BY <1>2 DEF OneMessage, NoMessage
<1>8. SaysOk(v, t) => SaysOk(w, t)
  BY <1>2 DEF SaysOk
<1>9. SignalComes(w) /\ w[k].kind \notin OfLink => SignalComes(v)
  BY <1>4 DEF SignalComes
<1> QED
  BY <1>5, <1>6, <1>7, <1>8, <1>9

(* What is read is the first. *)
LEMMA HeadRead ==
    ASSUME NEW w \in Seq(Message), w # <<>>
    PROVE  /\ 1 \in 1 .. Len(w) /\ Head(w) = w[1] /\ Head(w) \in Message
           /\ Tail(w) \in Seq(Message) /\ Tail(w) = RemoveAt(w, 1)
<1>1. /\ Len(w) \in Nat \ {0} /\ Tail(w) \in Seq(Message) /\ Head(w) = w[1]
      /\ Head(w) \in Message /\ Len(Tail(w)) = Len(w) - 1
      /\ \A i \in 1 .. Len(w) - 1 : Tail(w)[i] = w[i + 1]
  <2>1. Len(w) \in Nat \ {0}
    BY EmptySeq, LenProperties
  <2> QED
    BY <2>1, HeadTailProperties, ElementOfSeq
<1>2. 1 \in 1 .. Len(w)
  BY <1>1
<1>3. /\ RemoveAt(w, 1) \in Seq(Message) /\ Len(RemoveAt(w, 1)) = Len(w) - 1
      /\ \A j \in 1 .. Len(w) - 1 :
            RemoveAt(w, 1)[j] = IF j < 1 THEN w[j] ELSE w[j + 1]
  BY <1>2, Removed, Zenon
<1>4. \A j \in 1 .. Len(w) - 1 : RemoveAt(w, 1)[j] = Tail(w)[j]
  BY <1>1, <1>3
<1> QED
  BY <1>1, <1>2, <1>3, <1>4, SeqEqual

(* A task that rests while the wire changes, but not about it. *)
LEMMA Rests ==
    ASSUME NEW u \in Tasks, OneRequest(u), Heralded(u),
           step'[u] = step[u], reply'[u] = reply[u], wait'[u] = wait[u],
           asked'[u] = asked[u], refuses' = refuses,
           NoMessage(wire, u) => NoMessage(wire', u),
           OneMessage(wire, u) => OneMessage(wire', u),
           SaysOk(wire', u) => SaysOk(wire, u),
           SignalComes(wire) => SignalComes(wire')
    PROVE  OneRequest(u)' /\ Heralded(u)'
<1>1. OneRequest(u)'
  BY DEF OneRequest
<1>2. Promised(u)' => Promised(u)
  BY DEF Promised
<1>3. Heralded(u)'
  BY <1>2 DEF Heralded
<1> QED
  BY <1>1, <1>3

LEMMA TaskHeralded ==
    ASSUME DeviceTyped, SignalInv, NEW t \in Tasks, TaskStep(t)
    PROVE  SignalInv'
<1>0. /\ step \in [Tasks -> {"idle"} \cup Connecting \cup Acquiring \cup Scanning]
      /\ reply \in [Tasks -> {"none", "ok", "error"}]
      /\ wait \in [Tasks -> {"none", "filed", "told", "dropped"}]
      /\ asked \in [Tasks -> {"nothing", "connect", "acquire", "scan"}]
      /\ wire \in Seq(Message) /\ OneRequest(t) /\ Heralded(t)
  BY DEF DeviceTyped, DeviceTypeOK, SignalInv
<1>1. /\ refuses' = refuses
      /\ \A u \in Tasks \ {t} : /\ step'[u] = step[u] /\ reply'[u] = reply[u]
                                /\ wait'[u] = wait[u] /\ asked'[u] = asked[u]
  <2>1. CASE ConnectStep(t)
    BY <1>0, <2>1 DEF ConnectStep, Connect, Register, AskConnect, ConnectRefused,
       ConnectTaken, Established, ConnectReturns, Goes, Asks, Answered, Unregisters,
       bluetoothd, fixed
  <2>2. CASE WantSocket(t) \/ AskSocket(t) \/ NoSocket(t) \/ KeepSocket(t)
    BY <1>0, <2>2 DEF WantSocket, AskSocket, NoSocket, KeepSocket, Goes, Asks, Answered,
       bluetoothd, fixed
  <2>3. CASE Watch(t) \/ Scan(t) \/ Scanned(t)
    BY <1>0, <2>3 DEF Watch, Scan, Scanned, Goes, Asks, Answered, bluetoothd, fixed
  <2> QED
    BY <2>1, <2>2, <2>3 DEF TaskStep
<1>2. ASSUME wire' = wire, OneRequest(t)', Heralded(t)'
      PROVE  SignalInv'
  <2>1. ASSUME NEW u \in Tasks \ {t} PROVE OneRequest(u)' /\ Heralded(u)'
    BY <1>1, <1>2, Rests DEF SignalInv
  <2> QED
    BY <1>2, <2>1 DEF SignalInv
<1>3. CASE ConnectStep(t)
  <2>1. wire' = wire
    BY <1>3 DEF ConnectStep, Connect, Register, AskConnect, ConnectRefused, ConnectTaken,
       Established, ConnectReturns, bluetoothd
  <2>2. CASE Connect(t) \/ Register(t)
    BY <1>0, <1>2, <2>1, <2>2 DEF Connect, Register, Goes, OneRequest, Heralded, Promised,
       AtBus, bluetoothd, fixed
  <2>3. CASE AskConnect(t)
    <3>1. /\ step[t] = "calling" /\ step'[t] = "called" /\ asked'[t] = "connect"
          /\ reply[t] = "none" /\ reply' = reply /\ wait' = wait
      BY <1>0, <2>3 DEF AskConnect, Goes, Asks, OneRequest, AtBus
    <3>2. NoMessage(wire, t) /\ OneMessage(wire, t) /\ wait[t] # "none"
      BY <1>0, <3>1 DEF OneRequest, AtBus
    <3>3. ~SaysOk(wire, t)
      BY <3>2 DEF NoMessage, SaysOk
    <3>4. OneRequest(t)' /\ ~Promised(t)'
      BY <2>1, <3>1, <3>2, <3>3 DEF OneRequest, Promised, AtBus
    <3> QED
      BY <1>2, <2>1, <3>4 DEF Heralded
  <2>4. CASE ConnectRefused(t) \/ ConnectReturns(t)
    <3>1. /\ step'[t] = "idle" /\ asked' = asked /\ NoMessage(wire, t)
          /\ asked[t] = "nothing" /\ reply'[t] = "none"
      BY <1>0, <2>4 DEF ConnectRefused, ConnectReturns, Goes, Answered, OneRequest, AtBus,
         bluetoothd
    <3>2. OneRequest(t)' /\ ~Promised(t)'
      BY <1>0, <2>1, <3>1 DEF OneRequest, Promised
    <3> QED
      BY <1>2, <2>1, <3>2 DEF Heralded
  <2>5. CASE ConnectTaken(t)
    <3>1. /\ step[t] = "called" /\ step'[t] = "awaiting" /\ asked' = asked /\ wait' = wait
          /\ reply[t] = "ok" /\ reply'[t] = "none" /\ refuses' = refuses
      BY <1>0, <2>5 DEF ConnectTaken, Goes, Answered, bluetoothd, fixed
    <3>2. NoMessage(wire, t) /\ asked[t] = "nothing"
      BY <1>0, <3>1 DEF OneRequest
    <3>3. OneRequest(t)'
      BY <1>0, <2>1, <3>1, <3>2 DEF OneRequest
    <3>4. Heralded(t)'
      BY <1>0, <2>1, <3>1 DEF Heralded, Promised
    <3> QED
      BY <1>2, <2>1, <3>3, <3>4
  <2>6. CASE Established(t)
    <3>1. /\ step[t] = "awaiting" /\ step'[t] = "looking" /\ asked' = asked
          /\ wait' = wait /\ reply' = reply
      BY <1>0, <2>6 DEF Established, Goes, bluetoothd
    <3>2. OneRequest(t)' /\ ~Promised(t)'
      BY <1>0, <2>1, <3>1 DEF OneRequest, Promised, AtBus
    <3> QED
      BY <1>2, <2>1, <3>2 DEF Heralded
  <2> QED
    BY <1>3, <2>2, <2>3, <2>4, <2>5, <2>6 DEF ConnectStep
<1>4. CASE WantSocket(t) \/ AskSocket(t) \/ NoSocket(t) \/ KeepSocket(t) \/ Watch(t)
           \/ Scan(t)
  <2>1. wire' = wire /\ wait' = wait
    BY <1>4 DEF WantSocket, AskSocket, NoSocket, KeepSocket, Watch, Scan, bluetoothd
  <2>2. /\ step'[t] \notin {"calling", "called", "awaiting", "looking"}
        /\ \/ step[t] \notin AtBus /\ reply' = reply
           \/ reply[t] # "none" /\ reply'[t] = "none" /\ step'[t] = "idle" /\ asked' = asked
        /\ \/ asked' = asked /\ step'[t] \notin AtBus
           \/ step'[t] = "acquiring" /\ asked'[t] = "acquire"
           \/ step'[t] = "scanning" /\ asked'[t] = "scan"
    BY <1>0, <1>4 DEF WantSocket, AskSocket, NoSocket, KeepSocket, Watch, Scan, Goes, Asks,
       Answered, AtBus, bluetoothd
  <2>3. NoMessage(wire, t) /\ OneMessage(wire, t) /\ reply'[t] = "none"
    BY <1>0, <2>2 DEF OneRequest
  <2>4. asked[t] = "nothing" \/ asked' # asked
    BY <1>0, <2>2 DEF OneRequest, AtBus
  <2>5. OneRequest(t)'
    BY <2>1, <2>2, <2>3, <2>4 DEF OneRequest, AtBus
  <2>6. ~Promised(t)'
    BY <2>2 DEF Promised
  <2> QED
    BY <1>2, <2>1, <2>5, <2>6 DEF Heralded
<1>5. CASE Scanned(t)
  <2>1. /\ step[t] = "scanning" /\ step'[t] = "idle" /\ wait' = wait
        /\ reply'[t] = "none"
    BY <1>0, <1>5 DEF Scanned, Goes, Answered
  <2>2. /\ ~Promised(t)' /\ OneMessage(wire, t)
    BY <1>0, <2>1 DEF Promised, OneRequest
  <2>3. CASE reply[t] # "none"
    <3>1. wire' = wire /\ asked' = asked
      BY <1>5, <2>3 DEF Scanned
    <3>2. NoMessage(wire, t) /\ asked[t] = "nothing"
      BY <1>0, <2>3 DEF OneRequest
    <3>3. OneRequest(t)'
      BY <2>1, <2>2, <3>1, <3>2 DEF OneRequest
    <3> QED
      BY <1>2, <2>2, <3>1, <3>3 DEF Heralded
  <2>4. CASE wire' = wire /\ reply[t] = "none"
    <3>1. asked'[t] = "nothing" /\ NoMessage(wire, t)
      <4>1. /\ asked' = [asked EXCEPT ![t] = "nothing"]
            /\ \/ \A i \in DOMAIN wire : wire[i].task # t
               \/ \E i \in DOMAIN wire : wire[i].task = t /\ wire' = RemoveAt(wire, i)
        BY <1>5, <2>4 DEF Scanned, Answered
      <4>2. DOMAIN wire = 1 .. Len(wire)
        BY <1>0
      <4>3. ASSUME NEW i \in DOMAIN wire, wire' = RemoveAt(wire, i) PROVE FALSE
        <5>1. Len(wire) \in Nat \ {0} /\ Len(RemoveAt(wire, i)) = Len(wire) - 1
          BY <1>0, <4>2, <4>3, Removed, Zenon
        <5>2. RemoveAt(wire, i) = wire
          BY <2>4, <4>3
        <5>3. Len(wire) = Len(wire) - 1
          BY <5>1, <5>2, Zenon
        <5> QED
          BY <5>1, <5>3
      <4> QED
        BY <1>0, <4>1, <4>2, <4>3 DEF NoMessage
    <3>2. OneRequest(t)'
      BY <2>1, <2>2, <2>4, <3>1 DEF OneRequest
    <3> QED
      BY <1>2, <2>2, <2>4, <3>2 DEF Heralded
  <2>5. CASE wire' # wire
    <3>1. PICK i \in DOMAIN wire : wire[i].task = t /\ wire' = RemoveAt(wire, i)
      BY <1>5, <2>5 DEF Scanned
    <3>2. /\ i \in 1 .. Len(wire) /\ wire[i] \in Message /\ wire' \in Seq(Message)
      <4>1. i \in 1 .. Len(wire)
        BY <1>0, <3>1
      <4> QED
        BY <1>0, <3>1, <4>1, ElementOfSeq, Removed
    <3>3. wire[i].kind \notin OfLink
      BY <3>1, <3>2, DeviceAssumption DEF Message, OfLink
    <3>4. asked'[t] = "nothing" /\ NoMessage(wire', t)
      <4>1. asked'[t] = "nothing"
        BY <1>0, <1>5, <2>5 DEF Scanned
      <4> QED
        BY <1>0, <2>2, <3>1, <3>2, <4>1, OneLess
    <3>5. OneRequest(t)' /\ Heralded(t)'
      <4>1. OneMessage(wire', t)
        BY <1>0, <2>2, <3>1, <3>2, OneLess
      <4>2. OneRequest(t)'
        BY <2>1, <3>4, <4>1 DEF OneRequest
      <4> QED
        BY <2>2, <4>2 DEF Heralded
    <3>6. ASSUME NEW u \in Tasks \ {t} PROVE OneRequest(u)' /\ Heralded(u)'
      <4>1. /\ NoMessage(wire, u) => NoMessage(wire', u)
            /\ OneMessage(wire, u) => OneMessage(wire', u)
            /\ SaysOk(wire', u) => SaysOk(wire, u)
            /\ SignalComes(wire) => SignalComes(wire')
        BY <1>0, <3>1, <3>2, <3>3, OneLess
      <4> QED
        BY <1>1, <4>1, Rests DEF SignalInv
    <3> QED
      BY <3>5, <3>6 DEF SignalInv
  <2> QED
    BY <2>3, <2>4, <2>5
<1> QED
  BY <1>3, <1>4, <1>5 DEF TaskStep

LEMMA ReaderHeralded ==
    ASSUME DeviceTyped, SignalInv, ReaderNext
    PROVE  SignalInv'
<1>0. /\ wire \in Seq(Message) /\ reply \in [Tasks -> {"none", "ok", "error"}]
      /\ wait \in [Tasks -> {"none", "filed", "told", "dropped"}]
  BY DEF DeviceTyped, DeviceTypeOK
<1>1. /\ wire # <<>> /\ wire' = Tail(wire) /\ asked' = asked /\ refuses' = refuses
      /\ step' = step
  BY DEF ReaderNext, OnConnected, OnDisconnected, OnServicesResolved, OnServicesChanged,
     OnDeviceSeen, OnReply, Reads, tasks, fixed
<1>2. /\ 1 \in 1 .. Len(wire) /\ Head(wire) = wire[1] /\ wire[1] \in Message
      /\ wire' \in Seq(Message) /\ wire' = RemoveAt(wire, 1)
  BY <1>0, <1>1, HeadRead
<1>3. ASSUME NEW u \in Tasks
      PROVE  /\ NoMessage(wire, u) => NoMessage(wire', u) /\ wire[1].task # u
             /\ OneMessage(wire, u) => OneMessage(wire', u)
             /\ OneMessage(wire, u) /\ wire[1].task = u => NoMessage(wire', u)
             /\ SaysOk(wire', u) => SaysOk(wire, u)
             /\ SignalComes(wire) /\ wire[1].kind \notin OfLink => SignalComes(wire')
  BY <1>0, <1>2, OneLess
<1>4. CASE OnConnected \/ OnDisconnected
  <2>1. /\ reply' = reply
        /\ wait' = End("told") \/ wait' = End("dropped")
    BY <1>4 DEF OnConnected, OnDisconnected, tasks
  <2>2. ASSUME NEW u \in Tasks PROVE OneRequest(u)' /\ Heralded(u)'
    <3>1. wait'[u] # "filed" /\ (wait[u] # "none" => wait'[u] # "none")
      BY <1>0, <2>1 DEF End
    <3>2. OneRequest(u)'
      BY <1>1, <1>3, <2>1, <3>1 DEF OneRequest, SignalInv
    <3> QED
      BY <3>1, <3>2 DEF Heralded
  <2> QED
    BY <2>2 DEF SignalInv
<1>5. CASE OnServicesResolved \/ OnServicesChanged \/ OnDeviceSeen
  <2>1. reply' = reply /\ wait' = wait /\ wire[1].kind \notin OfLink
    BY <1>2, <1>5 DEF OnServicesResolved, OnServicesChanged, OnDeviceSeen, Reads, OfLink,
       tasks
  <2>2. ASSUME NEW u \in Tasks PROVE OneRequest(u)' /\ Heralded(u)'
    BY <1>1, <1>3, <2>1, Rests DEF SignalInv
  <2> QED
    BY <2>2 DEF SignalInv
<1>6. CASE OnReply
  <2>1. /\ wire[1].kind = "reply" /\ wait' = wait
        /\ reply' = [reply EXCEPT ![wire[1].task] = wire[1].says]
    BY <1>2, <1>6 DEF OnReply, Reads
  <2>2. wire[1].kind \notin OfLink /\ wire[1].task \in Tasks
    BY <1>2, <2>1 DEF OfLink, Message
  <2>3. ASSUME NEW u \in Tasks, u # wire[1].task PROVE OneRequest(u)' /\ Heralded(u)'
    <3>1. reply'[u] = reply[u]
      BY <1>0, <2>1, <2>3
    <3> QED
      BY <1>1, <1>3, <2>1, <2>2, <3>1, Rests DEF SignalInv
  <2>4. ASSUME NEW u \in Tasks, u = wire[1].task PROVE OneRequest(u)' /\ Heralded(u)'
    <3>1. OneRequest(u) /\ Heralded(u) /\ ~NoMessage(wire, u) /\ NoMessage(wire', u)
      BY <1>3, <2>4 DEF SignalInv, OneRequest
    <3>2. /\ asked[u] = "nothing" /\ step[u] \in AtBus /\ OneMessage(wire', u)
      <4>1. asked[u] = "nothing" /\ step[u] \in AtBus
        BY <3>1 DEF OneRequest
      <4> QED
        BY <1>3, <3>1, <4>1 DEF OneRequest
    <3>3. OneRequest(u)'
      BY <1>1, <2>1, <3>1, <3>2 DEF OneRequest
    <3>4. reply'[u] = wire[1].says
      BY <1>0, <2>1, <2>2, <2>4
    <3>5. wire[1].says = "ok" => SaysOk(wire, u)
      BY <1>2, <2>4 DEF SaysOk
    <3>6. Promised(u)' => Promised(u)
      BY <1>1, <1>3, <3>4, <3>5 DEF Promised
    <3>7. SignalComes(wire) => SignalComes(wire')
      BY <1>3, <2>2
    <3>8. Heralded(u)'
      BY <1>1, <2>1, <3>1, <3>6, <3>7 DEF Heralded
    <3> QED
      BY <3>3, <3>8
  <2> QED
    BY <2>3, <2>4 DEF SignalInv
<1> QED
  BY <1>4, <1>5, <1>6 DEF ReaderNext

(* bluetoothd sends one signal, or two, which are nobody's reply. *)
LEMMA SignalsSent ==
    ASSUME DeviceTyped, NEW u \in Tasks, NEW m \in Message, NEW n \in Message,
           m.task = NoTask, n.task = NoTask, Sends(<<m>>) \/ Sends(<<m, n>>)
    PROVE  /\ NoMessage(wire, u) => NoMessage(wire', u)
           /\ OneMessage(wire, u) => OneMessage(wire', u)
           /\ SaysOk(wire', u) => SaysOk(wire, u)
           /\ SignalComes(wire) => SignalComes(wire')
<1>1. /\ wire \in Seq(Message) /\ Append(wire, m) \in Seq(Message) /\ u # NoTask
      /\ wire' = Append(wire, m) \/ wire' = Append(Append(wire, m), n)
  BY AtTheBack, DeviceAssumption DEF DeviceTyped, Sends
<1> DEFINE a == Append(wire, m)
<1>2. /\ NoMessage(wire, u) => NoMessage(a, u)
      /\ OneMessage(wire, u) => OneMessage(a, u)
      /\ SaysOk(a, u) => SaysOk(wire, u)
      /\ SignalComes(wire) => SignalComes(a)
  BY <1>1, OneMore
<1>3. a \in Seq(Message) /\ (wire' = a \/ wire' = Append(a, n))
  BY <1>1
<1> HIDE DEF a
<1>4. /\ NoMessage(a, u) => NoMessage(Append(a, n), u)
      /\ OneMessage(a, u) => OneMessage(Append(a, n), u)
      /\ SaysOk(Append(a, n), u) => SaysOk(a, u)
      /\ SignalComes(a) => SignalComes(Append(a, n))
  BY <1>1, <1>3, OneMore
<1>5. CASE wire' = a
  BY <1>2, <1>5
<1>6. CASE wire' = Append(a, n)
  BY <1>2, <1>4, <1>6
<1> QED
  BY <1>3, <1>5, <1>6

(* It answers t: where it refuses what is connected, a connect is answered *)
(* with an error, unless a link came up with it.                           *)
LEMMA AnswerHeralded ==
    ASSUME DeviceTyped, SignalInv, NEW t \in Tasks, Answer(t)
    PROVE  SignalInv'
<1>0. /\ wire \in Seq(Message) /\ ups \in 0 .. MaxUps
      /\ asked \in [Tasks -> {"nothing", "connect", "acquire", "scan"}]
  BY DEF DeviceTyped, DeviceTypeOK
<1>1. PICK says \in {"ok", "error"}, l \in {NoLink, ups} :
         /\ l = NoLink \/ (l = ups /\ linked)
         /\ asked[t] # "nothing"
         /\ refuses /\ asked[t] = "connect" => says = "error"
         /\ Answers(t, says, l, <<>>)
  <2>1. CASE asked[t] = "connect" /\ Answers(t, "error", NoLink, <<>>)
    BY <2>1
  <2>2. CASE asked[t] = "connect" /\ linked /\ ~refuses /\ Answers(t, "ok", NoLink, <<>>)
    BY <2>2
  <2>3. CASE asked[t] = "acquire" /\ ~linked /\ Answers(t, "error", NoLink, <<>>)
    BY <2>3
  <2>4. CASE asked[t] = "acquire" /\ linked /\ Answers(t, "ok", ups, <<>>)
    BY <2>4
  <2>5. CASE asked[t] = "scan" /\ Answers(t, "ok", NoLink, <<>>)
    BY <2>5
  <2> QED
    BY <2>1, <2>2, <2>3, <2>4, <2>5 DEF Answer
<1> DEFINE r == Reply(t, says, l)
<1>2. /\ r \in Message /\ r.task = t /\ r.says = says
  <2>1. l \in Ups \cup {NoLink}
    BY <1>0, <1>1, DeviceAssumption DEF Ups, NoLink
  <2> QED
    BY <2>1, Messages DEF Reply
<1> HIDE DEF r
<1>3. /\ wire' = Append(wire, r) /\ asked' = [asked EXCEPT ![t] = "nothing"]
      /\ UNCHANGED <<step, reply, wait, refuses>>
  <2>1. Sends(<<r>>) /\ asked' = [asked EXCEPT ![t] = "nothing"]
    <3>1. /\ <<>> \o <<r>> = <<r>> /\ <<r>> \o <<>> = <<r>>
      BY <1>2, IsASeq, ConcatEmptySeq
    <3>2. /\ asked' = [asked EXCEPT ![t] = "nothing"]
          /\ Sends(<<>> \o <<r>>) \/ Sends(<<r>> \o <<>>)
      BY <1>1 DEF Answers, r
    <3> QED
      BY <3>1, <3>2
  <2> QED
    BY <1>0, <1>2, <2>1, AtTheBack DEF Sends, tasks, fixed
<1>4. ASSUME NEW u \in Tasks
      PROVE  /\ NoMessage(wire, u) /\ r.task # u => NoMessage(wire', u)
             /\ OneMessage(wire, u) /\ r.task # u => OneMessage(wire', u)
             /\ NoMessage(wire, u) => OneMessage(wire', u)
             /\ SaysOk(wire', u) => SaysOk(wire, u) \/ (r.task = u /\ r.says = "ok")
             /\ SignalComes(wire) => SignalComes(wire')
  BY <1>0, <1>2, <1>3, OneMore
<1>5. ASSUME NEW u \in Tasks, u # t PROVE OneRequest(u)' /\ Heralded(u)'
  <2>1. asked'[u] = asked[u] /\ r.task # u
    BY <1>0, <1>2, <1>3, <1>5
  <2> QED
    BY <1>3, <1>4, <2>1, Rests DEF SignalInv
<1>6. OneRequest(t)' /\ Heralded(t)'
  <2>1. /\ OneRequest(t) /\ reply[t] = "none" /\ NoMessage(wire, t) /\ asked'[t] = "nothing"
        /\ step[t] \in AtBus
    <3>1. OneRequest(t) /\ asked[t] # "nothing" /\ asked'[t] = "nothing"
      BY <1>0, <1>1, <1>3 DEF SignalInv
    <3>2. asked[t] \in {"nothing", "connect", "acquire", "scan"}
      BY <1>0
    <3> QED
      BY <3>1, <3>2 DEF OneRequest, AtBus
  <2>2. OneRequest(t)'
    BY <1>3, <1>4, <2>1 DEF OneRequest
  <2>3. step[t] = "called" => asked[t] = "connect"
    BY <1>0, <1>1, <2>1 DEF OneRequest
  <2>4. ~SaysOk(wire, t)
    BY <2>1 DEF NoMessage, SaysOk
  <2>5. refuses => ~Promised(t)'
    BY <1>1, <1>2, <1>3, <1>4, <2>1, <2>3, <2>4 DEF Promised, AtBus
  <2> QED
    BY <1>3, <2>2, <2>5 DEF Heralded
<1> QED
  BY <1>5, <1>6 DEF SignalInv

LEMMA BusHeralded ==
    ASSUME DeviceTyped, SignalInv, BusStep
    PROVE  SignalInv'
<1>0. /\ wire \in Seq(Message)
      /\ asked \in [Tasks -> {"nothing", "connect", "acquire", "scan"}]
  BY DEF DeviceTyped, DeviceTypeOK
<1>1. \A k \in OfLink \cup {"resolved", "changed", "seen"} :
         Signal(k) \in Message /\ Signal(k).kind = k /\ Signal(k).task = NoTask
  BY Messages DEF OfLink, Signal, Reply
<1>2. CASE Resolve \/ LinkDown \/ Rebuild \/ See
  <2>1. UNCHANGED <<step, reply, wait, asked, refuses>>
    BY <1>2 DEF Resolve, LinkDown, Rebuild, See, Sends, tasks, fixed
  <2>2. PICK m \in Message, n \in Message :
           /\ m.task = NoTask /\ n.task = NoTask
           /\ Sends(<<m>>) \/ Sends(<<m, n>>)
    BY <1>1, <1>2 DEF Resolve, LinkDown, Rebuild, See, OfLink
  <2>3. ASSUME NEW u \in Tasks PROVE OneRequest(u)' /\ Heralded(u)'
    <3>1. /\ NoMessage(wire, u) => NoMessage(wire', u)
          /\ OneMessage(wire, u) => OneMessage(wire', u)
          /\ SaysOk(wire', u) => SaysOk(wire, u)
          /\ SignalComes(wire) => SignalComes(wire')
      BY <2>2, SignalsSent
    <3> QED
      BY <2>1, <3>1, Rests DEF SignalInv
  <2> QED
    BY <2>3 DEF SignalInv
<1>3. CASE LinkUp
  <2> DEFINE c == Signal("connected")
  <2>1. c \in Message /\ c.kind \in OfLink /\ c.task = NoTask
    BY <1>1 DEF OfLink
  <2> HIDE DEF c
  <2>2. CASE Sends(<<c>>) /\ asked' = asked
    <3>1. UNCHANGED <<step, reply, wait, asked, refuses>>
      BY <2>2 DEF Sends, tasks, fixed
    <3>2. ASSUME NEW u \in Tasks PROVE OneRequest(u)' /\ Heralded(u)'
      <4>1. /\ NoMessage(wire, u) => NoMessage(wire', u)
            /\ OneMessage(wire, u) => OneMessage(wire', u)
            /\ SaysOk(wire', u) => SaysOk(wire, u)
            /\ SignalComes(wire) => SignalComes(wire')
        BY <2>1, <2>2, SignalsSent
      <4> QED
        BY <3>1, <4>1, Rests DEF SignalInv
    <3> QED
      BY <3>2 DEF SignalInv
  <2>3. CASE \E t \in Tasks : asked[t] = "connect" /\ Answers(t, "ok", NoLink, <<c>>)
    <3>1. PICK t \in Tasks : asked[t] = "connect" /\ Answers(t, "ok", NoLink, <<c>>)
      BY <2>3
    <3> DEFINE r == Reply(t, "ok", NoLink)
    <3>2. r \in Message /\ r.task = t
      BY Messages DEF Reply
    <3>3. <<c>> \o <<r>> = <<c, r>> /\ <<r>> \o <<c>> = <<r, c>>
      BY TwoTogether
    <3>4. /\ asked' = [asked EXCEPT ![t] = "nothing"]
          /\ Sends(<<c>> \o <<r>>) \/ Sends(<<r>> \o <<c>>)
      BY <3>1 DEF Answers
    <3> HIDE DEF r
    <3>5. PICK m \in {c, r}, n \in {c, r} : m # n /\ Sends(<<m, n>>)
      <4>1. c # r
        BY <2>1, <3>2, DeviceAssumption
      <4> QED
        BY <3>3, <3>4, <4>1
    <3>6. /\ m \in Message /\ n \in Message /\ Append(wire, m) \in Seq(Message)
          /\ wire' = Append(Append(wire, m), n) /\ wire' \in Seq(Message)
          /\ UNCHANGED <<step, reply, wait, refuses>>
      BY <1>0, <2>1, <3>2, <3>5, AtTheBack DEF Sends, tasks, fixed
    <3> DEFINE a == Append(wire, m)
    <3>7. a \in Seq(Message) /\ wire' = Append(a, n)
      BY <3>6
    <3>8. ASSUME NEW u \in Tasks
          PROVE  /\ NoMessage(wire, u) /\ m.task # u => NoMessage(a, u)
                 /\ OneMessage(wire, u) /\ m.task # u => OneMessage(a, u)
                 /\ NoMessage(wire, u) => OneMessage(a, u)
      BY <1>0, <3>6, OneMore
    <3> HIDE DEF a
    <3>9. ASSUME NEW u \in Tasks
          PROVE  /\ NoMessage(a, u) /\ n.task # u => NoMessage(wire', u)
                 /\ OneMessage(a, u) /\ n.task # u => OneMessage(wire', u)
                 /\ NoMessage(a, u) => OneMessage(wire', u)
      BY <3>6, <3>7, OneMore
    <3>10. SignalComes(wire')
      <4>1. m = c \/ n = c
        BY <3>5
      <4>2. m.kind \in OfLink => SignalComes(a)
        BY <1>0, <3>1, <3>6, OneMore DEF a
      <4>3. SignalComes(a) \/ n.kind \in OfLink => SignalComes(wire')
        BY <3>1, <3>6, <3>7, OneMore
      <4> QED
        BY <2>1, <4>1, <4>2, <4>3
    <3>11. ASSUME NEW u \in Tasks PROVE OneRequest(u)'
      <4>1. CASE u # t
        <5>1. m.task # u /\ n.task # u /\ asked'[u] = asked[u]
          BY <1>0, <2>1, <3>2, <3>4, <3>5, <4>1, DeviceAssumption
        <5>2. /\ NoMessage(wire, u) => NoMessage(wire', u)
              /\ OneMessage(wire, u) => OneMessage(wire', u)
          BY <3>8, <3>9, <5>1
        <5> QED
          BY <3>6, <5>1, <5>2 DEF SignalInv, OneRequest
      <4>2. CASE u = t
        <5>1. /\ OneRequest(t) /\ reply[t] = "none" /\ NoMessage(wire, t)
              /\ asked'[t] = "nothing" /\ step[t] = "called"
          BY <1>0, <3>1, <3>4 DEF SignalInv, OneRequest
        <5>2. m.task # t \/ n.task # t
          BY <2>1, <3>5, DeviceAssumption
        <5>3. OneMessage(wire', t)
          BY <3>8, <3>9, <5>1, <5>2
        <5> QED
          BY <3>6, <4>2, <5>1, <5>3 DEF OneRequest, AtBus
      <4> QED
        BY <4>1, <4>2
    <3> QED
      BY <3>10, <3>11 DEF SignalInv, Heralded
  <2> QED
    BY <1>3, <2>2, <2>3 DEF LinkUp, c
<1> QED
  BY <1>2, <1>3, AnswerHeralded DEF BusStep

(* Where bluetoothd refuses to connect what is connected, a task that was  *)
(* told of success and still waits for the signal of its link has not      *)
(* missed it: it was told or dropped, or the signal is on its way, or that *)
(* of the link's end, which drops it (backend.rs:961-1000).                *)
NoSignalMissed ==
    refuses => \A t \in Tasks : step[t] = "awaiting" =>
        \/ wait[t] \in {"told", "dropped"}
        \/ \E i \in 1 .. Len(wire) : wire[i].kind \in {"connected", "disconnected"}

THEOREM ConnectMissesNoSignal == Spec => []NoSignalMissed
<1>1. Init => SignalInv
  BY DEF Init, DeviceInit, SignalInv, OneRequest, Heralded, Promised, NoMessage, OneMessage
<1>2. IInv /\ SignalInv /\ [CallsPart \/ DevicePart]_vars => SignalInv'
  <2> SUFFICES ASSUME DeviceTyped, SignalInv, [DeviceNext]_deviceVars PROVE SignalInv'
    BY StepOfHalf DEF IInv, DeviceInv
  <2>1. CASE UNCHANGED deviceVars
    BY <2>1 DEF SignalInv, OneRequest, Heralded, Promised, deviceVars, tasks, bluetoothd,
       fixed
  <2> QED
    BY <2>1, TaskHeralded, ReaderHeralded, BusHeralded DEF DeviceNext, BusStep
<1>3. IInv /\ SignalInv => NoSignalMissed
  BY DEF IInv, DeviceInv, DeviceTyped, DeviceTypeOK, SignalInv, OneRequest, Heralded,
     Promised, SignalComes, OfLink, NoSignalMissed
<1> QED
  BY <1>1, <1>2, <1>3, Invariance, PTL DEF Spec
=============================================================================
