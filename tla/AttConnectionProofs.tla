------------------------- MODULE AttConnectionProofs -------------------------
(***************************************************************************)
(* Safety of AttConnection for every set of threads and any number of      *)
(* requests and of values of the peer. Two inductive invariants: what is   *)
(* owed between a request and its answer, which speaks only of the time    *)
(* before the first timeout, and the order of what the sink is told.       *)
(***************************************************************************)
EXTENDS AttConnection, TLAPS, SequenceTheorems

NoReplyOnWire == \A i \in 1 .. Len(wire) : wire[i].kind # "reply"

NothingOwed == toPeer = <<>> /\ reply = 0 /\ NoReplyOnWire

(* At most one answer is owed: at the peer, on the wire or in the slot,    *)
(* and it is the last request's.                                           *)
OwedOnce ==
    /\ toPeer # <<>> =>
         toPeer = <<sent>> /\ reply = 0 /\ NoReplyOnWire
    /\ \A i \in 1 .. Len(wire) : wire[i].kind = "reply" =>
         /\ wire[i].n = sent /\ reply = 0
         /\ \A j \in 1 .. Len(wire) : wire[j].kind = "reply" => i = j
    /\ reply # 0 => reply = sent

(* What a thread may rely on where it is. *)
WhoIsOwed ==
    /\ \A r \in Requesters :
         /\ pc[r] \in {"locked", "cleared"} => NothingOwed
         /\ pc[r] \in {"looking", "parking", "waiting"} => mine[r] = sent
         /\ pc[r] # "idle" => outcome[r].kind = "none"
    /\ inFlight = NoOne /\ ~stopped => NothingOwed

IInv ==
    /\ TypeOK
    /\ ~late => OwedOnce /\ WhoIsOwed /\ AnswerIsMine

(* The values on the wire and those told are in the order they were made,  *)
(* and the end is told by the reader's last step.                          *)
Told ==
    /\ \A i \in 1 .. Len(wire) : wire[i].kind # "reply" => wire[i].n <= made
    /\ \A i, j \in 1 .. Len(wire) :
         i < j /\ wire[i].kind # "reply" /\ wire[j].kind # "reply"
            => wire[i].n < wire[j].n
    /\ \A i \in 1 .. Len(told) :
         \/ told[i].kind = "value" /\ told[i].n <= made
         \/ told[i] = Down /\ reader = "gone" /\ i = Len(told)
    /\ \A i, j \in 1 .. Len(told) :
         i < j /\ told[j].kind = "value" => told[i].n < told[j].n
    /\ \A i \in 1 .. Len(told), j \in 1 .. Len(wire) :
         told[i].kind = "value" /\ wire[j].kind # "reply"
            => told[i].n < wire[j].n

OInv == TypeOK /\ Told
-----------------------------------------------------------------------------
(* A sequence that loses its head, and one that gains a last element.      *)
LEMMA Shorter ==
    ASSUME NEW S, NEW s \in Seq(S), s # <<>>
    PROVE  /\ Tail(s) \in Seq(S) /\ Head(s) \in S /\ Head(s) = s[1]
           /\ Len(s) \in Nat \ {0} /\ Len(Tail(s)) = Len(s) - 1
           /\ \A i \in 1 .. Len(s) - 1 : Tail(s)[i] = s[i + 1]
<1>1. Len(s) \in Nat \ {0}
  BY EmptySeq
<1> QED
  BY <1>1, HeadTailProperties

LEMMA Longer ==
    ASSUME NEW S, NEW s \in Seq(S), NEW e \in S
    PROVE  /\ Append(s, e) \in Seq(S)
           /\ Len(s) \in Nat /\ Len(Append(s, e)) = Len(s) + 1
           /\ \A i \in 1 .. Len(s) : Append(s, e)[i] = s[i]
           /\ Append(s, e)[Len(s) + 1] = e
  BY AppendProperties

LEMMA Single ==
    ASSUME NEW e
    PROVE  Tail(<<e>>) = <<>> /\ Head(<<e>>) = e /\ Append(<<>>, e) = <<e>> /\ Len(<<e>>) = 1
  OBVIOUS

-----------------------------------------------------------------------------
(* Types, action by action where sequences change. *)

LEMMA NothingYet == <<>> \in Seq(Nat) /\ <<>> \in Seq(Pdu) /\ <<>> \in Seq(Pdu \cup {Down})
  OBVIOUS

LEMMA InitTypeOK == Init => TypeOK
<1> SUFFICES ASSUME Init PROVE TypeOK
  OBVIOUS
<1>1. \A r \in Requesters : pc[r] # "idle" <=> inFlight = r
  BY AttAssumption DEF Init
<1>2. outcome \in [Requesters -> Outcome]
  BY DEF Init, Outcome
<1>3. toPeer \in Seq(Nat) /\ wire \in Seq(Pdu) /\ told \in Seq(Pdu \cup {Down})
  BY NothingYet DEF Init
<1> QED
  BY <1>1, <1>2, <1>3 DEF Init, TypeOK

LEMMA RequesterTypeOK ==
    ASSUME TypeOK, NEW r \in Requesters, Lock(r) \/ Requester(r) \/ Expire(r)
    PROVE  TypeOK'
<1>1. CASE Send(r)
  <2>1. toPeer' \in Seq(Nat)
    BY <1>1, Longer DEF Send, TypeOK
  <2> QED
    BY <1>1, <2>1 DEF Send, Goto, TypeOK, shared
<1>2. CASE Lock(r)
  BY <1>2, AttAssumption DEF Lock, Free, Goto, TypeOK, Outcome, link, history
<1>3. CASE Clear(r)
  BY <1>3 DEF Clear, Goto, TypeOK, link, history
<1>4. CASE Park(r) \/ Wait(r)
  BY <1>4 DEF Park, Wait, Goto, TypeOK, shared, link, history
<1>5. CASE Expire(r)
  BY <1>5 DEF Expire, TypeOK, shared, link, history
<1>6. CASE SendFails(r) \/ TakeReply(r) \/ GiveUp(r)
  <2>1. PICK kind \in {"answer", "timeout", "disconnected", "io"}, n \in Nat :
            End(r, kind, n)
    BY <1>6 DEF SendFails, TakeReply, GiveUp, TypeOK
  <2>2. /\ reply' \in Nat /\ late' \in BOOLEAN /\ pc[r] # "idle"
        /\ UNCHANGED <<stopped, mine, expired, reader, link, told, sent, made>>
    <3>1. CASE SendFails(r)
      BY <3>1 DEF SendFails, TypeOK, history
    <3>2. CASE TakeReply(r)
      BY <3>2 DEF TakeReply, TypeOK, history
    <3>3. CASE GiveUp(r)
      BY <3>3 DEF GiveUp, TypeOK
    <3> QED
      BY <1>6, <3>1, <3>2, <3>3
  <2>3. outcome' \in [Requesters -> Outcome]
    BY <2>1 DEF End, TypeOK, Outcome
  <2>4. /\ pc' \in [Requesters -> {"idle", "locked", "cleared", "looking",
                                     "parking", "waiting"}]
        /\ inFlight' = NoOne
        /\ \A q \in Requesters : pc'[q] # "idle" <=> inFlight' = q
    BY <2>1, <2>2, AttAssumption DEF End, TypeOK
  <2> QED
    BY <2>2, <2>3, <2>4 DEF TypeOK, link
<1> QED
  BY <1>1, <1>2, <1>3, <1>4, <1>5, <1>6 DEF Requester

LEMMA ArrivedTyped ==
    ASSUME TypeOK, Arrived
    PROVE  /\ wire' = Tail(wire) /\ wire' \in Seq(Pdu)
           /\ Head(wire) \in Pdu /\ Head(wire) = wire[1]
           /\ Head(wire).n \in Nat /\ Head(wire).kind \in {"reply", "value", "asked"}
           /\ Len(wire) \in Nat \ {0} /\ Len(wire') = Len(wire) - 1
           /\ \A i \in 1 .. Len(wire') : wire'[i] = wire[i + 1]
           /\ reader = "readable" /\ reader' = "looping"
<1>1. /\ wire \in Seq(Pdu) /\ wire # <<>> /\ wire' = Tail(wire)
      /\ reader = "readable" /\ reader' = "looping"
  BY DEF Arrived, TypeOK
<1>2. /\ Tail(wire) \in Seq(Pdu) /\ Head(wire) \in Pdu /\ Head(wire) = wire[1]
      /\ Len(wire) \in Nat \ {0} /\ Len(Tail(wire)) = Len(wire) - 1
      /\ \A i \in 1 .. Len(wire) - 1 : Tail(wire)[i] = wire[i + 1]
  BY <1>1, Shorter
<1>3. Head(wire).n \in Nat /\ Head(wire).kind \in {"reply", "value", "asked"}
  BY <1>2 DEF Pdu
<1> QED
  BY <1>1, <1>2, <1>3

LEMMA ReaderTypeOK ==
    ASSUME TypeOK, Reader \/ ReaderFails
    PROVE  TypeOK'
<1>1. CASE ReadReply
  <2>1. Head(wire).n \in Nat /\ wire' \in Seq(Pdu) /\ reader' = "looping"
    BY <1>1, ArrivedTyped DEF ReadReply
  <2> QED
    BY <1>1, <2>1 DEF ReadReply, Notify, TypeOK, history
<1>2. CASE ReadOther
  <2>1. Head(wire) \in Pdu /\ wire' \in Seq(Pdu) /\ reader' = "looping"
    BY <1>2, ArrivedTyped DEF ReadOther
  <2>2. told' \in Seq(Pdu \cup {Down})
    BY <1>2, <2>1, Longer DEF ReadOther, TypeOK
  <2> QED
    BY <1>2, <2>1, <2>2 DEF ReadOther, TypeOK, shared, threads, history
<1>3. CASE ReportDown
  <2>1. told' \in Seq(Pdu \cup {Down})
    BY <1>3, Longer DEF ReportDown, TypeOK
  <2> QED
    BY <1>3, <2>1 DEF ReportDown, TypeOK, shared, threads, link, history
<1>4. CASE ReaderPolls \/ ReaderStops \/ ReaderFails \/ ReaderNotifies
  BY <1>4 DEF ReaderPolls, ReaderStops, ReaderFails, StopReading, ReaderNotifies, Notify, TypeOK, shared,
              threads, link, history
<1> QED
  BY <1>1, <1>2, <1>3, <1>4 DEF Reader

LEMMA OthersTypeOK ==
    ASSUME TypeOK,
           PeerAnswers \/ PeerSpeaks \/ LinkDrops \/ Close \/ Shutdown
    PROVE  TypeOK'
<1>1. CASE PeerAnswers
  <2>1. Head(toPeer) \in Nat /\ toPeer' \in Seq(Nat)
    BY <1>1, Shorter DEF PeerAnswers, TypeOK
  <2>2. wire' \in Seq(Pdu)
    BY <1>1, <2>1, Longer DEF PeerAnswers, TypeOK, Reply, Pdu
  <2> QED
    BY <1>1, <2>1, <2>2 DEF PeerAnswers, TypeOK, shared, threads, history
<1>2. CASE PeerSpeaks
  <2>1. wire' \in Seq(Pdu)
    BY <1>2, Longer DEF PeerSpeaks, TypeOK, Value, Asked, Pdu
  <2> QED
    BY <1>2, <2>1 DEF PeerSpeaks, TypeOK, shared, threads
<1>3. CASE LinkDrops \/ Close \/ Shutdown
  BY <1>3, NothingYet DEF LinkDrops, Close, Shutdown, TypeOK, shared, threads, link, history
<1> QED
  BY <1>1, <1>2, <1>3

LEMMA NextTypeOK == TypeOK /\ [Next]_vars => TypeOK'
<1>1. TypeOK /\ UNCHANGED vars => TypeOK'
  BY DEF TypeOK, vars, shared, threads, link, history
<1> QED
  BY <1>1, RequesterTypeOK, ReaderTypeOK, OthersTypeOK DEF Next

-----------------------------------------------------------------------------
(* What is owed. Until the first timeout, a step that touches no answer    *)
(* needs only say who may be where.                                        *)

Owed == OwedOnce /\ WhoIsOwed /\ AnswerIsMine

LEMMA InitOwed == Init => Owed
  BY DEF Init, Owed, OwedOnce, WhoIsOwed, AnswerIsMine, NothingOwed, NoReplyOnWire

LEMMA SameOwed ==
    ASSUME OwedOnce, UNCHANGED <<toPeer, reply, wire, sent>>
    PROVE  OwedOnce' /\ (NothingOwed <=> NothingOwed')
  BY DEF OwedOnce, NothingOwed, NoReplyOnWire

LEMMA RequesterOwed ==
    ASSUME TypeOK, Owed, ~late, ~late', NEW r \in Requesters,
           Lock(r) \/ Requester(r) \/ Expire(r)
    PROVE  Owed'
<1>1. CASE Lock(r)
  <2>1. NothingOwed /\ OwedOnce' /\ NothingOwed'
    BY <1>1, SameOwed DEF Lock, Free, Owed, WhoIsOwed, link, history
  <2> QED
    BY <1>1, <2>1 DEF Lock, Free, Goto, Owed, WhoIsOwed, AnswerIsMine, TypeOK,
                      link, history
<1>2. CASE Clear(r)
  <2>1. NothingOwed /\ OwedOnce' /\ NothingOwed'
    BY <1>2, SameOwed DEF Clear, Goto, Owed, WhoIsOwed, NothingOwed, link, history
  <2> QED
    BY <1>2, <2>1 DEF Clear, Goto, Owed, WhoIsOwed, AnswerIsMine, TypeOK, history
<1>3. CASE Send(r)
  <2>1. NothingOwed /\ inFlight = r
    BY <1>3 DEF Send, Goto, Owed, WhoIsOwed, TypeOK
  <2>2. toPeer' = <<sent'>> /\ reply' = 0 /\ NoReplyOnWire'
    BY <1>3, <2>1, Single DEF Send, NothingOwed, NoReplyOnWire, shared
  <2>3. OwedOnce'
    BY <2>2 DEF OwedOnce, NoReplyOnWire
  <2>4. \A q \in Requesters : q # r => pc[q] = "idle" /\ pc'[q] = "idle"
    BY <1>3, <2>1 DEF Send, Goto, TypeOK
  <2>5. /\ inFlight' = r /\ pc'[r] = "looking" /\ mine'[r] = sent'
        /\ pc[r] = "cleared" /\ UNCHANGED outcome
        /\ \A q \in Requesters : q # r => mine'[q] = mine[q]
    BY <1>3, <2>1 DEF Send, Goto, TypeOK, shared
  <2>6. WhoIsOwed'
    BY <2>4, <2>5, AttAssumption DEF Owed, WhoIsOwed
  <2>7. AnswerIsMine'
    BY <1>3, <2>4, <2>5 DEF Owed, WhoIsOwed, AnswerIsMine
  <2> QED
    BY <2>3, <2>6, <2>7 DEF Owed
<1>4. CASE SendFails(r)
  <2>1. NothingOwed /\ OwedOnce' /\ NothingOwed'
    BY <1>4, SameOwed DEF SendFails, Owed, WhoIsOwed, link, history
  <2>2. PICK kind \in {"disconnected", "timeout", "io"} : End(r, kind, 0)
    BY <1>4 DEF SendFails
  <2>3. UNCHANGED <<mine, sent, stopped>> /\ outcome'[r].kind # "answer"
    BY <1>4, <2>2 DEF SendFails, End, TypeOK, history
  <2> QED
    BY <2>1, <2>2, <2>3 DEF End, Owed, WhoIsOwed, AnswerIsMine, TypeOK
<1>5. CASE TakeReply(r)
  <2>1. reply = sent /\ mine[r] = sent /\ reply # 0
    BY <1>5 DEF TakeReply, Owed, OwedOnce, WhoIsOwed
  <2>2. toPeer = <<>> /\ NoReplyOnWire
    BY <2>1 DEF Owed, OwedOnce, NoReplyOnWire
  <2>3. NothingOwed' /\ OwedOnce'
    BY <1>5, <2>2 DEF TakeReply, NothingOwed, NoReplyOnWire, OwedOnce, link
  <2> QED
    BY <1>5, <2>1, <2>3 DEF TakeReply, End, Owed, WhoIsOwed, AnswerIsMine, TypeOK
<1>6. CASE GiveUp(r)
  <2>1. /\ stopped' /\ End(r, "disconnected", 0) /\ pc[r] = "looking"
        /\ UNCHANGED <<reply, mine, link, sent>>
    BY <1>6 DEF GiveUp
  <2>2. OwedOnce' /\ (NothingOwed <=> NothingOwed')
    BY <2>1, SameOwed DEF Owed, link
  <2> QED
    BY <2>1, <2>2 DEF End, Owed, WhoIsOwed, AnswerIsMine, TypeOK
<1>7. CASE Park(r) \/ Wait(r) \/ Expire(r)
  <2>1. /\ UNCHANGED <<shared, mine, outcome, toPeer, wire, sent>>
        /\ \A q \in Requesters :
             \/ pc'[q] = pc[q]
             \/ /\ pc[q] \in {"looking", "parking", "waiting"}
                /\ pc'[q] \in {"looking", "parking", "waiting"}
    BY <1>7 DEF Park, Wait, Expire, Goto, TypeOK, link, history
  <2>2. OwedOnce' /\ (NothingOwed <=> NothingOwed')
    BY <2>1, SameOwed DEF Owed, shared
  <2>3. WhoIsOwed'
    BY <2>1, <2>2 DEF Owed, WhoIsOwed, shared
  <2> QED
    BY <2>1, <2>2, <2>3 DEF Owed, AnswerIsMine
<1> QED
  BY <1>1, <1>2, <1>3, <1>4, <1>5, <1>6, <1>7 DEF Requester

LEMMA ReaderOwed ==
    ASSUME TypeOK, Owed, ~late, Reader \/ ReaderFails
    PROVE  Owed'
<1>1. CASE ReadReply
  <2>1. /\ wire[1].kind = "reply" /\ reply' = wire[1].n /\ 1 \in 1 .. Len(wire)
        /\ Len(wire) \in Nat \ {0} /\ Len(wire') = Len(wire) - 1
        /\ \A i \in 1 .. Len(wire') : wire'[i] = wire[i + 1]
        /\ UNCHANGED <<toPeer, sent, inFlight, stopped, mine, outcome>>
    BY <1>1, ArrivedTyped DEF ReadReply, IsReply, history
  <2>2. reply' = sent /\ toPeer = <<>> /\ ~NothingOwed
    BY <2>1 DEF Owed, OwedOnce, NoReplyOnWire, NothingOwed
  <2>3. \A i \in 1 .. Len(wire') : wire'[i].kind # "reply"
    <3> SUFFICES ASSUME NEW i \in 1 .. Len(wire'), wire'[i].kind = "reply"
                 PROVE  FALSE
      OBVIOUS
    <3>1. i + 1 \in 1 .. Len(wire) /\ wire[i + 1].kind = "reply" /\ i + 1 # 1
      BY <2>1
    <3> QED
      BY <2>1, <3>1 DEF Owed, OwedOnce
  <2>4. OwedOnce'
    BY <2>1, <2>2, <2>3 DEF OwedOnce
  <2>5. /\ inFlight = NoOne => stopped
        /\ \A r \in Requesters :
             /\ pc[r] \notin {"locked", "cleared"}
             /\ \/ pc'[r] = pc[r]
                \/ pc[r] = "waiting" /\ pc'[r] = "looking"
    BY <1>1, <2>2 DEF ReadReply, Notify, Owed, WhoIsOwed, TypeOK
  <2>6. WhoIsOwed'
    BY <2>1, <2>5 DEF Owed, WhoIsOwed
  <2> QED
    BY <2>1, <2>4, <2>6 DEF Owed, AnswerIsMine
<1>2. CASE ReadOther
  <2>1. /\ Len(wire) \in Nat \ {0} /\ Len(wire') = Len(wire) - 1
        /\ \A i \in 1 .. Len(wire') : wire'[i] = wire[i + 1]
        /\ UNCHANGED <<toPeer, reply, sent, inFlight, stopped, pc, mine, outcome>>
    BY <1>2, ArrivedTyped DEF ReadOther, history, shared, threads
  <2>2. \A i \in 1 .. Len(wire') : i + 1 \in 1 .. Len(wire)
    BY <2>1
  <2>3. \A i, j \in 1 .. Len(wire') : i + 1 = j + 1 => i = j
    BY <2>1
  <2>4. NoReplyOnWire => NoReplyOnWire'
    BY <2>1, <2>2 DEF NoReplyOnWire
  <2>5. OwedOnce' /\ (NothingOwed => NothingOwed')
    BY <2>1, <2>2, <2>3, <2>4 DEF Owed, OwedOnce, NothingOwed
  <2> QED
    BY <2>1, <2>5 DEF Owed, WhoIsOwed, AnswerIsMine
<1>3. CASE ReaderPolls \/ ReaderStops \/ ReaderFails \/ ReaderNotifies \/ ReportDown
  <2>1. /\ UNCHANGED <<inFlight, reply, toPeer, wire, sent, mine, outcome>>
        /\ stopped => stopped'
        /\ \A r \in Requesters :
             \/ pc'[r] = pc[r]
             \/ pc[r] = "waiting" /\ pc'[r] = "looking"
    BY <1>3 DEF ReaderPolls, ReaderStops, ReaderFails, StopReading, ReaderNotifies, ReportDown, Notify,
                TypeOK, shared, threads, link, history
  <2>2. OwedOnce' /\ (NothingOwed <=> NothingOwed')
    BY <2>1, SameOwed DEF Owed
  <2> QED
    BY <2>1, <2>2 DEF Owed, WhoIsOwed, AnswerIsMine
<1> QED
  BY <1>1, <1>2, <1>3 DEF Reader

LEMMA OthersOwed ==
    ASSUME TypeOK, Owed, ~late,
           PeerAnswers \/ PeerSpeaks \/ LinkDrops \/ Close \/ Shutdown
    PROVE  Owed'
<1>1. CASE PeerAnswers
  <2>1. toPeer = <<sent>> /\ reply = 0 /\ NoReplyOnWire /\ ~NothingOwed
    BY <1>1 DEF PeerAnswers, Owed, OwedOnce, NothingOwed
  <2>2. /\ toPeer' = <<>>
        /\ wire' = Append(wire, Reply(sent)) /\ Reply(sent) \in Pdu
        /\ UNCHANGED <<shared, threads, sent>>
    BY <1>1, <2>1, Single DEF PeerAnswers, history, Reply, Pdu, TypeOK
  <2>3. /\ Len(wire) \in Nat /\ Len(wire') = Len(wire) + 1
        /\ \A i \in 1 .. Len(wire) : wire'[i] = wire[i]
        /\ wire'[Len(wire) + 1] = Reply(sent)
    BY <2>2, Longer DEF TypeOK
  <2>4. \A i \in 1 .. Len(wire') :
           wire'[i].kind = "reply" => i = Len(wire) + 1 /\ wire'[i].n = sent
    BY <2>1, <2>3 DEF NoReplyOnWire, Reply
  <2>5. OwedOnce'
    BY <2>1, <2>2, <2>4 DEF OwedOnce, shared
  <2> QED
    BY <2>1, <2>2, <2>5 DEF Owed, WhoIsOwed, AnswerIsMine, shared, threads
<1>2. CASE PeerSpeaks
  <2>1. PICK pdu \in {Value(made + 1), Asked(made + 1)} : wire' = Append(wire, pdu)
    BY <1>2 DEF PeerSpeaks
  <2>2. pdu \in Pdu /\ pdu.kind # "reply"
    BY <2>1 DEF Value, Asked, Pdu, TypeOK
  <2>3. /\ Len(wire) \in Nat /\ Len(wire') = Len(wire) + 1
        /\ \A i \in 1 .. Len(wire) : wire'[i] = wire[i]
        /\ wire'[Len(wire) + 1] = pdu
        /\ UNCHANGED <<shared, threads, toPeer, sent>>
    BY <1>2, <2>1, <2>2, Longer DEF PeerSpeaks, TypeOK
  <2>4. \A i \in 1 .. Len(wire') :
           wire'[i].kind = "reply" => i \in 1 .. Len(wire) /\ wire'[i] = wire[i]
    BY <2>2, <2>3
  <2>5. OwedOnce' /\ (NothingOwed => NothingOwed')
    BY <2>3, <2>4 DEF Owed, OwedOnce, NothingOwed, NoReplyOnWire, shared
  <2> QED
    BY <2>3, <2>5 DEF Owed, WhoIsOwed, AnswerIsMine, shared, threads
<1>3. CASE LinkDrops \/ Close \/ Shutdown
  <2>1. /\ UNCHANGED <<inFlight, reply, wire, sent, threads>>
        /\ toPeer' = toPeer \/ toPeer' = <<>>
        /\ stopped => stopped'
    BY <1>3 DEF LinkDrops, Close, Shutdown, shared, link, history
  <2>2. OwedOnce' /\ (NothingOwed => NothingOwed')
    BY <2>1 DEF Owed, OwedOnce, NothingOwed, NoReplyOnWire
  <2> QED
    BY <2>1, <2>2 DEF Owed, WhoIsOwed, AnswerIsMine, threads
<1> QED
  BY <1>1, <1>2, <1>3

LEMMA InitIInv == Init => IInv
  BY InitTypeOK, InitOwed DEF IInv, Owed

LEMMA NextIInv == IInv /\ [Next]_vars => IInv'
<1> SUFFICES ASSUME IInv, [Next]_vars PROVE IInv'
  OBVIOUS
<1>1. TypeOK'
  BY NextTypeOK DEF IInv
<1>2. ASSUME ~late' PROVE ~late
  BY <1>2 DEF Next, Requester, Reader, Lock, Clear, Send, SendFails, TakeReply,
     GiveUp, Park, Wait, Expire, ReaderPolls, ReadReply, ReadOther, ReaderStops, ReaderFails, StopReading,
     ReaderNotifies, ReportDown, PeerAnswers, PeerSpeaks, LinkDrops, Close,
     Shutdown, vars, history
<1>3. ASSUME ~late' PROVE Owed'
  <2>1. ~late /\ Owed /\ TypeOK
    BY <1>2, <1>3 DEF IInv, Owed
  <2>2. CASE UNCHANGED vars
    BY <2>1, <2>2, SameOwed DEF Owed, WhoIsOwed, AnswerIsMine, vars, shared,
       threads, link, history
  <2> QED
    BY <1>3, <2>1, <2>2, RequesterOwed, ReaderOwed, OthersOwed DEF Next
<1> QED
  BY <1>1, <1>3 DEF IInv, Owed

LEMMA Invariance == Spec => []IInv
  BY InitIInv, NextIInv, PTL DEF Spec

-----------------------------------------------------------------------------
(* The types, and that the holder of in_flight is the one thread that is   *)
(* inside request.                                                         *)
THEOREM TypeCorrect == Spec => []TypeOK
<1>1. IInv => TypeOK
  BY DEF IInv
<1> QED
  BY <1>1, Invariance, PTL

(* Until a request times out every answer is the answer to the request it  *)
(* is given for, whatever else comes over the wire and however the         *)
(* connection is closed (Connection::request).                             *)
THEOREM AnswersMatch == Spec => []AnswerIsMine
<1>1. IInv => AnswerIsMine
  BY DEF IInv, AnswerIsMine
<1> QED
  BY <1>1, Invariance, PTL

(* Until a request times out the peer has one request at most to answer.   *)
THEOREM OneAtATime == Spec => []OneOutstanding
<1>1. IInv => OneOutstanding
  <2> SUFFICES ASSUME IInv, ~late PROVE Len(toPeer) <= 1
    BY DEF OneOutstanding
  <2>1. toPeer = <<>> \/ toPeer = <<sent>>
    BY DEF IInv, OwedOnce
  <2>2. CASE toPeer = <<>>
    BY <2>2
  <2>3. CASE toPeer = <<sent>>
    <3>1. Len(toPeer) = 1
      BY <2>3, Single, Zenon
    <3> QED
      BY <3>1
  <2> QED
    BY <2>1, <2>2, <2>3
<1> QED
  BY <1>1, Invariance, PTL

-----------------------------------------------------------------------------
(* What the sink is told. *)

LEMMA SameTold ==
    ASSUME Told, UNCHANGED <<wire, told, made>>, reader' = reader \/ reader # "gone"
    PROVE  Told'
  BY DEF Told

LEMMA ReadTold ==
    ASSUME TypeOK, Told, ReadReply \/ ReadOther
    PROVE  Told'
<1>1. /\ Len(wire) \in Nat \ {0} /\ Len(wire') = Len(wire) - 1
      /\ \A i \in 1 .. Len(wire') : wire'[i] = wire[i + 1]
      /\ wire[1] \in Pdu /\ Head(wire) = wire[1]
      /\ made' = made /\ reader = "readable" /\ reader' = "looping"
  BY ArrivedTyped DEF ReadReply, ReadOther, history
<1>2. /\ \A i \in 1 .. Len(wire') : i + 1 \in 1 .. Len(wire) /\ 1 < i + 1
      /\ \A i, j \in 1 .. Len(wire') : i < j => i + 1 < j + 1
      /\ 1 \in 1 .. Len(wire)
  BY <1>1
<1>3. /\ \A i \in 1 .. Len(wire') : wire'[i].kind # "reply" => wire'[i].n <= made'
      /\ \A i, j \in 1 .. Len(wire') :
           i < j /\ wire'[i].kind # "reply" /\ wire'[j].kind # "reply"
              => wire'[i].n < wire'[j].n
  BY <1>1, <1>2 DEF Told
<1>4. CASE told' = told
  <2>1. \A i \in 1 .. Len(told) : told[i].kind = "value" /\ told[i].n <= made
    BY <1>1 DEF Told
  <2>2. \A i, j \in 1 .. Len(told) :
            i < j /\ told[j].kind = "value" => told[i].n < told[j].n
    BY DEF Told
  <2>3. \A i \in 1 .. Len(told), j \in 1 .. Len(wire') :
            wire'[j].kind # "reply" => told[i].n < wire'[j].n
    BY <1>1, <1>2, <2>1 DEF Told
  <2> QED
    BY <1>1, <1>3, <1>4, <2>1, <2>2, <2>3 DEF Told
<1>5. CASE told' # told
  <2>1. told' = Append(told, wire[1]) /\ wire[1].kind = "value"
    BY <1>1, <1>5 DEF ReadReply, ReadOther
  <2>2. /\ Len(told) \in Nat /\ Len(told') = Len(told) + 1
        /\ \A i \in 1 .. Len(told) : told'[i] = told[i]
        /\ told'[Len(told) + 1] = wire[1]
    BY <1>1, <2>1, Longer DEF TypeOK
  <2>3. \A i \in 1 .. Len(told) :
            told[i].kind = "value" /\ told[i].n <= made /\ told[i].n < wire[1].n
    BY <1>1, <1>2, <2>1 DEF Told
  <2>4. wire[1].n <= made
    BY <1>2, <2>1 DEF Told
  <2>5. \A i \in 1 .. Len(told') : i \in 1 .. Len(told) \/ i = Len(told')
    BY <2>2
  <2>6. \A i \in 1 .. Len(told') : told'[i].kind = "value" /\ told'[i].n <= made'
    BY <1>1, <2>1, <2>2, <2>3, <2>4, <2>5
  <2>7. \A i, j \in 1 .. Len(told') :
            i < j /\ told'[j].kind = "value" => told'[i].n < told'[j].n
    <3> SUFFICES ASSUME NEW i \in 1 .. Len(told'), NEW j \in 1 .. Len(told'), i < j
                 PROVE  told'[i].n < told'[j].n
      OBVIOUS
    <3>1. i \in 1 .. Len(told) /\ told'[i] = told[i]
      BY <2>2
    <3>2. CASE j \in 1 .. Len(told)
      BY <2>2, <2>3, <3>1, <3>2 DEF Told
    <3>3. CASE j = Len(told')
      BY <2>2, <2>3, <3>1, <3>3
    <3> QED
      BY <2>5, <3>2, <3>3
  <2>8. \A i \in 1 .. Len(told'), j \in 1 .. Len(wire') :
            wire'[j].kind # "reply" => told'[i].n < wire'[j].n
    <3> SUFFICES ASSUME NEW i \in 1 .. Len(told'), NEW j \in 1 .. Len(wire'),
                        wire'[j].kind # "reply"
                 PROVE  told'[i].n < wire'[j].n
      OBVIOUS
    <3>1. j + 1 \in 1 .. Len(wire) /\ wire'[j] = wire[j + 1]
      BY <1>1, <1>2
    <3>2. CASE i \in 1 .. Len(told)
      BY <2>2, <2>3, <3>1, <3>2 DEF Told
    <3>3. CASE i = Len(told')
      BY <1>2, <2>1, <2>2, <3>1, <3>3 DEF Told
    <3> QED
      BY <2>5, <3>2, <3>3
  <2> QED
    BY <1>3, <2>6, <2>7, <2>8 DEF Told
<1> QED
  BY <1>4, <1>5

LEMMA DownTold ==
    ASSUME TypeOK, Told, ReportDown
    PROVE  Told'
<1>1. /\ UNCHANGED <<wire, made>> /\ reader = "notified" /\ reader' = "gone"
      /\ told' = Append(told, Down)
  BY DEF ReportDown, link, history
<1>2. /\ Len(told) \in Nat /\ Len(told') = Len(told) + 1
      /\ \A i \in 1 .. Len(told) : told'[i] = told[i]
      /\ told'[Len(told) + 1] = Down
  BY <1>1, Longer DEF TypeOK
<1>3. \A i \in 1 .. Len(told) : told[i].kind = "value" /\ told[i].n <= made
  BY <1>1 DEF Told
<1>4. \A i \in 1 .. Len(told') : i \in 1 .. Len(told) \/ i = Len(told')
  BY <1>2
<1>5. Down.kind # "value"
  BY DEF Down
<1>6. \A i \in 1 .. Len(told') :
         \/ told'[i].kind = "value" /\ told'[i].n <= made'
         \/ told'[i] = Down /\ reader' = "gone" /\ i = Len(told')
  BY <1>1, <1>2, <1>3, <1>4
<1>7. \A i, j \in 1 .. Len(told') :
         i < j /\ told'[j].kind = "value" => told'[i].n < told'[j].n
  <2> SUFFICES ASSUME NEW i \in 1 .. Len(told'), NEW j \in 1 .. Len(told'),
                      i < j, told'[j].kind = "value"
               PROVE  told'[i].n < told'[j].n
    OBVIOUS
  <2>1. j \in 1 .. Len(told) /\ i \in 1 .. Len(told)
    BY <1>2, <1>4, <1>5
  <2> QED
    BY <1>2, <2>1 DEF Told
<1>8. \A i \in 1 .. Len(told'), j \in 1 .. Len(wire') :
         told'[i].kind = "value" /\ wire'[j].kind # "reply"
            => told'[i].n < wire'[j].n
  BY <1>1, <1>2, <1>4, <1>5 DEF Told
<1> QED
  BY <1>1, <1>6, <1>7, <1>8 DEF Told

LEMMA WireGrowsTold ==
    ASSUME TypeOK, Told, PeerAnswers \/ PeerSpeaks
    PROVE  Told'
<1>1. PICK pdu \in Pdu :
         /\ wire' = Append(wire, pdu)
         /\ pdu.kind # "reply" => pdu.n = made + 1 /\ made' = made + 1
         /\ made' \in {made, made + 1}
         /\ UNCHANGED <<told, reader>>
  <2>1. CASE PeerAnswers
    <3>1. Head(toPeer) \in Nat
      BY <2>1, Shorter DEF PeerAnswers, TypeOK
    <3>2. Reply(Head(toPeer)) \in Pdu /\ Reply(Head(toPeer)).kind = "reply"
      BY <3>1 DEF Reply, Pdu
    <3> QED
      BY <2>1, <3>2 DEF PeerAnswers, history
  <2>2. CASE PeerSpeaks
    <3>1. \A pdu \in {Value(made + 1), Asked(made + 1)} :
             pdu \in Pdu /\ pdu.n = made + 1
      BY DEF Value, Asked, Pdu, TypeOK
    <3> QED
      BY <2>2, <3>1 DEF PeerSpeaks
  <2> QED
    BY <2>1, <2>2
<1>2. /\ Len(wire) \in Nat /\ Len(wire') = Len(wire) + 1
      /\ \A i \in 1 .. Len(wire) : wire'[i] = wire[i]
      /\ wire'[Len(wire) + 1] = pdu
  BY <1>1, Longer DEF TypeOK
<1>3. \A i \in 1 .. Len(wire') : i \in 1 .. Len(wire) \/ i = Len(wire')
  BY <1>2
<1>4. /\ made \in Nat /\ \A i \in 1 .. Len(wire) : wire[i].n \in Nat
      /\ Len(told) \in Nat
  <2>1. \A i \in 1 .. Len(wire) : wire[i] \in Pdu
    BY DEF TypeOK
  <2>2. Len(told) \in Nat
    BY DEF TypeOK
  <2> QED
    BY <2>1, <2>2 DEF TypeOK, Pdu
<1>5. \A i \in 1 .. Len(told) : told[i].n \in Nat
  <2> SUFFICES ASSUME NEW i \in 1 .. Len(told) PROVE told[i].n \in Nat
    OBVIOUS
  <2>1. told[i] \in Pdu \cup {Down}
    BY DEF TypeOK
  <2> QED
    BY <2>1 DEF Pdu, Down
<1>6. \A i \in 1 .. Len(wire') : wire'[i].kind # "reply" => wire'[i].n <= made'
  BY <1>1, <1>2, <1>3, <1>4 DEF Told
<1>7. \A i, j \in 1 .. Len(wire') :
         i < j /\ wire'[i].kind # "reply" /\ wire'[j].kind # "reply"
            => wire'[i].n < wire'[j].n
  <2> SUFFICES ASSUME NEW i \in 1 .. Len(wire'), NEW j \in 1 .. Len(wire'), i < j,
                      wire'[i].kind # "reply", wire'[j].kind # "reply"
               PROVE  wire'[i].n < wire'[j].n
    OBVIOUS
  <2>1. i \in 1 .. Len(wire) /\ wire'[i] = wire[i] /\ wire[i].n <= made
    BY <1>2 DEF Told
  <2>2. CASE j \in 1 .. Len(wire)
    BY <1>2, <2>1, <2>2 DEF Told
  <2>3. CASE j = Len(wire')
    BY <1>1, <1>2, <1>4, <2>1, <2>3
  <2> QED
    BY <1>3, <2>2, <2>3
<1>8. \A i \in 1 .. Len(told), j \in 1 .. Len(wire') :
         told[i].kind = "value" /\ wire'[j].kind # "reply"
            => told[i].n < wire'[j].n
  <2> SUFFICES ASSUME NEW i \in 1 .. Len(told), NEW j \in 1 .. Len(wire'),
                      told[i].kind = "value", wire'[j].kind # "reply"
               PROVE  told[i].n < wire'[j].n
    OBVIOUS
  <2>1. told[i].n <= made
    BY DEF Told, Down
  <2>2. CASE j \in 1 .. Len(wire)
    BY <1>2, <2>2 DEF Told
  <2>3. CASE j = Len(wire')
    BY <1>1, <1>2, <1>4, <1>5, <2>1, <2>3
  <2> QED
    BY <1>3, <2>2, <2>3
<1>9. \A i \in 1 .. Len(told) :
         \/ told[i].kind = "value" /\ told[i].n <= made'
         \/ told[i] = Down /\ reader = "gone" /\ i = Len(told)
  BY <1>1, <1>4, <1>5 DEF Told
<1> QED
  BY <1>1, <1>6, <1>7, <1>8, <1>9 DEF Told

LEMMA NextTold == OInv /\ [Next]_vars => OInv'
<1> SUFFICES ASSUME OInv, [Next]_vars PROVE OInv'
  OBVIOUS
<1>1. TypeOK' /\ TypeOK /\ Told
  BY NextTypeOK DEF OInv
<1>2. CASE ReadReply \/ ReadOther \/ ReportDown \/ PeerAnswers \/ PeerSpeaks
  BY <1>1, <1>2, ReadTold, DownTold, WireGrowsTold DEF OInv
<1>3. CASE UNCHANGED <<wire, told, made>> /\ (reader' = reader \/ reader # "gone")
  BY <1>1, <1>3, SameTold DEF OInv
<1> QED
  BY <1>2, <1>3 DEF Next, Requester, Reader, Lock, Clear, Send, SendFails,
     TakeReply, GiveUp, Park, Wait, Expire, ReaderPolls, ReaderStops, ReaderFails, StopReading,
     ReaderNotifies, LinkDrops, Close, Shutdown, vars, link, history

LEMMA InitTold == Init => OInv
<1> SUFFICES ASSUME Init PROVE OInv
  OBVIOUS
<1>1. wire = <<>> /\ told = <<>>
  BY DEF Init
<1> QED
  BY <1>1, InitTypeOK DEF OInv, Told

(* The sink hears the peer's values in their order, none twice, no reply   *)
(* among them, and the disconnection last and once (spawn_reader).         *)
THEOREM SinkToldInOrder == Spec => []ToldInOrder
<1>1. OInv => ToldInOrder
  <2> SUFFICES ASSUME OInv PROVE ToldInOrder
    OBVIOUS
  <2>1. DOMAIN told = 1 .. Len(told) /\ Down.kind = "down"
    BY DEF OInv, TypeOK, Down
  <2>2. \A i \in 1 .. Len(told) :
            told[i].kind = "value" \/ (told[i] = Down /\ i = Len(told))
    BY DEF OInv, Told
  <2>3. \A i, j \in DOMAIN told : i < j /\ told[j].kind = "value" =>
            told[i].kind = "value" /\ told[i].n < told[j].n
    <3> SUFFICES ASSUME NEW i \in 1 .. Len(told), NEW j \in 1 .. Len(told),
                        i < j, told[j].kind = "value"
                 PROVE  told[i].kind = "value" /\ told[i].n < told[j].n
      BY <2>1
    <3>1. told[i].n < told[j].n
      BY DEF OInv, Told
    <3>2. i # Len(told)
      BY DEF OInv, TypeOK
    <3> QED
      BY <2>2, <3>1, <3>2
  <2>4. \A i \in DOMAIN told : told[i].kind \in {"value", "down"}
    BY <2>1, <2>2
  <2>5. \A i, j \in DOMAIN told : told[i] = Down /\ told[j] = Down => i = j
    <3> SUFFICES ASSUME NEW i \in 1 .. Len(told), NEW j \in 1 .. Len(told),
                        told[i] = Down, told[j] = Down
                 PROVE  i = j
      BY <2>1
    <3>1. told[i].kind # "value" /\ told[j].kind # "value"
      BY <2>1
    <3> QED
      BY <2>2, <3>1
  <2> QED
    BY <2>3, <2>4, <2>5 DEF ToldInOrder
<1> QED
  BY <1>1, InitTold, NextTold, PTL DEF Spec

(*************************** Sleeping **************************************)

(* Whoever sleeps has looked, with the slot's mutex held from the look to  *)
(* the sleep.                                                              *)
LookedFirst ==
    \A r \in Requesters :
        pc[r] \in {"parking", "waiting"} => reply = 0 /\ ~expired[r]

(* Nobody sleeps on a reply that has come, or past the deadline: the slot  *)
(* is filled under its mutex before the reader notifies (gatt.rs:223-237,  *)
(* 605-606). Of the end of the connection it does not hold                 *)
(* (NobodyLeftWaiting).                                                    *)
NobodySleepsOnReply ==
    \A r \in Requesters : pc[r] = "waiting" => reply = 0 /\ ~expired[r]

LEMMA NextLooked == TypeOK /\ LookedFirst /\ [Next]_vars => LookedFirst'
<1> SUFFICES ASSUME TypeOK, LookedFirst, [Next]_vars PROVE LookedFirst'
  OBVIOUS
<1>0. /\ pc \in [Requesters -> {"idle", "locked", "cleared", "looking", "parking",
                                "waiting"}]
      /\ expired \in [Requesters -> BOOLEAN]
  BY DEF TypeOK
<1>1. ASSUME NEW r \in Requesters,
             Lock(r) \/ Clear(r) \/ Send(r) \/ SendFails(r) \/ TakeReply(r) \/ GiveUp(r)
      PROVE  LookedFirst'
  <2>1. /\ \A q \in Requesters : pc'[q] \in {"parking", "waiting"}
                                    => pc[q] = pc'[q] /\ expired'[q] = expired[q]
        /\ reply' = reply \/ reply' = 0
    BY <1>0, <1>1 DEF Lock, Clear, Send, SendFails, TakeReply, GiveUp, Goto, End, shared
  <2> QED
    BY <2>1 DEF LookedFirst
<1>2. ASSUME NEW r \in Requesters, Park(r) \/ Wait(r) PROVE LookedFirst'
  BY <1>0, <1>2 DEF Park, Wait, Goto, LookedFirst, shared
<1>3. ASSUME NEW r \in Requesters, Expire(r) PROVE LookedFirst'
  BY <1>0, <1>3 DEF Expire, LookedFirst, shared
<1>4. CASE ReadReply
  <2>1. \A q \in Requesters : pc'[q] \notin {"parking", "waiting"}
    BY <1>0, <1>4 DEF ReadReply, Notify, SlotHeld
  <2> QED
    BY <2>1 DEF LookedFirst
<1>5. CASE ReaderNotifies
  <2>1. /\ \A q \in Requesters : pc'[q] \in {"parking", "waiting"} => pc[q] = pc'[q]
        /\ UNCHANGED <<reply, expired>>
    BY <1>0, <1>5 DEF ReaderNotifies, Notify, shared
  <2> QED
    BY <2>1 DEF LookedFirst
<1>6. CASE UNCHANGED <<pc, reply, expired>>
  BY <1>6 DEF LookedFirst
<1>7. CASE \/ ReaderPolls \/ ReadOther \/ ReaderStops \/ ReaderFails \/ ReportDown \/ PeerAnswers
           \/ PeerSpeaks \/ LinkDrops \/ Close \/ Shutdown \/ UNCHANGED vars
  <2>1. UNCHANGED <<pc, reply, expired>>
    BY <1>7 DEF ReaderPolls, ReadOther, Arrived, ReaderStops, ReaderFails, StopReading, ReportDown, PeerAnswers,
       PeerSpeaks, LinkDrops, Close, Shutdown, vars, shared, threads
  <2> QED
    BY <1>6, <2>1
<1> QED
  BY <1>1, <1>2, <1>3, <1>4, <1>5, <1>7 DEF Next, Requester, Reader

THEOREM RepliesWake == Spec => []NobodySleepsOnReply
<1>1. Init => LookedFirst
  BY DEF Init, LookedFirst
<1>2. LookedFirst => NobodySleepsOnReply
  BY DEF LookedFirst, NobodySleepsOnReply
<1> QED
  BY <1>1, <1>2, TypeCorrect, NextLooked, PTL DEF Spec

=============================================================================
