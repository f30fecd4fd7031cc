---------------------------- MODULE AppleProofs -----------------------------
(***************************************************************************)
(* Safety of AppleCentral, for any number of callers and requests and any  *)
(* room in the buffer: why callbacks that name no request still go to the  *)
(* one they answer, and why a lone writer never overfills the buffer.      *)
(***************************************************************************)
EXTENDS AppleCentral, TLAPS, SequenceTheorems

(*************************** Sequences *************************************)

(* A queue without its oldest, and without its newest. *)
LEMMA WithoutOldest ==
    ASSUME NEW S, NEW s \in Seq(S), s # <<>>
    PROVE  /\ RemoveAt(s, 1) = Tail(s) /\ Tail(s) \in Seq(S)
           /\ s[1] = Head(s) /\ Head(s) \in S
           /\ ToSet(Tail(s)) \subseteq ToSet(s) /\ Head(s) \in ToSet(s)
<1>1. Len(s) \in Nat \ {0} /\ DOMAIN s = 1 .. Len(s)
  BY EmptySeq, LenProperties
<1>2. /\ Head(s) \in S /\ Tail(s) \in Seq(S) /\ Len(Tail(s)) = Len(s) - 1
      /\ \A i \in 1 .. Len(Tail(s)) : Tail(s)[i] = s[i + 1]
  BY HeadTailProperties
<1>3. RemoveAt(s, 1) = Tail(s)
  <2>1. SubSeq(s, 1, 0) = <<>>
    BY SubSeqEmpty
  <2>2. SubSeq(s, 2, Len(s)) = Tail(s)
    BY TailIsSubSeq
  <2>3. <<>> \o Tail(s) = Tail(s)
    BY <1>2, ConcatEmptySeq
  <2> QED
    BY <2>1, <2>2, <2>3 DEF RemoveAt
<1>4. s[1] = Head(s)
  BY <1>1
<1>5. ToSet(Tail(s)) \subseteq ToSet(s)
  <2> SUFFICES ASSUME NEW x \in ToSet(Tail(s)) PROVE x \in ToSet(s)
    OBVIOUS
  <2>1. PICK i \in 1 .. Len(s) - 1 : x = Tail(s)[i]
    BY <1>2, LenProperties DEF ToSet
  <2>2. x = s[i + 1] /\ i + 1 \in 1 .. Len(s)
    BY <1>1, <1>2, <2>1
  <2> QED
    BY <1>1, <2>2 DEF ToSet
<1>6. Head(s) \in ToSet(s)
  BY <1>1, <1>4 DEF ToSet
<1> QED
  BY <1>2, <1>3, <1>4, <1>5, <1>6

LEMMA WithoutNewest ==
    ASSUME NEW S, NEW s \in Seq(S), s # <<>>
    PROVE  Front(s) \in Seq(S) /\ ToSet(Front(s)) \subseteq ToSet(s)
<1>1. Len(s) \in Nat \ {0} /\ DOMAIN s = 1 .. Len(s)
  BY EmptySeq, LenProperties
<1>2. \A i \in 1 .. Len(s) - 1 : s[i] \in S
  BY <1>1, ElementOfSeq
<1>3. Front(s) \in Seq(S)
  BY <1>1, <1>2, SubSeqProperties DEF Front
<1>5. Len(Front(s)) = Len(s) - 1
  <2> DEFINE n == Len(s) - 1
  <2>1. n \in Nat /\ 1 \in Int /\ n \in Int
    BY <1>1
  <2>2. Len(SubSeq(s, 1, n)) = IF 1 <= n THEN n - 1 + 1 ELSE 0
    BY <1>2, <2>1, SubSeqProperties
  <2>3. Front(s) = SubSeq(s, 1, n)
    BY DEF Front
  <2> HIDE DEF n
  <2>4. Len(Front(s)) = n
    BY <2>1, <2>2, <2>3
  <2> QED
    BY <2>4 DEF n
<1>6. \A i \in 1 .. Len(s) - 1 - 1 + 1 : Front(s)[i] = s[1 + i - 1]
  BY <1>1, <1>2, SubSeqProperties DEF Front
<1>4. ASSUME NEW x \in ToSet(Front(s)) PROVE x \in ToSet(s)
  <2>1. PICK i \in 1 .. Len(Front(s)) : x = Front(s)[i]
    BY <1>3, LenProperties, <1>4 DEF ToSet
  <2>3. i \in 1 .. Len(s) - 1 /\ 1 + i - 1 = i /\ i \in 1 .. Len(s) - 1 - 1 + 1
    BY <1>1, <1>5
  <2>2. x = s[i] /\ i \in 1 .. Len(s)
    <3>1. Front(s)[i] = s[1 + i - 1]
      BY <1>6, <2>3
    <3> QED
      BY <1>1, <2>1, <2>3, <3>1
  <2> QED
    BY <1>1, <2>2 DEF ToSet
<1> QED
  BY <1>3, <1>4

LEMMA WithOneMore ==
    ASSUME NEW S, NEW s \in Seq(S), NEW x \in S
    PROVE  Append(s, x) \in Seq(S) /\ ToSet(Append(s, x)) = ToSet(s) \cup {x}
<1>1. /\ Append(s, x) \in Seq(S) /\ Len(Append(s, x)) = Len(s) + 1
      /\ \A i \in 1 .. Len(s) : Append(s, x)[i] = s[i]
      /\ Append(s, x)[Len(s) + 1] = x
  BY AppendProperties
<1>2. Len(s) \in Nat /\ DOMAIN s = 1 .. Len(s) /\ DOMAIN Append(s, x) = 1 .. Len(s) + 1
  BY <1>1, LenProperties
<1>3. ASSUME NEW y \in ToSet(Append(s, x)) PROVE y \in ToSet(s) \cup {x}
  <2>1. PICK i \in 1 .. Len(s) + 1 : y = Append(s, x)[i]
    BY <1>2, <1>3 DEF ToSet
  <2>2. i \in 1 .. Len(s) \/ i = Len(s) + 1
    BY <1>2
  <2> QED
    BY <1>1, <1>2, <2>1, <2>2 DEF ToSet
<1>4. ASSUME NEW y \in ToSet(s) \cup {x} PROVE y \in ToSet(Append(s, x))
  <2>1. CASE y = x
    BY <1>1, <1>2, <2>1 DEF ToSet
  <2>2. CASE y \in ToSet(s)
    <3>1. PICK i \in 1 .. Len(s) : y = s[i]
      BY <1>2, <2>2 DEF ToSet
    <3> QED
      BY <1>1, <1>2, <3>1 DEF ToSet
  <2> QED
    BY <1>4, <2>1, <2>2
<1> QED
  BY <1>1, <1>3, <1>4

(*************************** What a step does ******************************)

Held   == {"registered", "waiting"}
Shared == {"services", "characteristics"}

(* No reply is handed to any but whoever registered and has not returned.  *)
LEMMA Handed ==
    ASSUME NEW ns, NEW what, Hand(Owners(ns), what), reply \in [Callers -> Reply]
    PROVE  /\ DOMAIN reply' = Callers
           /\ reply' = [c \in Callers |-> reply'[c]]
           /\ \A c \in Callers :
                reply'[c] = reply[c]
                \/ (reply'[c] = what /\ pc[c] \in Held /\ mine[c] \in ns)
BY DEF Hand, Owners, Held

(* The oldest waiter of kind k, if there is one, is no longer in the queue *)
(* and is all that is handed anything.                                     *)
LEMMA Resolved ==
    ASSUME TypeOK, NEW k \in Kinds, NEW what \in Reply, Resolve(k, what)
    PROVE  /\ slots' \in [Kinds -> Seq(Requests)] /\ reply' \in [Callers -> Reply]
           /\ \A j \in Kinds \ {k} : slots'[j] = slots[j]
           /\ slots'[k] = IF slots[k] = <<>> THEN <<>> ELSE Tail(slots[k])
           /\ \A j \in Kinds : ToSet(slots'[j]) \subseteq ToSet(slots[j])
           /\ \A c \in Callers :
                reply'[c] = reply[c]
                \/ (/\ reply'[c] = what /\ pc[c] \in Held
                    /\ slots[k] # <<>> /\ mine[c] = Head(slots[k]))
<1>1. slots \in [Kinds -> Seq(Requests)] /\ reply \in [Callers -> Reply]
  BY DEF TypeOK
<1>2. CASE slots[k] = <<>>
  BY <1>1, <1>2 DEF Resolve
<1>3. CASE slots[k] # <<>>
  <2>1. slots[k] \in Seq(Requests)
    BY <1>1
  <2>2. /\ RemoveAt(slots[k], 1) = Tail(slots[k]) /\ Tail(slots[k]) \in Seq(Requests)
        /\ slots[k][1] = Head(slots[k])
        /\ ToSet(Tail(slots[k])) \subseteq ToSet(slots[k])
    BY <1>3, <2>1, WithoutOldest
  <2>3. /\ slots' = [slots EXCEPT ![k] = RemoveAt(slots[k], 1)]
        /\ Hand(Owners({slots[k][1]}), what)
    BY <1>3 DEF Resolve, Oldest
  <2>4. /\ DOMAIN reply' = Callers
        /\ reply' = [c \in Callers |-> reply'[c]]
        /\ \A c \in Callers :
             reply'[c] = reply[c]
             \/ (reply'[c] = what /\ pc[c] \in Held /\ mine[c] \in {slots[k][1]})
    BY <1>1, <2>3, Handed
  <2>5. reply' \in [Callers -> Reply]
    BY <1>1, <2>4
  <2> QED
    BY <1>1, <1>3, <2>2, <2>3, <2>4, <2>5
<1> QED
  BY <1>2, <1>3

(* Whoever waits for what dies with the link is failed. *)
LEMMA Failed ==
    ASSUME TypeOK, FailPeripheral
    PROVE  /\ slots' \in [Kinds -> Seq(Requests)] /\ reply' \in [Callers -> Reply]
           /\ \A k \in FailedWithLink : slots'[k] = <<>>
           /\ \A k \in Kinds : ToSet(slots'[k]) \subseteq ToSet(slots[k])
           /\ \A c \in Callers :
                reply'[c] = reply[c] \/ (reply'[c] = Failure /\ pc[c] \in Held)
<1>1. slots \in [Kinds -> Seq(Requests)] /\ reply \in [Callers -> Reply]
  BY DEF TypeOK
<1>2. /\ slots' = [k \in Kinds |-> IF k \in FailedWithLink THEN <<>> ELSE slots[k]]
      /\ Hand(Owners(UNION {ToSet(slots[k]) : k \in FailedWithLink}), Failure)
  BY DEF FailPeripheral
<1>3. <<>> \in Seq(Requests) /\ ToSet(<<>>) = {}
  BY EmptySeq DEF ToSet
<1>4. Failure \in Reply /\ FailedWithLink \subseteq Kinds
  BY AppleAssumption DEF Failure, Reply, FailedWithLink, Kinds
<1>5. /\ DOMAIN reply' = Callers
      /\ reply' = [c \in Callers |-> reply'[c]]
      /\ \A c \in Callers :
           reply'[c] = reply[c] \/ (reply'[c] = Failure /\ pc[c] \in Held)
  BY <1>1, <1>2, Handed
<1>6. slots' \in [Kinds -> Seq(Requests)]
  BY <1>1, <1>2, <1>3
<1>7. \A k \in FailedWithLink : slots'[k] = <<>>
  BY <1>2, <1>4
<1>8. \A k \in Kinds : ToSet(slots'[k]) \subseteq ToSet(slots[k])
  BY <1>2, <1>3
<1>9. reply' \in [Callers -> Reply]
  BY <1>1, <1>4, <1>5
<1> QED
  BY <1>5, <1>6, <1>7, <1>8, <1>9

(*************************** Types *****************************************)

LEMMA Constants ==
    /\ NoReply \in Reply /\ Failure \in Reply /\ AnswerTo(0) \in Reply
    /\ \A n \in Requests : AnswerTo(n) \in Reply
    /\ MaxRequests \in Nat /\ Room \in Nat \ {0}
    /\ FailedWithLink \subseteq Kinds /\ Serialised \subseteq Kinds
    /\ Shared \subseteq Serialised /\ "command" \notin Serialised
    /\ Checked \subseteq Serialised
BY AppleAssumption
   DEF NoReply, Failure, AnswerTo, Reply, Requests, FailedWithLink, Kinds, Serialised,
       Shared, Checked

(* Whoever registered has a number, and it is what CoreBluetooth is given. *)
TypeInv == TypeOK /\ \A c \in Callers : pc[c] \in Held => mine[c] \in Requests

LEMMA NothingAsked == Empty \in [Kinds -> Seq(Requests)]
BY EmptySeq DEF Empty

LEMMA InitTyped == Init => TypeInv
<1> SUFFICES ASSUME Init PROVE TypeInv
  OBVIOUS
<1>1. slots \in [Kinds -> Seq(Requests)] /\ asked \in [Kinds -> Seq(Requests)]
  BY NothingAsked DEF Init
<1>2. /\ kind \in [Callers -> Kinds] /\ mine \in [Callers -> 0 .. requests]
      /\ reply \in [Callers -> Reply]
      /\ requests \in 0 .. MaxRequests /\ buffered \in 0 .. Room
  BY Constants DEF Init, Kinds
<1> QED
  BY <1>1, <1>2 DEF Init, TypeInv, TypeOK, Held

(* A step of a caller keeps the types. *)
LEMMA CallerTyped ==
    ASSUME TypeInv, NEW c \in Callers, CallerStep(c) \/ GiveUp(c)
    PROVE  TypeInv'
<1> USE Constants DEF TypeInv, TypeOK, callers, cb, history, Goto, Requests, Held
<1>1. CASE TakeLock(c)
  BY <1>1 DEF TakeLock
<1>2. CASE Refuse(c)
  BY <1>2 DEF Refuse, Over, Kinds
<1>3. CASE Register(c)
  <2>1. /\ requests + 1 \in Requests /\ kind[c] \in Kinds
        /\ slots[kind[c]] \in Seq(Requests)
    BY <1>3 DEF Register
  <2>2. Append(slots[kind[c]], requests + 1) \in Seq(Requests)
    BY <2>1, AppendProperties
  <2>3. slots' \in [Kinds -> Seq(Requests)]
    BY <1>3, <2>1, <2>2 DEF Register
  <2>4. mine' \in [Callers -> 0 .. requests'] /\ requests' \in 0 .. MaxRequests
    BY <1>3 DEF Register
  <2>5. crowded' \in BOOLEAN
    BY <1>3 DEF Register
  <2> QED
    BY <1>3, <2>1, <2>3, <2>4, <2>5 DEF Register
<1>4. CASE Call(c)
  <2>1. asked' \in [Kinds -> Seq(Requests)]
    <3>1. CASE asked' = asked
      BY <3>1
    <3>2. CASE asked' # asked
      <4>1. /\ asked' = [asked EXCEPT ![kind[c]] = Append(@, mine[c])]
            /\ asked[kind[c]] \in Seq(Requests) /\ kind[c] \in Kinds
            /\ mine[c] \in Requests
        BY <1>4, <3>2 DEF Call
      <4>2. Append(asked[kind[c]], mine[c]) \in Seq(Requests)
        BY <4>1, AppendProperties
      <4> QED
        BY <4>1, <4>2
    <3> QED
      BY <3>1, <3>2
  <2>2. /\ dialling' \in BOOLEAN /\ unheard' \in BOOLEAN /\ orphaned' \in BOOLEAN
    BY <1>4 DEF Call
  <2> QED
    BY <1>4, <2>1, <2>2 DEF Call
<1>5. CASE Return(c)
  BY <1>5 DEF Return, Over, Kinds
<1>6. CASE CanWrite(c)
  <2>1. CASE slots["command"] = <<>>
    BY <1>6, <2>1 DEF CanWrite
  <2>2. CASE slots["command"] # <<>>
    <3> DEFINE ns == {Last(slots["command"])}
    <3>1. /\ slots' = [slots EXCEPT !["command"] = Front(@)]
          /\ Hand(Owners(ns) \ {c}, Failure)
      BY <1>6, <2>2 DEF CanWrite
    <3>2. "command" \in Kinds /\ slots["command"] \in Seq(Requests)
      BY DEF Kinds
    <3>3. Front(slots["command"]) \in Seq(Requests)
      BY <2>2, <3>2, WithoutNewest
    <3>4. slots' \in [Kinds -> Seq(Requests)]
      BY <3>1, <3>2, <3>3
    <3>5. reply' \in [Callers -> Reply]
      BY <3>1 DEF Hand
    <3>6. /\ pc' = [pc EXCEPT ![c] = "writing"]
          /\ UNCHANGED <<connected, lock, kind, mine, cb, losing, powered, history>>
      BY <1>6 DEF CanWrite
    <3> QED
      BY <3>4, <3>5, <3>6
  <2> QED
    BY <2>1, <2>2
<1>7. CASE MustWait(c)
  BY <1>7 DEF MustWait
<1>8. CASE GoOn(c)
  BY <1>8 DEF GoOn
<1>9. CASE Write(c)
  <2>1. buffered' \in 0 .. Room
    BY <1>9 DEF Write
  <2>2. discarded' \in BOOLEAN
    BY <1>9 DEF Write
  <2>3. /\ pc' = [pc EXCEPT ![c] = "idle"] /\ Over(c)
        /\ UNCHANGED <<connected, slots, link, dialling, asked, readyDue, losing,
                       powered, requests, unheard, orphaned, crowded, late>>
    BY <1>9 DEF Write
  <2>4. kind' \in [Callers -> Kinds] /\ reply' \in [Callers -> Reply]
    BY <2>3 DEF Over, Kinds
  <2> QED
    BY <2>1, <2>2, <2>3, <2>4 DEF Over
<1>10. CASE GiveUp(c)
  <2>1. /\ pc' = [pc EXCEPT ![c] = "idle"] /\ Over(c)
        /\ UNCHANGED <<connected, slots, cb, losing, powered, history>>
    BY <1>10 DEF GiveUp
  <2> QED
    BY <2>1 DEF Over, Kinds
<1> QED
  BY <1>1, <1>2, <1>3, <1>4, <1>5, <1>6, <1>7, <1>8, <1>9, <1>10 DEF CallerStep

(* The oldest request CoreBluetooth has of a kind. *)
LEMMA OldestAsked ==
    ASSUME TypeOK, NEW k \in Kinds, asked[k] # <<>>
    PROVE  /\ Head(asked[k]) \in Requests
           /\ [asked EXCEPT ![k] = Tail(@)] \in [Kinds -> Seq(Requests)]
BY WithoutOldest DEF TypeOK

(* So does what anybody else does. *)
LEMMA StepTyped == TypeInv /\ [Next]_vars => TypeInv'
<1> SUFFICES ASSUME TypeInv, [Next]_vars PROVE TypeInv'
  OBVIOUS
<1>0. TypeOK
  BY DEF TypeInv
<1>1. ASSUME NEW c \in Callers, NEW k \in Kinds, Ask(c, k) PROVE TypeInv'
  BY <1>1, Constants
     DEF Ask, Goto, TypeInv, TypeOK, Held, callers, cb, history
<1>2. ASSUME NEW c \in Callers, CallerStep(c) \/ GiveUp(c) PROVE TypeInv'
  BY <1>2, CallerTyped
<1>3. ASSUME NEW k \in Kinds, Answer(k) PROVE TypeInv'
  <2>1. /\ asked[k] # <<>> /\ asked' = [asked EXCEPT ![k] = Tail(@)]
        /\ Resolve(k, AnswerTo(Head(asked[k])))
    BY <1>3 DEF Answer
  <2>2. /\ AnswerTo(Head(asked[k])) \in Reply
        /\ asked' \in [Kinds -> Seq(Requests)]
    BY <1>0, <2>1, OldestAsked, Constants
  <2>3. slots' \in [Kinds -> Seq(Requests)] /\ reply' \in [Callers -> Reply]
    BY <1>0, <2>1, <2>2, Resolved
  <2> QED
    BY <1>3, <2>2, <2>3 DEF Answer, TypeInv, TypeOK, history
<1>4. CASE Connected
  <2>1. /\ Resolve("connect", AnswerTo(0)) \/ Resolve("connect", Failure)
        /\ link' \in BOOLEAN /\ connected' \in BOOLEAN
    BY <1>0, <1>4 DEF Connected, TypeOK
  <2>2. slots' \in [Kinds -> Seq(Requests)] /\ reply' \in [Callers -> Reply]
    BY <1>0, <2>1, Resolved, Constants DEF Kinds
  <2> QED
    BY <1>4, <2>1, <2>2 DEF Connected, TypeInv, TypeOK, history
<1>5. CASE ReadyToWrite
  <2>1. slots' \in [Kinds -> Seq(Requests)] /\ reply' \in [Callers -> Reply]
    BY <1>0, <1>5, Resolved, Constants DEF ReadyToWrite, Kinds
  <2>2. late' \in BOOLEAN
    BY <1>0, <1>5 DEF ReadyToWrite, TypeOK
  <2>3. /\ readyDue' = FALSE
        /\ UNCHANGED <<connected, lock, pc, kind, mine, link, dialling, asked, buffered,
                       losing, powered, requests, unheard, orphaned, crowded, discarded>>
    BY <1>5 DEF ReadyToWrite
  <2>4. TypeOK'
    <3>1. /\ asked' \in [Kinds -> Seq(Requests)] /\ kind' \in [Callers -> Kinds]
          /\ pc' \in [Callers -> {"idle", "queued", "ready", "registered", "waiting",
                                  "writing"}]
          /\ mine' \in [Callers -> 0 .. requests'] /\ lock' \in Callers \cup {NoOne}
      BY <1>0, <2>3 DEF TypeOK
    <3>2. /\ connected' \in BOOLEAN /\ link' \in BOOLEAN /\ dialling' \in BOOLEAN
          /\ powered' \in BOOLEAN /\ losing' \in {"no", "failing", "marking"}
          /\ buffered' \in 0 .. Room /\ readyDue' \in BOOLEAN
          /\ requests' \in 0 .. MaxRequests
          /\ unheard' \in BOOLEAN /\ orphaned' \in BOOLEAN
          /\ crowded' \in BOOLEAN /\ discarded' \in BOOLEAN
      BY <1>0, <2>3 DEF TypeOK
    <3> QED
      BY <2>1, <2>2, <3>1, <3>2 DEF TypeOK
  <2> QED
    BY <2>3, <2>4 DEF TypeInv
<1>6. CASE LinkGoes \/ PowerOff
  <2>1. /\ asked' \in [Kinds -> Seq(Requests)] /\ buffered' \in 0 .. Room
        /\ link' \in BOOLEAN /\ dialling' \in BOOLEAN /\ readyDue' \in BOOLEAN
    <3>1. LetGo
      BY <1>6 DEF LinkGoes, PowerOff
    <3>2. asked' = Empty /\ buffered' = 0 /\ 0 \in 0 .. Room
      BY <3>1, Constants DEF LetGo
    <3>3. link' \in BOOLEAN /\ dialling' \in BOOLEAN /\ readyDue' \in BOOLEAN
      BY <3>1 DEF LetGo
    <3> QED
      BY <3>2, <3>3, NothingAsked
  <2>2. slots' \in [Kinds -> Seq(Requests)] /\ reply' \in [Callers -> Reply]
    BY <1>0, <1>6, Failed DEF LinkGoes, PowerOff, callers, TypeOK
  <2>3. unheard' \in BOOLEAN
    BY <1>0, <1>6 DEF LinkGoes, PowerOff, history, TypeOK
  <2> QED
    BY <1>6, <2>1, <2>2, <2>3
       DEF LinkGoes, PowerOff, callers, history, TypeInv, TypeOK
<1>7. CASE Fail
  <2>1. slots' \in [Kinds -> Seq(Requests)] /\ reply' \in [Callers -> Reply]
    BY <1>0, <1>7, Failed DEF Fail
  <2> QED
    BY <1>7, <2>1 DEF Fail, cb, history, TypeInv, TypeOK
<1>8. CASE Mark \/ PowerOn \/ Grant \/ Sent
  <2>1. connected' \in BOOLEAN /\ losing' \in {"no", "failing", "marking"}
    BY <1>8 DEF Mark, PowerOn, Grant, Sent, TypeInv, TypeOK
  <2>2. powered' \in BOOLEAN /\ readyDue' \in BOOLEAN /\ buffered' \in 0 .. Room
    <3>1. CASE Mark \/ PowerOn \/ Grant
      BY <1>0, <3>1 DEF Mark, PowerOn, Grant, cb, TypeOK
    <3>2. CASE Sent
      <4>1. buffered \in 0 .. Room /\ buffered > 0 /\ buffered' = buffered - 1
        BY <1>0, <3>2 DEF Sent, TypeOK
      <4>2. buffered' \in 0 .. Room
        BY <4>1, Constants
      <4> QED
        BY <1>0, <3>2, <4>2 DEF Sent, TypeOK
    <3> QED
      BY <1>8, <3>1, <3>2
  <2>3. UNCHANGED <<slots, callers, link, dialling, asked, history>>
    BY <1>8 DEF Mark, PowerOn, Grant, Sent, cb
  <2> QED
    BY <2>1, <2>2, <2>3 DEF callers, history, TypeInv, TypeOK
<1>9. CASE UNCHANGED vars
  BY <1>9 DEF vars, callers, cb, history, TypeInv, TypeOK
<1> QED
  BY <1>1, <1>2, <1>3, <1>4, <1>5, <1>6, <1>7, <1>8, <1>9 DEF Next

(* Every variable keeps to its type, for any number of callers, requests   *)
(* and writes in the buffer (backend.rs:38-175).                           *)
THEOREM AppleTypeCorrect == Spec => []TypeInv
BY InitTyped, StepTyped, PTL DEF Spec

(*************************** Callers and the lock **************************)

(* Whoever is past the lock has it, only commands are written without      *)
(* waiting, and nobody has been handed anything before it registers.       *)
LockInv ==
    \A c \in Callers :
        /\ pc[c] \in {"ready"} \cup Held /\ kind[c] \in Serialised => lock = c
        /\ pc[c] = "queued" => kind[c] \in Serialised
        /\ pc[c] = "writing" => kind[c] = "command"
        /\ pc[c] \in {"idle", "queued", "ready"} => reply[c] = NoReply

LEMMA StepLocked == TypeInv /\ LockInv /\ [Next]_vars => LockInv'
<1> SUFFICES ASSUME TypeInv, LockInv, [Next]_vars PROVE LockInv'
  OBVIOUS
<1>0. /\ TypeOK /\ NoOne \notin Callers /\ DOMAIN pc = Callers
      /\ pc \in [Callers -> {"idle", "queued", "ready", "registered", "waiting",
                             "writing"}]
      /\ kind \in [Callers -> Kinds] /\ reply \in [Callers -> Reply]
  BY AppleAssumption DEF TypeInv, TypeOK
(* Replies alone change, and only those of who registered. *)
<1>a. ASSUME UNCHANGED <<pc, kind, lock>>, reply' \in [Callers -> Reply],
             \A c \in Callers : pc[c] \in Held \/ reply'[c] = reply[c]
      PROVE  LockInv'
  BY <1>0, <1>a DEF LockInv, Held
(* A caller returns. *)
<1>b. ASSUME NEW c \in Callers, pc' = [pc EXCEPT ![c] = "idle"], Over(c)
      PROVE  LockInv'
  BY <1>0, <1>b, Constants DEF LockInv, Over, Held
<1>1. ASSUME NEW c \in Callers, NEW k \in Kinds, Ask(c, k) PROVE LockInv'
  BY <1>0, <1>1 DEF Ask, Goto, LockInv, Held
<1>2. ASSUME NEW c \in Callers, TakeLock(c) PROVE LockInv'
  BY <1>0, <1>2 DEF TakeLock, Goto, LockInv, Held
<1>3. ASSUME NEW c \in Callers, Register(c) PROVE LockInv'
  BY <1>0, <1>3 DEF Register, Goto, LockInv, Held
<1>4. ASSUME NEW c \in Callers, Call(c) PROVE LockInv'
  BY <1>0, <1>4 DEF Call, Goto, LockInv, Held
<1>5. ASSUME NEW c \in Callers, Refuse(c) \/ Return(c) \/ Write(c) \/ GiveUp(c)
      PROVE  LockInv'
  BY <1>5, <1>b DEF Refuse, Return, Write, GiveUp, Goto
<1>6. ASSUME NEW c \in Callers, CanWrite(c) PROVE LockInv'
  <2>1. /\ kind[c] = "command" /\ pc[c] = "registered"
        /\ pc' = [pc EXCEPT ![c] = "writing"] /\ UNCHANGED <<lock, kind>>
    BY <1>6 DEF CanWrite, Goto
  <2>2. ASSUME NEW d \in Callers PROVE pc[d] \in Held \/ reply'[d] = reply[d]
    BY <1>0, <1>6 DEF CanWrite, Hand, Owners, Held
  <2> QED
    BY <1>0, <2>1, <2>2, Constants DEF LockInv, Held
<1>7. ASSUME NEW c \in Callers, MustWait(c) \/ GoOn(c) PROVE LockInv'
  BY <1>0, <1>7, Constants DEF MustWait, GoOn, Goto, LockInv, Held
<1>8. ASSUME NEW k \in Kinds, Answer(k) PROVE LockInv'
  <2>1. AnswerTo(Head(asked[k])) \in Reply
    BY <1>0, <1>8, OldestAsked, Constants DEF Answer
  <2>2. /\ reply' \in [Callers -> Reply]
        /\ \A c \in Callers : pc[c] \in Held \/ reply'[c] = reply[c]
    BY <1>0, <1>8, <2>1, Resolved DEF Answer
  <2> QED
    BY <1>8, <1>a, <2>2 DEF Answer
<1>9. CASE Connected \/ ReadyToWrite
  <2>1. /\ reply' \in [Callers -> Reply]
        /\ \A c \in Callers : pc[c] \in Held \/ reply'[c] = reply[c]
    BY <1>0, <1>9, Resolved, Constants DEF Connected, ReadyToWrite, Kinds
  <2> QED
    BY <1>9, <1>a, <2>1 DEF Connected, ReadyToWrite
<1>10. CASE Fail \/ PowerOff
  <2>1. /\ reply' \in [Callers -> Reply]
        /\ \A c \in Callers : pc[c] \in Held \/ reply'[c] = reply[c]
    BY <1>0, <1>10, Failed DEF Fail, PowerOff
  <2> QED
    BY <1>10, <1>a, <2>1 DEF Fail, PowerOff
<1>11. CASE LinkGoes \/ Mark \/ PowerOn \/ Grant \/ Sent \/ UNCHANGED vars
  BY <1>0, <1>11, <1>a DEF LinkGoes, Mark, PowerOn, Grant, Sent, vars, callers
<1> QED
  BY <1>1, <1>2, <1>3, <1>4, <1>5, <1>6, <1>7, <1>8, <1>9, <1>10, <1>11
     DEF Next, CallerStep

(*************************** Numbers ***************************************)

(* Numbers are not used twice: no two who registered have the same, what   *)
(* waits in a queue of kind k is a request of kind k, and CoreBluetooth has*)
(* no request that has not been made yet.                                  *)
NumberInv ==
    /\ \A k \in Kinds : \A n \in ToSet(slots[k]) \cup ToSet(asked[k]) : n <= requests
    /\ \A c, d \in Callers :
        c # d /\ pc[c] \in Held /\ pc[d] \in Held => mine[c] # mine[d]
    /\ \A c \in Callers, k \in Kinds :
        pc[c] \in Held /\ mine[c] \in ToSet(slots[k]) => kind[c] = k
    /\ \A c \in Callers, k \in Kinds :
        pc[c] = "registered" => mine[c] \notin ToSet(asked[k])

(* What all steps but two do to requests: they only let go of some.        *)
Lessens ==
    /\ requests' = requests
    /\ \A k \in Kinds : /\ ToSet(slots'[k]) \subseteq ToSet(slots[k])
                        /\ ToSet(asked'[k]) \subseteq ToSet(asked[k])
    /\ \A c \in Callers : pc'[c] \in Held =>
        /\ pc[c] \in Held /\ kind'[c] = kind[c] /\ mine'[c] = mine[c]
        /\ pc'[c] = "registered" => pc[c] = "registered"

LEMMA StepLessens ==
    ASSUME TypeInv, [Next]_vars
    PROVE  Lessens \/ \E c \in Callers : Register(c) \/ Call(c)
<1>0. /\ TypeOK /\ DOMAIN pc = Callers
      /\ pc \in [Callers -> {"idle", "queued", "ready", "registered", "waiting",
                             "writing"}]
      /\ kind \in [Callers -> Kinds] /\ mine \in [Callers -> 0 .. requests]
      /\ slots \in [Kinds -> Seq(Requests)] /\ asked \in [Kinds -> Seq(Requests)]
      /\ ToSet(<<>>) = {}
  BY DEF TypeInv, TypeOK, ToSet
(* No caller moves. *)
<1>a. ASSUME UNCHANGED <<pc, kind, mine, requests>>,
             \A k \in Kinds : /\ ToSet(slots'[k]) \subseteq ToSet(slots[k])
                              /\ ToSet(asked'[k]) \subseteq ToSet(asked[k])
      PROVE  Lessens
  BY <1>0, <1>a DEF Lessens
(* One does, and nothing else. *)
<1>b. ASSUME NEW c \in Callers, UNCHANGED <<slots, asked, requests>>,
             \A d \in Callers \ {c} : /\ pc'[d] = pc[d] /\ kind'[d] = kind[d]
                                      /\ mine'[d] = mine[d],
             \/ pc'[c] \notin Held
             \/ /\ pc[c] \in Held /\ pc'[c] = "waiting"
                /\ kind'[c] = kind[c] /\ mine'[c] = mine[c]
      PROVE  Lessens
  BY <1>0, <1>b DEF Lessens, Held
<1>1. ASSUME NEW c \in Callers, NEW k \in Kinds, Ask(c, k) PROVE Lessens
  <2>1. /\ \A d \in Callers \ {c} : /\ pc'[d] = pc[d] /\ kind'[d] = kind[d]
                                    /\ mine'[d] = mine[d]
        /\ pc'[c] \notin Held
    BY <1>0, <1>1 DEF Ask, Goto, Held
  <2> QED
    BY <1>1, <1>b, <2>1 DEF Ask, cb, history
<1>2. ASSUME NEW c \in Callers,
             \/ TakeLock(c) \/ Refuse(c) \/ Return(c) \/ Write(c) \/ GiveUp(c)
             \/ MustWait(c) \/ GoOn(c)
      PROVE  Lessens
  <2>1. \A d \in Callers \ {c} : /\ pc'[d] = pc[d] /\ kind'[d] = kind[d]
                                 /\ mine'[d] = mine[d]
    BY <1>0, <1>2
       DEF TakeLock, Refuse, Return, Write, GiveUp, MustWait, GoOn, Goto, Over
  <2>2. \/ pc'[c] \notin Held
        \/ /\ pc[c] \in Held /\ pc'[c] = "waiting"
           /\ kind'[c] = kind[c] /\ mine'[c] = mine[c]
    BY <1>0, <1>2
       DEF TakeLock, Refuse, Return, Write, GiveUp, MustWait, GoOn, Goto, Held
  <2>3. UNCHANGED <<slots, asked, requests>>
    BY <1>2 DEF TakeLock, Refuse, Return, Write, GiveUp, MustWait, GoOn, cb, history
  <2> QED
    BY <1>b, <2>1, <2>2, <2>3
<1>3. ASSUME NEW c \in Callers, CanWrite(c) PROVE Lessens
  <2>1. /\ pc' = [pc EXCEPT ![c] = "writing"]
        /\ UNCHANGED <<kind, mine, asked, requests>>
    BY <1>3 DEF CanWrite, Goto, cb, history
  <2>2. ASSUME NEW k \in Kinds PROVE ToSet(slots'[k]) \subseteq ToSet(slots[k])
    <3>1. CASE slots' = slots
      BY <3>1
    <3>2. CASE slots' # slots
      <4>1. /\ slots["command"] # <<>>
            /\ slots' = [slots EXCEPT !["command"] = Front(slots["command"])]
        BY <1>3, <3>2 DEF CanWrite
      <4>2. ToSet(Front(slots["command"])) \subseteq ToSet(slots["command"])
        BY <1>0, <4>1, WithoutNewest DEF Kinds
      <4> QED
        BY <1>0, <4>1, <4>2
    <3> QED
      BY <3>1, <3>2
  <2> QED
    BY <1>0, <2>1, <2>2 DEF Lessens, Held
<1>4. ASSUME NEW k \in Kinds, Answer(k) PROVE Lessens
  <2>1. AnswerTo(Head(asked[k])) \in Reply
    BY <1>0, <1>4, OldestAsked, Constants DEF Answer
  <2>2. \A j \in Kinds : ToSet(slots'[j]) \subseteq ToSet(slots[j])
    BY <1>0, <1>4, <2>1, Resolved DEF Answer
  <2>3. asked' = [asked EXCEPT ![k] = Tail(@)] /\ asked[k] # <<>>
    BY <1>4 DEF Answer
  <2>4. ToSet(Tail(asked[k])) \subseteq ToSet(asked[k])
    BY <1>0, <2>3, WithoutOldest
  <2>5. \A j \in Kinds : ToSet(asked'[j]) \subseteq ToSet(asked[j])
    BY <1>0, <2>3, <2>4
  <2>6. UNCHANGED <<pc, kind, mine, requests>>
    BY <1>4 DEF Answer, history
  <2> QED
    BY <1>a, <2>2, <2>5, <2>6
<1>5. CASE Connected \/ ReadyToWrite
  <2>1. \A j \in Kinds : ToSet(slots'[j]) \subseteq ToSet(slots[j])
    BY <1>0, <1>5, Resolved, Constants DEF Connected, ReadyToWrite, Kinds
  <2>2. UNCHANGED <<pc, kind, mine, requests, asked>>
    BY <1>5 DEF Connected, ReadyToWrite, history
  <2> QED
    BY <1>a, <2>1, <2>2
<1>6. CASE LinkGoes \/ Fail \/ PowerOff
  <2>1. \A j \in Kinds : ToSet(slots'[j]) \subseteq ToSet(slots[j])
    BY <1>0, <1>6, Failed DEF LinkGoes, Fail, PowerOff
  <2>2. \A j \in Kinds : ToSet(asked'[j]) \subseteq ToSet(asked[j])
    BY <1>0, <1>6 DEF LinkGoes, Fail, PowerOff, LetGo, Empty, cb
  <2>3. UNCHANGED <<pc, kind, mine, requests>>
    BY <1>6 DEF LinkGoes, Fail, PowerOff, callers, history
  <2> QED
    BY <1>a, <2>1, <2>2, <2>3
<1>7. CASE Mark \/ PowerOn \/ Grant \/ Sent \/ UNCHANGED vars
  <2>1. UNCHANGED <<pc, kind, mine, requests, slots, asked>>
    BY <1>7 DEF Mark, PowerOn, Grant, Sent, callers, cb, history, vars
  <2> QED
    BY <1>a, <2>1
<1> QED
  BY <1>1, <1>2, <1>3, <1>4, <1>5, <1>6, <1>7 DEF Next, CallerStep

LEMMA StepNumbered == TypeInv /\ NumberInv /\ [Next]_vars => NumberInv'
<1> SUFFICES ASSUME TypeInv, NumberInv, [Next]_vars PROVE NumberInv'
  OBVIOUS
<1>0. /\ pc \in [Callers -> {"idle", "queued", "ready", "registered", "waiting",
                             "writing"}]
      /\ kind \in [Callers -> Kinds] /\ mine \in [Callers -> 0 .. requests]
      /\ slots \in [Kinds -> Seq(Requests)] /\ asked \in [Kinds -> Seq(Requests)]
      /\ requests \in 0 .. MaxRequests /\ MaxRequests \in Nat
      /\ \A k \in Kinds : ToSet(slots[k]) \cup ToSet(asked[k]) \subseteq Requests
      /\ \A c \in Callers : pc[c] \in Held => mine[c] \in Requests
  <2>1. ASSUME NEW s \in Seq(Requests) PROVE ToSet(s) \subseteq Requests
    BY LenProperties, ElementOfSeq DEF ToSet
  <2> QED
    BY <2>1, Constants DEF TypeInv, TypeOK
<1>1. CASE Lessens
  <2>1. ASSUME NEW k \in Kinds, NEW n \in ToSet(slots'[k]) \cup ToSet(asked'[k])
        PROVE  n <= requests'
    BY <1>1, <2>1 DEF NumberInv, Lessens
  <2>2. ASSUME NEW c \in Callers, NEW d \in Callers,
               c # d, pc'[c] \in Held, pc'[d] \in Held
        PROVE  mine'[c] # mine'[d]
    BY <1>1, <2>2 DEF NumberInv, Lessens
  <2>3. ASSUME NEW c \in Callers, NEW k \in Kinds,
               pc'[c] \in Held, mine'[c] \in ToSet(slots'[k])
        PROVE  kind'[c] = k
    BY <1>1, <2>3 DEF NumberInv, Lessens
  <2>4. ASSUME NEW c \in Callers, NEW k \in Kinds, pc'[c] = "registered"
        PROVE  mine'[c] \notin ToSet(asked'[k])
    BY <1>1, <2>4 DEF NumberInv, Lessens, Held
  <2> QED
    BY <2>1, <2>2, <2>3, <2>4 DEF NumberInv
<1>2. ASSUME NEW c \in Callers, Register(c) PROVE NumberInv'
  <2> DEFINE n == requests + 1
  <2>1. /\ n \in Requests /\ kind[c] \in Kinds /\ slots[kind[c]] \in Seq(Requests)
        /\ n \in Nat /\ requests \in Nat /\ requests' = n
        /\ pc[c] = "ready" /\ pc' = [pc EXCEPT ![c] = "registered"]
        /\ mine' = [mine EXCEPT ![c] = n] /\ UNCHANGED <<kind, asked>>
        /\ slots' = [slots EXCEPT ![kind[c]] = Append(slots[kind[c]], n)]
    BY <1>0, <1>2 DEF Register, Goto, Requests, cb
  <2>2. ToSet(Append(slots[kind[c]], n)) = ToSet(slots[kind[c]]) \cup {n}
    BY <2>1, WithOneMore
  <2>3. /\ \A k \in Kinds \ {kind[c]} : ToSet(slots'[k]) = ToSet(slots[k])
        /\ ToSet(slots'[kind[c]]) = ToSet(slots[kind[c]]) \cup {n}
    BY <1>0, <2>1, <2>2
  <2>4. /\ \A k \in Kinds : n \notin ToSet(slots[k]) \cup ToSet(asked[k])
        /\ \A d \in Callers : pc[d] \in Held => mine[d] # n
        /\ \A k \in Kinds : \A m \in ToSet(slots[k]) \cup ToSet(asked[k]) : m <= n
    BY <1>0, <2>1 DEF NumberInv, Requests
  <2>5. /\ pc'[c] = "registered" /\ mine'[c] = n
        /\ \A d \in Callers \ {c} : pc'[d] = pc[d] /\ mine'[d] = mine[d]
    BY <1>0, <2>1
  <2> HIDE DEF n
  <2>6. ASSUME NEW k \in Kinds, NEW m \in ToSet(slots'[k]) \cup ToSet(asked'[k])
        PROVE  m <= requests'
    <3>1. m = n \/ m \in ToSet(slots[k]) \cup ToSet(asked[k])
      BY <2>1, <2>3, <2>6
    <3>2. n <= n
      BY <2>1
    <3> QED
      BY <2>1, <2>4, <3>1, <3>2
  <2>7. \A d, e \in Callers :
            d # e /\ pc'[d] \in Held /\ pc'[e] \in Held => mine'[d] # mine'[e]
    BY <2>4, <2>5 DEF NumberInv
  <2>8. ASSUME NEW d \in Callers, NEW k \in Kinds,
               pc'[d] \in Held, mine'[d] \in ToSet(slots'[k])
        PROVE  kind'[d] = k
    <3>1. CASE d = c
      <4>1. n \in ToSet(slots'[k]) /\ n \notin ToSet(slots[k])
        BY <2>4, <2>5, <2>8, <3>1
      <4> QED
        BY <2>1, <2>3, <3>1, <4>1
    <3>2. CASE d # c
      <4>1. pc[d] \in Held /\ mine'[d] = mine[d] /\ mine[d] # n
        BY <2>4, <2>5, <2>8, <3>2
      <4>2. mine[d] \in ToSet(slots[k])
        BY <2>3, <2>8, <4>1
      <4> QED
        BY <2>1, <4>1, <4>2 DEF NumberInv
    <3> QED
      BY <3>1, <3>2
  <2>9. \A d \in Callers, k \in Kinds :
            pc'[d] = "registered" => mine'[d] \notin ToSet(asked'[k])
    BY <2>1, <2>4, <2>5 DEF NumberInv
  <2> QED
    BY <2>6, <2>7, <2>8, <2>9 DEF NumberInv
<1>3. ASSUME NEW c \in Callers, Call(c) PROVE NumberInv'
  <2>1. /\ pc[c] = "registered" /\ pc' = [pc EXCEPT ![c] = "waiting"]
        /\ UNCHANGED <<slots, kind, mine, requests>>
        /\ asked' = asked \/ asked' = [asked EXCEPT ![kind[c]] = Append(@, mine[c])]
    BY <1>3 DEF Call, Goto
  <2>2. /\ pc'[c] = "waiting" /\ \A d \in Callers \ {c} : pc'[d] = pc[d]
        /\ kind[c] \in Kinds /\ mine[c] \in Requests /\ mine[c] <= requests
    BY <1>0, <2>1 DEF Held
  <2>3. ToSet(Append(asked[kind[c]], mine[c])) = ToSet(asked[kind[c]]) \cup {mine[c]}
    BY <1>0, <2>2, WithOneMore
  <2>4. \A k \in Kinds : ToSet(asked'[k]) \subseteq ToSet(asked[k]) \cup {mine[c]}
    BY <1>0, <2>1, <2>2, <2>3
  <2>5. \A d \in Callers : pc'[d] \in Held => pc[d] \in Held
    BY <2>1, <2>2 DEF Held
  <2>6. \A k \in Kinds : \A m \in ToSet(slots'[k]) \cup ToSet(asked'[k]) : m <= requests'
    BY <2>1, <2>2, <2>4 DEF NumberInv
  <2>7. ASSUME NEW d \in Callers, NEW k \in Kinds, pc'[d] = "registered"
        PROVE  mine'[d] \notin ToSet(asked'[k])
    <3>1. d # c /\ pc[d] = "registered"
      BY <2>2, <2>7
    <3>2. mine[d] # mine[c] /\ mine[d] \notin ToSet(asked[k])
      BY <2>1, <3>1 DEF NumberInv, Held
    <3> QED
      BY <2>1, <2>4, <3>2
  <2> QED
    BY <2>1, <2>5, <2>6, <2>7 DEF NumberInv
<1> QED
  BY <1>1, <1>2, <1>3, StepLessens

(*************************** In step ***************************************)

(* Where there is no link CoreBluetooth has no request, and there is none  *)
(* while those who waited for one have yet to be failed.                   *)
LinkInv == (~link => asked = Empty) /\ (losing = "failing" => ~link)

LEMMA StepLinked == TypeInv /\ LinkInv /\ [Next]_vars => LinkInv'
<1> SUFFICES ASSUME TypeInv, LinkInv, [Next]_vars PROVE LinkInv'
  OBVIOUS
<1>0. link \in BOOLEAN
  BY DEF TypeInv, TypeOK
<1>1. ASSUME NEW c \in Callers, NEW k \in Kinds, Ask(c, k) PROVE LinkInv'
  BY <1>1 DEF Ask, LinkInv, cb
<1>2. ASSUME NEW c \in Callers, CallerStep(c) \/ GiveUp(c) PROVE LinkInv'
  <2>1. UNCHANGED <<link, losing>>
    BY <1>2 DEF CallerStep, TakeLock, Refuse, Register, Call, Return, CanWrite,
                MustWait, GoOn, Write, GiveUp, cb
  <2>2. asked' = asked \/ link
    BY <1>2 DEF CallerStep, TakeLock, Refuse, Register, Call, Return, CanWrite,
                MustWait, GoOn, Write, GiveUp, cb
  <2> QED
    BY <2>1, <2>2 DEF LinkInv
<1>3. ASSUME NEW k \in Kinds, Answer(k) PROVE LinkInv'
  BY <1>3 DEF Answer, LinkInv, Empty
<1>4. CASE Connected
  BY <1>4 DEF Connected, LinkInv
<1>5. CASE LinkGoes \/ PowerOff
  BY <1>5 DEF LinkGoes, PowerOff, LetGo, LinkInv
<1>6. CASE ReadyToWrite \/ Fail \/ Mark \/ PowerOn \/ Grant \/ Sent \/ UNCHANGED vars
  <2>1. UNCHANGED <<link, asked>> /\ (losing' = losing \/ losing' # "failing")
    BY <1>6 DEF ReadyToWrite, Fail, Mark, PowerOn, Grant, Sent, vars, cb
  <2> QED
    BY <2>1 DEF LinkInv
<1> QED
  BY <1>1, <1>2, <1>3, <1>4, <1>5, <1>6 DEF Next

(* The requests CoreBluetooth has of kind k are those that wait for it, in *)
(* the same order, but for the one that is registered and not made yet.    *)
Matched(k) ==
    \/ slots[k] = asked[k]
    \/ \E c \in Callers : /\ pc[c] = "registered" /\ kind[c] = k
                          /\ slots[k] = Append(asked[k], mine[c])

(* While those who waited for a lost link are yet to be failed the queues  *)
(* are out of step, and nothing is answered. An answer that was handed is  *)
(* its caller's own.                                                       *)
StepInv ==
    ~unheard /\ ~orphaned =>
        /\ losing # "failing" => \A k \in Shared : Matched(k)
        /\ \A c \in Callers :
            pc[c] \in Held /\ reply[c].kind = "answer" /\ kind[c] \in Shared
            => reply[c].n = mine[c]

(* A step that leaves the requests of these kinds, and their replies.      *)
Aside ==
    /\ \A k \in Shared : slots'[k] = slots[k] /\ asked'[k] = asked[k]
    /\ losing' = "failing" <=> losing = "failing"
    /\ ~unheard' => ~unheard
    /\ ~orphaned' => ~orphaned
    /\ \A c \in Callers : pc[c] = "registered" /\ kind[c] \in Shared =>
        pc'[c] = "registered" /\ kind'[c] = kind[c] /\ mine'[c] = mine[c]
    /\ \A c \in Callers : pc'[c] \in Held /\ kind'[c] \in Shared =>
        /\ pc[c] \in Held /\ kind'[c] = kind[c] /\ mine'[c] = mine[c]
        /\ reply'[c] = reply[c] \/ reply'[c].kind # "answer"

LEMMA AsideKeeps == StepInv /\ Aside => StepInv'
<1> SUFFICES ASSUME StepInv, Aside, ~unheard', ~orphaned' PROVE StepInv'
  BY DEF StepInv
<1>1. ~unheard /\ ~orphaned
  BY DEF Aside
<1>2. ASSUME losing' # "failing", NEW k \in Shared PROVE Matched(k)'
  <2>1. Matched(k) /\ slots'[k] = slots[k] /\ asked'[k] = asked[k]
    BY <1>1, <1>2 DEF StepInv, Aside
  <2>2. CASE slots[k] = asked[k]
    BY <2>1, <2>2 DEF Matched
  <2>3. CASE slots[k] # asked[k]
    <3>1. PICK c \in Callers : /\ pc[c] = "registered" /\ kind[c] = k
                               /\ slots[k] = Append(asked[k], mine[c])
      BY <2>1, <2>3 DEF Matched
    <3>2. pc'[c] = "registered" /\ kind'[c] = k /\ mine'[c] = mine[c]
      BY <3>1 DEF Aside
    <3> QED
      BY <2>1, <3>1, <3>2 DEF Matched
  <2> QED
    BY <2>2, <2>3
<1>3. ASSUME NEW c \in Callers, pc'[c] \in Held, reply'[c].kind = "answer",
             kind'[c] \in Shared
      PROVE  reply'[c].n = mine'[c]
  BY <1>1, <1>3 DEF StepInv, Aside
<1> QED
  BY <1>2, <1>3 DEF StepInv

LEMMA StepAside ==
    ASSUME TypeInv, LockInv, NumberInv, [Next]_vars
    PROVE  \/ Aside
           \/ \E c \in Callers : kind[c] \in Shared /\ (Register(c) \/ Call(c))
           \/ \E k \in Shared : Answer(k)
           \/ LinkGoes \/ Fail \/ PowerOff
<1>0. /\ TypeOK /\ DOMAIN pc = Callers
      /\ pc \in [Callers -> {"idle", "queued", "ready", "registered", "waiting",
                             "writing"}]
      /\ kind \in [Callers -> Kinds] /\ mine \in [Callers -> 0 .. requests]
      /\ slots \in [Kinds -> Seq(Requests)] /\ asked \in [Kinds -> Seq(Requests)]
      /\ reply \in [Callers -> Reply]
      /\ Shared \subseteq Kinds /\ "command" \notin Shared /\ "connect" \notin Shared
  BY Constants DEF TypeInv, TypeOK, Shared, Kinds
(* One caller moves, and it is not of these kinds or does not register;    *)
(* another's reply can be a failure.                                       *)
<1>a. ASSUME NEW c \in Callers, UNCHANGED <<asked, losing, unheard, orphaned>>,
             \A k \in Shared : slots'[k] = slots[k],
             \A d \in Callers \ {c} :
                /\ pc'[d] = pc[d] /\ kind'[d] = kind[d] /\ mine'[d] = mine[d]
                /\ reply'[d] = reply[d] \/ reply'[d].kind # "answer",
             kind[c] \in Shared => pc[c] # "registered",
             pc'[c] \notin Held \/ kind'[c] \notin Shared
      PROVE  Aside
  BY <1>a DEF Aside
(* The waiters of another kind are resolved. *)
<1>b. ASSUME NEW k \in Kinds \ Shared, NEW what \in Reply, Resolve(k, what),
             UNCHANGED <<pc, kind, mine, losing, unheard, orphaned>>,
             \A j \in Shared : asked'[j] = asked[j]
      PROVE  Aside
  <2>1. /\ \A j \in Shared : slots'[j] = slots[j]
        /\ \A c \in Callers :
             reply'[c] = reply[c]
             \/ (pc[c] \in Held /\ slots[k] # <<>> /\ mine[c] = Head(slots[k]))
    BY <1>0, <1>b, Resolved
  <2>2. ASSUME NEW c \in Callers, reply'[c] # reply[c] PROVE kind[c] \notin Shared
    <3>1. pc[c] \in Held /\ slots[k] # <<>> /\ mine[c] = Head(slots[k])
      BY <2>1, <2>2
    <3>2. slots[k] \in Seq(Requests)
      BY <1>0
    <3>3. mine[c] \in ToSet(slots[k])
      BY <3>1, <3>2, WithoutOldest
    <3> QED
      BY <3>1, <3>3 DEF NumberInv
  <2> QED
    BY <1>b, <2>1, <2>2 DEF Aside
(* Nothing of this moves. *)
<1>c. ASSUME UNCHANGED <<pc, kind, mine, reply, slots, asked, unheard, orphaned>>,
             losing' = "failing" <=> losing = "failing"
      PROVE  Aside
  BY <1>c DEF Aside
<1>1. ASSUME NEW c \in Callers, NEW k \in Kinds, Ask(c, k) PROVE Aside
  BY <1>0, <1>1, <1>a DEF Ask, Goto, Held, cb, history
<1>2. ASSUME NEW c \in Callers, TakeLock(c) PROVE Aside
  BY <1>0, <1>2, <1>a DEF TakeLock, Goto, Held, cb, history
<1>3. ASSUME NEW c \in Callers, Refuse(c) \/ Return(c) \/ GiveUp(c) PROVE Aside
  <2>1. /\ pc[c] # "registered" /\ pc' = [pc EXCEPT ![c] = "idle"] /\ Over(c)
        /\ UNCHANGED <<asked, losing, unheard, orphaned, slots>>
    BY <1>3 DEF Refuse, Return, GiveUp, Goto, cb, history
  <2> QED
    BY <1>0, <2>1, <1>a DEF Over, Held
<1>4. ASSUME NEW c \in Callers, Write(c) PROVE Aside
  <2>1. /\ pc[c] # "registered" /\ pc' = [pc EXCEPT ![c] = "idle"] /\ Over(c)
        /\ UNCHANGED <<asked, losing, unheard, orphaned, slots>>
    BY <1>4 DEF Write, Goto
  <2> QED
    BY <1>0, <2>1, <1>a DEF Over, Held
<1>5. ASSUME NEW c \in Callers, GoOn(c) PROVE Aside
  BY <1>0, <1>5, <1>a DEF GoOn, Goto, Held, cb, history
<1>6. ASSUME NEW c \in Callers, MustWait(c) PROVE Aside
  BY <1>0, <1>6, <1>a DEF MustWait, Goto, Held, cb, history
<1>7. ASSUME NEW c \in Callers, CanWrite(c) PROVE Aside
  <2>1. /\ kind[c] = "command" /\ pc' = [pc EXCEPT ![c] = "writing"]
        /\ UNCHANGED <<asked, losing, unheard, orphaned, kind, mine>>
    BY <1>7 DEF CanWrite, Goto, cb, history
  <2>2. \A k \in Shared : slots'[k] = slots[k]
    BY <1>0, <1>7 DEF CanWrite
  <2>3. \A d \in Callers : reply'[d] = reply[d] \/ reply'[d].kind # "answer"
    BY <1>0, <1>7 DEF CanWrite, Hand, Failure
  <2> QED
    BY <1>0, <2>1, <2>2, <2>3, <1>a
<1>8. ASSUME NEW c \in Callers, kind[c] \notin Shared, Register(c) PROVE Aside
  <2>1. /\ pc' = [pc EXCEPT ![c] = "registered"]
        /\ mine' = [mine EXCEPT ![c] = requests + 1]
        /\ UNCHANGED <<asked, losing, unheard, orphaned, kind, reply>>
    BY <1>8 DEF Register, Goto, cb
  <2>2. \A k \in Shared : slots'[k] = slots[k]
    BY <1>0, <1>8 DEF Register
  <2> QED
    BY <1>0, <1>8, <2>1, <2>2, <1>a
<1>9. ASSUME NEW c \in Callers, kind[c] \notin Shared, Call(c) PROVE Aside
  <2>1. /\ pc' = [pc EXCEPT ![c] = "waiting"]
        /\ UNCHANGED <<losing, slots, kind, mine, reply>>
        /\ (~unheard' => ~unheard) /\ (~orphaned' => ~orphaned)
    BY <1>9 DEF Call, Goto
  <2>2. \A k \in Shared : asked'[k] = asked[k]
    BY <1>0, <1>9 DEF Call
  <2> QED
    BY <1>0, <1>9, <2>1, <2>2 DEF Aside
<1>10. ASSUME NEW k \in Kinds \ Shared, Answer(k) PROVE Aside
  <2>1. AnswerTo(Head(asked[k])) \in Reply
    BY <1>0, <1>10, OldestAsked, Constants DEF Answer
  <2>2. \A j \in Shared : asked'[j] = asked[j]
    BY <1>0, <1>10 DEF Answer
  <2> QED
    BY <1>10, <1>b, <2>1, <2>2 DEF Answer, history
<1>11. CASE Connected
  <2>1. /\ Resolve("connect", AnswerTo(0)) \/ Resolve("connect", Failure)
        /\ UNCHANGED <<pc, kind, mine, losing, unheard, orphaned, asked>>
    BY <1>11 DEF Connected, history
  <2>2. "connect" \in Kinds \ Shared
    BY DEF Kinds, Shared
  <2> QED
    BY <1>b, <2>1, <2>2, Constants
<1>12. CASE ReadyToWrite
  <2>1. /\ Resolve("command", AnswerTo(0))
        /\ UNCHANGED <<pc, kind, mine, losing, unheard, orphaned, asked>>
    BY <1>12 DEF ReadyToWrite
  <2>2. "command" \in Kinds \ Shared
    BY DEF Kinds, Shared
  <2> QED
    BY <1>b, <2>1, <2>2, Constants
<1>13. CASE Mark \/ PowerOn \/ Grant \/ Sent \/ UNCHANGED vars
  BY <1>13, <1>c DEF Mark, PowerOn, Grant, Sent, callers, cb, history, vars
<1> QED
  BY <1>1, <1>2, <1>3, <1>4, <1>5, <1>6, <1>7, <1>8, <1>9, <1>10, <1>11, <1>12, <1>13
     DEF Next, CallerStep

LEMMA StepMatched ==
    TypeInv /\ LockInv /\ NumberInv /\ LinkInv /\ StepInv /\ [Next]_vars => StepInv'
<1> SUFFICES ASSUME TypeInv, LockInv, NumberInv, LinkInv, StepInv, [Next]_vars,
                    ~unheard', ~orphaned'
             PROVE  StepInv'
  BY DEF StepInv
<1>0. /\ TypeOK /\ DOMAIN pc = Callers /\ link \in BOOLEAN
      /\ pc \in [Callers -> {"idle", "queued", "ready", "registered", "waiting",
                             "writing"}]
      /\ kind \in [Callers -> Kinds] /\ mine \in [Callers -> 0 .. requests]
      /\ slots \in [Kinds -> Seq(Requests)] /\ asked \in [Kinds -> Seq(Requests)]
      /\ reply \in [Callers -> Reply] /\ \A n \in Requests : AnswerTo(n) \in Reply
      /\ Shared \subseteq Kinds /\ Shared \subseteq Serialised
      /\ Shared \subseteq FailedWithLink
      /\ \A c \in Callers : pc[c] \in Held => mine[c] \in Requests
  BY Constants DEF TypeInv, TypeOK, Shared, FailedWithLink
(* No two are past the lock. *)
<1>a. \A c, d \in Callers :
        /\ pc[c] \in {"ready"} \cup Held /\ kind[c] \in Shared
        /\ pc[d] \in {"ready"} \cup Held /\ kind[d] \in Shared
        => c = d
  BY <1>0 DEF LockInv
<1>1. CASE Aside
  BY <1>1, AsideKeeps
<1>2. ASSUME NEW c \in Callers, kind[c] \in Shared, Register(c) PROVE StepInv'
  <2> DEFINE n == requests + 1
  <2>1. /\ pc[c] = "ready" /\ pc' = [pc EXCEPT ![c] = "registered"]
        /\ mine' = [mine EXCEPT ![c] = n]
        /\ slots' = [slots EXCEPT ![kind[c]] = Append(@, n)]
        /\ UNCHANGED <<asked, losing, unheard, orphaned, kind, reply>>
    BY <1>2 DEF Register, Goto, cb
  <2> HIDE DEF n
  <2>2. \A d \in Callers : ~(pc[d] = "registered" /\ kind[d] \in Shared)
    BY <1>2, <1>a, <2>1 DEF Held
  <2>3. ASSUME losing' # "failing", NEW k \in Shared PROVE Matched(k)'
    <3>1. slots[k] = asked[k]
      BY <2>1, <2>2, <2>3 DEF StepInv, Matched
    <3>2. CASE k = kind[c]
      <4>1. slots'[k] = Append(asked'[k], mine'[c])
        BY <1>0, <2>1, <3>1, <3>2
      <4>2. pc'[c] = "registered" /\ kind'[c] = k
        BY <1>0, <2>1, <3>2
      <4> QED
        BY <4>1, <4>2 DEF Matched
    <3>3. CASE k # kind[c]
      <4>1. slots'[k] = asked'[k]
        BY <1>0, <2>1, <3>1, <3>3
      <4> QED
        BY <4>1 DEF Matched
    <3> QED
      BY <3>2, <3>3
  <2>4. reply[c] = NoReply
    BY <2>1 DEF LockInv
  <2>5. ASSUME NEW d \in Callers, pc'[d] \in Held, reply'[d].kind = "answer",
               kind'[d] \in Shared
        PROVE  reply'[d].n = mine'[d]
    <3>1. d # c
      BY <2>1, <2>4, <2>5 DEF NoReply
    <3> QED
      BY <1>0, <2>1, <2>5, <3>1 DEF StepInv
  <2> QED
    BY <2>3, <2>5 DEF StepInv
<1>3. ASSUME NEW c \in Callers, kind[c] \in Shared, Call(c) PROVE StepInv'
  <2>1. /\ pc[c] = "registered" /\ pc' = [pc EXCEPT ![c] = "waiting"]
        /\ UNCHANGED <<slots, losing, kind, mine, reply>>
        /\ ~unheard /\ ~orphaned /\ link
        /\ mine[c] \in ToSet(slots[kind[c]])
        /\ asked' = [asked EXCEPT ![kind[c]] = Append(@, mine[c])]
    BY <1>3 DEF Call, Goto, Shared
  <2>2. losing # "failing" /\ \A k \in Shared : Matched(k)
    BY <2>1 DEF StepInv, LinkInv
  <2>3. ASSUME NEW k \in Shared PROVE slots'[k] = asked'[k]
    <3>1. CASE k = kind[c]
      <4>1. mine[c] \notin ToSet(asked[k])
        BY <1>0, <2>1, <3>1 DEF NumberInv
      <4>2. slots[k] # asked[k]
        BY <2>1, <3>1, <4>1
      <4>3. PICK d \in Callers : /\ pc[d] = "registered" /\ kind[d] = k
                                 /\ slots[k] = Append(asked[k], mine[d])
        BY <2>2, <2>3, <4>2 DEF Matched
      <4>4. d = c
        BY <1>3, <1>a, <2>1, <2>3, <4>3 DEF Held
      <4> QED
        BY <1>0, <2>1, <3>1, <4>3, <4>4
    <3>2. CASE k # kind[c]
      <4>1. slots[k] = asked[k]
        BY <1>3, <1>a, <2>1, <2>2, <2>3, <3>2 DEF Matched, Held
      <4> QED
        BY <1>0, <2>1, <3>2, <4>1
    <3> QED
      BY <3>1, <3>2
  <2>4. ASSUME NEW d \in Callers, pc'[d] \in Held, reply'[d].kind = "answer",
               kind'[d] \in Shared
        PROVE  reply'[d].n = mine'[d]
    BY <1>0, <2>1, <2>4 DEF StepInv, Held
  <2> QED
    BY <2>3, <2>4 DEF StepInv, Matched
<1>4. ASSUME NEW k \in Shared, Answer(k) PROVE StepInv'
  <2> DEFINE n == Head(asked[k])
  <2>1. /\ asked[k] # <<>> /\ asked' = [asked EXCEPT ![k] = Tail(@)]
        /\ Resolve(k, AnswerTo(n))
        /\ UNCHANGED <<pc, kind, mine, losing, unheard, orphaned>>
    BY <1>4 DEF Answer, history
  <2>2. n \in Requests /\ asked[k] \in Seq(Requests) /\ Tail(asked[k]) \in Seq(Requests)
    BY <1>0, <2>1, WithoutOldest
  <2>3. losing # "failing" /\ \A j \in Shared : Matched(j)
    <3>1. link
      BY <1>0, <2>1 DEF LinkInv, Empty
    <3> QED
      BY <2>1, <3>1 DEF StepInv, LinkInv
  <2>4. slots[k] # <<>> /\ Head(slots[k]) = n
    <3>1. CASE slots[k] = asked[k]
      BY <2>1, <3>1
    <3>2. CASE slots[k] # asked[k]
      <4>1. PICK d \in Callers : /\ pc[d] = "registered" /\ kind[d] = k
                                 /\ slots[k] = Append(asked[k], mine[d])
        BY <2>3, <3>2 DEF Matched
      <4>2. mine[d] \in Requests
        BY <1>0, <4>1 DEF Held
      <4> QED
        BY <2>1, <2>2, <4>1, <4>2, HeadTailAppend, AppendProperties
    <3> QED
      BY <3>1, <3>2
  <2> HIDE DEF n
  <2>5. /\ \A j \in Kinds \ {k} : slots'[j] = slots[j]
        /\ slots'[k] = Tail(slots[k])
        /\ \A c \in Callers :
             reply'[c] = reply[c] \/ (reply'[c] = AnswerTo(n) /\ mine[c] = n)
    BY <1>0, <2>1, <2>2, <2>4, Resolved
  <2>6. ASSUME NEW j \in Shared PROVE Matched(j)'
    <3>1. CASE j # k
      <4>1. slots'[j] = slots[j] /\ asked'[j] = asked[j]
        BY <1>0, <2>1, <2>5, <3>1
      <4>2. CASE slots[j] = asked[j]
        BY <4>1, <4>2 DEF Matched
      <4>3. CASE slots[j] # asked[j]
        <5>1. PICK d \in Callers : /\ pc[d] = "registered" /\ kind[d] = j
                                   /\ slots[j] = Append(asked[j], mine[d])
          BY <2>3, <4>3 DEF Matched
        <5>2. /\ pc'[d] = "registered" /\ kind'[d] = j
              /\ slots'[j] = Append(asked'[j], mine'[d])
          BY <2>1, <4>1, <5>1
        <5> QED
          BY <5>2 DEF Matched
      <4> QED
        BY <4>2, <4>3
    <3>2. CASE j = k
      <4>1. asked'[k] = Tail(asked[k]) /\ slots'[k] = Tail(slots[k])
        BY <1>0, <2>1, <2>5
      <4>2. CASE slots[k] = asked[k]
        BY <3>2, <4>1, <4>2 DEF Matched
      <4>3. CASE slots[k] # asked[k]
        <5>1. PICK d \in Callers : /\ pc[d] = "registered" /\ kind[d] = k
                                   /\ slots[k] = Append(asked[k], mine[d])
          BY <2>3, <4>3 DEF Matched
        <5>2. Tail(Append(asked[k], mine[d])) = Append(Tail(asked[k]), mine[d])
          BY <2>1, <2>2, HeadTailAppend
        <5>3. slots'[k] = Append(asked'[k], mine'[d])
          BY <2>1, <4>1, <5>1, <5>2
        <5> QED
          BY <2>1, <3>2, <5>1, <5>3 DEF Matched
      <4> QED
        BY <4>2, <4>3
    <3> QED
      BY <3>1, <3>2
  <2>7. ASSUME NEW c \in Callers, pc'[c] \in Held, reply'[c].kind = "answer",
               kind'[c] \in Shared
        PROVE  reply'[c].n = mine'[c]
    <3>1. CASE reply'[c] = reply[c]
      BY <2>1, <2>7, <3>1 DEF StepInv
    <3>2. CASE reply'[c] = AnswerTo(n) /\ mine[c] = n
      BY <2>1, <3>2 DEF AnswerTo
    <3> QED
      BY <2>5, <3>1, <3>2
  <2> QED
    BY <2>6, <2>7 DEF StepInv
<1>5. CASE LinkGoes
  BY <1>5 DEF LinkGoes, callers, history, StepInv
<1>6. CASE Fail \/ PowerOff
  <2>1. /\ UNCHANGED <<pc, kind, mine, orphaned>> /\ (~unheard' => ~unheard)
        /\ \A c \in Callers : reply'[c] = reply[c] \/ reply'[c] = Failure
    <3>1. FailPeripheral \/ UNCHANGED <<slots, reply>>
      BY <1>6 DEF Fail, PowerOff
    <3>2. \A c \in Callers : reply'[c] = reply[c] \/ reply'[c] = Failure
      BY <1>0, <3>1, Failed
    <3>3. UNCHANGED <<pc, kind, mine, orphaned>>
      BY <1>6 DEF Fail, PowerOff, history
    <3>4. \/ unheard' = unheard
          \/ unheard' = (unheard \/ (~connected /\ (link \/ dialling)))
      BY <1>6 DEF Fail, PowerOff, history
    <3>5. ~unheard' => ~unheard
      BY <3>4
    <3> QED
      BY <3>2, <3>3, <3>5
  <2>2. ASSUME NEW k \in Shared PROVE Matched(k)'
    <3>1. asked'[k] = <<>>
      <4>1. CASE Fail
        BY <1>0, <4>1 DEF Fail, LinkInv, Empty, cb
      <4>2. CASE PowerOff
        BY <1>0, <4>2 DEF PowerOff, LetGo, Empty
      <4> QED
        BY <1>6, <4>1, <4>2
    <3>2. CASE FailPeripheral
      <4>1. slots'[k] = <<>>
        BY <1>0, <3>2, Failed
      <4> QED
        BY <3>1, <4>1 DEF Matched
    <3>3. CASE ~FailPeripheral
      <4>1. PowerOff /\ ~connected /\ ~link /\ slots' = slots
        BY <1>0, <1>6, <3>3 DEF Fail, PowerOff
      <4>2. losing = "no" /\ asked[k] = <<>>
        BY <1>0, <4>1 DEF PowerOff, LinkInv, Empty
      <4>3. Matched(k)
        BY <2>1, <4>2 DEF StepInv
      <4> QED
        BY <2>1, <3>1, <4>1, <4>2, <4>3 DEF Matched
    <3> QED
      BY <3>2, <3>3
  <2>3. ASSUME NEW c \in Callers, pc'[c] \in Held, reply'[c].kind = "answer",
               kind'[c] \in Shared
        PROVE  reply'[c].n = mine'[c]
    BY <2>1, <2>3 DEF StepInv, Failure
  <2> QED
    BY <2>2, <2>3 DEF StepInv
<1> QED
  BY <1>1, <1>2, <1>3, <1>4, <1>5, <1>6, StepAside

AnswerInv == TypeInv /\ LockInv /\ NumberInv /\ LinkInv /\ StepInv

LEMMA AnswerInvariance == Spec => []AnswerInv
<1>1. Init => AnswerInv
  <2> SUFFICES ASSUME Init PROVE AnswerInv
    OBVIOUS
  <2>1. TypeInv
    BY InitTyped
  <2>2. LockInv /\ LinkInv
    BY DEF Init, LockInv, LinkInv, Held
  <2>3. NumberInv
    BY DEF Init, NumberInv, Held, Empty, ToSet
  <2>4. StepInv
    BY DEF Init, StepInv, Matched, Held
  <2> QED
    BY <2>1, <2>2, <2>3, <2>4 DEF AnswerInv
<1>2. AnswerInv /\ [Next]_vars => AnswerInv'
  BY StepTyped, StepLocked, StepNumbered, StepLinked, StepMatched DEF AnswerInv
<1> QED
  BY <1>1, <1>2, PTL DEF Spec

(* Callbacks name no request and go to the oldest waiter of their kind, and*)
(* yet each caller is handed the answer to its own, whoever gave up before *)
(* it and however often the link went (backend.rs:66-88, 108-121).         *)
THEOREM AnswerIsHandedToItsCaller == Spec => []AnswerIsMine
<1>1. AnswerInv => AnswerIsMine
  BY DEF AnswerInv, StepInv, AnswerIsMine, FailedWithLink, Shared, Held
<1> QED
  BY <1>1, AnswerInvariance, PTL

(*************************** Room ******************************************)

\* c is about an unacknowledged write, and it is c's turn.
Commands(c) == kind[c] = "command" /\ pc[c] \in Held \cup {"writing"}
MayWrite(c) == Commands(c) /\ (pc[c] = "writing" \/ reply[c].kind = "answer")

(* CoreBluetooth is not asked for room. Where one writes at a time and room*)
(* is not announced late, whoever may write finds room.                    *)
RoomInv ==
    /\ asked["command"] = <<>>
    /\ ~crowded /\ ~late =>
        /\ \A c, d \in Callers : Commands(c) /\ Commands(d) => c = d
        /\ \A c \in Callers : MayWrite(c) => buffered < Room
        /\ ~discarded

(* A step that lets nobody write and takes no room. *)
TakesNone ==
    /\ asked'["command"] = asked["command"] \/ asked'["command"] = <<>>
    /\ UNCHANGED <<late, discarded>> /\ (~crowded' => ~crowded)
    /\ buffered' <= buffered
    /\ \A c \in Callers : /\ Commands(c)' => Commands(c)
                          /\ MayWrite(c)' => MayWrite(c)

LEMMA NoneTaken == TypeInv /\ RoomInv /\ TakesNone /\ buffered' \in 0 .. Room => RoomInv'
<1> SUFFICES ASSUME TypeInv, RoomInv, TakesNone, buffered' \in 0 .. Room PROVE RoomInv'
  OBVIOUS
<1>1. asked'["command"] = <<>>
  BY DEF RoomInv, TakesNone
<1>2. ASSUME ~crowded', ~late'
      PROVE  /\ \A c, d \in Callers : Commands(c)' /\ Commands(d)' => c = d
             /\ \A c \in Callers : MayWrite(c)' => buffered' < Room
             /\ ~discarded'
  <2>1. /\ \A c, d \in Callers : Commands(c) /\ Commands(d) => c = d
        /\ \A c \in Callers : MayWrite(c) => buffered < Room
        /\ ~discarded
    BY <1>2 DEF RoomInv, TakesNone
  <2>2. \A c, d \in Callers : Commands(c)' /\ Commands(d)' => c = d
    BY <2>1 DEF TakesNone
  <2>3. buffered < Room => buffered' < Room
    BY Constants DEF TakesNone, TypeInv, TypeOK
  <2>4. \A c \in Callers : MayWrite(c)' => buffered' < Room
    BY <2>1, <2>3 DEF TakesNone
  <2>5. ~discarded'
    BY <2>1 DEF TakesNone
  <2> QED
    BY <2>2, <2>4, <2>5
<1>3. ~crowded' /\ ~late' =>
        /\ \A c, d \in Callers : Commands(c)' /\ Commands(d)' => c = d
        /\ \A c \in Callers : MayWrite(c)' => buffered' < Room
        /\ ~discarded'
  BY <1>2, Zenon
<1> QED
  BY <1>1, <1>3 DEF RoomInv

LEMMA StepTakes ==
    ASSUME TypeInv, NumberInv, asked["command"] = <<>>, [Next]_vars
    PROVE  \/ TakesNone
           \/ \E c \in Callers : \/ CanWrite(c) \/ Write(c)
                                 \/ (kind[c] = "command" /\ Register(c))
           \/ ReadyToWrite
<1>0. /\ TypeOK /\ DOMAIN pc = Callers
      /\ pc \in [Callers -> {"idle", "queued", "ready", "registered", "waiting",
                             "writing"}]
      /\ kind \in [Callers -> Kinds] /\ mine \in [Callers -> 0 .. requests]
      /\ slots \in [Kinds -> Seq(Requests)] /\ asked \in [Kinds -> Seq(Requests)]
      /\ reply \in [Callers -> Reply] /\ buffered \in 0 .. Room /\ Room \in Nat
      /\ "command" \in Kinds /\ buffered <= buffered
  <2>1. TypeOK
    BY DEF TypeInv
  <2>2. buffered \in 0 .. Room /\ Room \in Nat /\ buffered <= buffered
    BY <2>1, Constants DEF TypeOK
  <2>3. "command" \in Kinds
    BY DEF Kinds
  <2> QED
    BY <2>1, <2>2, <2>3 DEF TypeOK
(* One caller moves, and is none who may write but was. *)
<1>a. ASSUME NEW c \in Callers, UNCHANGED <<crowded, late, discarded, buffered>>,
             asked'["command"] = asked["command"],
             \A d \in Callers \ {c} : /\ pc'[d] = pc[d] /\ kind'[d] = kind[d]
                                      /\ reply'[d] = reply[d],
             Commands(c)' => Commands(c), MayWrite(c)' => MayWrite(c)
      PROVE  TakesNone
  <2>1. ASSUME NEW d \in Callers
        PROVE  (Commands(d)' => Commands(d)) /\ (MayWrite(d)' => MayWrite(d))
    BY <1>a DEF Commands, MayWrite
  <2> QED
    BY <1>0, <1>a, <2>1 DEF TakesNone
(* Only others are handed anything. *)
<1>b. ASSUME UNCHANGED <<crowded, late, discarded, pc, kind>>,
             asked'["command"] = <<>>, buffered' <= buffered,
             \A c \in Callers : \/ reply'[c] = reply[c] \/ reply'[c].kind # "answer"
                                \/ kind[c] # "command"
      PROVE  TakesNone
  <2>1. ASSUME NEW d \in Callers
        PROVE  (Commands(d)' => Commands(d)) /\ (MayWrite(d)' => MayWrite(d))
    BY <1>b DEF Commands, MayWrite
  <2> QED
    BY <1>b, <2>1 DEF TakesNone
(* The waiters of another kind are resolved. *)
<1>c. ASSUME NEW k \in Kinds \ {"command"}, NEW what \in Reply, Resolve(k, what)
      PROVE  \A c \in Callers : reply'[c] = reply[c] \/ kind[c] # "command"
  <2>1. \A c \in Callers : reply'[c] = reply[c]
            \/ (pc[c] \in Held /\ slots[k] # <<>> /\ mine[c] = Head(slots[k]))
    BY <1>0, <1>c, Resolved
  <2>2. slots[k] # <<>> => Head(slots[k]) \in ToSet(slots[k])
    BY <1>0, <1>c, WithoutOldest
  <2> QED
    BY <2>1, <2>2 DEF NumberInv
<1>1. ASSUME NEW c \in Callers, NEW k \in Kinds, Ask(c, k) PROVE TakesNone
  BY <1>0, <1>1, <1>a DEF Ask, Goto, Commands, MayWrite, Held, cb, history
<1>2. ASSUME NEW c \in Callers, TakeLock(c) \/ MustWait(c) \/ GoOn(c) PROVE TakesNone
  BY <1>0, <1>2, <1>a
     DEF TakeLock, MustWait, GoOn, Goto, Commands, MayWrite, Held, cb, history
<1>3. ASSUME NEW c \in Callers, Refuse(c) \/ Return(c) \/ GiveUp(c) PROVE TakesNone
  <2>1. /\ pc' = [pc EXCEPT ![c] = "idle"] /\ Over(c)
        /\ UNCHANGED <<crowded, late, discarded, buffered, asked>>
    BY <1>3 DEF Refuse, Return, GiveUp, Goto, cb, history
  <2> QED
    BY <1>0, <2>1, <1>a DEF Over, Commands, MayWrite, Held
<1>4. ASSUME NEW c \in Callers, kind[c] # "command", Register(c) PROVE TakesNone
  <2>1. /\ pc' = [pc EXCEPT ![c] = "registered"]
        /\ UNCHANGED <<asked, buffered, late, discarded, kind, reply>>
    BY <1>4 DEF Register, Goto, cb
  <2>2. asked'["command"] = <<>> /\ (~crowded' => ~crowded)
    BY <1>4, <2>1 DEF Register
  <2>3. ASSUME NEW d \in Callers
        PROVE  (Commands(d)' => Commands(d)) /\ (MayWrite(d)' => MayWrite(d))
    BY <1>0, <1>4, <2>1 DEF Commands, MayWrite
  <2> QED
    BY <1>0, <2>1, <2>2, <2>3 DEF TakesNone
<1>5. ASSUME NEW c \in Callers, Call(c) PROVE TakesNone
  <2>1. /\ kind[c] # "command" /\ pc' = [pc EXCEPT ![c] = "waiting"]
        /\ UNCHANGED <<crowded, late, discarded, buffered, kind, reply>>
    BY <1>5 DEF Call, Goto
  <2>2. asked'["command"] = asked["command"]
    BY <1>0, <1>5 DEF Call
  <2> QED
    BY <1>0, <2>1, <2>2, <1>a DEF Commands, MayWrite
<1>6. ASSUME NEW k \in Kinds, Answer(k) PROVE TakesNone
  <2>1. k # "command" /\ AnswerTo(Head(asked[k])) \in Reply
    BY <1>0, <1>6, OldestAsked, Constants DEF Answer
  <2>2. \A c \in Callers : reply'[c] = reply[c] \/ kind[c] # "command"
    BY <1>6, <1>c, <2>1 DEF Answer
  <2>3. asked'["command"] = <<>>
    BY <1>0, <1>6, <2>1 DEF Answer
  <2> QED
    BY <1>0, <1>6, <1>b, <2>2, <2>3 DEF Answer, history
<1>7. CASE Connected
  <2>1. \A c \in Callers : reply'[c] = reply[c] \/ kind[c] # "command"
    BY <1>7, <1>c, Constants DEF Connected, Kinds
  <2> QED
    BY <1>0, <1>7, <1>b, <2>1 DEF Connected, history
<1>8. CASE LinkGoes \/ Fail \/ PowerOff
  <2>1. \A c \in Callers : reply'[c] = reply[c] \/ reply'[c].kind # "answer"
    <3>1. FailPeripheral \/ reply' = reply
      BY <1>8 DEF LinkGoes, Fail, PowerOff, callers
    <3> QED
      BY <1>0, <3>1, Failed DEF Failure
  <2>2. asked'["command"] = <<>> /\ buffered' <= buffered
    <3>1. CASE Fail
      BY <1>0, <3>1 DEF Fail, cb
    <3>2. CASE LetGo
      <4>1. asked' = Empty /\ buffered' = 0
        BY <3>2 DEF LetGo
      <4> QED
        BY <1>0, <4>1 DEF Empty
    <3> QED
      BY <1>8, <3>1, <3>2 DEF LinkGoes, PowerOff
  <2>3. UNCHANGED <<crowded, late, discarded, pc, kind>>
    BY <1>8 DEF LinkGoes, Fail, PowerOff, callers, history
  <2> QED
    BY <1>b, <2>1, <2>2, <2>3
<1>9. CASE Mark \/ PowerOn \/ Grant \/ Sent \/ UNCHANGED vars
  <2>1. UNCHANGED <<crowded, late, discarded, pc, kind, reply, asked>>
    BY <1>9 DEF Mark, PowerOn, Grant, Sent, callers, cb, history, vars
  <2>2. buffered' <= buffered
    <3>1. buffered' = buffered \/ buffered' = buffered - 1
      BY <1>9 DEF Mark, PowerOn, Grant, Sent, cb, vars
    <3> QED
      BY <1>0, <3>1
  <2> QED
    BY <1>b, <2>1, <2>2
<1> QED
  BY <1>1, <1>2, <1>3, <1>4, <1>5, <1>6, <1>7, <1>8, <1>9 DEF Next, CallerStep

LEMMA StepRoom ==
    TypeInv /\ LockInv /\ NumberInv /\ RoomInv /\ [Next]_vars => RoomInv'
<1> SUFFICES ASSUME TypeInv, LockInv, NumberInv, RoomInv, [Next]_vars PROVE RoomInv'
  OBVIOUS
<1>0. /\ TypeOK /\ DOMAIN pc = Callers
      /\ pc \in [Callers -> {"idle", "queued", "ready", "registered", "waiting",
                             "writing"}]
      /\ kind \in [Callers -> Kinds] /\ reply \in [Callers -> Reply]
      /\ buffered \in 0 .. Room /\ Room \in Nat /\ asked["command"] = <<>>
  BY Constants DEF TypeInv, TypeOK, RoomInv
<1>a. ASSUME ~crowded, ~late
      PROVE  /\ \A c, d \in Callers : Commands(c) /\ Commands(d) => c = d
             /\ \A c \in Callers : MayWrite(c) => buffered < Room
             /\ ~discarded
  BY <1>a DEF RoomInv
<1>1. CASE TakesNone
  <2>1. buffered' \in 0 .. Room
    BY StepTyped DEF TypeInv, TypeOK
  <2> QED
    BY <1>1, <2>1, NoneTaken
<1>2. ASSUME NEW c \in Callers, CanWrite(c) PROVE RoomInv'
  <2>1. /\ kind[c] = "command" /\ pc[c] = "registered" /\ buffered < Room
        /\ pc' = [pc EXCEPT ![c] = "writing"]
        /\ UNCHANGED <<kind, asked, buffered, crowded, late, discarded>>
    BY <1>2 DEF CanWrite, HasRoom, Goto, cb, history
  <2>2. \A d \in Callers : Commands(d)' => Commands(d)
    BY <1>0, <2>1 DEF Commands, Held
  <2>3. ASSUME ~crowded', ~late', NEW d \in Callers, NEW e \in Callers,
               Commands(d)', Commands(e)'
        PROVE  d = e
    BY <1>a, <2>1, <2>2, <2>3
  <2>4. ~crowded' /\ ~late' => ~discarded'
    BY <1>a, <2>1
  <2> QED
    BY <1>0, <2>1, <2>3, <2>4 DEF RoomInv
<1>3. ASSUME NEW c \in Callers, Write(c) PROVE RoomInv'
  <2>1. /\ pc[c] = "writing" /\ pc' = [pc EXCEPT ![c] = "idle"] /\ Over(c)
        /\ UNCHANGED <<asked, crowded, late>>
        /\ discarded' = (discarded \/ buffered = Room)
    BY <1>3 DEF Write, Goto
  <2>2. Commands(c) /\ MayWrite(c)
    BY <1>0, <2>1 DEF LockInv, Commands, MayWrite
  <2>3. ASSUME NEW d \in Callers, Commands(d)' PROVE d # c /\ Commands(d)
    BY <1>0, <2>1, <2>3 DEF Over, Commands, Held
  <2>4. ASSUME ~crowded', ~late', NEW d \in Callers PROVE ~Commands(d)'
    BY <1>a, <2>1, <2>2, <2>3, <2>4
  <2>5. ASSUME ~crowded', ~late' PROVE ~discarded'
    <3>1. ~discarded /\ buffered < Room
      BY <1>a, <2>1, <2>2, <2>5
    <3>2. buffered # Room
      BY <1>0, <3>1
    <3> QED
      BY <2>1, <3>1, <3>2
  <2> QED
    BY <1>0, <2>1, <2>4, <2>5 DEF RoomInv, MayWrite
<1>4. ASSUME NEW c \in Callers, kind[c] = "command", Register(c) PROVE RoomInv'
  <2>1. /\ pc[c] = "ready" /\ pc' = [pc EXCEPT ![c] = "registered"]
        /\ UNCHANGED <<kind, reply, asked, buffered, late, discarded>>
        /\ crowded' = (crowded \/ ~AloneWith(c))
    BY <1>4 DEF Register, Goto, cb
  <2>2. reply[c].kind # "answer"
    BY <2>1 DEF LockInv, NoReply
  <2>3. ASSUME ~crowded'
        PROVE  ~crowded /\ \A d \in Callers \ {c} : ~Commands(d)
    <3>1. ~crowded /\ AloneWith(c)
      BY <2>1, <2>3
    <3>2. \A d \in Callers \ {c} : kind[d] = "command" => pc[d] \in {"idle", "ready"}
      BY <1>4, <3>1, Constants DEF AloneWith
    <3> QED
      BY <3>1, <3>2 DEF Commands, Held
  <2>4. ASSUME ~crowded', NEW d \in Callers PROVE Commands(d)' => d = c
    BY <1>0, <2>1, <2>3, <2>4 DEF Commands
  <2>5. ~MayWrite(c)'
    BY <1>0, <2>1, <2>2 DEF MayWrite
  <2>6. ~crowded' /\ ~late' => ~discarded'
    BY <1>a, <2>1, <2>3
  <2> QED
    BY <1>0, <2>1, <2>4, <2>5, <2>6 DEF RoomInv, MayWrite
<1>5. CASE ReadyToWrite
  <2>1. /\ late' = (late \/ ~(buffered < Room))
        /\ UNCHANGED <<pc, kind, asked, buffered, crowded, discarded>>
    BY <1>5 DEF ReadyToWrite, HasRoom
  <2>2. \A c \in Callers : Commands(c)' => Commands(c)
    BY <2>1 DEF Commands
  <2>3. ASSUME ~crowded', ~late' PROVE ~crowded /\ ~late /\ buffered' < Room
    BY <2>1, <2>3
  <2>4. ASSUME ~crowded', ~late', NEW c \in Callers, NEW d \in Callers,
               Commands(c)', Commands(d)'
        PROVE  c = d
    BY <1>a, <2>2, <2>3, <2>4
  <2>5. ~crowded' /\ ~late' => ~discarded'
    BY <1>a, <2>1, <2>3
  <2> QED
    BY <1>0, <2>1, <2>3, <2>4, <2>5 DEF RoomInv
<1> QED
  BY <1>0, <1>1, <1>2, <1>3, <1>4, <1>5, StepTakes

(* No write is thrown away where one is made at a time and no room is      *)
(* announced after it was taken again: the look at the buffer, or the word *)
(* that it has room, still holds when the write is made                    *)
(* (backend.rs:1165-1195).                                                 *)
THEOREM NoWriteIsDiscarded == Spec => []NoneDiscarded
<1> DEFINE Inv == TypeInv /\ LockInv /\ NumberInv /\ RoomInv
<1>1. Init => Inv
  <2> SUFFICES ASSUME Init PROVE Inv
    OBVIOUS
  <2>1. TypeInv
    BY InitTyped
  <2>2. LockInv
    BY DEF Init, LockInv, Held
  <2>3. NumberInv
    BY DEF Init, NumberInv, Held, Empty, ToSet
  <2>4. RoomInv
    BY DEF Init, RoomInv, MayWrite, Commands, Held, Empty, Kinds
  <2> QED
    BY <2>1, <2>2, <2>3, <2>4
<1>2. Inv /\ [Next]_vars => Inv'
  BY StepTyped, StepLocked, StepNumbered, StepRoom
<1>3. Inv => NoneDiscarded
  BY DEF RoomInv, NoneDiscarded
<1> QED
  BY <1>1, <1>2, <1>3, PTL DEF Spec

(*************************** Nobody is left ********************************)

LEMMA OldestFirst ==
    ASSUME NEW S, NEW s \in Seq(S), s # <<>>
    PROVE  ToSet(s) \subseteq ToSet(Tail(s)) \cup {Head(s)}
<1>1. Len(s) \in Nat \ {0} /\ DOMAIN s = 1 .. Len(s)
  BY EmptySeq, LenProperties
<1>2. /\ Tail(s) \in Seq(S) /\ Len(Tail(s)) = Len(s) - 1
      /\ \A i \in 1 .. Len(Tail(s)) : Tail(s)[i] = s[i + 1]
  BY HeadTailProperties
<1>3. DOMAIN Tail(s) = 1 .. Len(s) - 1
  BY <1>2, LenProperties
<1>4. ASSUME NEW x \in ToSet(s) PROVE x \in ToSet(Tail(s)) \cup {Head(s)}
  <2>1. PICK i \in 1 .. Len(s) : x = s[i]
    BY <1>1, <1>4 DEF ToSet
  <2>2. CASE i = 1
    BY <1>1, <2>1, <2>2
  <2>3. CASE i # 1
    <3>1. i - 1 \in 1 .. Len(s) - 1 /\ (i - 1) + 1 = i
      BY <1>1, <2>1, <2>3
    <3>2. Tail(s)[i - 1] = s[(i - 1) + 1]
      BY <1>2, <3>1
    <3>3. x = Tail(s)[i - 1]
      BY <2>1, <3>1, <3>2
    <3> QED
      BY <1>3, <3>1, <3>3 DEF ToSet
  <2> QED
    BY <2>2, <2>3
<1> QED
  BY <1>4

(* Whoever waits and has been handed nothing is in the queue of its kind.  *)
(* A writer is not always: another's cancel may take it out.               *)
QueueInv ==
    \A c \in Callers :
        pc[c] \in Held /\ kind[c] # "command" /\ reply[c] = NoReply
        => mine[c] \in ToSet(slots[kind[c]])

(* A caller that waits for discovery and the like has its request with     *)
(* CoreBluetooth, which answers in time, or is about to be failed: "a      *)
(* dropped link never leaves a future hanging" (backend.rs:108-110).       *)
WaiterIsHeardOf ==
    ~unheard /\ ~orphaned => \A c \in Callers, k \in Shared :
        Waits(c, k) /\ reply[c] = NoReply
        => losing = "failing" \/ mine[c] \in ToSet(asked[k])

LEMMA StepQueued == TypeInv /\ LockInv /\ QueueInv /\ [Next]_vars => QueueInv'
<1> SUFFICES ASSUME TypeInv, LockInv, QueueInv, [Next]_vars PROVE QueueInv'
  OBVIOUS
<1>0. /\ TypeOK /\ DOMAIN pc = Callers
      /\ pc \in [Callers -> {"idle", "queued", "ready", "registered", "waiting",
                             "writing"}]
      /\ kind \in [Callers -> Kinds] /\ mine \in [Callers -> 0 .. requests]
      /\ slots \in [Kinds -> Seq(Requests)] /\ asked \in [Kinds -> Seq(Requests)]
      /\ reply \in [Callers -> Reply]
      /\ NoReply # Failure /\ \A n : AnswerTo(n) # NoReply
  BY DEF TypeInv, TypeOK, NoReply, Failure, AnswerTo
(* One caller moves; the queues stay, and so does what others were handed. *)
<1>a. ASSUME NEW c \in Callers, UNCHANGED slots,
             \A d \in Callers \ {c} : /\ pc'[d] = pc[d] /\ kind'[d] = kind[d]
                                      /\ mine'[d] = mine[d] /\ reply'[d] = reply[d],
             \/ pc'[c] \notin Held \/ kind'[c] = "command"
             \/ /\ pc[c] \in Held /\ kind'[c] = kind[c] /\ mine'[c] = mine[c]
                /\ reply'[c] = reply[c]
      PROVE  QueueInv'
  BY <1>a DEF QueueInv
(* The oldest of one kind is resolved. *)
<1>b. ASSUME NEW k \in Kinds, NEW what \in Reply, what # NoReply, Resolve(k, what),
             UNCHANGED <<pc, kind, mine>>
      PROVE  QueueInv'
  <2>1. /\ \A j \in Kinds \ {k} : slots'[j] = slots[j]
        /\ slots'[k] = IF slots[k] = <<>> THEN <<>> ELSE Tail(slots[k])
        /\ \A c \in Callers : reply'[c] = reply[c] \/ reply'[c] = what
    BY <1>0, <1>b, Resolved
  <2>2. ASSUME NEW c \in Callers, pc'[c] \in Held, kind'[c] # "command",
               reply'[c] = NoReply
        PROVE  mine'[c] \in ToSet(slots'[kind'[c]])
    <3>1. mine[c] \in ToSet(slots[kind[c]])
      BY <1>b, <2>1, <2>2 DEF QueueInv
    <3>2. CASE kind[c] # k \/ slots[k] = <<>>
      BY <1>0, <1>b, <2>1, <3>1, <3>2
    <3>3. CASE kind[c] = k /\ slots[k] # <<>>
      <4>1. slots[k][1] = Head(slots[k]) /\ slots[k] \in Seq(Requests)
        BY <1>0, <3>3, WithoutOldest
      <4>2. Hand(Owners({Head(slots[k])}), what)
        BY <1>b, <3>3, <4>1 DEF Resolve, Oldest
      <4>3. mine[c] # Head(slots[k])
        BY <1>b, <2>2, <4>2 DEF Hand, Owners, Held
      <4>4. mine[c] \in ToSet(Tail(slots[k]))
        BY <3>1, <3>3, <4>1, <4>3, OldestFirst
      <4> QED
        BY <1>b, <2>1, <3>3, <4>4
    <3> QED
      BY <3>2, <3>3
  <2> QED
    BY <2>2 DEF QueueInv
<1>1. ASSUME NEW c \in Callers, NEW k \in Kinds, Ask(c, k) PROVE QueueInv'
  BY <1>0, <1>1, <1>a DEF Ask, Goto, Held
<1>2. ASSUME NEW c \in Callers, TakeLock(c) \/ MustWait(c) \/ GoOn(c) PROVE QueueInv'
  BY <1>0, <1>2, <1>a DEF TakeLock, MustWait, GoOn, Goto, Held
<1>3. ASSUME NEW c \in Callers, Refuse(c) \/ Return(c) \/ GiveUp(c) \/ Write(c)
      PROVE  QueueInv'
  <2>1. pc' = [pc EXCEPT ![c] = "idle"] /\ Over(c) /\ UNCHANGED slots
    BY <1>3 DEF Refuse, Return, GiveUp, Write, Goto
  <2> QED
    BY <1>0, <2>1, <1>a DEF Over, Held
<1>4. ASSUME NEW c \in Callers, Register(c) PROVE QueueInv'
  <2> DEFINE n == requests + 1
  <2>1. /\ n \in Requests /\ kind[c] \in Kinds /\ slots[kind[c]] \in Seq(Requests)
        /\ pc' = [pc EXCEPT ![c] = "registered"]
        /\ mine' = [mine EXCEPT ![c] = n] /\ UNCHANGED <<kind, reply>>
        /\ slots' = [slots EXCEPT ![kind[c]] = Append(slots[kind[c]], n)]
    BY <1>0, <1>4, Constants DEF Register, Goto, Requests, TypeOK
  <2> HIDE DEF n
  <2>2. ToSet(Append(slots[kind[c]], n)) = ToSet(slots[kind[c]]) \cup {n}
    BY <2>1, WithOneMore
  <2>3. /\ \A k \in Kinds : ToSet(slots[k]) \subseteq ToSet(slots'[k])
        /\ n \in ToSet(slots'[kind[c]])
    BY <1>0, <2>1, <2>2
  <2>4. ASSUME NEW d \in Callers, pc'[d] \in Held, kind'[d] # "command",
               reply'[d] = NoReply
        PROVE  mine'[d] \in ToSet(slots'[kind'[d]])
    <3>1. CASE d = c
      BY <1>0, <2>1, <2>3, <3>1
    <3>2. CASE d # c
      <4>1. mine[d] \in ToSet(slots[kind[d]]) /\ mine'[d] = mine[d]
        BY <1>0, <2>1, <2>4, <3>2 DEF QueueInv
      <4> QED
        BY <1>0, <2>1, <2>3, <4>1
    <3> QED
      BY <3>1, <3>2
  <2> QED
    BY <2>4 DEF QueueInv
<1>5. ASSUME NEW c \in Callers, Call(c) PROVE QueueInv'
  BY <1>0, <1>5, <1>a DEF Call, Goto, Held
<1>6. ASSUME NEW c \in Callers, CanWrite(c) PROVE QueueInv'
  <2>1. /\ kind[c] = "command" /\ pc' = [pc EXCEPT ![c] = "writing"]
        /\ UNCHANGED <<kind, mine>>
    BY <1>6 DEF CanWrite, Goto
  <2>2. \A k \in Kinds \ {"command"} : slots'[k] = slots[k]
    BY <1>0, <1>6 DEF CanWrite
  <2>3. \A d \in Callers : reply'[d] = reply[d] \/ reply'[d] = Failure
    BY <1>0, <1>6 DEF CanWrite, Hand
  <2> QED
    BY <1>0, <2>1, <2>2, <2>3 DEF QueueInv, Held
<1>7. ASSUME NEW k \in Kinds, Answer(k) PROVE QueueInv'
  <2>1. AnswerTo(Head(asked[k])) \in Reply
    BY <1>0, <1>7, OldestAsked, Constants DEF Answer
  <2> QED
    BY <1>0, <1>7, <1>b, <2>1 DEF Answer
<1>8. CASE Connected \/ ReadyToWrite
  BY <1>0, <1>8, <1>b, Constants DEF Connected, ReadyToWrite, Kinds
<1>9. CASE FailPeripheral /\ UNCHANGED <<pc, kind, mine>>
  <2>1. ASSUME NEW c \in Callers, pc'[c] \in Held, kind'[c] # "command",
               reply'[c] = NoReply
        PROVE  mine'[c] \in ToSet(slots'[kind'[c]])
    <3>1. reply[c] = NoReply
      BY <1>0, <1>9, <2>1, Failed
    <3>2. mine[c] \in ToSet(slots[kind[c]])
      BY <1>9, <2>1, <3>1 DEF QueueInv
    <3>3. CASE kind[c] \in FailedWithLink
      <4>1. c \in Owners(UNION {ToSet(slots[k]) : k \in FailedWithLink})
        BY <1>9, <2>1, <3>2, <3>3 DEF Owners, Held
      <4>2. reply'[c] = Failure
        BY <1>9, <4>1 DEF FailPeripheral, Hand
      <4> QED
        BY <1>0, <2>1, <4>2
    <3>4. CASE kind[c] \notin FailedWithLink
      BY <1>0, <1>9, <3>2, <3>4 DEF FailPeripheral
    <3> QED
      BY <3>3, <3>4
  <2> QED
    BY <2>1 DEF QueueInv
<1>10. CASE UNCHANGED <<pc, kind, mine, slots, reply>>
  BY <1>10 DEF QueueInv
<1>11. CASE Fail \/ PowerOff
  BY <1>9, <1>10, <1>11 DEF Fail, PowerOff
<1>12. CASE LinkGoes \/ Mark \/ PowerOn \/ Grant \/ Sent \/ UNCHANGED vars
  BY <1>10, <1>12 DEF LinkGoes, Mark, PowerOn, Grant, Sent, callers, vars
<1> QED
  BY <1>1, <1>2, <1>3, <1>4, <1>5, <1>6, <1>7, <1>8, <1>11, <1>12
     DEF Next, CallerStep

(* Nobody who waits for one of these is left: its request is one that      *)
(* CoreBluetooth has, or the link's end has yet to fail it. This is the    *)
(* safety core of EndsWithLink.                                            *)
THEOREM NobodyIsLeft == Spec => []WaiterIsHeardOf
<1>1. Init => QueueInv
  BY DEF Init, QueueInv, Held
<1>2. AnswerInv /\ QueueInv /\ [Next]_vars => QueueInv'
  BY StepQueued DEF AnswerInv
<1>3. AnswerInv /\ QueueInv => WaiterIsHeardOf
  <2> SUFFICES ASSUME AnswerInv, QueueInv, ~unheard, ~orphaned, losing # "failing",
                      NEW c \in Callers, NEW k \in Shared, Waits(c, k),
                      reply[c] = NoReply
               PROVE  mine[c] \in ToSet(asked[k])
    BY DEF WaiterIsHeardOf
  <2>1. Matched(k) /\ pc[c] = "waiting" /\ kind[c] = k /\ k \in Kinds /\ k # "command"
    BY Constants DEF AnswerInv, StepInv, Waits, Shared, Kinds
  <2>2. mine[c] \in ToSet(slots[k])
    BY <2>1 DEF QueueInv, Held
  <2>3. CASE slots[k] = asked[k]
    BY <2>2, <2>3
  <2>4. CASE slots[k] # asked[k]
    <3>1. PICK d \in Callers : /\ pc[d] = "registered" /\ kind[d] = k
                               /\ slots[k] = Append(asked[k], mine[d])
      BY <2>1, <2>4 DEF Matched
    <3>2. mine[d] # mine[c]
      BY <2>1, <3>1 DEF AnswerInv, NumberInv, Held
    <3>3. asked[k] \in Seq(Requests) /\ mine[d] \in Requests
      BY <2>1, <3>1 DEF AnswerInv, TypeInv, TypeOK, Held
    <3>4. ToSet(Append(asked[k], mine[d])) = ToSet(asked[k]) \cup {mine[d]}
      BY <3>3, WithOneMore
    <3> QED
      BY <2>2, <3>1, <3>2, <3>4
  <2> QED
    BY <2>3, <2>4
<1> QED
  BY <1>1, <1>2, <1>3, AnswerInvariance, PTL DEF Spec
=============================================================================
