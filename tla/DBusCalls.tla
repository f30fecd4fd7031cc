----------------------------- MODULE DBusCalls ------------------------------
(***************************************************************************)
(* Method calls over one D-Bus connection                                  *)
(* (webbluetooth-linux/src/dbus/connection.rs): reply handlers filed under *)
(* the serial of the call, one thread that reads the socket and runs them, *)
(* callers that block with a timeout, and the end of the connection, from  *)
(* the reader or from the owner.                                           *)
(*                                                                         *)
(* A call is a number, its serial. A handler runs at most once, because it *)
(* is taken from the map to run: what is modelled is where it is. A caller *)
(* is at the steps of call_async and then, if it blocks, in call_blocking. *)
(* Signals are in BluezDevice; calls made by the peer, descriptors, the    *)
(* wire format and authentication are left out.                            *)
(***************************************************************************)
EXTENDS Naturals, FiniteSets

CONSTANTS MaxCalls   \* bound: method calls made

ASSUME CallsAssumption == MaxCalls \in Nat

Calls == 1 .. MaxCalls

VARIABLES
    at,          \* how far the caller of each has come
    blocking,    \* the calls whose caller waits for the answer
    outcome,     \* what each handler was run with
    pending,     \* the calls whose handler is filed
    stopped,     \* has an end begun?
    ending,      \* how far the reader and the owner are with ending it
    toFail,      \* the handlers each of them took, to fail them
    open,        \* can the socket be written?
    atBus,       \* calls the bus has
    replies      \* replies on their way

callVars == <<at, blocking, outcome, pending, stopped, ending, toFail, open, atBus,
              replies>>

Enders == {"reader", "owner"}

CallsTypeOK ==
    /\ at \in [Calls -> {"none", "filed", "checked", "refused", "called", "back"}]
    /\ outcome \in [Calls -> {"none", "reply", "disconnected"}]
    /\ blocking \subseteq Calls /\ pending \subseteq Calls
    /\ atBus \subseteq Calls /\ replies \subseteq Calls
    /\ stopped \in BOOLEAN /\ open \in BOOLEAN
    /\ ending \in [Enders -> {"no", "taking", "failing", "done"}]
    /\ toFail \in [Enders -> SUBSET Calls]

CallsInit ==
    /\ at = [s \in Calls |-> "none"] /\ blocking = {}
    /\ outcome = [s \in Calls |-> "none"]
    /\ pending = {} /\ stopped = FALSE /\ open = TRUE
    /\ ending = [e \in Enders |-> "no"] /\ toFail = [e \in Enders |-> {}]
    /\ atBus = {} /\ replies = {}

-----------------------------------------------------------------------------
(* A call.                                                                 *)

Moves(s, from, to) == at[s] = from /\ at' = [at EXCEPT ![s] = to]

(* next_serial, and the handler is filed before anything is sent.          *)
File(s) ==
    /\ ending["owner"] = "no"
    /\ \A r \in Calls : r < s => at[r] # "none"
    /\ Moves(s, "none", "filed")
    /\ pending' = pending \cup {s}
    /\ blocking' \in {blocking, blocking \cup {s}}
    /\ UNCHANGED <<outcome, stopped, ending, toFail, open, atBus, replies>>

(* send looks whether the connection has ended ...                         *)
Check(s) ==
    /\ Moves(s, "filed", IF stopped THEN "refused" ELSE "checked")
    /\ UNCHANGED <<blocking, outcome, pending, stopped, ending, toFail, open, atBus,
                   replies>>

(* ... and then writes.                                                    *)
Write(s) ==
    /\ Moves(s, "checked", IF open THEN "called" ELSE "refused")
    /\ atBus' = IF open THEN atBus \cup {s} ELSE atBus
    /\ UNCHANGED <<blocking, outcome, pending, stopped, ending, toFail, open, replies>>

\* The handlers in ran are run with the value.
Runs(ran, value) ==
    outcome' = [s \in Calls |-> IF s \in ran THEN value ELSE outcome[s]]

(* Mutant: an error of send is left at that.                               *)
TakeBack_Leaves(s) ==
    /\ Moves(s, "refused", "called")
    /\ UNCHANGED <<blocking, outcome, pending, stopped, ending, toFail, open, atBus,
                   replies>>

(* What could not be sent is taken back, unless the end took it first.     *)
TakeBack(s) ==
    /\ Moves(s, "refused", "called")
    /\ Runs(pending \cap {s}, "disconnected")
    /\ pending' = pending \ {s}
    /\ UNCHANGED <<blocking, stopped, ending, toFail, open, atBus, replies>>

(* call_async is done once the call is sent; call_blocking waits for the   *)
(* handler or the time-out, and leaves the handler filed after that.       *)
ComesBack(s) ==
    /\ Moves(s, "called", "back")
    /\ UNCHANGED <<blocking, outcome, pending, stopped, ending, toFail, open, atBus,
                   replies>>

-----------------------------------------------------------------------------
(* The bus, and the reader.                                                *)

BusAnswers(s) ==
    /\ open /\ s \in atBus
    /\ atBus' = atBus \ {s} /\ replies' = replies \cup {s}
    /\ UNCHANGED <<at, blocking, outcome, pending, stopped, ending, toFail, open>>

BusGoes ==
    /\ open
    /\ open' = FALSE
    /\ UNCHANGED <<at, blocking, outcome, pending, stopped, ending, toFail, atBus,
                   replies>>

(* dispatch, of a reply or an error.                                       *)
Dispatch(s) ==
    /\ ending["reader"] = "no"
    /\ s \in replies
    /\ replies' = replies \ {s}
    /\ Runs(pending \cap {s}, "reply")
    /\ pending' = pending \ {s}
    /\ UNCHANGED <<at, blocking, stopped, ending, toFail, open, atBus>>

-----------------------------------------------------------------------------
(* shutdown, by the reader when the socket ends and by the owner that      *)
(* drops the connection, which nobody can be calling on by then.           *)

\* Nobody is in call_async or call_blocking with it.
Unused(s) ==
    \/ at[s] \in {"none", "back"}
    \/ at[s] = "called" /\ s \notin blocking

MayEnd(e) ==
    \/ e = "reader" /\ ~open
    \/ e = "owner" /\ \A s \in Calls : Unused(s)

Stops(e) ==
    /\ MayEnd(e)
    /\ ending[e] = "no"
    /\ ending' = [ending EXCEPT ![e] = "taking"]
    /\ stopped' = TRUE
    /\ UNCHANGED <<at, blocking, outcome, pending, toFail, open, atBus, replies>>

Takes(e) ==
    /\ ending[e] = "taking"
    /\ ending' = [ending EXCEPT ![e] = "failing"]
    /\ toFail' = [toFail EXCEPT ![e] = pending]
    /\ pending' = {}
    /\ UNCHANGED <<at, blocking, outcome, stopped, open, atBus, replies>>

(* They are run, and the owner shuts the socket down.                      *)
Fails(e) ==
    /\ ending[e] = "failing"
    /\ ending' = [ending EXCEPT ![e] = "done"]
    /\ Runs(toFail[e], "disconnected")
    /\ toFail' = [toFail EXCEPT ![e] = {}]
    /\ open' = IF e = "owner" THEN FALSE ELSE open
    /\ UNCHANGED <<at, blocking, pending, stopped, atBus, replies>>

-----------------------------------------------------------------------------
CallStep(s) == File(s) \/ Check(s) \/ Write(s) \/ TakeBack(s) \/ ComesBack(s)

CallsNext ==
    \/ \E s \in Calls : CallStep(s) \/ BusAnswers(s) \/ Dispatch(s)
    \/ BusGoes
    \/ \E e \in Enders : Stops(e) \/ Takes(e) \/ Fails(e)

(* Calls that have begun go on, the reader reads, ends when the socket has *)
(* ended and finishes ending, and the bus answers what it has got.         *)
CallsFairness ==
    /\ \A s \in Calls :
        /\ WF_callVars(Check(s) \/ Write(s) \/ TakeBack(s))
        /\ WF_callVars(BusAnswers(s)) /\ WF_callVars(Dispatch(s))
    /\ WF_callVars(Stops("reader"))
    /\ \A e \in Enders : WF_callVars(Takes(e) \/ Fails(e))

-----------------------------------------------------------------------------
(* A handler that was filed is run: by its reply, or by whoever ends the   *)
(* connection, or by the caller that could not send. "a dropped bus never  *)
(* leaves a caller waiting forever" (connection.rs:153-161, 305-313).      *)
CallEnds == \A s \in Calls : at[s] = "filed" ~> outcome[s] # "none"
=============================================================================
