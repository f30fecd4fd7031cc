---------------------------- MODULE LossyStream ----------------------------
(***************************************************************************)
(* What a bounded stream promises its two ends, without saying how: values *)
(* are offered in an order, each is delivered at most once and in that     *)
(* order, each that is not delivered is counted, and the end of the stream *)
(* is announced only once everything still held has been delivered.        *)
(* Backlog implements it with a lock, a waker and a count of handles.      *)
(***************************************************************************)
EXTENDS Naturals, FiniteSets

CONSTANTS Capacity,     \* the most values the stream holds at once
          MaxValues     \* bound: how many values are ever offered

VARIABLES accepted,     \* how many values have been offered; also their names
          pending,      \* the values held, not yet delivered
          last,         \* the value delivered last, 0 before the first
          lost,         \* how many values were dropped
          open,         \* whether another value may still come
          reader        \* "reading", "ended" or "gone"

vars == <<accepted, pending, last, lost, open, reader>>

Init ==
    /\ accepted = 0 /\ pending = {} /\ last = 0 /\ lost = 0
    /\ open = TRUE /\ reader = "reading"

(* A value arrives. It is held while there is room; otherwise exactly one  *)
(* value -- it, or one that was already held -- is dropped and counted.    *)
Offer ==
    /\ open /\ reader # "gone" /\ accepted < MaxValues
    /\ accepted' = accepted + 1
    /\ IF Cardinality(pending) < Capacity
       THEN pending' = pending \cup {accepted + 1} /\ lost' = lost
       ELSE \E v \in pending \cup {accepted + 1} :
              /\ pending' = (pending \cup {accepted + 1}) \ {v}
              /\ lost' = lost + 1
    /\ UNCHANGED <<last, open, reader>>

(* The oldest value held is delivered. *)
Take ==
    /\ reader # "gone"
    /\ \E v \in pending :
          /\ \A w \in pending : v <= w
          /\ last' = v
          /\ pending' = pending \ {v}
    /\ UNCHANGED <<accepted, lost, open, reader>>

(* No further value will come. *)
Finish ==
    /\ open /\ open' = FALSE
    /\ UNCHANGED <<accepted, pending, last, lost, reader>>

(* The reader is told that the stream is over. *)
End ==
    /\ ~open /\ pending = {} /\ reader = "reading"
    /\ reader' = "ended"
    /\ UNCHANGED <<accepted, pending, last, lost, open>>

(* The reader goes away, with whatever was held. *)
Abandon ==
    /\ reader # "gone" /\ reader' = "gone"
    /\ pending' = {}
    /\ UNCHANGED <<accepted, last, lost, open>>

Next == Offer \/ Take \/ Finish \/ End \/ Abandon

(* What is held is delivered, and the end is announced, if the reader      *)
(* stays: it is the reader's own polling that does both.                   *)
Spec == Init /\ [][Next]_vars /\ WF_vars(Take) /\ WF_vars(End)
=============================================================================
