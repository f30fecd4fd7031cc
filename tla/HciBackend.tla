----------------------------- MODULE HciBackend -----------------------------
(***************************************************************************)
(* The raw HCI backend as a whole: its devices' links and its scan. The    *)
(* two share a controller and no state, so a behaviour exercises one half  *)
(* of the backend and leaves the other at rest.                            *)
(***************************************************************************)
EXTENDS HciLinks, HciScan

VARIABLE half

vars == <<linkVars, scanVars, half>>

Init ==
    /\ LinksInit /\ ScanInit
    /\ \/ half = "links" /\ alone
       \/ half = "scan" /\ prompt /\ oneThread

LinksStep == half = "links" /\ LinksNext /\ UNCHANGED <<scanVars, half>>

ScanStep == half = "scan" /\ ScanNext /\ UNCHANGED <<linkVars, half>>

Spec == Init /\ [][LinksStep \/ ScanStep]_vars

FairSpec == Spec /\ LinksFairness /\ ScanFairness
=============================================================================
