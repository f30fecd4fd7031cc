------------------------------ MODULE MCScanHub ------------------------------
EXTENDS ScanHub, TLC

CONSTANTS d1, d2, s1, s2

MCAdvertised == (d1 :> {s1}) @@ (d2 :> {s2})

\* A chooser for one service, a scan for another, and one of everything.
MCWants ==
    {[kind |-> "request", services |-> {s1}, repeats |-> TRUE,  device |-> d1],
     [kind |-> "scan",    services |-> {s2}, repeats |-> TRUE,  device |-> d1],
     [kind |-> "device",  services |-> {},   repeats |-> TRUE,  device |-> d2]}

\* The same, and a scan that wants each device once.
MCWantsOnce == MCWants \cup
    {[kind |-> "scan", services |-> {s1}, repeats |-> FALSE, device |-> d1]}

Symmetry == Permutations(Watchers)
=============================================================================
