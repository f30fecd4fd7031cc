---------------------------- MODULE BluezBackend ----------------------------
(***************************************************************************)
(* The BlueZ backend as a whole: the calls over its bus connection, and a  *)
(* device. A device's calls are calls on that connection, and share nothing*)
(* with it but the reader and the order of what it reads, which            *)
(* BluezDevice has: a behaviour exercises one half, the other is at rest.  *)
(***************************************************************************)
EXTENDS DBusCalls, BluezDevice

VARIABLE half

vars == <<callVars, deviceVars, half>>

Init ==
    /\ CallsInit /\ DeviceInit
    /\ \/ half = "calls" /\ ~refuses /\ job = CHOOSE j \in Jobs : TRUE
       \/ half = "device"

CallsPart == half = "calls" /\ CallsNext /\ UNCHANGED <<deviceVars, half>>

DevicePart == half = "device" /\ DeviceNext /\ UNCHANGED <<callVars, half>>

Spec == Init /\ [][CallsPart \/ DevicePart]_vars

FairSpec == Spec /\ CallsFairness /\ DeviceFairness
=============================================================================
