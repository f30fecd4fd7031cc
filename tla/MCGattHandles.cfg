SPECIFICATION SpecG
CONSTANTS
    Devices = {d1}
    Services = {s1, s2}
    Watchers = {}
    NoDevice = NoDevice
    MaxEpoch = 2
    MaxForgets = 1
    Clients = {c1, c2}
    Blocked = {s2}
SYMMETRY Symmetry
INVARIANTS HandleNotRevived HandleWithinGrant CalledOnCurrent OneOperation
CHECK_DEADLOCK FALSE
