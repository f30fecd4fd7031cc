SPECIFICATION FairSpec
CONSTANTS
    d1 = d1
    d2 = d2
    s1 = s1
    s2 = s2
    Devices = {d1, d2}
    Services = {s1, s2}
    Watchers = {w1, w2}
    Advertised <- MCAdvertised
    Wants <- MCWants
    OneThread = TRUE
INVARIANTS RadioCovers 
PROPERTIES Reported
CHECK_DEADLOCK FALSE
