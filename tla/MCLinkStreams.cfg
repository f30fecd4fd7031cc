SPECIFICATION FairSpecL
CONSTANTS
    Devices = {d1}
    Services = {s1}
    Watchers = {w1}
    NoDevice = NoDevice
    MaxEpoch = 2
    MaxForgets = 1
    MaxValues = 2
    MaxLinks = 3
INVARIANTS NoDisconnectMissed EndsForAReason
PROPERTIES DeliveredOnOneThread GenerationCounts StreamEnds WaitReturns
CHECK_DEADLOCK FALSE
