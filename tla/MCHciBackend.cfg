SPECIFICATION FairSpec
CONSTANTS
    Callers = {c1, c2}
    MaxLinks = 2
    MaxTables = 1
    Watchers = {w1, w2}
    MaxThreads = 3
INVARIANTS RecordAgrees CacheOfThisLink QuietAfterStop NobodyStopsMyScan
PROPERTIES LossNoticed
CHECK_DEADLOCK FALSE
