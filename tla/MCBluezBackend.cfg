SPECIFICATION FairSpec
CONSTANTS
    MaxCalls = 2
    t1 = t1
    t2 = t2
    Jobs <- MCJobs
    Tasks = {t1, t2}
    NoTask = NoTask
    MaxUps = 2
    MaxChanges = 2
    MaxSights = 1
    MaxUnread = 3
INVARIANTS ChangesCounted RecordSettles
PROPERTIES CallEnds ConnectEnds
CHECK_DEADLOCK FALSE
