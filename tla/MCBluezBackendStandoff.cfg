SPECIFICATION Spec
CONSTANTS
    MaxCalls = 2
    t1 = t1
    t2 = t2
    Jobs <- MCJobs
    Tasks = {t1, t2}
    NoTask = NoTask
    MaxUps = 2
    MaxChanges = 1
    MaxSights = 1
    MaxUnread = 3
INVARIANT NoStandoff
CHECK_DEADLOCK FALSE
