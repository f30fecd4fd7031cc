SPECIFICATION FairSpec
CONSTANTS
    Callers = {c1}
    NoOne = NoOne
    MaxRequests = 2
    Room = 1
PROPERTY IncludedEndsWithLink
CHECK_DEADLOCK FALSE
