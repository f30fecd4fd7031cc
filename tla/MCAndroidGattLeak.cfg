SPECIFICATION Spec
CONSTANTS
    Callers = {c1}
    NoOne = NoOne
    MaxClients = 1
    MaxRequests = 2
INVARIANTS ClosedWithLink
CHECK_DEADLOCK FALSE
