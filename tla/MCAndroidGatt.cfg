SPECIFICATION FairSpec
CONSTANTS
    Callers = {c1, c2}
    NoOne = NoOne
    MaxClients = 2
    MaxRequests = 2
CONSTRAINT Telling
INVARIANTS AnswerIsMine NoneRefused
PROPERTIES RequestEnds
CHECK_DEADLOCK FALSE
