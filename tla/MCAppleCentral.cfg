SPECIFICATION FairSpec
CONSTANTS
    Callers = {c1, c2}
    NoOne = NoOne
    MaxRequests = 3
    Room = 1
INVARIANTS AnswerIsMine NoneDiscarded
PROPERTIES EndsWithLink WriterResumes
CHECK_DEADLOCK FALSE
