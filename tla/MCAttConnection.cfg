SPECIFICATION FairSpec
CONSTANTS
    Requesters = {r1, r2}
    NoOne = NoOne
    MaxRequests = 2
    MaxValues = 1
INVARIANTS AnswerIsMine OneOutstanding ToldInOrder
PROPERTIES RequestEnds DownReported
CHECK_DEADLOCK FALSE
