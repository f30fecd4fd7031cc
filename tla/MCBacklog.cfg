SPECIFICATION FairSpec
CONSTANTS
    Handles = {h1, h2, h3}
    Capacity = 2
    MaxValues = 5
INVARIANTS NoLostWakeup Accounted
PROPERTIES GapIsLost QueuedSurvives EndReached ImplementsStream
CHECK_DEADLOCK FALSE
