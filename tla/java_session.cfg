SPECIFICATION FairSpec
CONSTANTS
    Callers = {"c1", "c2"}
    MaxRequests <- MCRequests
    MaxResults = 1
    ServerMayDie = TRUE
CHECK_DEADLOCK FALSE
INVARIANTS TypeOK WaitersHaveAReason
PROPERTIES ServedInOrder QueueDrains StopEndsThread
