SPECIFICATION FairSpec
CONSTANTS
    Callers = {"main"}
    MaxRequests <- OneRequest
    MaxResults = 1
    ServerMayDie = FALSE
CHECK_DEADLOCK FALSE
PROPERTIES SessionEnds
