SPECIFICATION FairSpec
CONSTANTS
    c1 = c1
    c2 = c2
    c3 = c3
    p1 = p1
    p2 = p2
    p3 = p3
    spooler = spooler
    Clients = {c1, c2}
    Pids = {p1, p2, spooler}
    OtherKids = {spooler}
    Denied = {}
    Passwd = TRUE
    Lval <- NoLval
    Backlog = 2
    DEFAULT_MAX_CLIENTS = 1
INVARIANTS TypeOK CounterSound LimitRespected OnePlaceEach
PROPERTIES EveryClientAnswered FullServerRecovers
CHECK_DEADLOCK FALSE
