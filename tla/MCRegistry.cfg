SPECIFICATION FairSpec
CONSTANTS
    a = a
    b = b
    a1 = a1
    a2 = a2
    t1 = t1
    r1 = r1
    r2 = r2
    NoId = NoId
    Freed = Freed
    Nodes = {a, b}
    Torrents = {t1}
    Ids = {a1, a2}
    Home <- MCHome
    Threads = {r1, r2}
    PeerKnown = {FALSE}
INVARIANTS TypeOK OwnClientKnown PointerValid NotForgotten
PROPERTIES Served
CHECK_DEADLOCK FALSE
