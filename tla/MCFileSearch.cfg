SPECIFICATION FairSpec
CONSTANTS
    a = a
    b = b
    s1 = s1
    f1 = f1
    Self = Self
    Trackers = {a, b}
    Searches = {s1}
    Files = {f1}
    FileOf <- MCSameFile
    Lists <- MCOneList
    Answers <- PeersAndOwner
    PeerKnown = {FALSE, TRUE}
INVARIANTS TypeOK NumberExact NoLostWakeUp NamesAll
PROPERTY Answered
CHECK_DEADLOCK FALSE
