SPECIFICATION FairSpec
CONSTANTS
    a = a
    b = b
    p1 = p1
    p2 = p2
    Torrents = {a, b}
    Loads = 2
    Peers = {}
    Sockets = {}
    MinPeers = 1
    MaxWaiting = 1
    Late = FALSE
    NoTorrent = NoTorrent
    NoSession = NoSession
    NoPeer = NoPeer
INVARIANTS TypeOK Kept OneSession Resumable
PROPERTY Cleaned
