SPECIFICATION FairSpec
CONSTANTS
    a = a
    b = b
    p1 = p1
    p2 = p2
    Torrents = {a}
    Loads = 1
    Peers = {p1, p2}
    Sockets = {1, 2}
    MinPeers = 1
    MaxWaiting = 1
    Late = FALSE
    NoTorrent = NoTorrent
    NoSession = NoSession
    NoPeer = NoPeer
PROPERTY Called
