SPECIFICATION FairSpec
CONSTANTS
    a = a  p1 = p1  p2 = p2  p3 = p3
    Sessions = {a}
    Peers = {p1, p2, p3}
    SessionOf <- OneSession
    Place <- ThreePlaces
    NoPeer = NoPeer
    Limit = 2
    Few = 2
    FirstQ = 1
    MaxQ = 1
    MaxChokes = 3
    MaxHops = 1
    MaxConfigs = 1
INVARIANTS TypeOK GrantsWithinLimit
PROPERTY Unchoked
