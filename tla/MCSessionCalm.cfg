SPECIFICATION CalmSpec
CONSTANTS
    near = near
    far = far
    Peers = {near, far}
    NumberOfPieces = 2
    NumberOfSlices = 2
    Near <- MCNear
    Owns <- MCOwns
    MaxBad = 1
    MaxCopies = 0
INVARIANT NeverStalls
PROPERTIES Downloaded VerifiedNeverRewritten FirstCopyWins
