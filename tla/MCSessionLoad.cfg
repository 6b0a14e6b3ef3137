SPECIFICATION Spec
CONSTANTS
    near = near
    far = far
    Peers = {near}
    NumberOfPieces = 1
    NumberOfSlices = 2
    Near <- MCNear
    Owns <- MCOwns
    MaxBad = 1
    MaxCopies = 0
INVARIANT Intact
