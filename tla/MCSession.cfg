SPECIFICATION Spec
CONSTANTS
    near = near
    far = far
    Peers = {near}
    NumberOfPieces = 1
    NumberOfSlices = 2
    Near <- MCNear
    Owns <- MCOwnsNothing
    MaxBad = 1
    MaxCopies = 1
INVARIANTS TypeOK WrittenBeforeCounted SeedsWholeFile
PROPERTIES Integrity NeverForgotten Stores FirstCopyWins
