SPECIFICATION Spec
CONSTANTS
    NumberOfPieces = 2
    PieceLength = 4
    SliceSize = 2
    BitmapSize = 1
    Messages <- WholeSlices
    MaxMessages = 3
INVARIANTS TypeOK InOrder
PROPERTY AllArrive
CHECK_DEADLOCK FALSE
