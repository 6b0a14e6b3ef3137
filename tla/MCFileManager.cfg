SPECIFICATION Spec
CONSTANTS
    Layouts <- MCLayouts
    PieceLength = 4
    SliceSize = 2
    ReadStride = 1
INVARIANTS InPlace ReadsBack
