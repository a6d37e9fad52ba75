CONSTANTS
    PieceSize = 2
    IntMax = 4
    TrueSize = 3
    HintSizes <- MCHintSizes
    MinRepeat = 3
    StartTime = 4
    MaxTime = 10
    NoMeta = NoMeta
    NoPiece = NoPiece
    NoCall = NoCall
    SizeT = 16

SPECIFICATION Spec
INVARIANT TorrentFileKept
