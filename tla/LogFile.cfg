SPECIFICATION Spec
CONSTANTS
    DefaultLimit = 10
    Megabyte = 11
    Configured = {0, 1}
    Records <- SmallRecords
    Leftover <- SmallLeftover
    MaxPiece = 2
    MaxPieces = 14
INVARIANTS
    FileBounded
    KeptFits
    NewestKept
CHECK_DEADLOCK FALSE
