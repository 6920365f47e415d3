SPECIFICATION TextOrString
CONSTANTS
    MaxTokens = 9
    Prebuffer = {1, 8, 256}
    ValueLen = 4
    ValueRoom = 21
    StringLen = 3
    Plain <- SomeBytes
    Units <- SomeUnits
    MaxPieces = 3
    MaxChunks = 5
INVARIANTS
    AcceptsGrammar
    CutOffRefused
    NothingLostParsing
    ErrorPointer
    PrintFits
    BufferedFits
    PrintParses
    StringsSurvive
    RoomSuffices
    UnitsDecoded
    PassesAgree
CHECK_DEADLOCK FALSE
