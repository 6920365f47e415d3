SPECIFICATION Spec
CONSTANTS
    Macs <- SmallMacs
    Vendor <- VendorOfTwo
    Names <- ShortAndLongNames
    Serials <- SomeSerials
    DefaultName <- eGeeTouch
    Unknow <- unknow
    Cap = 32
    Residue <- TornNames
    MaxLines = 3
INVARIANTS
    ScanListsFound
    ScanNamesOwn
    ConnectedNamesBegin
    NumbersTrueOrUnknown
