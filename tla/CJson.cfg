SPECIFICATION Spec
CONSTANTS
    Node = {n1, n2, n3, n4}
    NULL = NULL
    Keys = {k1}
    Literal = Literal
    Kinds = {"container", "string"}
    MaxCount = 2
    MaxFlags = 1
SYMMETRY Addresses
INVARIANTS
    TypeOK
    WellLinked
    NoDangling
    WalksEnd
    NoneLost
    NamesOwned
PROPERTIES
    LiteralsKept
    RefinesForest
CHECK_DEADLOCK FALSE
