SPECIFICATION Spec
CONSTANTS
    Macs = {m1, m2}
    MaxMsgs = 2
    AckConvention = "outcome"
    Inputs <- EveryInput
    Residue = {"null", "stale", "wild"}
    Timely = FALSE
INVARIANTS
    TypeOK
    NeverLockedOut
    ParamsNotDangling
    CallbackTreeFreed
    StatusIsFresh
    ListIsFresh
CHECK_DEADLOCK FALSE
