SPECIFICATION Spec
CONSTANTS
    Macs = {m1}
    MaxMsgs = 2
    AckConvention = "position"
    Inputs <- AllFormInputs
    Residue = {"null", "stale"}
    Timely = TRUE
PROPERTIES
    WritesOnlyAsked
CHECK_DEADLOCK FALSE
