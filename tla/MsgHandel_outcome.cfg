SPECIFICATION Spec
CONSTANTS
    Macs = {m1}
    MaxMsgs = 1
    AckConvention = "outcome"
    Inputs <- MotorInputs
    Residue = {"null"}
    Timely = TRUE
INVARIANTS
    MotorAsReported
