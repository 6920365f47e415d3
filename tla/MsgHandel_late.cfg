SPECIFICATION Spec
CONSTANTS
    Macs = {m1}
    MaxMsgs = 2
    AckConvention = "position"
    Inputs <- MotorInputs
    Residue = {"null"}
    Timely = FALSE
INVARIANTS
    MotorAsReported
