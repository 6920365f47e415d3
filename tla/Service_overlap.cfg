SPECIFICATION Spec
CONSTANTS
    Pids = {p1, p2, p3}
    MaxCalls = 3
    Disciplined = TRUE
INVARIANTS
    OneCommand
CHECK_DEADLOCK FALSE
