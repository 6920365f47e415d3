SPECIFICATION FairSpec
CONSTANTS
    Pids = {p1, p2, p3}
    MaxCalls = 4
    Disciplined = TRUE
INVARIANTS
    OneDaemon
    DaemonIsStoppable
PROPERTIES
    EventuallyOneCommand
CHECK_DEADLOCK FALSE
