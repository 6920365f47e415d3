SPECIFICATION FairSpec
CONSTANTS
    Macs = {m1}
    MaxMsgs = 3
    AckConvention = "position"
    Inputs <- FewInputs
    Residue = {"null", "wild"}
    Timely = TRUE
INVARIANTS
    RepliesInOrderOnce
PROPERTIES
    RefinesRequestReply
    WritesOnlyAsked
    MessagesSettle
    RequestsAnswered
CHECK_DEADLOCK FALSE
