CONSTANTS
    Cmd = {"sensor", "selection", "kill"}
    Kept = {"selection"}
    Kill = "kill"
    Calls <- SelectionCalls
    MaxMessageID = 3
SPECIFICATION Spec
INVARIANT NoBlockingReplyLeft
CHECK_DEADLOCK FALSE
