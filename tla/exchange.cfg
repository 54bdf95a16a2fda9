CONSTANTS
    Cmd = {"sensor", "selection", "kill"}
    Kept = {"selection"}
    Kill = "kill"
    Calls <- SafetyCalls
    MaxMessageID = 3
SPECIFICATION Spec
INVARIANTS
    TypeOK
    BlockingReplyIsOwn
    FreedAfterThreadLeft
    InboxIsOfThisConnection
PROPERTY
    PausedBatchLeavesTogether
\* simxFinish called while the communication is paused never returns
CHECK_DEADLOCK FALSE
