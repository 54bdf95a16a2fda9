CONSTANTS
    Cmd = {"sensor", "selection", "kill"}
    Kept = {"selection"}
    Kill = "kill"
    Calls <- LivenessCalls
    MaxMessageID = 2
SPECIFICATION FairSpec
PROPERTIES
    CallReturns
    FinishReturns
    QueuedCommandLeaves
\* simxFinish called while the communication is paused never returns
CHECK_DEADLOCK FALSE
