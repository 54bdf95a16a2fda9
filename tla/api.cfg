\* Every API function, two of some: three exchanges of messages.
SPECIFICATION Spec
CONSTANTS
    Programs <- MCPrograms
    TmpFiles <- MCTmpFiles
    MaxExchanges = 3
    MaxQueued = 2
INVARIANTS
    TypeOK
    HeldIsLatest
    AnswerIsFound
    StreamIsWhole
    LoadsWhatWasSent
