CONSTANTS
    Thread = {api, comm, other}
    NoThread = none
    MaxDepth = 3
SPECIFICATION FairLockSpec
INVARIANTS
    LockTypeOK
    LevelIsDepth
PROPERTIES
    RefinesRecursiveLock
    LockIsTaken
