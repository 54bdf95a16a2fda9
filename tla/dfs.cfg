CONSTANTS
    MapSize = 10
    Wall <- MapWall
    Problems <- MapProblems
SPECIFICATION FairSpec
INVARIANTS
    TypeOK
    PathIsRoute
    FailureIsExhaustive
    FreeEndIsFound
    CommandsFollowPath
PROPERTY
    Terminates
\* the search ends
CHECK_DEADLOCK FALSE
