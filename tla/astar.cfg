CONSTANTS
    MapSize = 3
    Wall <- SmallWall
    Problems <- SmallProblems
    MaxNodes = 14
SPECIFICATION Spec
INVARIANTS
    TypeOK
    NoStateIsOpenTwice
    CostIsLengthOfWay
    WalkIsRoute
    EmptiedInDeadEnd
\* the search ends, or comes to the bound
CHECK_DEADLOCK FALSE
