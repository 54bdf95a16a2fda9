CONSTANTS
    MapSize = 5
    Wall <- SmallWall
    Start <- SmallStart
    Ends <- SmallEnds
    InitialRange = 5
    PopulationSize = 2
    MaxMoves = 4
SPECIFICATION Spec
INVARIANTS
    TypeOK
    BestIsInSight
    FollowsPlan
    ReturnsOnlyUnset
PROPERTIES
    GenerationsEnd
    PlanIsUsedUp
\* the program ends, or comes to the bound
CHECK_DEADLOCK FALSE
