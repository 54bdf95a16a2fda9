CONSTANTS
    MapSize = 3
    Wall <- SmallWall
    Problems <- NextCellProblem
    MaxNodes = 14
SPECIFICATION Spec
INVARIANT ShortestRoute
CHECK_DEADLOCK FALSE
