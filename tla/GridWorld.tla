----------------------------- MODULE GridWorld -----------------------------
(***************************************************************************)
(* The states of the robot on the map and the moves between them (Map.cpp, *)
(* State.cpp), and the commands a path is turned into (Path.cpp).  A state *)
(* is a cell and a heading; its cost belongs to the search that needs it.  *)
(***************************************************************************)
EXTENDS Integers, Sequences

CONSTANTS
    MapSize,  \* MAP_SIZE
    Wall      \* the cells <<x, y>> of map_representation that hold an X

Theta == {0, 90, 180, 270}
Coordinate == 0 .. MapSize - 1

ASSUME GridAssumption ==
    /\ MapSize \in Nat
    /\ Wall \subseteq Coordinate \X Coordinate

State == [x : Coordinate, y : Coordinate, theta : Theta]

IsObstacle(x, y) == x \notin Coordinate \/ y \notin Coordinate \/ <<x, y>> \in Wall

FreeState == {s \in State : ~IsObstacle(s.x, s.y)}

Right(theta) == (theta + 270) % 360
Left(theta) == (theta + 90) % 360

\* The state one cell further in the direction theta.
Ahead(s, theta) ==
    [x |-> IF theta = 0 THEN s.x - 1 ELSE IF theta = 180 THEN s.x + 1 ELSE s.x,
     y |-> IF theta = 90 THEN s.y - 1 ELSE IF theta = 270 THEN s.y + 1 ELSE s.y,
     theta |-> s.theta]

Blocked(s, theta) == IsObstacle(Ahead(s, theta).x, Ahead(s, theta).y)

IsRightObstacle(s) == Blocked(s, Right(s.theta))
IsLeftObstacle(s) == Blocked(s, Left(s.theta))

Walk(s) == Ahead(s, s.theta)
TurnRight(s) == [s EXCEPT !.theta = Right(s.theta)]
TurnLeft(s) == [s EXCEPT !.theta = Left(s.theta)]

\* Bug: the robot walks on whatever is ahead.
Expand_WalksAnywhere(s) ==
    <<Walk(s)>>
      \o (IF IsRightObstacle(s) THEN <<>> ELSE <<TurnRight(s)>>)
      \o (IF IsLeftObstacle(s) THEN <<>> ELSE <<TurnLeft(s)>>)

\* Bug: the robot turns whatever is at its sides.
Expand_TurnsAnywhere(s) ==
    (IF Blocked(s, s.theta) THEN <<>> ELSE <<Walk(s)>>) \o <<TurnRight(s), TurnLeft(s)>>

\* The moves from a state, in the order the code tries them.  A turn wants the cell the
\* robot will then face to be free, too.
Expand(s) ==
    (IF Blocked(s, s.theta) THEN <<>> ELSE <<Walk(s)>>)
      \o (IF IsRightObstacle(s) THEN <<>> ELSE <<TurnRight(s)>>)
      \o (IF IsLeftObstacle(s) THEN <<>> ELSE <<TurnLeft(s)>>)

IsMove(s, t) == \E i \in DOMAIN Expand(s) : Expand(s)[i] = t

-----------------------------------------------------------------------------
(* Path.cpp *)

WALK == 8
RIGHT == 6
LEFT == 4

\* Bug: left and right are those of a map with y growing upwards.
ToCommand_Mirrored(a, b) ==
    IF a.x # b.x \/ a.y # b.y THEN WALK
    ELSE IF b.theta = Right(a.theta) THEN LEFT
    ELSE IF b.theta = Left(a.theta) THEN RIGHT
    ELSE 0

\* The command between two states of a path; 0 when there is no move between them.
ToCommand(a, b) ==
    IF a.x # b.x \/ a.y # b.y THEN WALK
    ELSE IF b.theta = Left(a.theta) THEN LEFT
    ELSE IF b.theta = Right(a.theta) THEN RIGHT
    ELSE 0

\* getPath: nothing is commanded for the first state.
ToCommands(path) == [i \in 1 .. Len(path) - 1 |-> ToCommand(path[i], path[i + 1])]

\* What the robot does for a command when it is where the plan takes it to be.
Execute(s, command) ==
    IF command = WALK THEN Walk(s)
    ELSE IF command = RIGHT THEN TurnRight(s)
    ELSE IF command = LEFT THEN TurnLeft(s)
    ELSE s

\* The states the robot is in after each of the commands.
Replay(s, commands) ==
    LET reached[i \in 0 .. Len(commands)] ==
            IF i = 0 THEN s ELSE Execute(reached[i - 1], commands[i])
    IN  reached
=============================================================================
