---------------------------- MODULE MCAStarSearch ----------------------------
(***************************************************************************)
(* Small instances of AStarSearch.                                         *)
(***************************************************************************)
EXTENDS AStarSearch

\* A map of 3 x 3 cells with a wall next to a corner, where the robot may be stuck.
SmallWall == {<<0, 1>>}

At(x, y) == {[x |-> x, y |-> y, theta |-> theta] : theta \in Theta}
From(x, y, theta) == [x |-> x, y |-> y, theta |-> theta]

\* Into a corner, to where the search begins, and out of the dead end.
SmallProblems ==
    { [start |-> From(1, 1, 90), ends |-> At(0, 0)],
      [start |-> From(2, 2, 0), ends |-> At(2, 2)],
      [start |-> From(0, 0, 0), ends |-> At(2, 2)] }

\* To the cell on the left of the robot: a turn and a step.
NextCellProblem == {[start |-> From(2, 2, 0), ends |-> At(2, 1)]}
=============================================================================
