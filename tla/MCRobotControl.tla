--------------------------- MODULE MCRobotControl ---------------------------
(***************************************************************************)
(* A small instance of RobotControl.                                       *)
(***************************************************************************)
EXTENDS RobotControl

\* A map of 5 x 5 cells with a wall that parts its upper side: from what lies on the far
\* side of it up to three generations are needed to see the goal.
SmallWall == {<<2, 0>>, <<2, 1>>, <<2, 2>>}

SmallStart == [x |-> 0, y |-> 1, theta |-> 90]
SmallEnds == {[x |-> 1, y |-> 0, theta |-> theta] : theta \in Theta}
=============================================================================
