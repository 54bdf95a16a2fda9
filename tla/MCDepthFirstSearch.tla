------------------------- MODULE MCDepthFirstSearch -------------------------
(***************************************************************************)
(* DepthFirstSearch on the map of Map.cpp.                                 *)
(***************************************************************************)
EXTENDS DepthFirstSearch

\* The row of Xs.
MapWall == {5} \X (4 .. 9)

At(x, y) == {[x |-> x, y |-> y, theta |-> theta] : theta \in Theta}

START_STATE == [x |-> 9, y |-> 9, theta |-> 0]
END_STATES == At(0, 9)

\* The search of the program and the same from every other state of the map; from the
\* start, one to each cell in one heading, and one to a place in the wall.
MapProblems ==
    [start : FreeState, ends : {END_STATES}]
      \cup [start : {START_STATE}, ends : {{s} : s \in {t \in FreeState : t.theta = 0}}]
      \cup [start : {START_STATE}, ends : {At(5, 9)}]

Moves(s) == FreeState \cap {Expand(s)[i] : i \in DOMAIN Expand(s)}

\* Every state is reached from those of S, and every state reaches one of S.
RECURSIVE ReachAll(_), AllReach(_)
ReachAll(S) ==
    \E R \in {UNION {{s} \cup Moves(s) : s \in S}} :
        R = FreeState \/ (R # S /\ ReachAll(R))
AllReach(S) ==
    \E R \in {UNION {{s} : s \in {t \in FreeState : ({t} \cup Moves(t)) \cap S # {}}}} :
        R = FreeState \/ (R # S /\ AllReach(R))

\* The map is Connected, as the theorem FreeEndFound wants it: what is closed under moves
\* and not empty has the start state, and with it every state.
ASSUME MapIsConnected == ReachAll({START_STATE}) /\ AllReach({START_STATE})
=============================================================================
