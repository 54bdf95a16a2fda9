-------------------------- MODULE GeneticAlgorithm --------------------------
(***************************************************************************)
(* GeneticAlgorithm.cpp: a point is bred from which the goal can be seen,  *)
(* and the path leads through it: an A* search to the point, and another   *)
(* one from there to the goal.                                             *)
(***************************************************************************)
EXTENDS GeneticOperators

VARIABLES
    population,  \* the points of the current generation
    path,        \* the path found; then what is left of it (RobotControl)
    pc

-----------------------------------------------------------------------------
CreateNewGeneration ==
    /\ pc = "evolving"
    /\ ~IsFit(population)
    /\ population' \in NewGenerations(population)
    /\ UNCHANGED <<path, pc>>

\* select: any point of the last generation
Select ==
    /\ pc = "evolving" /\ pc' = "best"
    /\ \E best \in population : population' = {best}
    /\ UNCHANGED path

SelectBest == IsFit(population) /\ Select

\* The state in which the halves meet is in both.
FindPathGoingThrough ==
    /\ pc = "best"
    /\ \E best \in population :
          LET bestState == [x |-> best[1], y |-> best[2], theta |-> 0]
          IN \E firstHalf \in Routes(Start, {bestState}), secondHalf \in Routes(bestState, Ends) :
                path' = firstHalf \o secondHalf
    /\ population' = {}
    /\ pc' = "found"

\* SelectBest, with the fit generations that have been computed once.
SelectFit == population \in FitGenerations /\ Select

\* std::random_device draws every number again and again: what can be bred infinitely often
\* is bred, and so is a generation that is closer to a fit one and not yet fit itself.
BreedCloser(k) ==
    /\ pc = "evolving"
    /\ population \in FitWithin[k + 1] \ FitWithin[k]
    /\ population' \in FitWithin[k]
    /\ <<population, population'>> \in Bred
    /\ UNCHANGED <<path, pc>>

-----------------------------------------------------------------------------
(* Properties *)

\* An end state is in sight of a point that stands in its row, in its column or on its
\* diagonal, and all the cells between them are free.
Aligned(p, s) == p[1] = s.x \/ p[2] = s.y \/ Abs(p[1] - s.x) = Abs(p[2] - s.y)
Between(p, s) ==
    LET steps == Max({Abs(s.x - p[1]), Abs(s.y - p[2])})
    IN {<<p[1] + i * Sign(s.x - p[1]), p[2] + i * Sign(s.y - p[2])>> : i \in 0 .. steps}

\* The point the path is led through is on the map and free, and where it is aligned with
\* an end state there is no wall between them: a generation is good enough only when every
\* point of it is, for select may return any.
BestIsInSight ==
    pc = "best" =>
        /\ Cardinality(population) = 1
        /\ \A p \in population :
              /\ ~IsObstacle(p[1], p[2])
              /\ \A e \in Ends : Aligned(p, e) => Between(p, e) \cap Wall = {}

\* The breeding comes to an end, from a generation behind the wall too, of which no
\* offspring sees the goal: the offspring of its offspring come round the wall.
GenerationsEnd == (pc = "evolving") ~> (pc = "best")
=============================================================================
