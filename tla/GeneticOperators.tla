-------------------------- MODULE GeneticOperators --------------------------
(***************************************************************************)
(* What GeneticAlgorithm.cpp computes: the fitness of a point, the         *)
(* generations that can follow another one, and the routes that the two    *)
(* searches may return.                                                    *)
(*                                                                         *)
(* A generation is the set of its points: how often and where a point      *)
(* stands in the vector changes neither what select may return, which is   *)
(* any element of the sorted candidates, nor whether the sum of the        *)
(* fitness reaches INF.  The paths of the searches are those that          *)
(* AStarSearch is shown to return (WalkIsRoute): routes of at least one    *)
(* move, for the start state is not compared with the goal.                *)
(***************************************************************************)
EXTENDS GridWorld, FiniteSets, SequencesExt

CONSTANTS
    Start,           \* START_STATE
    Ends,            \* END_STATES
    InitialRange,    \* the coordinates of the first points are below this (10)
    PopulationSize,  \* POPULATION_SIZE
    MaxMoves         \* bound: the moves of a path that a search finds

INF == 10000

ASSUME GeneticAssumption ==
    /\ Start \in FreeState
    /\ Ends \subseteq State /\ Ends # {}
    /\ InitialRange \in 1 .. MapSize
    /\ PopulationSize \in Nat \ {0}
    /\ PopulationSize % 2 = 0
    /\ PopulationSize * 2 * MapSize < INF
    /\ MaxMoves \in Nat

-----------------------------------------------------------------------------
(* The fitness of a point *)

Point == Coordinate \X Coordinate

Abs(n) == IF n < 0 THEN -n ELSE n
Sign(n) == IF n < 0 THEN -1 ELSE IF n > 0 THEN 1 ELSE 0

\* The cells of a line from the point to the state, both included.
Line(p, s) ==
    LET w == s.x - p[1]
        h == s.y - p[2]
        longest == Max({Abs(w), Abs(h)})
        shortest == Min({Abs(w), Abs(h)})
        aside == IF Abs(w) <= Abs(h) THEN <<0, Sign(h)>> ELSE <<Sign(w), 0>>
        cell[i \in 0 .. longest] ==
            IF i = 0 THEN [x |-> p[1], y |-> p[2], numerator |-> longest \div 2]
            ELSE LET c == cell[i - 1]
                     n == c.numerator + shortest
                 IN IF n >= longest
                    THEN [x |-> c.x + Sign(w), y |-> c.y + Sign(h), numerator |-> n - longest]
                    ELSE [x |-> c.x + aside[1], y |-> c.y + aside[2], numerator |-> n]
    IN [i \in 0 .. longest |-> <<cell[i].x, cell[i].y>>]

AreThereWallsInPath(p, s) == Range(Line(p, s)) \cap Wall # {}

\* The integer part of the distance.
Distance(s, p) ==
    LET square == (p[1] - s.x) * (p[1] - s.x) + (p[2] - s.y) * (p[2] - s.y)
    IN CHOOSE d \in 0 .. 2 * MapSize : d * d <= square /\ square < (d + 1) * (d + 1)

Fitness(p) ==
    IF \E e \in Ends : AreThereWallsInPath(p, e) THEN INF
    ELSE Abs(Distance(Start, p) - Min({INF} \cup {Distance(e, p) : e \in Ends}))

\* The sum over the different points: it is below INF if and only if the sum over all is.
EvaluatePopulation(points) == MapThenSumSet(Fitness, points)

-----------------------------------------------------------------------------
(* The generations *)

Clamped(n) == Max({0, Min({n, MapSize - 1})})

\* Bug: no offspring is changed.
Mutations_None(p) == {p}

\* Bug: what leaves the map is not brought back.
Mutations_Unclamped(p) == {<<p[1] + dx, p[2] + dy>> : dx, dy \in -1 .. 1}

Mutations(p) == {<<Clamped(p[1] + dx), Clamped(p[2] + dy)>> : dx, dy \in -1 .. 1}

Crossover(p, q) == <<<<q[1], p[2]>>, <<p[1], q[2]>>>>

\* What becomes of two parents selected from a population.
Pairs(points) ==
    UNION {LET children == Crossover(parents[1], parents[2])
           IN {{a, b} : a \in Mutations(children[1]), b \in Mutations(children[2])} :
           parents \in points \X points}

\* The generations of points out of a set.
Generations(points) == {Range(vector) : vector \in [1 .. PopulationSize -> points]}

\* All the generations that can follow a population.
NewGenerations(points) ==
    {UNION {pairs[i] : i \in DOMAIN pairs} :
        pairs \in [1 .. PopulationSize \div 2 -> Pairs(points)]}

InitializePopulation == Generations((0 .. InitialRange - 1) \X (0 .. InitialRange - 1))

\* Bug: one point that sees the goal is enough.
IsFit_One(points) == \E p \in points : Fitness(p) < INF

IsFit(points) == EvaluatePopulation(points) < INF

\* A generation and one that can follow it.
Bred == UNION {{<<points, next>> : next \in NewGenerations(points)} : points \in Generations(Point)}

FitGenerations == {points \in Generations(Point) : IsFit(points)}

\* The fit generations, then with them those of which a fit one can be bred, then those of
\* which one of these can be bred, and so on, as often as a point needs to cross the map: by
\* then a fit one can be bred, if there is a point that sees the goal (FitIsBred).
FitWithin ==
    LET Further(levels, k) ==
            Append(levels, Last(levels) \cup {b[1] : b \in {c \in Bred : c[2] \in Last(levels)}})
    IN FoldLeft(Further, <<FitGenerations>>, [k \in 1 .. MapSize - 1 |-> k])

-----------------------------------------------------------------------------
(* The paths *)

\* The walks of k moves that do not come to a goal before their end.
Walks(from, ends) ==
    LET walks[k \in 0 .. MaxMoves] ==
            IF k = 0 THEN {<<from>>}
            ELSE UNION {{Append(w, Expand(Last(w))[i]) : i \in DOMAIN Expand(Last(w))} :
                        w \in {v \in walks[k - 1] : k = 1 \/ Last(v) \notin ends}}
    IN walks

\* What a search may return.
Routes(from, ends) ==
    LET walks == Walks(from, ends)
    IN UNION {{w \in walks[k] : Last(w) \in ends} : k \in 1 .. MaxMoves}
=============================================================================
