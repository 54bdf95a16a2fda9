------------------------- MODULE RobotControlProofs -------------------------
(***************************************************************************)
(* When the program ends, and where the robot goes, on every map, with      *)
(* every finder and whatever the sensors read: first the command variable, *)
(* then the path the searches leave, the loops that drive along it, the    *)
(* types, and at last the points the genetic algorithm counts.             *)
(***************************************************************************)
EXTENDS RobotControl, GridWorldProofs

\* The command variable is unassigned until the first pass, cleared by the end of each, and
\* looked at between two of them only.
CommandInv ==
    /\ pc \in {"select", "evolving", "best", "found", "handles", "returned"} => comando = Unset
    /\ pc = "top" => comando \in {Unset, 0}

LEMMA CommandInit == Init => CommandInv
BY DEF Init, CommandInv

\* The loops of a pass do not touch the command and come to no other place than a loop or
\* the end of the pass.
LEMMA CommandDrive ==
    ASSUME CommandInv, NEW r, Drive(r)
    PROVE  CommandInv'
<1>1. CASE BeginPass(r)
  <2>1. pc' \in {"leave", "turnAway", "endPass"}
    BY <1>1 DEF BeginPass
  <2> QED
    BY <2>1 DEF CommandInv
<1>2. CASE LeaveJunction(r)
  BY <1>2 DEF LeaveJunction, Body, Exit, CommandInv
<1>3. CASE FollowLine(r)
  BY <1>3 DEF FollowLine, Body, Exit, CommandInv
<1>4. CASE ReachLine(r)
  BY <1>4 DEF ReachLine, Body, Exit, CommandInv
<1>5. CASE TurnAway(r)
  BY <1>5 DEF TurnAway, Body, CommandInv
<1>6. CASE LeaveLine(r)
  BY <1>6 DEF LeaveLine, Body, Exit, CommandInv
<1>7. CASE FindLine(r)
  BY <1>7 DEF FindLine, Body, Exit, CommandInv
<1> QED
  BY <1>1, <1>2, <1>3, <1>4, <1>5, <1>6, <1>7 DEF Drive

LEMMA CommandNext == CommandInv /\ [Next]_vars => CommandInv'
<1> SUFFICES ASSUME CommandInv, [Next]_vars PROVE CommandInv'
  OBVIOUS
<1>1. CASE SelectPathFinder
  <2>1. pc = "select" /\ comando' = comando /\ pc' \in {"found", "evolving", "undefined"}
    BY <1>1 DEF SelectPathFinder
  <2> QED
    BY <2>1 DEF CommandInv
<1>2. CASE Breed \/ FindPath
  BY <1>2 DEF Breed, FindPath, CreateNewGeneration, SelectBest, Select, FindPathGoingThrough,
              driveVars, CommandInv
<1>3. CASE Connect
  BY <1>3 DEF Connect, CommandInv
<1>4. CASE \E robot, leftMotor, rightMotor \in BOOLEAN, ultrasonic, vision \in 0 .. 5 :
               GetHandles(robot, ultrasonic, vision, leftMotor, rightMotor)
  BY <1>4 DEF GetHandles, CommandInv
<1>5. CASE ReturnEarly
  \* The command is Unset, because what says "no command" was cleared.
  <2>1. comando \in {Unset, NoCommand} /\ comando \in {Unset, 0} /\ comando' = comando
    BY <1>5 DEF ReturnEarly, CommandInv
  <2>2. comando' = Unset /\ pc' = "returned"
    BY <1>5, <2>1 DEF ReturnEarly, NoCommand
  <2> QED
    BY <2>2 DEF CommandInv
<1>6. CASE \E r \in Readable : Drive(r)
  BY <1>6, CommandDrive
<1>7. CASE EndPass \/ Finish
  BY <1>7 DEF EndPass, Finish, CommandInv
<1>8. CASE Advance \/ Drift \/ Bear \/ Rotate \/ Obstruct
  <2>1. UNCHANGED <<pc, comando>>
    BY <1>8 DEF Advance, Drift, Bear, Rotate, Obstruct, programVars
  <2> QED
    BY <2>1 DEF CommandInv
<1>9. CASE Disconnect \/ UNCHANGED vars
  BY <1>9 DEF Disconnect, vars, CommandInv
<1> QED
  BY <1>1, <1>2, <1>3, <1>4, <1>5, <1>6, <1>7, <1>8, <1>9 DEF Next

\* The program never ends because its commands are used up: the -1 of get_next_command is
\* cleared by the end of the pass before the loop of main looks for it (main.cpp).
THEOREM EndsOnlyUnset == Spec => []ReturnsOnlyUnset
<1>1. CommandInv => ReturnsOnlyUnset
  BY DEF CommandInv, ReturnsOnlyUnset
<1> QED
  BY <1>1, CommandInit, CommandNext, PTL DEF Spec

-----------------------------------------------------------------------------
(* What the searches return *)

\* A walk over free states.
IsWalk(w, from, k) ==
    /\ w \in Seq(FreeState)
    /\ Len(w) = k + 1
    /\ w[1] = from
    /\ \A i \in 1 .. k : IsMove(w[i], w[i + 1])

LEMMA AppendMove ==
    ASSUME NEW from, NEW k \in Nat, NEW w, IsWalk(w, from, k), NEW t, IsMove(Last(w), t)
    PROVE  IsWalk(Append(w, t), from, k + 1)
<1>1. w \in Seq(FreeState) /\ Len(w) = k + 1 /\ Last(w) = w[k + 1] /\ Last(w) \in FreeState
  BY ElementOfSeq DEF IsWalk, Last
<1>2. t \in FreeState
  BY <1>1, ExpandType, ElementOfSeq DEF IsMove
<1>3. /\ Append(w, t) \in Seq(FreeState)
      /\ Len(Append(w, t)) = k + 2
      /\ \A i \in 1 .. k + 1 : Append(w, t)[i] = w[i]
      /\ Append(w, t)[k + 2] = t
  BY <1>1, <1>2
<1>4. ASSUME NEW i \in 1 .. k + 1 PROVE IsMove(Append(w, t)[i], Append(w, t)[i + 1])
  <2>1. CASE i \in 1 .. k
    <3>1. i + 1 \in 1 .. k + 1 /\ IsMove(w[i], w[i + 1])
      BY <2>1 DEF IsWalk
    <3> QED
      BY <1>3, <2>1, <3>1
  <2>2. CASE i = k + 1
    BY <1>1, <1>3, <2>2
  <2>3. i \in 1 .. k \/ i = k + 1
    OBVIOUS
  <2> QED
    BY <2>1, <2>2, <2>3
<1>5. 1 \in 1 .. k + 1 /\ w[1] = from /\ (k + 1) + 1 = k + 2
  BY DEF IsWalk
<1> QED
  BY <1>3, <1>4, <1>5 DEF IsWalk

\* One more move for each of the walks, but for those that have come to an end.
Longer(walks, ends, k) ==
    UNION {{Append(w, Expand(Last(w))[i]) : i \in DOMAIN Expand(Last(w))} :
           w \in {v \in walks : k = 1 \/ Last(v) \notin ends}}

\* The recursive definition of Walks has a solution.
LEMMA WalksDef ==
    ASSUME NEW from \in FreeState, NEW ends
    PROVE  /\ Walks(from, ends)[0] = {<<from>>}
           /\ \A k \in 1 .. MaxMoves :
                 Walks(from, ends)[k] = Longer(Walks(from, ends)[k - 1], ends, k)
<1> DEFINE n == MaxMoves
           Path == Seq(FreeState) \ {<<>>}
           D == SUBSET Path
           Solution(r) == [k \in 0 .. n |-> IF k = 0 THEN {<<from>>}
                                            ELSE Longer(r[k - 1], ends, k)]
           F == [d \in D \X (1 .. n) |-> Longer(d[1], ends, d[2])]
<1>1. n \in Nat
  BY GeneticAssumption
<1>2. ASSUME NEW d \in D, NEW k \in 1 .. n PROVE Longer(d, ends, k) \in D
  <2> SUFFICES ASSUME NEW w \in Path, NEW i \in DOMAIN Expand(Last(w))
               PROVE  Append(w, Expand(Last(w))[i]) \in Path
    BY DEF Longer
  <2>1. Last(w) \in FreeState
    BY EmptySeq, ElementOfSeq DEF Last
  <2>2. Expand(Last(w))[i] \in FreeState
    BY <2>1, ExpandType, ElementOfSeq, LenProperties
  <2> QED
    BY <2>2
<1>3. {<<from>>} \in D
  BY SMT
<1>4. Steps(F, D, n)
  <2> SUFFICES ASSUME NEW d \in D, NEW k \in 1 .. n PROVE F[<<d, k>>] \in D
    BY DEF Steps
  <2>1. <<d, k>> \in D \X (1 .. n) /\ F[<<d, k>>] = Longer(d, ends, k)
    OBVIOUS
  <2> QED
    BY <1>2, <2>1
<1>5. PICK f : Iterates(f, F, D, {<<from>>}, n)
  <2> HIDE DEF F, n, D
  <2> QED
    BY <1>1, <1>3, <1>4, Recursion
<1>6. f = Solution(f)
  <2>1. ASSUME NEW k \in 0 .. n, k # 0 PROVE f[k] = Longer(f[k - 1], ends, k)
    <3>1. k \in 1 .. n /\ k - 1 \in 0 .. n
      BY <1>1, <2>1
    <3>2. <<f[k - 1], k>> \in D \X (1 .. n)
      BY <1>5, <3>1 DEF Iterates
    <3>3. f[k] = F[<<f[k - 1], k>>]
      BY <1>5, <3>1 DEF Iterates
    <3> QED
      BY <3>2, <3>3
  <2> HIDE DEF n, F, D
  <2> QED
    BY <1>1, <1>5, <2>1 DEF Iterates
<1>7. Walks(from, ends) = Solution(Walks(from, ends))
  <2>1. Walks(from, ends) = CHOOSE r : r = Solution(r)
    BY DEF Walks, Longer
  <2> HIDE DEF Solution
  <2> QED
    BY <1>6, <2>1
<1>8. ASSUME NEW k \in 0 .. n
      PROVE  Walks(from, ends)[k] =
                 IF k = 0 THEN {<<from>>} ELSE Longer(Walks(from, ends)[k - 1], ends, k)
  <2> DEFINE r == Walks(from, ends)
  <2> HIDE DEF r
  <2>1. r = [j \in 0 .. n |-> IF j = 0 THEN {<<from>>} ELSE Longer(r[j - 1], ends, j)]
    BY <1>7 DEF r
  <2>2. r[k] = IF k = 0 THEN {<<from>>} ELSE Longer(r[k - 1], ends, k)
    BY <2>1
  <2> QED
    BY <2>2 DEF r
<1> QED
  BY <1>1, <1>8

\* What Walks has for k is walks of k moves.
LEMMA WalksAreWalks ==
    ASSUME NEW from \in FreeState, NEW ends, NEW k \in 0 .. MaxMoves, NEW w \in Walks(from, ends)[k]
    PROVE  IsWalk(w, from, k)
<1> DEFINE walks == Walks(from, ends)
           S == {m \in Nat : m <= MaxMoves => \A v \in walks[m] : IsWalk(v, from, m)}
<1>1. walks[0] = {<<from>>} /\ \A m \in 1 .. MaxMoves : walks[m] = Longer(walks[m - 1], ends, m)
  BY WalksDef
<1> HIDE DEF walks
<1>2. 0 \in S
  <2>1. <<from>> \in Seq(FreeState) /\ Len(<<from>>) = 1 /\ <<from>>[1] = from
    OBVIOUS
  <2>2. IsWalk(<<from>>, from, 0)
    BY <2>1 DEF IsWalk
  <2> QED
    BY <1>1, <2>2
<1>3. ASSUME NEW m \in Nat, m \in S PROVE m + 1 \in S
  <2> SUFFICES ASSUME m + 1 <= MaxMoves, NEW v \in walks[m + 1] PROVE IsWalk(v, from, m + 1)
    OBVIOUS
  <2>1. m + 1 \in 1 .. MaxMoves /\ (m + 1) - 1 = m /\ m <= MaxMoves
    BY GeneticAssumption
  <2>2. walks[m + 1] = Longer(walks[m], ends, m + 1)
    BY <1>1, <2>1
  <2>3. PICK u \in walks[m] : \E i \in DOMAIN Expand(Last(u)) : v = Append(u, Expand(Last(u))[i])
    BY <2>2 DEF Longer
  <2>4. PICK t : v = Append(u, t) /\ IsMove(Last(u), t)
    BY <2>3 DEF IsMove
  <2>5. IsWalk(u, from, m)
    BY <1>3, <2>1
  <2> QED
    BY <2>4, <2>5, AppendMove
<1>4. Nat \subseteq S
  <2> HIDE DEF S
  <2> QED
    BY <1>2, <1>3, Induction
<1> QED
  BY <1>4, GeneticAssumption DEF walks

\* A route is a walk of at least one move to one of the ends.
LEMMA RoutesAreWalks ==
    ASSUME NEW from \in FreeState, NEW ends, NEW w \in Routes(from, ends)
    PROVE  \E k \in 1 .. MaxMoves : IsWalk(w, from, k) /\ Last(w) \in ends
<1>1. PICK k \in 1 .. MaxMoves : w \in Walks(from, ends)[k] /\ Last(w) \in ends
  BY DEF Routes
<1>2. k \in 0 .. MaxMoves
  BY GeneticAssumption
<1> QED
  BY <1>1, <1>2, WalksAreWalks

-----------------------------------------------------------------------------
(* Plans *)

\* What a path is: it goes from state to state by moves, or stays where two halves meet, and
\* comes to an end state.
IsPlan(p) ==
    /\ p \in Seq(FreeState)
    /\ p # <<>>
    /\ \A i \in 1 .. Len(p) - 1 : p[i + 1] = p[i] \/ IsMove(p[i], p[i + 1])
    /\ Last(p) \in Ends

LEMMA RouteIsPlan ==
    ASSUME NEW from \in FreeState, NEW w \in Routes(from, Ends)
    PROVE  IsPlan(w) /\ w[1] = from
<1>1. PICK k \in 1 .. MaxMoves : IsWalk(w, from, k) /\ Last(w) \in Ends
  BY RoutesAreWalks
<1>2. w \in Seq(FreeState) /\ Len(w) = k + 1 /\ k + 1 - 1 = k /\ w[1] = from
  BY <1>1, GeneticAssumption DEF IsWalk
<1>3. w # <<>>
  BY <1>2, GeneticAssumption, EmptySeq
<1> QED
  BY <1>1, <1>2, <1>3 DEF IsPlan, IsWalk

\* Two halves make a plan when the second begins where the first ends.
LEMMA HalvesMakePlan ==
    ASSUME NEW from \in FreeState, NEW mid, NEW v \in Routes(from, {mid}), NEW w \in Routes(mid, Ends)
    PROVE  IsPlan(v \o w) /\ (v \o w)[1] = from
<1>1. PICK k \in 1 .. MaxMoves : IsWalk(v, from, k) /\ Last(v) = mid
  BY RoutesAreWalks
<1>2. /\ v \in Seq(FreeState) /\ Len(v) = k + 1 /\ v[1] = from /\ v[k + 1] = mid
      /\ k \in Nat \ {0}
      /\ \A i \in 1 .. k : IsMove(v[i], v[i + 1])
  BY <1>1, GeneticAssumption DEF IsWalk, Last
<1>3. mid \in FreeState
  BY <1>2, ElementOfSeq
<1>4. PICK m \in 1 .. MaxMoves : IsWalk(w, mid, m) /\ Last(w) \in Ends
  BY <1>3, RoutesAreWalks
<1>5. /\ w \in Seq(FreeState) /\ Len(w) = m + 1 /\ w[1] = mid /\ w[m + 1] \in Ends
      /\ m \in Nat \ {0}
      /\ \A i \in 1 .. m : IsMove(w[i], w[i + 1])
  BY <1>4, GeneticAssumption DEF IsWalk, Last
<1> DEFINE p == v \o w
<1>6. /\ p \in Seq(FreeState) /\ Len(p) = k + m + 2
      /\ \A i \in 1 .. k + 1 : p[i] = v[i]
      /\ \A i \in 1 .. m + 1 : p[k + 1 + i] = w[i]
  <2>1. p \in Seq(FreeState) /\ Len(p) = Len(v) + Len(w)
    BY <1>2, <1>5, ConcatProperties
  <2>2. \A i \in 1 .. Len(v) + Len(w) : p[i] = IF i <= Len(v) THEN v[i] ELSE w[i - Len(v)]
    BY <1>2, <1>5, ConcatProperties
  <2>3. ASSUME NEW i \in 1 .. k + 1 PROVE p[i] = v[i]
    BY <1>2, <1>5, <2>2
  <2>4. ASSUME NEW i \in 1 .. m + 1 PROVE p[k + 1 + i] = w[i]
    <3>1. k + 1 + i \in 1 .. Len(v) + Len(w) /\ ~(k + 1 + i <= Len(v)) /\ k + 1 + i - Len(v) = i
      BY <1>2, <1>5
    <3> QED
      BY <2>2, <3>1
  <2> QED
    BY <1>2, <1>5, <2>1, <2>3, <2>4
<1> HIDE DEF p
<1>7. ASSUME NEW i \in 1 .. Len(p) - 1 PROVE p[i + 1] = p[i] \/ IsMove(p[i], p[i + 1])
  <2>1. CASE i \in 1 .. k
    <3>1. i \in 1 .. k + 1 /\ i + 1 \in 1 .. k + 1
      BY <1>2, <2>1
    <3> QED
      BY <1>2, <1>6, <2>1, <3>1
  <2>2. CASE i = k + 1
    <3>1. p[k + 1] = mid
      BY <1>2, <1>6
    <3>2. p[k + 1 + 1] = w[1]
      BY <1>5, <1>6
    <3> QED
      BY <1>5, <2>2, <3>1, <3>2
  <2>3. CASE i > k + 1
    <3> DEFINE j == i - (k + 1)
    <3>1. j \in 1 .. m /\ j \in 1 .. m + 1 /\ j + 1 \in 1 .. m + 1
          /\ i = k + 1 + j /\ i + 1 = k + 1 + (j + 1)
      BY <1>2, <1>5, <1>6, <2>3
    <3> HIDE DEF j
    <3>2. p[i] = w[j] /\ p[i + 1] = w[j + 1]
      BY <1>6, <3>1
    <3> QED
      BY <1>5, <3>1, <3>2
  <2> QED
    BY <1>2, <1>6, <2>1, <2>2, <2>3
<1>8. p # <<>> /\ p[1] = from
  <2>1. 1 \in 1 .. k + 1
    BY <1>2
  <2> QED
    BY <1>2, <1>5, <1>6, <2>1, EmptySeq
<1>9. Last(p) \in Ends
  <2>1. m + 1 \in 1 .. m + 1 /\ Len(p) = k + 1 + (m + 1)
    BY <1>2, <1>5, <1>6
  <2> QED
    BY <1>5, <1>6, <2>1 DEF Last
<1> QED
  BY <1>6, <1>7, <1>8, <1>9 DEF IsPlan, p

\* What is left of a plan is a plan.
LEMMA TailIsPlan ==
    ASSUME NEW p, IsPlan(p), Len(p) > 1
    PROVE  /\ IsPlan(Tail(p))
           /\ Tail(p)[1] = p[2]
           /\ p[1] \in FreeState /\ p[2] \in FreeState
           /\ p[2] = p[1] \/ IsMove(p[1], p[2])
<1>1. p \in Seq(FreeState) /\ p # <<>> /\ Len(p) \in Nat
  BY LenProperties DEF IsPlan
<1>2. /\ Tail(p) \in Seq(FreeState) /\ Len(Tail(p)) = Len(p) - 1
      /\ \A i \in 1 .. Len(p) - 1 : Tail(p)[i] = p[i + 1]
  BY <1>1
<1>3. ASSUME NEW i \in 1 .. Len(Tail(p)) - 1
      PROVE  Tail(p)[i + 1] = Tail(p)[i] \/ IsMove(Tail(p)[i], Tail(p)[i + 1])
  <2>1. i \in 1 .. Len(p) - 1 /\ i + 1 \in 1 .. Len(p) - 1
    BY <1>1, <1>2
  <2>2. p[(i + 1) + 1] = p[i + 1] \/ IsMove(p[i + 1], p[(i + 1) + 1])
    BY <2>1 DEF IsPlan
  <2> QED
    BY <1>2, <2>1, <2>2
<1>4. Tail(p) # <<>> /\ Last(Tail(p)) = Last(p)
  <2>1. Len(p) - 1 \in 1 .. Len(p) - 1 /\ (Len(p) - 1) + 1 = Len(p)
    BY <1>1
  <2>2. Tail(p)[Len(Tail(p))] = p[Len(p)]
    BY <1>2, <2>1
  <2>3. Tail(p) # <<>>
    <3> DEFINE left == Tail(p)
    <3>1. left \in Seq(FreeState) /\ Len(left) > 0
      BY <1>1, <1>2
    <3> HIDE DEF left
    <3>2. left # <<>>
      BY <3>1, EmptySeq
    <3> QED
      BY <3>2 DEF left
  <2> QED
    BY <2>2, <2>3 DEF Last
<1>5. 1 \in 1 .. Len(p) - 1 /\ 1 + 1 = 2 /\ 1 \in 1 .. Len(p) /\ 2 \in 1 .. Len(p)
  BY <1>1
<1>6. p[1] \in FreeState /\ p[2] \in FreeState
  BY <1>1, <1>5, ElementOfSeq
<1> QED
  BY <1>1, <1>2, <1>3, <1>4, <1>5, <1>6 DEF IsPlan

-----------------------------------------------------------------------------
(* The robot follows the plan *)

Planned == Loops \cup {"found", "handles", "top", "endPass"}

\* The plan, and the robot before the loop of main.
PathInv ==
    /\ pc \in Planned => IsPlan(path)
    /\ pc \in {"found", "handles"} => path[1] = Start
    /\ pc \in {"select", "evolving", "best", "found", "handles"} =>
           pose = Start /\ phase = "centre" /\ motors = "stop"
    /\ pose \in FreeState

\* What is read on the centre of a cell.
CentreLine(s) == IF Blocked(s, s.theta) THEN {} ELSE {"M"}

\* Nothing was read yet, or what is true of the centre of the cell.
CentreReading ==
    /\ reading.place \in {"none", "centre"}
    /\ reading.place = "centre" => reading.line = CentreLine(pose)
    /\ reading.place = "none" => ~reading.obstacle

\* Between two commands.
Rest == phase = "centre" /\ pose = path[1] /\ CentreReading

\* The command is to walk to the cell ahead, which is free.
Setout ==
    /\ ~Blocked(pose, pose.theta)
    /\ path[1] = Walk(pose)

Walking == comando = WALK /\ motors \in {"stop", "straight", "bearRight", "bearLeft"}

LeaveInv == Walking /\ Setout /\ phase = "centre" /\ CentreReading

\* A crossing is seen only in front of the next cell.
FollowInv ==
    /\ Walking /\ Setout
    /\ phase \in {"centre", "between", "ahead"}
    /\ OnCrossing(reading) => phase = "ahead" /\ reading.place = "ahead"

\* The walk is cut short by an obstacle, goes on to the cell, or has come to it.
ReachInv ==
    /\ Walking
    /\ \/ reading.obstacle /\ reading.place = origin
       \/ /\ origin = "ahead"
          /\ \/ phase = "ahead" /\ Setout /\ reading.place = "ahead"
             \/ /\ phase = "centre" /\ pose = path[1]
                /\ \/ reading.place = "ahead"
                   \/ reading.place = "centre" /\ reading.line = CentreLine(pose)

Spinning == comando \in {RIGHT, LEFT} /\ motors \in {"stop", Spin}

\* The command is to turn towards a cell that is free.
Facing ==
    /\ path[1] = IF comando = RIGHT THEN TurnRight(pose) ELSE TurnLeft(pose)
    /\ ~Blocked(path[1], path[1].theta)

\* What was read before the turn is of the centre; after it there is no line for a while.
TurnReading ==
    /\ phase \in {"centre", "turned"}
    /\ reading.place = "centre" => reading.line = CentreLine(pose)
    /\ reading.place = "turned" => reading.line = {} /\ phase = "turned"

TurnAwayInv ==
    Spinning /\ Facing /\ TurnReading /\ reading.place \in {"none", "centre", "turned"}

LeaveLineInv == Spinning /\ Facing /\ TurnReading /\ reading.place \in {"centre", "turned"}

\* The robot has no line in front of it until it has turned.
FindLineInv ==
    /\ Spinning
    /\ \/ /\ Facing
          /\ reading.line = {}
          /\ \/ phase = "turned"
             \/ phase = "centre" /\ Blocked(pose, pose.theta)
       \/ /\ phase = "centre" /\ pose = path[1] /\ ~Blocked(pose, pose.theta)
          /\ \/ reading.line = {}
             \/ reading.place = "centre" /\ reading.line = {"M"}

DriveInv ==
    /\ pc = "handles" => reading.place = "none" /\ ~reading.obstacle
    /\ pc = "top" => Rest /\ motors = "stop"
    /\ pc = "leave" => LeaveInv
    /\ pc = "follow" => FollowInv
    /\ pc = "reach" => ReachInv
    /\ pc = "turnAway" => TurnAwayInv
    /\ pc = "leaveLine" => LeaveLineInv
    /\ pc = "findLine" => FindLineInv
    /\ pc = "endPass" => Rest

PlanInv == PathInv /\ (astray \/ DriveInv)

LEMMA PlanInit == Init => PlanInv
BY GeneticAssumption DEF Init, PlanInv, PathInv, Planned, Loops, DriveInv

-----------------------------------------------------------------------------

\* What is read: what was read last, or what the robot senses.
LEMMA Reads ==
    ASSUME ~astray, NEW r \in Readable
    PROVE  r = reading \/ (r.place = phase /\ r.line = SensedLine /\ r.obstacle = obstacle)
BY DEF Readable, Sensed

\* The second reading of a pass is such a one, too.
LEMMA ReadsAgain ==
    ASSUME NEW r \in Readable, NEW again \in {r} \cup (IF connected THEN Sensed ELSE {})
    PROVE  again \in Readable
BY DEF Readable

LEMMA ReactedReading ==
    ASSUME Reacted
    PROVE  ~astray /\ reading.place = phase /\ reading.line = SensedLine
<1>1. Sensed = {[place |-> phase, line |-> SensedLine, obstacle |-> obstacle]} /\ Sensed = {reading}
  BY DEF Reacted, Sensed
<1>2. reading = [place |-> phase, line |-> SensedLine, obstacle |-> obstacle]
  BY <1>1
<1> QED
  BY <1>2 DEF Reacted

LEMMA SensedLines ==
    /\ phase = "centre" => SensedLine = CentreLine(pose)
    /\ phase = "turned" => SensedLine = {}
    /\ phase = "between" => "M" \notin SensedLine \/ ("L" \notin SensedLine /\ "R" \notin SensedLine)
<1>1. CASE phase = "centre"
  BY <1>1 DEF SensedLine, CentreLine
<1>2. CASE phase = "turned"
  BY <1>2 DEF SensedLine
<1>3. CASE phase = "between"
  BY <1>3 DEF SensedLine
<1> QED
  BY <1>1, <1>2, <1>3

\* In front of a free cell a crossing is seen.
LEMMA CrossingAhead ==
    ASSUME pose \in FreeState, Setout, phase = "ahead"
    PROVE  "M" \in SensedLine /\ ("L" \in SensedLine \/ "R" \in SensedLine)
<1>1. ~IsRightObstacle(Walk(pose)) \/ ~IsLeftObstacle(Walk(pose))
  BY SceneAssumption DEF Setout
<1> QED
  BY <1>1 DEF SensedLine

-----------------------------------------------------------------------------
(* A pass of the loop of main *)

\* The command made of the first two states of a plan.
LEMMA NextCommandIs ==
    ASSUME IsPlan(path), Len(path) > 1
    PROVE  /\ NextCommand \in {0, WALK, RIGHT, LEFT}
           /\ NextCommand = 0 => path[2] = path[1]
           /\ NextCommand = WALK => path[2] = Walk(path[1]) /\ ~Blocked(path[1], path[1].theta)
           /\ NextCommand = RIGHT => path[2] = TurnRight(path[1]) /\ ~IsRightObstacle(path[1])
           /\ NextCommand = LEFT => path[2] = TurnLeft(path[1]) /\ ~IsLeftObstacle(path[1])
<1>1. /\ path[1] \in FreeState
      /\ path[2] = path[1] \/ IsMove(path[1], path[2])
      /\ NextCommand = ToCommand(path[1], path[2])
  BY TailIsPlan DEF NextCommand
<1>2. CASE path[2] = path[1]
  <2>1. path[1].theta \in Theta
    BY <1>1 DEF FreeState, State
  <2>2. path[1].theta # Left(path[1].theta) /\ path[1].theta # Right(path[1].theta)
    BY <2>1 DEF Left, Right, Theta
  <2>3. NextCommand = 0
    BY <1>1, <1>2, <2>2 DEF ToCommand
  <2> QED
    BY <1>2, <2>3 DEF WALK, RIGHT, LEFT
<1>3. CASE IsMove(path[1], path[2])
  BY <1>1, <1>3, CommandMakesMove DEF WALK, RIGHT, LEFT
<1> QED
  BY <1>1, <1>2, <1>3

\* After a turn the robot faces the cell that was at its side.
LEMMA TurnFaces ==
    ASSUME NEW s \in FreeState
    PROVE  /\ TurnRight(s) \in FreeState /\ TurnLeft(s) \in FreeState
           /\ Blocked(TurnRight(s), TurnRight(s).theta) <=> IsRightObstacle(s)
           /\ Blocked(TurnLeft(s), TurnLeft(s).theta) <=> IsLeftObstacle(s)
<1>1. s \in State /\ s.theta \in Theta /\ Right(s.theta) \in Theta /\ Left(s.theta) \in Theta
  BY HeadingType DEF FreeState, State
<1>2. /\ TurnRight(s).x = s.x /\ TurnRight(s).y = s.y /\ TurnRight(s).theta = Right(s.theta)
      /\ TurnLeft(s).x = s.x /\ TurnLeft(s).y = s.y /\ TurnLeft(s).theta = Left(s.theta)
      /\ TurnRight(s) \in State /\ TurnLeft(s) \in State
  BY <1>1 DEF TurnRight, TurnLeft, State
<1>3. TurnRight(s) \in FreeState /\ TurnLeft(s) \in FreeState
  BY <1>2 DEF FreeState
<1>4. ASSUME NEW theta
      PROVE  /\ Ahead(TurnRight(s), theta).x = Ahead(s, theta).x
             /\ Ahead(TurnRight(s), theta).y = Ahead(s, theta).y
             /\ Ahead(TurnLeft(s), theta).x = Ahead(s, theta).x
             /\ Ahead(TurnLeft(s), theta).y = Ahead(s, theta).y
  BY <1>2 DEF Ahead
<1> QED
  BY <1>2, <1>3, <1>4 DEF Blocked, IsRightObstacle, IsLeftObstacle

LEMMA PlanBegin ==
    ASSUME PlanInv, NEW r \in Readable, BeginPass(r)
    PROVE  PlanInv'
<1>1. IsPlan(path) /\ pc = "top" /\ pose \in FreeState
  BY DEF BeginPass, PlanInv, PathInv, Planned
<1>2. Len(path) \in Nat /\ Len(path) > 0
  BY <1>1, EmptySeq DEF IsPlan
<1>3. IsPlan(path')
  BY <1>1, TailIsPlan DEF BeginPass
<1>4. pc' \in {"leave", "turnAway", "endPass"}
  BY DEF BeginPass
<1>5. pose' \in FreeState
  BY <1>1, GeneticAssumption DEF BeginPass, GoAstray, sceneVars
<1>6. PathInv'
  BY <1>3, <1>4, <1>5 DEF PathInv
<1>7. SUFFICES ASSUME ~astray, ~astray' PROVE DriveInv'
  BY <1>6 DEF PlanInv, BeginPass, GoAstray, sceneVars
<1>8. /\ Rest /\ motors = "stop" /\ motors' = motors
      /\ pose' = pose /\ phase' = phase /\ reading' = r
      /\ ~(comando' = WALK /\ r.obstacle)
  BY <1>1, <1>7 DEF PlanInv, DriveInv, BeginPass, GoAstray, sceneVars
<1>9. CentreReading'
  BY <1>7, <1>8, Reads, SensedLines DEF Rest, CentreReading
<1>10. CASE Len(path) <= 1
  <2>1. path' = path /\ comando' = NoCommand
    BY <1>2, <1>10 DEF BeginPass, NextCommand
  <2>2. pc' = "endPass"
    BY <2>1 DEF BeginPass, NoCommand, WALK, RIGHT, LEFT
  <2> QED
    BY <1>8, <1>9, <2>1, <2>2 DEF Rest, DriveInv
<1>11. CASE Len(path) > 1
  <2>1. comando' = NextCommand /\ path' = Tail(path) /\ path'[1] = path[2]
    BY <1>1, <1>11, TailIsPlan DEF BeginPass
  <2>2. path[1] \in FreeState /\ pose = path[1]
    BY <1>1, <1>8, <1>11, TailIsPlan DEF Rest
  <2>3. CASE NextCommand = 0
    <3>1. pc' = "endPass" /\ path[2] = path[1]
      BY <1>1, <1>11, <2>1, <2>3, NextCommandIs DEF BeginPass, WALK, RIGHT, LEFT
    <3> QED
      BY <1>8, <1>9, <2>1, <2>2, <3>1 DEF Rest, DriveInv
  <2>4. CASE NextCommand = WALK
    <3>1. pc' = "leave"
      BY <1>8, <2>1, <2>4 DEF BeginPass
    <3>2. path[2] = Walk(path[1]) /\ ~Blocked(path[1], path[1].theta)
      BY <1>1, <1>11, <2>4, NextCommandIs
    <3>3. LeaveInv'
      BY <1>8, <1>9, <2>1, <2>2, <2>4, <3>2 DEF LeaveInv, Walking, Setout, Rest
    <3> QED
      BY <3>1, <3>3 DEF DriveInv
  <2>5. CASE NextCommand \in {RIGHT, LEFT}
    <3>1. pc' = "turnAway"
      BY <2>1, <2>5 DEF BeginPass, WALK, RIGHT, LEFT
    <3>2. \/ comando' = RIGHT /\ path'[1] = TurnRight(pose) /\ ~IsRightObstacle(pose)
          \/ comando' = LEFT /\ path'[1] = TurnLeft(pose) /\ ~IsLeftObstacle(pose)
      BY <1>1, <1>11, <2>1, <2>2, <2>5, NextCommandIs
    <3>3. Facing'
      BY <1>1, <1>8, <3>2, TurnFaces DEF Facing, RIGHT, LEFT
    <3>4. Spinning'
      BY <1>8, <2>1, <2>5 DEF Spinning
    <3>5. TurnReading' /\ reading'.place \in {"none", "centre", "turned"}
      BY <1>8, <1>9 DEF TurnReading, CentreReading, Rest
    <3> QED
      BY <3>1, <3>3, <3>4, <3>5 DEF DriveInv, TurnAwayInv
  <2> QED
    BY <1>1, <1>11, <2>3, <2>4, <2>5, NextCommandIs
<1> QED
  BY <1>2, <1>10, <1>11

\* What an action of a loop leaves alone.
LEMMA PathKept ==
    ASSUME PathInv, pc \in Loops \cup {"endPass", "top"}, pc' \in Loops \cup {"endPass", "top"},
           UNCHANGED <<path, pose>>
    PROVE  PathInv'
BY DEF PathInv, Planned, Loops

LEMMA PlanLeave ==
    ASSUME PlanInv, NEW r \in Readable, LeaveJunction(r)
    PROVE  PlanInv'
<1>1. /\ pc = "leave" /\ pc' \in {"leave", "follow"}
      /\ UNCHANGED <<path, comando, pose, phase, astray>>
  BY DEF LeaveJunction, rest, Body, Exit, findVars, sceneVars
<1>2. PathInv'
  BY <1>1, PathKept DEF PlanInv, Loops
<1>3. SUFFICES ASSUME ~astray PROVE DriveInv'
  BY <1>1, <1>2 DEF PlanInv
<1>4. LeaveInv
  BY <1>1, <1>3 DEF PlanInv, DriveInv
<1>5. Setout'
  BY <1>1, <1>4 DEF LeaveInv, Setout
<1>6. CASE OnCrossing(reading) /\ ~reading.obstacle
  <2>1. pc' = "leave" /\ motors' = "straight" /\ reading' = r
    BY <1>6 DEF LeaveJunction, Body
  <2>2. CentreReading'
    BY <1>1, <1>3, <1>4, <2>1, Reads, SensedLines DEF LeaveInv, CentreReading
  <2> QED
    BY <1>1, <1>4, <1>5, <2>1, <2>2 DEF LeaveInv, Walking, DriveInv
<1>7. CASE ~(OnCrossing(reading) /\ ~reading.obstacle)
  <2>1. pc' = "follow" /\ motors' = motors /\ reading' = reading
    BY <1>7 DEF LeaveJunction, Exit
  <2>2. ~OnCrossing(reading)
    BY <1>4, <1>7 DEF LeaveInv, CentreReading, CentreLine, OnCrossing
  <2>3. FollowInv'
    BY <1>1, <1>4, <1>5, <2>1, <2>2 DEF LeaveInv, Walking, FollowInv
  <2> QED
    BY <2>1, <2>3 DEF DriveInv
<1> QED
  BY <1>6, <1>7

LEMMA PlanFollow ==
    ASSUME PlanInv, NEW r \in Readable, FollowLine(r)
    PROVE  PlanInv'
<1>1. /\ pc = "follow" /\ pc' \in {"follow", "reach"}
      /\ UNCHANGED <<path, comando, pose, phase, astray>>
  BY DEF FollowLine, rest, Body, Exit, findVars, sceneVars
<1>2. PathInv'
  BY <1>1, PathKept DEF PlanInv, Loops
<1>3. SUFFICES ASSUME ~astray PROVE DriveInv'
  BY <1>1, <1>2 DEF PlanInv
<1>4. FollowInv
  BY <1>1, <1>3 DEF PlanInv, DriveInv
<1>5. Setout'
  BY <1>1, <1>4 DEF FollowInv, Setout
<1>6. CASE ~OnCrossing(reading) /\ ~reading.obstacle
  <2>1. PICK again \in Readable :
            pc' = "follow" /\ motors' = Steered(r.line) /\ reading' = again
    BY <1>6, ReadsAgain DEF FollowLine, Body
  <2>2. Steered(r.line) \in {"straight", "bearRight", "bearLeft"}
    BY DEF Steered
  <2>3. OnCrossing(again) => phase = "ahead" /\ again.place = "ahead"
    <3>1. CASE again = reading
      BY <1>6, <3>1
    <3>2. CASE again.place = phase /\ again.line = SensedLine
      <4>1. phase = "centre" => ~OnCrossing(again)
        BY <3>2, SensedLines DEF CentreLine, OnCrossing
      <4>2. phase = "between" => ~OnCrossing(again)
        BY <3>2, SensedLines DEF OnCrossing
      <4> QED
        BY <1>4, <3>2, <4>1, <4>2 DEF FollowInv
    <3> QED
      BY <1>3, <3>1, <3>2, Reads
  <2>4. FollowInv'
    BY <1>1, <1>4, <1>5, <2>1, <2>2, <2>3 DEF FollowInv, Walking
  <2> QED
    BY <2>1, <2>4 DEF DriveInv
<1>7. CASE OnCrossing(reading) \/ reading.obstacle
  <2>1. pc' = "reach" /\ motors' = motors /\ reading' = reading /\ origin' = reading.place
    BY <1>7 DEF FollowLine, Exit
  <2>2. ReachInv'
    <3>1. CASE OnCrossing(reading)
      BY <1>1, <1>4, <1>5, <2>1, <3>1 DEF FollowInv, Walking, ReachInv
    <3>2. CASE reading.obstacle
      BY <1>1, <1>4, <2>1, <3>2 DEF FollowInv, Walking, ReachInv
    <3> QED
      BY <1>7, <3>1, <3>2
  <2> QED
    BY <2>1, <2>2 DEF DriveInv
<1> QED
  BY <1>6, <1>7

LEMMA PlanReach ==
    ASSUME PlanInv, NEW r \in Readable, ReachLine(r)
    PROVE  PlanInv'
<1>1. /\ pc = "reach" /\ pc' \in {"reach", "endPass"}
      /\ UNCHANGED <<path, comando>>
      /\ UNCHANGED <<pose, phase, astray>> \/ (astray' /\ pose' = Start)
  BY DEF ReachLine, rest, Body, Exit, findVars, sceneVars, GoAstray
<1>2. PathInv'
  BY <1>1, GeneticAssumption DEF PlanInv, PathInv, Planned, Loops
<1>3. SUFFICES ASSUME ~astray, ~astray' PROVE DriveInv'
  BY <1>1, <1>2 DEF PlanInv
<1>4. ReachInv /\ UNCHANGED <<pose, phase, astray>>
  BY <1>1, <1>3 DEF PlanInv, DriveInv
<1>5. CASE reading.place = origin /\ ~reading.obstacle
  <2>1. pc' = "reach" /\ motors' = "straight" /\ reading' = r /\ UNCHANGED origin
    BY <1>5 DEF ReachLine, Body
  <2>2. Walking'
    BY <1>1, <1>4, <2>1 DEF ReachInv, Walking
  <2>3. CASE phase = "ahead"
    <3>1. Setout /\ r.place = "ahead"
      BY <1>3, <1>4, <1>5, <2>3, Reads DEF ReachInv
    <3>2. ReachInv'
      BY <1>1, <1>4, <1>5, <2>1, <2>2, <2>3, <3>1 DEF ReachInv, Setout
    <3> QED
      BY <2>1, <3>2 DEF DriveInv
  <2>4. CASE phase = "centre"
    <3>1. \/ r.place = "ahead"
          \/ r.place = "centre" /\ r.line = CentreLine(pose)
      BY <1>3, <1>4, <1>5, <2>4, Reads, SensedLines DEF ReachInv
    <3>2. CentreLine(pose)' = CentreLine(pose)
      BY <1>4 DEF CentreLine
    <3>3. ReachInv'
      BY <1>1, <1>4, <1>5, <2>1, <2>2, <2>4, <3>1, <3>2 DEF ReachInv
    <3> QED
      BY <2>1, <3>3 DEF DriveInv
  <2> QED
    BY <1>4, <1>5, <2>3, <2>4 DEF ReachInv
<1>6. CASE reading.place # origin
  <2>1. pc' = "endPass" /\ reading' = reading
    BY <1>6 DEF ReachLine, Exit
  <2>2. phase = "centre" /\ pose = path[1] /\ reading.place = "centre"
        /\ reading.line = CentreLine(pose)
    BY <1>4, <1>6 DEF ReachInv
  <2>3. Rest'
    BY <1>1, <1>4, <2>1, <2>2 DEF Rest, CentreReading, CentreLine
  <2> QED
    BY <2>1, <2>3 DEF DriveInv
<1>7. CASE reading.place = origin /\ reading.obstacle
  BY <1>3, <1>7 DEF ReachLine, GoAstray, Body
<1> QED
  BY <1>5, <1>6, <1>7

LEMMA PlanTurnAway ==
    ASSUME PlanInv, NEW r \in Readable, TurnAway(r)
    PROVE  PlanInv'
<1>1. /\ pc = "turnAway" /\ pc' \in {"turnAway", "leaveLine"}
      /\ UNCHANGED <<path, comando, pose, phase, astray>>
      /\ reading' = r /\ motors' \in {motors, Spin}
  BY DEF TurnAway, rest, Body, findVars, sceneVars
<1>2. PathInv'
  BY <1>1, PathKept DEF PlanInv, Loops
<1>3. SUFFICES ASSUME ~astray PROVE DriveInv'
  BY <1>1, <1>2 DEF PlanInv
<1>4. TurnAwayInv
  BY <1>1, <1>3 DEF PlanInv, DriveInv
<1>5. Spinning' /\ Facing'
  BY <1>1, <1>4 DEF TurnAwayInv, Spinning, Spin, Facing
<1>6. TurnReading' /\ r.place \in {reading.place, "centre", "turned"}
  BY <1>1, <1>3, <1>4, Reads, SensedLines DEF TurnAwayInv, TurnReading, CentreLine
<1>7. pc' = "leaveLine" => r.place # "none"
  BY <1>1, <1>4, <1>6 DEF TurnAway, Body, TurnAwayInv
<1> QED
  BY <1>1, <1>4, <1>5, <1>6, <1>7 DEF DriveInv, TurnAwayInv, LeaveLineInv

LEMMA PlanLeaveLine ==
    ASSUME PlanInv, NEW r \in Readable, LeaveLine(r)
    PROVE  PlanInv'
<1>1. /\ pc = "leaveLine" /\ pc' \in {"leaveLine", "findLine"}
      /\ UNCHANGED <<path, comando, pose, phase, astray>>
      /\ motors' \in {motors, Spin}
  BY DEF LeaveLine, rest, Body, Exit, findVars, sceneVars
<1>2. PathInv'
  BY <1>1, PathKept DEF PlanInv, Loops
<1>3. SUFFICES ASSUME ~astray PROVE DriveInv'
  BY <1>1, <1>2 DEF PlanInv
<1>4. LeaveLineInv
  BY <1>1, <1>3 DEF PlanInv, DriveInv
<1>5. Spinning' /\ Facing'
  BY <1>1, <1>4 DEF LeaveLineInv, Spinning, Spin, Facing
<1>6. CASE "M" \in reading.line
  <2>1. pc' = "leaveLine" /\ reading' = r
    BY <1>6 DEF LeaveLine, Body
  <2>2. TurnReading' /\ r.place \in {"centre", "turned"}
    BY <1>1, <1>3, <1>4, <2>1, Reads, SensedLines DEF LeaveLineInv, TurnReading, CentreLine
  <2> QED
    BY <1>5, <2>1, <2>2 DEF DriveInv, LeaveLineInv
<1>7. CASE "M" \notin reading.line
  <2>1. pc' = "findLine" /\ reading' = reading
    BY <1>7 DEF LeaveLine, Exit
  <2>2. /\ reading.line = {}
        /\ phase = "turned" \/ (phase = "centre" /\ Blocked(pose, pose.theta))
    BY <1>4, <1>7 DEF LeaveLineInv, TurnReading, CentreLine
  <2> QED
    BY <1>1, <1>5, <2>1, <2>2 DEF DriveInv, FindLineInv
<1> QED
  BY <1>6, <1>7

LEMMA PlanFindLine ==
    ASSUME PlanInv, NEW r \in Readable, FindLine(r)
    PROVE  PlanInv'
<1>1. /\ pc = "findLine" /\ pc' \in {"findLine", "endPass"}
      /\ UNCHANGED <<path, comando, pose, phase, astray>>
      /\ motors' \in {motors, Spin}
  BY DEF FindLine, rest, Body, Exit, findVars, sceneVars
<1>2. PathInv'
  BY <1>1, PathKept DEF PlanInv, Loops
<1>3. SUFFICES ASSUME ~astray PROVE DriveInv'
  BY <1>1, <1>2 DEF PlanInv
<1>4. FindLineInv
  BY <1>1, <1>3 DEF PlanInv, DriveInv
<1>5. Spinning'
  BY <1>1, <1>4 DEF FindLineInv, Spinning, Spin
<1>6. CASE "M" \in reading.line
  <2>1. pc' = "endPass" /\ reading' = reading
    BY <1>6 DEF FindLine, Exit
  <2>2. /\ phase = "centre" /\ pose = path[1] /\ ~Blocked(pose, pose.theta)
        /\ reading.place = "centre" /\ reading.line = {"M"}
    BY <1>4, <1>6 DEF FindLineInv
  <2>3. Rest'
    BY <1>1, <2>1, <2>2 DEF Rest, CentreReading, CentreLine
  <2> QED
    BY <2>1, <2>3 DEF DriveInv
<1>7. CASE "M" \notin reading.line
  <2>1. pc' = "findLine" /\ reading' = r /\ reading.line = {}
    BY <1>4, <1>7 DEF FindLine, Body, FindLineInv
  <2>2. r.line = {} \/ (r.place = phase /\ r.line = SensedLine)
    BY <1>3, <2>1, Reads
  <2>3. CASE Facing /\ (phase = "turned" \/ (phase = "centre" /\ Blocked(pose, pose.theta)))
    <3>1. r.line = {}
      BY <2>2, <2>3, SensedLines DEF CentreLine
    <3> QED
      BY <1>1, <1>5, <2>1, <2>3, <3>1 DEF DriveInv, FindLineInv, Facing
  <2>4. CASE phase = "centre" /\ pose = path[1] /\ ~Blocked(pose, pose.theta)
    <3>1. r.line = {} \/ (r.place = "centre" /\ r.line = {"M"})
      BY <2>2, <2>4, SensedLines DEF CentreLine
    <3> QED
      BY <1>1, <1>5, <2>1, <2>4, <3>1 DEF DriveInv, FindLineInv
  <2> QED
    BY <1>4, <2>3, <2>4 DEF FindLineInv
<1> QED
  BY <1>6, <1>7

LEMMA PlanDrive ==
    ASSUME PlanInv, NEW r \in Readable, Drive(r)
    PROVE  PlanInv'
BY PlanBegin, PlanLeave, PlanFollow, PlanReach, PlanTurnAway, PlanLeaveLine, PlanFindLine DEF Drive

-----------------------------------------------------------------------------
(* The robot *)

LEMMA PlanAdvance ==
    ASSUME PlanInv, Advance
    PROVE  PlanInv'
<1>1. /\ pc \in Loops /\ UNCHANGED <<path, pc, comando, reading, origin, motors>>
      /\ ~astray /\ motors = "straight"
      /\ reading.place = phase /\ reading.line = SensedLine
  BY ReactedReading DEF Advance, Reacted, Loops, programVars, findVars
<1>2. DriveInv /\ pose \in FreeState
  BY <1>1 DEF PlanInv, PathInv
<1>3. Walking
  BY <1>1, <1>2 DEF DriveInv, Loops, LeaveInv, FollowInv, ReachInv, TurnAwayInv, LeaveLineInv,
                    FindLineInv, Spinning, Spin, Walking
<1>4. pc \in {"leave", "follow", "reach"}
  BY <1>1, <1>2 DEF DriveInv, Loops, TurnAwayInv, LeaveLineInv, FindLineInv, Spinning, Spin
<1>5. CASE SensedLine = {}
  <2>1. astray' /\ pose' \in FreeState
    BY <1>5, GeneticAssumption DEF Advance, GoAstray
  <2> QED
    BY <1>1, <2>1 DEF PlanInv, PathInv, Loops, Planned
<1>6. CASE SensedLine # {}
  <2>1. pc # "leave"
    <3>1. pc = "leave" => OnCrossing(reading) /\ phase = "centre"
      BY <1>2 DEF Advance, Reacted, DriveInv, LeaveInv
    <3> QED
      BY <1>1, <3>1, SensedLines DEF OnCrossing, CentreLine
  <2>2. CASE pc = "follow"
    <3>1. FollowInv /\ ~OnCrossing(reading)
      BY <1>2, <2>2 DEF DriveInv, Advance, Reacted
    <3>2. phase # "ahead"
      BY <1>1, <1>2, <3>1, CrossingAhead DEF FollowInv, OnCrossing
    <3>3. phase' \in {"between", "ahead"} /\ UNCHANGED pose
      BY <1>6, <3>1, <3>2 DEF Advance, FollowInv
    <3>4. FollowInv'
      BY <1>1, <3>1, <3>3 DEF FollowInv, Walking, Setout, OnCrossing
    <3>5. PathInv'
      BY <1>1, <3>3, PathKept DEF PlanInv, Loops
    <3> QED
      BY <1>1, <2>2, <3>4, <3>5 DEF PlanInv, DriveInv
  <2>3. CASE pc = "reach"
    <3>1. ReachInv /\ reading.place = origin /\ ~reading.obstacle
      BY <1>2, <2>3 DEF DriveInv, Advance, Reacted
    <3>2. phase = "ahead" /\ Setout
      BY <1>1, <3>1 DEF ReachInv
    <3>3. phase' = "centre" /\ pose' = Walk(pose)
      BY <1>6, <3>2 DEF Advance
    <3>4. pose' = path'[1] /\ pose' \in FreeState
      <4>1. path[1] \in FreeState
        BY <1>1, EmptySeq, ElementOfSeq DEF PlanInv, PathInv, IsPlan, Planned
      <4> QED
        BY <1>1, <3>2, <3>3, <4>1 DEF Setout
    <3>5. ReachInv'
      BY <1>1, <3>1, <3>2, <3>3, <3>4 DEF ReachInv, Walking
    <3>6. PathInv'
      BY <1>1, <3>4 DEF PlanInv, PathInv, Loops, Planned
    <3> QED
      BY <1>1, <2>3, <3>5, <3>6 DEF PlanInv, DriveInv
  <2> QED
    BY <1>4, <2>1, <2>2, <2>3
<1> QED
  BY <1>5, <1>6

\* Beside the line.
LEMMA PlanDrift ==
    ASSUME PlanInv, Drift \/ Bear \/ Obstruct \/ Disconnect
    PROVE  PlanInv'
BY DEF Drift, Bear, Obstruct, Disconnect, programVars, findVars, sceneVars, PlanInv, PathInv,
       DriveInv, Rest, CentreReading, CentreLine, LeaveInv, FollowInv, ReachInv, Walking, Setout,
       TurnAwayInv, LeaveLineInv, FindLineInv, Spinning, Spin, Facing, TurnReading, OnCrossing

LEMMA PlanRotate ==
    ASSUME PlanInv, Rotate
    PROVE  PlanInv'
<1>1. /\ pc \in Loops /\ UNCHANGED <<path, pc, comando, reading, origin, motors, astray>>
      /\ ~astray /\ motors \in {"right", "left"}
      /\ reading.place = phase /\ reading.line = SensedLine
  BY ReactedReading DEF Rotate, Reacted, Loops, programVars, findVars
<1>2. DriveInv /\ pose \in FreeState
  BY <1>1 DEF PlanInv, PathInv
<1>3. pc \in {"turnAway", "leaveLine", "findLine"} /\ Spinning /\ motors = Spin
  BY <1>1, <1>2 DEF DriveInv, Loops, LeaveInv, FollowInv, ReachInv, TurnAwayInv, LeaveLineInv,
                    FindLineInv, Spinning, Walking
<1>4. \/ phase = "centre" /\ phase' = "turned" /\ UNCHANGED pose
      \/ /\ phase = "turned" /\ phase' = "centre"
         /\ pose' = IF comando = RIGHT THEN TurnRight(pose) ELSE TurnLeft(pose)
  BY <1>3 DEF Rotate, Spin
<1>5. pose' \in FreeState
  BY <1>2, <1>4, TurnFaces
<1>6. PathInv'
  BY <1>1, <1>5 DEF PlanInv, PathInv, Loops, Planned
<1>7. Spinning'
  BY <1>1, <1>3 DEF Spinning, Spin
<1>8. CASE pc = "turnAway"
  <2>1. TurnAwayInv /\ phase # "turned"
    BY <1>1, <1>2, <1>8 DEF DriveInv, Rotate, Reacted
  <2>2. TurnAwayInv'
    BY <1>1, <1>4, <1>7, <2>1 DEF TurnAwayInv, TurnReading, Facing, CentreLine
  <2> QED
    BY <1>1, <1>6, <1>8, <2>2 DEF PlanInv, DriveInv
<1>9. CASE pc = "leaveLine"
  <2>1. LeaveLineInv /\ phase # "turned"
    BY <1>1, <1>2, <1>9, SensedLines DEF DriveInv, Rotate, Reacted
  <2>2. LeaveLineInv'
    BY <1>1, <1>4, <1>7, <2>1 DEF LeaveLineInv, TurnReading, Facing, CentreLine
  <2> QED
    BY <1>1, <1>6, <1>9, <2>2 DEF PlanInv, DriveInv
<1>10. CASE pc = "findLine"
  <2>1. FindLineInv /\ "M" \notin reading.line
    BY <1>2, <1>10 DEF DriveInv, Rotate, Reacted
  <2>2. Facing /\ reading.line = {}
    <3>1. ~(phase = "centre" /\ ~Blocked(pose, pose.theta))
      BY <1>1, <2>1, SensedLines DEF CentreLine
    <3> QED
      BY <2>1, <3>1 DEF FindLineInv
  <2>3. FindLineInv'
    <3>1. CASE phase = "centre"
      BY <1>1, <1>4, <1>7, <2>2, <3>1 DEF FindLineInv, Facing
    <3>2. CASE phase = "turned"
      <4>1. pose' = path[1] /\ phase' = "centre"
        BY <1>4, <2>2, <3>2 DEF Facing
      <4> QED
        BY <1>1, <1>7, <2>2, <4>1 DEF FindLineInv, Facing
    <3> QED
      BY <1>4, <3>1, <3>2
  <2> QED
    BY <1>1, <1>6, <1>10, <2>3 DEF PlanInv, DriveInv
<1> QED
  BY <1>3, <1>8, <1>9, <1>10

-----------------------------------------------------------------------------
(* Before and between the passes *)

LEMMA PlanSelect ==
    ASSUME PlanInv, SelectPathFinder
    PROVE  PlanInv'
<1>1. /\ pc = "select" /\ pc' \in {"found", "evolving", "undefined"}
      /\ UNCHANGED <<motors, pose, phase, astray>>
  BY DEF SelectPathFinder, sceneVars
<1>2. Start \in FreeState /\ Ends \subseteq State
  BY GeneticAssumption
<1>3. ASSUME pc' = "found" PROVE IsPlan(path') /\ path'[1] = Start
  <2>1. path' \in Routes(Start, Ends) \/ (path' = <<Start>> /\ Start \in Ends)
    BY <1>3 DEF SelectPathFinder
  <2>2. CASE path' \in Routes(Start, Ends)
    BY <1>2, <2>2, RouteIsPlan
  <2>3. CASE path' = <<Start>> /\ Start \in Ends
    <3>1. <<Start>> \in Seq(FreeState) /\ Len(<<Start>>) = 1 /\ <<Start>>[1] = Start
      BY <1>2
    <3>2. <<Start>> # <<>>
      OBVIOUS
    <3>3. \A i \in 1 .. Len(<<Start>>) - 1 : FALSE
      BY <3>1
    <3> QED
      BY <2>3, <3>1, <3>2, <3>3 DEF IsPlan, Last
  <2> QED
    BY <2>1, <2>2, <2>3
<1>4. PathInv'
  BY <1>1, <1>3 DEF PlanInv, PathInv, Planned, Loops
<1>5. DriveInv'
  BY <1>1 DEF DriveInv
<1> QED
  BY <1>4, <1>5 DEF PlanInv

LEMMA PlanFind ==
    ASSUME PlanInv, Breed \/ FindPath
    PROVE  PlanInv'
<1>1. UNCHANGED <<motors, pose, phase, astray>>
  BY DEF Breed, FindPath, driveVars, sceneVars
<1>2. CASE Breed \/ SelectBest
  <2>1. pc = "evolving" /\ pc' \in {"evolving", "best"}
    BY <1>2 DEF Breed, CreateNewGeneration, SelectBest, Select
  <2> QED
    BY <1>1, <2>1 DEF PlanInv, PathInv, DriveInv, Planned, Loops
<1>3. CASE FindPathGoingThrough
  <2>1. pc = "best" /\ pc' = "found"
    BY <1>3 DEF FindPathGoingThrough
  <2>2. PICK mid : \E v \in Routes(Start, {mid}), w \in Routes(mid, Ends) : path' = v \o w
    BY <1>3 DEF FindPathGoingThrough
  <2> Start \in FreeState
    BY GeneticAssumption
  <2>3. IsPlan(path') /\ path'[1] = Start
    <3>1. PICK v \in Routes(Start, {mid}), w \in Routes(mid, Ends) : path' = v \o w
      BY <2>2
    <3>2. IsPlan(v \o w) /\ (v \o w)[1] = Start
      BY HalvesMakePlan
    <3> QED
      BY <3>1, <3>2
  <2> QED
    BY <1>1, <2>1, <2>3 DEF PlanInv, PathInv, DriveInv, Planned, Loops
<1> QED
  BY <1>2, <1>3 DEF FindPath

LEMMA PlanPrepare ==
    ASSUME PlanInv,
           \/ Connect
           \/ \E robot, leftMotor, rightMotor \in BOOLEAN, ultrasonic, vision \in 0 .. 5 :
                  GetHandles(robot, ultrasonic, vision, leftMotor, rightMotor)
    PROVE  PlanInv'
<1>1. CASE Connect
  <2>1. /\ pc = "found" /\ pc' \in {"handles", "undefined"}
        /\ reading'.place = "none" /\ ~reading'.obstacle
        /\ UNCHANGED <<path, motors, pose, phase, astray>>
    BY <1>1 DEF Connect, Uninitialised, findVars, sceneVars
  <2> QED
    BY <2>1 DEF PlanInv, PathInv, DriveInv, Planned, Loops
<1>2. ASSUME NEW robot, NEW leftMotor, NEW rightMotor, NEW ultrasonic, NEW vision,
             GetHandles(robot, ultrasonic, vision, leftMotor, rightMotor)
      PROVE  PlanInv'
  <2>1. /\ pc = "handles" /\ pc' = "top"
        /\ UNCHANGED <<path, motors, reading>>
        /\ UNCHANGED <<pose, phase, astray>> \/ (astray' /\ pose' = Start)
    BY <1>2 DEF GetHandles, findVars, sceneVars, GoAstray
  <2>2. PathInv'
    BY <2>1, GeneticAssumption DEF PlanInv, PathInv, Planned, Loops
  <2>3. astray' \/ DriveInv'
    BY <2>1 DEF PlanInv, PathInv, DriveInv, Rest, CentreReading
  <2> QED
    BY <2>2, <2>3 DEF PlanInv
<1> QED
  BY <1>1, <1>2

LEMMA PlanBetween ==
    ASSUME PlanInv, ReturnEarly \/ EndPass \/ Finish \/ UNCHANGED vars
    PROVE  PlanInv'
<1>1. CASE ReturnEarly \/ Finish
  <2>1. pc' \in {"returned", "finished"} /\ UNCHANGED pose
    BY <1>1 DEF ReturnEarly, Finish, sceneVars
  <2> QED
    BY <2>1 DEF PlanInv, PathInv, DriveInv, Planned, Loops
<1>2. CASE EndPass
  <2>1. /\ pc = "endPass" /\ pc' = "top" /\ motors' = "stop"
        /\ UNCHANGED <<path, reading, pose, phase, astray>>
    BY <1>2 DEF EndPass, findVars, sceneVars
  <2> QED
    BY <2>1, PathKept DEF PlanInv, DriveInv, Rest, CentreReading, CentreLine
<1>3. CASE UNCHANGED vars
  BY <1>3 DEF vars, findVars, sceneVars, PlanInv, PathInv,
       DriveInv, Rest, CentreReading, CentreLine, LeaveInv, FollowInv, ReachInv, Walking, Setout,
       TurnAwayInv, LeaveLineInv, FindLineInv, Spinning, Spin, Facing, TurnReading, OnCrossing
<1> QED
  BY <1>1, <1>2, <1>3

LEMMA PlanNext == PlanInv /\ [Next]_vars => PlanInv'
BY PlanSelect, PlanFind, PlanPrepare, PlanDrive, PlanAdvance, PlanDrift, PlanRotate, PlanBetween
   DEF Next

\* Between two commands the robot stands where its plan has it, and at the end of the
\* commands in an end state, whatever route the finder returned, whatever the uninitialised
\* arrays hold and however old the readings are (main.cpp).
THEOREM Follows == Spec => []FollowsPlan
<1>1. PlanInv => FollowsPlan
  BY DEF PlanInv, PathInv, DriveInv, Rest, FollowsPlan, IsPlan, Planned, Last
<1> QED
  BY <1>1, PlanInit, PlanNext, PTL DEF Spec

-----------------------------------------------------------------------------
(* Generations of points *)

LEMMA MaxMin ==
    ASSUME NEW a \in Int, NEW b \in Int
    PROVE  /\ Max({a, b}) = IF a >= b THEN a ELSE b
           /\ Min({a, b}) = IF a <= b THEN a ELSE b
<1>1. Max({a, b}) = IF a >= b THEN a ELSE b
  <2> DEFINE Best(x) == x \in {a, b} /\ \A y \in {a, b} : x >= y
  <2>1. Best(IF a >= b THEN a ELSE b)
    OBVIOUS
  <2>2. \A x : Best(x) => x = IF a >= b THEN a ELSE b
    OBVIOUS
  <2>3. Max({a, b}) = CHOOSE x : Best(x)
    BY DEF Max
  <2> HIDE DEF Best
  <2> QED
    BY <2>1, <2>2, <2>3
<1>2. Min({a, b}) = IF a <= b THEN a ELSE b
  <2> DEFINE Best(x) == x \in {a, b} /\ \A y \in {a, b} : x =< y
  <2>1. Best(IF a <= b THEN a ELSE b)
    OBVIOUS
  <2>2. \A x : Best(x) => x = IF a <= b THEN a ELSE b
    OBVIOUS
  <2>3. Min({a, b}) = CHOOSE x : Best(x)
    BY DEF Min
  <2> HIDE DEF Best
  <2> QED
    BY <2>1, <2>2, <2>3
<1> QED
  BY <1>1, <1>2

LEMMA ClampedType == \A n \in Int : Clamped(n) \in Coordinate
<1> SUFFICES ASSUME NEW n \in Int PROVE Clamped(n) \in Coordinate
  OBVIOUS
<1>1. MapSize \in Nat /\ MapSize >= 1
  BY GridAssumption, GeneticAssumption
<1>2. Min({n, MapSize - 1}) = IF n <= MapSize - 1 THEN n ELSE MapSize - 1
  BY <1>1, MaxMin
<1>3. Min({n, MapSize - 1}) \in Int
  BY <1>1, <1>2
<1>4. Clamped(n) = IF 0 >= Min({n, MapSize - 1}) THEN 0 ELSE Min({n, MapSize - 1})
  BY <1>3, MaxMin DEF Clamped
<1> QED
  BY <1>1, <1>2, <1>4 DEF Coordinate

\* What is bred stays on the map.
LEMMA PairsType ==
    ASSUME NEW points \in SUBSET Point, NEW pair \in Pairs(points)
    PROVE  \E a, b \in Point : pair = {a, b}
<1>1. PICK p \in points, q \in points :
          \E a, b : /\ pair = {a, b}
                  /\ a \in Mutations(<<q[1], p[2]>>) /\ b \in Mutations(<<p[1], q[2]>>)
  <2>1. PICK parents \in points \X points :
            pair \in {{a, b} : a \in Mutations(Crossover(parents[1], parents[2])[1]),
                               b \in Mutations(Crossover(parents[1], parents[2])[2])}
    BY DEF Pairs
  <2>2. PICK p \in points, q \in points : p = parents[1] /\ q = parents[2]
    OBVIOUS
  <2>3. Crossover(p, q)[1] = <<q[1], p[2]>> /\ Crossover(p, q)[2] = <<p[1], q[2]>>
    BY DEF Crossover
  <2>4. \E a, b : /\ pair = {a, b}
                    /\ a \in Mutations(Crossover(p, q)[1]) /\ b \in Mutations(Crossover(p, q)[2])
    BY <2>1, <2>2
  <2> QED
    BY <2>3, <2>4
<1>2. p \in Point /\ q \in Point
  OBVIOUS
<1>3. ASSUME NEW x \in Coordinate, NEW y \in Coordinate PROVE Mutations(<<x, y>>) \subseteq Point
  <2>1. x \in Int /\ y \in Int
    BY DEF Coordinate
  <2>2. \A dx, dy \in -1 .. 1 : x + dx \in Int /\ y + dy \in Int
    BY <2>1
  <2> QED
    BY <2>2, ClampedType DEF Mutations, Point
<1>4. Mutations(<<q[1], p[2]>>) \subseteq Point /\ Mutations(<<p[1], q[2]>>) \subseteq Point
  BY <1>2, <1>3 DEF Point
<1> QED
  BY <1>1, <1>4

LEMMA GenerationsType ==
    ASSUME NEW S, NEW g \in Generations(S)
    PROVE  g \subseteq S /\ Cardinality(g) <= PopulationSize
<1>1. PICK vector \in [1 .. PopulationSize -> S] : g = Range(vector)
  BY DEF Generations
<1>2. vector \in Surjection(1 .. PopulationSize, g)
  BY <1>1 DEF Surjection, Range
<1> QED
  BY <1>1, <1>2, GeneticAssumption, FS_SurjCardinalityBound DEF ExistsSurjection, Range

LEMMA NewGenerationType ==
    ASSUME NEW points \in SUBSET Point, NEW g \in NewGenerations(points)
    PROVE  g \subseteq Point /\ Cardinality(g) <= PopulationSize
<1> DEFINE n == PopulationSize \div 2
<1>1. n \in Nat /\ n >= 1 /\ PopulationSize = n + n /\ PopulationSize \in Nat
  BY GeneticAssumption
<1>2. PICK pairs \in [1 .. n -> Pairs(points)] : g = UNION {pairs[i] : i \in 1 .. n}
  BY DEF NewGenerations
<1> HIDE DEF n
<1>3. \A i \in 1 .. n : \E a, b \in Point : pairs[i] = {a, b}
  BY <1>2, PairsType
<1> DEFINE first == [i \in 1 .. n |-> CHOOSE a \in Point : \E b \in Point : pairs[i] = {a, b}]
           second == [i \in 1 .. n |-> CHOOSE b \in Point : pairs[i] = {first[i], b}]
           all == [k \in 1 .. PopulationSize |-> IF k <= n THEN first[k] ELSE second[k - n]]
<1>4. ASSUME NEW i \in 1 .. n
      PROVE  first[i] \in Point /\ second[i] \in Point /\ pairs[i] = {first[i], second[i]}
  BY <1>3
<1> HIDE DEF first, second
<1>5. g \subseteq Point
  BY <1>2, <1>4
<1>6. all \in [1 .. PopulationSize -> g]
  <2> SUFFICES ASSUME NEW k \in 1 .. PopulationSize
               PROVE  (IF k <= n THEN first[k] ELSE second[k - n]) \in g
    OBVIOUS
  <2>1. (k <= n => k \in 1 .. n) /\ (~(k <= n) => k - n \in 1 .. n)
    BY <1>1
  <2> QED
    BY <1>2, <1>4, <2>1
<1>7. ASSUME NEW p \in g PROVE \E k \in 1 .. PopulationSize : all[k] = p
  <2>1. PICK i \in 1 .. n : p \in pairs[i]
    BY <1>2
  <2>2. CASE p = first[i]
    <3>1. i \in 1 .. PopulationSize /\ all[i] = p
      BY <1>1, <2>2
    <3> QED
      BY <3>1
  <2>3. CASE p = second[i]
    <3>1. i + n \in 1 .. PopulationSize /\ ~(i + n <= n) /\ (i + n) - n = i
      BY <1>1
    <3>2. all[i + n] = second[(i + n) - n]
      BY <3>1, Zenon
    <3> QED
      BY <2>3, <3>1, <3>2
  <2> QED
    BY <1>4, <2>1, <2>2, <2>3
<1>8. all \in Surjection(1 .. PopulationSize, g)
  <2> HIDE DEF all
  <2> QED
    BY <1>6, <1>7 DEF Surjection
<1>9. Cardinality(g) <= PopulationSize
  BY <1>1, <1>8, FS_SurjCardinalityBound DEF ExistsSurjection
<1> QED
  BY <1>5, <1>9

LEMMA FiniteGenerations == \A g \in SUBSET Point : IsFiniteSet(g)
<1>1. IsFiniteSet(Coordinate)
  BY FS_Interval, GridAssumption DEF Coordinate
<1>2. IsFiniteSet(Point)
  BY <1>1, FS_Product DEF Point
<1> QED
  BY <1>2, FS_Subset

-----------------------------------------------------------------------------
(* Types *)

SceneTypes ==
    /\ pose \in FreeState
    /\ phase \in {"centre", "between", "ahead", "turned"}
    /\ offset \in -3 .. 3
    /\ obstacle \in BOOLEAN
    /\ astray \in BOOLEAN

ProgramTypes ==
    /\ connected \in BOOLEAN
    /\ comando \in {Unset, NoCommand, 0, WALK, RIGHT, LEFT}
    /\ reading \in Reading
    /\ origin \in Place
    /\ turn \in {"none", "right", "left"}
    /\ motors \in {"stop", "straight", "bearRight", "bearLeft", "right", "left"}

FinderTypes ==
    /\ population \subseteq Point /\ Cardinality(population) <= PopulationSize
    /\ path \in Seq(FreeState)

PlaceTypes ==
    pc \in Loops \cup {"select", "evolving", "best", "found", "handles", "top", "endPass",
                       "returned", "finished", "undefined"}

LEMMA TypeParts == TypeOK <=> SceneTypes /\ ProgramTypes /\ FinderTypes /\ PlaceTypes
BY DEF TypeOK, SceneTypes, ProgramTypes, FinderTypes, PlaceTypes

LEMMA TypePartsNext == SceneTypes' /\ ProgramTypes' /\ FinderTypes' /\ PlaceTypes' => TypeOK'
BY DEF TypeOK, SceneTypes, ProgramTypes, FinderTypes, PlaceTypes

LEMMA TypeInit == Init => TypeOK
<1> SUFFICES ASSUME Init PROVE TypeOK
  OBVIOUS
<1>1. Cardinality({}) = 0 /\ PopulationSize \in Nat
  BY FS_EmptySet, GeneticAssumption
<1>2. <<>> \in Seq(FreeState)
  BY EmptySeq
<1>3. FinderTypes /\ PlaceTypes
  BY <1>1, <1>2 DEF Init, FinderTypes, PlaceTypes
<1>4. reading \in Reading
  BY DEF Init, Reading, Place
<1>5. ProgramTypes
  BY <1>4 DEF Init, ProgramTypes, Place
<1>6. SceneTypes
  <2>1. 0 \in -3 .. 3 /\ Start \in FreeState
    BY GeneticAssumption
  <2> QED
    BY <2>1 DEF Init, SceneTypes
<1> QED
  BY <1>3, <1>5, <1>6, TypeParts

\* A robot that goes astray.
LEMMA AstrayTypes ==
    ASSUME SceneTypes, GoAstray \/ UNCHANGED <<sceneVars, astray>>
    PROVE  SceneTypes'
<1>1. CASE GoAstray
  <2>1. 0 \in -3 .. 3 /\ Start \in FreeState
    BY GeneticAssumption
  <2> QED
    BY <1>1, <2>1 DEF GoAstray, SceneTypes
<1>2. CASE UNCHANGED <<sceneVars, astray>>
  BY <1>2 DEF sceneVars, SceneTypes
<1> QED
  BY <1>1, <1>2

LEMMA ReadType ==
    ASSUME TypeOK, NEW r \in Readable
    PROVE  r \in Reading
<1>1. reading \in Reading /\ phase \in Place /\ obstacle \in BOOLEAN
  BY DEF TypeOK, Place
<1>2. SensedLine \subseteq Sensor
  <2>1. CASE phase = "centre"
    BY <2>1 DEF SensedLine, Sensor
  <2>2. CASE phase = "between"
    BY <2>2 DEF SensedLine, Sensor
  <2>3. CASE phase = "ahead"
    BY <2>3 DEF SensedLine, Sensor
  <2>4. CASE phase = "turned"
    BY <2>4 DEF SensedLine, Sensor
  <2> QED
    BY <2>1, <2>2, <2>3, <2>4 DEF TypeOK
<1>3. Sensed \subseteq Reading
  <2>1. CASE astray
    <3>1. Sensed = [place : {"centre", "turned"}, line : {{}, {"M"}, Sensor}, obstacle : BOOLEAN]
      BY <2>1 DEF Sensed
    <3>2. {"centre", "turned"} \subseteq Place /\ {{}, {"M"}, Sensor} \subseteq SUBSET Sensor
      BY DEF Place, Sensor
    <3> QED
      BY <3>1, <3>2 DEF Reading
  <2>2. CASE ~astray
    <3>1. Sensed = {[place |-> phase, line |-> SensedLine, obstacle |-> obstacle]}
      BY <2>2 DEF Sensed
    <3> QED
      BY <1>1, <1>2, <3>1 DEF Reading
  <2> QED
    BY <2>1, <2>2
<1> QED
  BY <1>1, <1>3 DEF Readable

LEMMA TypeBegin ==
    ASSUME TypeOK, PlanInv, PlanInv', NEW r \in Readable, BeginPass(r)
    PROVE  TypeOK'
<1>1. IsPlan(path) /\ path' \in Seq(FreeState)
  BY DEF PlanInv, PathInv, Planned, Loops, BeginPass, IsPlan
<1>2. r \in Reading
  BY ReadType
<1>3. comando' \in {NoCommand, 0, WALK, RIGHT, LEFT}
  <2>1. Len(path) \in Nat
    BY <1>1, LenProperties DEF IsPlan
  <2> QED
    BY <1>1, <2>1, NextCommandIs DEF BeginPass, NextCommand
<1>4. SceneTypes'
  BY AstrayTypes, TypeParts DEF BeginPass
<1>5. r.place \in Place /\ pc' \in Loops \cup {"endPass"}
  BY <1>2 DEF Reading, BeginPass, Loops
<1>6. ProgramTypes'
  BY <1>2, <1>3, <1>5, TypeParts DEF BeginPass, ProgramTypes
<1>7. FinderTypes' /\ PlaceTypes'
  BY <1>1, <1>5, TypeParts DEF BeginPass, FinderTypes, PlaceTypes
<1> QED
  BY <1>4, <1>6, <1>7, TypeParts, TypePartsNext

\* What the loops change.
LEMMA TypeLoop ==
    ASSUME TypeOK, NEW r \in Readable,
           \/ LeaveJunction(r) \/ FollowLine(r) \/ ReachLine(r)
           \/ TurnAway(r) \/ LeaveLine(r) \/ FindLine(r)
    PROVE  TypeOK'
<1>1. UNCHANGED <<population, path, connected, comando>>
  BY DEF LeaveJunction, FollowLine, ReachLine, TurnAway, LeaveLine, FindLine, rest, findVars
<1>2. pc' \in Loops \cup {"endPass"}
  BY DEF LeaveJunction, FollowLine, ReachLine, TurnAway, LeaveLine, FindLine, Body, Exit, Loops
<1>3. reading' \in {reading} \cup Readable
  <2>1. CASE FollowLine(r)
    BY <2>1, ReadsAgain DEF FollowLine, Body, Exit
  <2>2. CASE LeaveJunction(r) \/ ReachLine(r) \/ TurnAway(r) \/ LeaveLine(r) \/ FindLine(r)
    BY <2>2 DEF LeaveJunction, ReachLine, TurnAway, LeaveLine, FindLine, Body, Exit
  <2> QED
    BY <2>1, <2>2
<1>4. origin' \in {origin, reading.place}
  BY DEF LeaveJunction, FollowLine, ReachLine, TurnAway, LeaveLine, FindLine, Body, Exit
<1>5. turn' \in {turn, "right", "left"}
  BY DEF LeaveJunction, FollowLine, ReachLine, TurnAway, LeaveLine, FindLine, rest, Remembered
<1>6. motors' \in {motors, "straight", "bearRight", "bearLeft", "right", "left"}
  BY DEF LeaveJunction, FollowLine, ReachLine, TurnAway, LeaveLine, FindLine, Body, Exit,
         Steered, Spin
<1>7. SceneTypes'
  <2>1. GoAstray \/ UNCHANGED <<sceneVars, astray>>
    BY DEF LeaveJunction, FollowLine, ReachLine, TurnAway, LeaveLine, FindLine, rest
  <2> QED
    BY <2>1, AstrayTypes, TypeParts
<1>8. Readable \subseteq Reading /\ reading \in Reading /\ reading.place \in Place
  BY ReadType DEF TypeOK, Reading
<1>9. ProgramTypes'
  BY <1>1, <1>3, <1>4, <1>5, <1>6, <1>8, TypeParts DEF ProgramTypes
<1>10. FinderTypes' /\ PlaceTypes'
  BY <1>1, <1>2, TypeParts DEF FinderTypes, PlaceTypes
<1> QED
  BY <1>7, <1>9, <1>10, TypeParts, TypePartsNext

LEMMA TypeFind ==
    ASSUME TypeOK, PlanInv', SelectPathFinder \/ Breed \/ FindPath
    PROVE  TypeOK'
<1>1. UNCHANGED driveVars
  BY DEF SelectPathFinder, Breed, FindPath, driveVars
<1>2. PopulationSize \in Nat /\ PopulationSize >= 1
  BY GeneticAssumption
<1>3. population' \subseteq Point /\ Cardinality(population') <= PopulationSize
  <2>1. CASE SelectPathFinder
    <3>1. population' = population \/ population' \in InitializePopulation
      BY <2>1 DEF SelectPathFinder, findVars
    <3>2. (0 .. InitialRange - 1) \X (0 .. InitialRange - 1) \subseteq Point
      BY GeneticAssumption, GridAssumption DEF Point, Coordinate
    <3> QED
      BY <3>1, <3>2, GenerationsType DEF TypeOK, InitializePopulation
  <2>2. CASE Breed
    BY <2>2, NewGenerationType DEF Breed, CreateNewGeneration, TypeOK
  <2>3. CASE SelectBest
    <3>1. PICK p \in population : population' = {p}
      BY <2>3 DEF SelectBest, Select
    <3>2. Cardinality({p}) = 1
      BY FS_Singleton
    <3> QED
      BY <1>2, <3>1, <3>2 DEF TypeOK
  <2>4. CASE FindPathGoingThrough
    BY <1>2, <2>4, FS_EmptySet DEF FindPathGoingThrough
  <2> QED
    BY <2>1, <2>2, <2>3, <2>4 DEF FindPath
<1>4. path' \in Seq(FreeState)
  <2>1. UNCHANGED path \/ pc' = "found"
    BY DEF SelectPathFinder, Breed, FindPath, CreateNewGeneration, SelectBest, Select,
           FindPathGoingThrough, findVars
  <2> QED
    BY <2>1 DEF TypeOK, PlanInv, PathInv, Planned, IsPlan
<1>5. pc' \in {"found", "evolving", "best", "undefined"}
  BY DEF SelectPathFinder, Breed, FindPath, CreateNewGeneration, SelectBest, Select,
         FindPathGoingThrough
<1>6. SceneTypes' /\ ProgramTypes'
  BY <1>1, TypeParts DEF SceneTypes, ProgramTypes, driveVars, sceneVars
<1> QED
  BY <1>3, <1>4, <1>5, <1>6, TypeParts, TypePartsNext DEF FinderTypes, PlaceTypes

LEMMA TypeOther ==
    ASSUME TypeOK, PlanInv',
           \/ Connect \/ ReturnEarly \/ EndPass \/ Finish
           \/ \E robot, leftMotor, rightMotor \in BOOLEAN, ultrasonic, vision \in 0 .. 5 :
                  GetHandles(robot, ultrasonic, vision, leftMotor, rightMotor)
    PROVE  TypeOK'
<1>1. CASE Connect
  <2>1. reading' \in Reading
    BY <1>1 DEF Connect, Uninitialised, Reading, Place
  <2> QED
    BY <1>1, <2>1 DEF Connect, TypeOK, findVars, sceneVars
<1>2. CASE ReturnEarly \/ Finish
  BY <1>2 DEF ReturnEarly, Finish, TypeOK, findVars, sceneVars
<1>3. CASE EndPass
  BY <1>3 DEF EndPass, TypeOK, findVars, sceneVars
<1>4. ASSUME NEW robot, NEW leftMotor, NEW rightMotor, NEW ultrasonic, NEW vision,
             GetHandles(robot, ultrasonic, vision, leftMotor, rightMotor)
      PROVE  TypeOK'
  <2>1. /\ pc' = "top" /\ (GoAstray \/ UNCHANGED <<sceneVars, astray>>)
        /\ UNCHANGED <<findVars, connected, comando, reading, origin, turn, motors>>
    BY <1>4 DEF GetHandles
  <2>2. SceneTypes'
    BY <2>1, AstrayTypes, TypeParts
  <2> QED
    BY <2>1, <2>2, TypeParts, TypePartsNext DEF ProgramTypes, FinderTypes, PlaceTypes, findVars
<1> QED
  BY <1>1, <1>2, <1>3, <1>4

LEMMA TypeRobot ==
    ASSUME TypeOK, PlanInv', Advance \/ Drift \/ Bear \/ Rotate \/ Obstruct \/ Disconnect
    PROVE  TypeOK'
<1>1. pose' \in FreeState
  BY DEF PlanInv, PathInv
<1>2. UNCHANGED <<findVars, pc, comando, reading, origin, turn, motors>> /\ connected' \in BOOLEAN
  BY DEF Advance, Drift, Bear, Rotate, Obstruct, Disconnect, programVars, TypeOK
<1>3. phase' \in {phase, "centre", "between", "ahead", "turned"}
  BY DEF Advance, Drift, Bear, Rotate, Obstruct, Disconnect, GoAstray, sceneVars
<1>4. obstacle' \in BOOLEAN /\ astray' \in BOOLEAN
  BY DEF Advance, Drift, Bear, Rotate, Obstruct, Disconnect, GoAstray, sceneVars, TypeOK
<1>5. offset' \in -3 .. 3
  <2>1. CASE Bear
    BY <2>1 DEF Bear, TypeOK
  <2>2. CASE Advance \/ Drift \/ Rotate \/ Obstruct \/ Disconnect
    <3>1. offset' \in {offset, 0} \/ offset' \in -3 .. 3
      BY <2>2 DEF Advance, Drift, Rotate, Obstruct, Disconnect, GoAstray, sceneVars
    <3> QED
      BY <3>1 DEF TypeOK
  <2> QED
    BY <2>1, <2>2
<1>6. SceneTypes'
  BY <1>1, <1>3, <1>4, <1>5 DEF SceneTypes, TypeOK
<1> QED
  BY <1>2, <1>6, TypeParts, TypePartsNext DEF ProgramTypes, FinderTypes, PlaceTypes, findVars

LEMMA TypeNext == TypeOK /\ PlanInv /\ PlanInv' /\ [Next]_vars => TypeOK'
<1> SUFFICES ASSUME TypeOK, PlanInv, PlanInv', [Next]_vars PROVE TypeOK'
  OBVIOUS
<1>1. CASE UNCHANGED vars
  BY <1>1 DEF vars, findVars, sceneVars, TypeOK
<1>2. CASE Next
  BY <1>2, TypeFind, TypeOther, TypeBegin, TypeLoop, TypeRobot DEF Next, Drive
<1> QED
  BY <1>1, <1>2

\* Every variable keeps its type; the points that are bred stay on the map and are never more
\* than the generation holds (GeneticAlgorithm.cpp, main.cpp).
THEOREM TypeCorrect == Spec => []TypeOK
BY TypeInit, TypeNext, PlanInit, PlanNext, PTL DEF Spec

-----------------------------------------------------------------------------
(* Distances *)

LEMMA SquareMonotone == \A a, b \in Nat : a <= b => a * a <= b * b
<1> SUFFICES ASSUME NEW a \in Nat, NEW b \in Nat, a <= b PROVE a * a <= b * b
  OBVIOUS
<1>1. PICK c \in Nat : b = a + c
  <2>1. b - a \in Nat /\ b = a + (b - a)
    OBVIOUS
  <2> QED
    BY <2>1
<1>2. (a + c) * (a + c) = a * a + (2 * (a * c) + c * c)
  BY SMT
<1>3. a * c \in Nat /\ c * c \in Nat
  BY SMT
<1> QED
  BY <1>1, <1>2, <1>3

\* Every number has an integer root.
LEMMA Root ==
    ASSUME NEW q \in Nat, NEW m \in Nat, q < (m + 1) * (m + 1)
    PROVE  \E d \in 0 .. m : d * d <= q /\ q < (d + 1) * (d + 1)
<1> DEFINE S == {k \in Nat : q < (k + 1) * (k + 1) =>
                                 \E d \in 0 .. k : d * d <= q /\ q < (d + 1) * (d + 1)}
<1>1. 0 \in S
  <2>1. q < (0 + 1) * (0 + 1) => 0 * 0 <= q /\ q < (0 + 1) * (0 + 1)
    OBVIOUS
  <2>2. 0 \in 0 .. 0
    OBVIOUS
  <2> QED
    BY <2>1, <2>2
<1>2. ASSUME NEW k \in Nat, k \in S PROVE k + 1 \in S
  <2> SUFFICES ASSUME q < ((k + 1) + 1) * ((k + 1) + 1)
               PROVE  \E d \in 0 .. k + 1 : d * d <= q /\ q < (d + 1) * (d + 1)
    OBVIOUS
  <2>1. CASE q < (k + 1) * (k + 1)
    <3>1. PICK d \in 0 .. k : d * d <= q /\ q < (d + 1) * (d + 1)
      BY <1>2, <2>1
    <3>2. d \in 0 .. k + 1
      OBVIOUS
    <3> QED
      BY <3>1, <3>2
  <2>2. CASE ~(q < (k + 1) * (k + 1))
    <3>1. k + 1 \in 0 .. k + 1 /\ (k + 1) * (k + 1) <= q
      BY <2>2
    <3> QED
      BY <3>1
  <2> QED
    BY <2>1, <2>2
<1>3. m \in S
  <2> HIDE DEF S
  <2> QED
    BY <1>1, <1>2, Induction
<1> QED
  BY <1>3

LEMMA DistanceType == \A s \in State, p \in Point : Distance(s, p) \in Nat
<1> SUFFICES ASSUME NEW s \in State, NEW p \in Point PROVE Distance(s, p) \in Nat
  OBVIOUS
<1> DEFINE dx == p[1] - s.x
           dy == p[2] - s.y
           M == MapSize
<1>1. dx \in Int /\ dy \in Int /\ -M <= dx /\ dx <= M /\ -M <= dy /\ dy <= M /\ M \in Nat
  BY GridAssumption DEF Point, State, Coordinate
<1> HIDE DEF dx, dy, M
<1>2. ASSUME NEW d \in Int, -M <= d, d <= M PROVE d * d \in Nat /\ d * d <= M * M
  <2>1. CASE d >= 0
    <3>1. d \in Nat
      BY <2>1
    <3> QED
      BY <1>1, <1>2, <3>1, SquareMonotone
  <2>2. CASE d < 0
    <3>1. -d \in Nat /\ -d <= M /\ (-d) * (-d) = d * d
      BY <1>1, <1>2, <2>2
    <3>2. (-d) * (-d) <= M * M
      BY <1>1, <3>1, SquareMonotone
    <3>3. (-d) * (-d) \in Nat
      BY <3>1
    <3> QED
      BY <3>1, <3>2, <3>3
  <2> QED
    BY <2>1, <2>2
<1>3. dx * dx \in Nat /\ dx * dx <= M * M /\ dy * dy \in Nat /\ dy * dy <= M * M
  BY <1>1, <1>2
<1>4. (2 * M + 1) * (2 * M + 1) = 4 * (M * M) + 4 * M + 1
  BY <1>1
<1>5. M * M \in Nat
  BY <1>1
<1>6. dx * dx + dy * dy \in Nat /\ dx * dx + dy * dy < (2 * M + 1) * (2 * M + 1)
  BY <1>1, <1>3, <1>4, <1>5
<1>7. \E d \in 0 .. 2 * M : d * d <= dx * dx + dy * dy /\ dx * dx + dy * dy < (d + 1) * (d + 1)
  <2>1. 2 * M \in Nat
    BY <1>1
  <2> QED
    BY <1>6, <2>1, Root
<1>8. Distance(s, p) = CHOOSE d \in 0 .. 2 * M :
          d * d <= dx * dx + dy * dy /\ dx * dx + dy * dy < (d + 1) * (d + 1)
  BY DEF Distance, dx, dy, M
<1>9. Distance(s, p) \in 0 .. 2 * M
  BY <1>7, <1>8
<1> QED
  BY <1>1, <1>9

\* A set of natural numbers has a least one.
LEMMA Least ==
    ASSUME NEW S \in SUBSET Nat, S # {}
    PROVE  Min(S) \in S
<1> DEFINE L == {n \in Nat : (\E x \in S : x <= n) => \E x \in S : \A y \in S : x <= y}
<1>1. 0 \in L
  OBVIOUS
<1>2. ASSUME NEW n \in Nat, n \in L PROVE n + 1 \in L
  <2> SUFFICES ASSUME NEW x \in S, x <= n + 1 PROVE \E z \in S : \A y \in S : z <= y
    OBVIOUS
  <2>1. CASE \E z \in S : z <= n
    BY <1>2, <2>1
  <2>2. CASE ~\E z \in S : z <= n
    <3>1. \A y \in S : x <= y
      BY <2>2
    <3> QED
      BY <3>1
  <2> QED
    BY <2>1, <2>2
<1>3. Nat \subseteq L
  <2> HIDE DEF L
  <2> QED
    BY <1>1, <1>2, Induction
<1>4. \E x \in S : \A y \in S : x <= y
  <2>1. PICK x \in S : x \in Nat
    OBVIOUS
  <2>2. x \in L
    BY <1>3, <2>1
  <2> QED
    BY <2>1, <2>2
<1> QED
  BY <1>4 DEF Min

LEMMA FitnessType == \A p \in Point : Fitness(p) \in Nat
<1> SUFFICES ASSUME NEW p \in Point PROVE Fitness(p) \in Nat
  OBVIOUS
<1> DEFINE near == {INF} \cup {Distance(e, p) : e \in Ends}
<1>1. Start \in State /\ Ends \subseteq State
  BY GeneticAssumption DEF FreeState
<1>2. near \in SUBSET Nat /\ near # {}
  BY <1>1, DistanceType DEF INF
<1>3. Min(near) \in Nat
  <2> HIDE DEF near
  <2> QED
    BY <1>2, Least
<1>4. Distance(Start, p) \in Nat
  BY <1>1, DistanceType
<1>5. Abs(Distance(Start, p) - Min(near)) \in Nat
  <2> HIDE DEF near
  <2> QED
    BY <1>3, <1>4 DEF Abs
<1> QED
  BY <1>5 DEF Fitness, INF

-----------------------------------------------------------------------------
(* The sum over a generation *)

Picked(s) == CHOOSE x \in s : TRUE

\* f is the sum of the fitness over each of the sets.
Sums(f, sets) ==
    /\ f \in [sets -> Nat]
    /\ \A s \in sets : f[s] = IF s = {} THEN 0 ELSE Fitness(Picked(s)) + f[s \ {Picked(s)}]

LEMMA SumsExist ==
    ASSUME NEW points \in SUBSET Point
    PROVE  \E f : Sums(f, SUBSET points)
<1> DEFINE Small(n) == {s \in SUBSET points : Cardinality(s) <= n}
           S == {n \in Nat : \E f : Sums(f, Small(n))}
<1>0. ASSUME NEW s \in SUBSET points
      PROVE  Cardinality(s) \in Nat /\ (Cardinality(s) = 0 <=> s = {})
  BY FiniteGenerations, FS_CardinalityType, FS_EmptySet
<1>1. ASSUME NEW s \in SUBSET points, s # {}
      PROVE  /\ Picked(s) \in s /\ Fitness(Picked(s)) \in Nat
             /\ s \ {Picked(s)} \in SUBSET points
             /\ Cardinality(s \ {Picked(s)}) = Cardinality(s) - 1
  <2>1. IsFiniteSet(s)
    BY FiniteGenerations
  <2>2. Picked(s) \in s
    BY <1>1 DEF Picked
  <2>3. Fitness(Picked(s)) \in Nat
    BY <2>2, FitnessType
  <2>4. Cardinality(s \ {Picked(s)}) = Cardinality(s) - 1
    BY <2>1, <2>2, FS_RemoveElement
  <2> QED
    BY <2>2, <2>3, <2>4
<1>2. 0 \in S
  <2> DEFINE f == [s \in Small(0) |-> 0]
  <2>1. ASSUME NEW s \in Small(0) PROVE s = {}
    <3>1. s \in SUBSET points /\ Cardinality(s) <= 0
      OBVIOUS
    <3>2. Cardinality(s) \in Nat /\ (Cardinality(s) = 0 <=> s = {})
      BY <1>0, <3>1
    <3> QED
      BY <3>1, <3>2
  <2>2. Sums(f, Small(0))
    <3>1. f \in [Small(0) -> Nat]
      OBVIOUS
    <3>2. \A s \in Small(0) : f[s] = 0
      OBVIOUS
    <3> HIDE DEF f, Small
    <3> QED
      BY <2>1, <3>1, <3>2 DEF Sums
  <2> QED
    BY <2>2
<1>3. ASSUME NEW n \in Nat, n \in S PROVE n + 1 \in S
  <2>1. PICK g : Sums(g, Small(n))
    BY <1>3
  <2> DEFINE f == [s \in Small(n + 1) |->
                      IF Cardinality(s) <= n THEN g[s]
                      ELSE Fitness(Picked(s)) + g[s \ {Picked(s)}]]
  <2>2. ASSUME NEW s \in Small(n + 1)
        PROVE  /\ f[s] \in Nat
               /\ f[s] = IF s = {} THEN 0 ELSE Fitness(Picked(s)) + f[s \ {Picked(s)}]
    <3> DEFINE t == s \ {Picked(s)}
    <3>1. s # {} => t \in Small(n) /\ t \in Small(n + 1) /\ Cardinality(t) <= n
      BY <1>0, <1>1
    <3>2. s # {} => f[t] = g[t] /\ g[t] \in Nat
      <4>1. s # {} => f[t] = g[t]
        BY <3>1
      <4>2. g \in [Small(n) -> Nat]
        BY <2>1 DEF Sums
      <4> HIDE DEF Small, f, t
      <4> QED
        BY <3>1, <4>1, <4>2
    <3>3. CASE Cardinality(s) <= n
      <4>1. s \in Small(n) /\ f[s] = g[s]
        BY <3>3
      <4>2. g[s] \in Nat /\ g[s] = IF s = {} THEN 0 ELSE Fitness(Picked(s)) + g[t]
        <5> HIDE DEF Small, f
        <5> QED
          BY <2>1, <4>1 DEF Sums
      <4> HIDE DEF Small, f, t
      <4> QED
        BY <3>2, <4>1, <4>2 DEF t
    <3>4. CASE ~(Cardinality(s) <= n)
      <4>1. s # {} /\ Fitness(Picked(s)) \in Nat
        <5>1. s \in SUBSET points /\ Cardinality(s) \in Nat
          BY <1>0
        <5>2. Cardinality(s) # 0
          BY <3>4, <5>1
        <5>3. s # {}
          BY <1>0, <5>1, <5>2
        <5> QED
          BY <1>1, <5>1, <5>3
      <4>2. f[s] = Fitness(Picked(s)) + g[t]
        BY <3>4
      <4> HIDE DEF Small, f, t
      <4> QED
        BY <3>2, <4>1, <4>2 DEF t
    <3> QED
      BY <3>3, <3>4
  <2>3. f \in [Small(n + 1) -> Nat]
    <3>1. f = [s \in Small(n + 1) |-> f[s]]
      OBVIOUS
    <3> HIDE DEF f, Small
    <3> QED
      BY <2>2, <3>1
  <2>4. Sums(f, Small(n + 1))
    <3> HIDE DEF f, Small
    <3> QED
      BY <2>2, <2>3 DEF Sums
  <2> QED
    <3> HIDE DEF f, Small
    <3> QED
      BY <2>4
<1>4. Cardinality(points) \in S
  <2>1. Cardinality(points) \in Nat
    BY <1>0
  <2> HIDE DEF S
  <2> QED
    BY <1>2, <1>3, <2>1, Induction
<1>5. Small(Cardinality(points)) = SUBSET points
  <2>1. ASSUME NEW s \in SUBSET points PROVE Cardinality(s) <= Cardinality(points)
    BY FiniteGenerations, FS_Subset
  <2> QED
    BY <2>1
<1> QED
  BY <1>4, <1>5

\* EvaluatePopulation adds up the points one by one.
LEMMA SumRecursion ==
    ASSUME NEW points \in SUBSET Point
    PROVE  \E sum :
              /\ EvaluatePopulation(points) = sum[points]
              /\ \A s \in SUBSET points :
                    sum[s] = IF s = {} THEN 0 ELSE Fitness(Picked(s)) + sum[s \ {Picked(s)}]
<1> DEFINE Solution(f) == [s \in SUBSET points |->
                              IF s = {} THEN 0 ELSE Fitness(Picked(s)) + f[s \ {Picked(s)}]]
           sum == CHOOSE f : f = Solution(f)
<1>1. EvaluatePopulation(points) = sum[points]
  BY DEF EvaluatePopulation, MapThenSumSet, MapThenFoldSet, Picked
<1>2. PICK f : Sums(f, SUBSET points)
  BY SumsExist
<1>3. f = Solution(f)
  BY <1>2 DEF Sums
<1>4. sum = Solution(sum)
  <2> HIDE DEF Solution
  <2> QED
    BY <1>3
<1>5. ASSUME NEW s \in SUBSET points
      PROVE  sum[s] = IF s = {} THEN 0 ELSE Fitness(Picked(s)) + sum[s \ {Picked(s)}]
  <2> HIDE DEF sum
  <2> QED
    BY <1>4
<1> HIDE DEF sum
<1> QED
  BY <1>1, <1>5

\* A generation is fit only when each of its points is.
LEMMA FitEach ==
    ASSUME NEW points \in SUBSET Point, IsFit(points), NEW p \in points
    PROVE  Fitness(p) < INF
<1>1. PICK sum :
          /\ EvaluatePopulation(points) = sum[points]
          /\ \A s \in SUBSET points :
                sum[s] = IF s = {} THEN 0 ELSE Fitness(Picked(s)) + sum[s \ {Picked(s)}]
  BY SumRecursion
<1>5. ASSUME NEW s \in SUBSET points
      PROVE  sum[s] = IF s = {} THEN 0 ELSE Fitness(Picked(s)) + sum[s \ {Picked(s)}]
  BY <1>1
<1> DEFINE S == {n \in Nat : \A s \in SUBSET points :
                     Cardinality(s) = n => sum[s] \in Nat /\ \A q \in s : Fitness(q) <= sum[s]}
<1>6. \A s \in SUBSET points : IsFiniteSet(s) /\ Cardinality(s) \in Nat
  BY FiniteGenerations, FS_CardinalityType
<1>7. 0 \in S
  <2> SUFFICES ASSUME NEW s \in SUBSET points, Cardinality(s) = 0
               PROVE  sum[s] \in Nat /\ \A q \in s : Fitness(q) <= sum[s]
    OBVIOUS
  <2>1. s = {}
    BY <1>6, FS_EmptySet
  <2> QED
    BY <1>5, <2>1
<1>8. ASSUME NEW n \in Nat, n \in S PROVE n + 1 \in S
  <2> SUFFICES ASSUME NEW s \in SUBSET points, Cardinality(s) = n + 1
               PROVE  sum[s] \in Nat /\ \A q \in s : Fitness(q) <= sum[s]
    OBVIOUS
  <2>1. s # {}
    BY FS_EmptySet
  <2>2. Picked(s) \in s /\ Fitness(Picked(s)) \in Nat
    BY <2>1, FitnessType DEF Picked
  <2> DEFINE t == s \ {Picked(s)}
  <2>3. t \in SUBSET points /\ Cardinality(t) = n
    BY <1>6, <2>2, FS_RemoveElement
  <2>4. sum[t] \in Nat /\ \A q \in t : Fitness(q) <= sum[t]
    BY <1>8, <2>3
  <2>5. sum[s] = Fitness(Picked(s)) + sum[t]
    BY <1>5, <2>1
  <2>6. ASSUME NEW q \in s PROVE Fitness(q) <= sum[s]
    <3>1. CASE q = Picked(s)
      BY <2>2, <2>4, <2>5, <3>1
    <3>2. CASE q \in t
      <4>1. Fitness(q) \in Nat /\ Fitness(q) <= sum[t]
        BY <2>4, <3>2, FitnessType
      <4> QED
        BY <2>2, <2>4, <2>5, <4>1
    <3> QED
      BY <3>1, <3>2
  <2> QED
    BY <2>2, <2>4, <2>5, <2>6
<1>9. Nat \subseteq S
  <2> HIDE DEF S
  <2> QED
    BY <1>7, <1>8, Induction
<1>10. sum[points] \in Nat /\ Fitness(p) <= sum[points]
  BY <1>6, <1>9
<1>11. sum[points] < INF
  BY <1>1 DEF IsFit
<1>12. Fitness(p) \in Nat
  BY FitnessType
<1> QED
  BY <1>10, <1>11, <1>12 DEF INF

\* A generation of one point is fit when the point is.
LEMMA FitOne ==
    ASSUME NEW t \in Point, Fitness(t) < INF
    PROVE  IsFit({t})
<1>1. PICK sum :
          /\ EvaluatePopulation({t}) = sum[{t}]
          /\ \A s \in SUBSET {t} :
                sum[s] = IF s = {} THEN 0 ELSE Fitness(Picked(s)) + sum[s \ {Picked(s)}]
  BY SumRecursion
<1>2. Picked({t}) = t /\ {t} \ {t} = {}
  BY DEF Picked
<1>3. sum[{}] = 0 /\ sum[{t}] = Fitness(t) + sum[{}]
  BY <1>1, <1>2
<1> QED
  BY <1>1, <1>3, FitnessType DEF IsFit

-----------------------------------------------------------------------------
(* What can be bred *)

\* A point that has a neighbour is its own mate, and both their children become the neighbour.
LEMMA MovesTowards ==
    ASSUME NEW points \in SUBSET Point, NEW p \in points, NEW q \in Point,
           q[1] - p[1] \in -1 .. 1, q[2] - p[2] \in -1 .. 1
    PROVE  {q} \in NewGenerations(points)
<1>1. p \in Point /\ p = <<p[1], p[2]>> /\ q = <<q[1], q[2]>>
  BY DEF Point
<1>2. p[1] \in Int /\ p[2] \in Int /\ q[1] \in Coordinate /\ q[2] \in Coordinate
  BY <1>1 DEF Point, Coordinate
<1>3. \A n \in Coordinate : Clamped(n) = n
  <2> SUFFICES ASSUME NEW n \in Coordinate PROVE Clamped(n) = n
    OBVIOUS
  <2>1. n \in Int /\ 0 <= n /\ n <= MapSize - 1 /\ MapSize - 1 \in Int
    BY GridAssumption DEF Coordinate
  <2>2. Min({n, MapSize - 1}) = n
    BY <2>1, MaxMin
  <2>3. Max({0, n}) = n
    BY <2>1, MaxMin
  <2> QED
    BY <2>2, <2>3 DEF Clamped
<1>4. q \in Mutations(p)
  <2>1. p[1] + (q[1] - p[1]) = q[1] /\ p[2] + (q[2] - p[2]) = q[2]
    BY <1>2 DEF Coordinate
  <2>2. q = <<Clamped(p[1] + (q[1] - p[1])), Clamped(p[2] + (q[2] - p[2]))>>
    BY <1>1, <1>2, <1>3, <2>1
  <2> QED
    BY <2>2 DEF Mutations
<1>5. {q} \in Pairs(points)
  <2>1. Crossover(p, p)[1] = p /\ Crossover(p, p)[2] = p
    BY <1>1 DEF Crossover
  <2>2. <<p, p>> \in points \X points
    OBVIOUS
  <2>3. {q} \in {{a, b} : a \in Mutations(Crossover(p, p)[1]), b \in Mutations(Crossover(p, p)[2])}
    BY <1>4, <2>1
  <2> QED
    BY <2>2, <2>3 DEF Pairs
<1> DEFINE pairs == [i \in 1 .. PopulationSize \div 2 |-> {q}]
<1>6. pairs \in [1 .. PopulationSize \div 2 -> Pairs(points)]
  BY <1>5
<1>7. 1 \in 1 .. PopulationSize \div 2
  BY GeneticAssumption
<1>8. UNION {pairs[i] : i \in DOMAIN pairs} = {q}
  BY <1>7
<1> QED
  BY <1>6, <1>8 DEF NewGenerations

\* How far a coordinate has come on its way from a to b after i steps.
Towards(a, b, i) ==
    IF a <= b THEN IF a + i <= b THEN a + i ELSE b
              ELSE IF b <= a - i THEN a - i ELSE b

\* From every generation, whatever side of the wall it is on, a fit one can be bred, as long
\* as there is a point that sees the goal: after as many generations as the map has rows
\* less one, of which all but the last need not be fit.  Nothing can be bred from which no fit
\* generation can be bred any more (GeneticAlgorithm.cpp).
THEOREM FitIsBred ==
    ASSUME NEW points \in SUBSET Point, points # {}, NEW t \in Point, Fitness(t) < INF
    PROVE  \E generation \in [0 .. MapSize - 1 -> SUBSET Point] :
              /\ generation[0] = points
              /\ \A i \in 1 .. MapSize - 1 : generation[i] \in NewGenerations(generation[i - 1])
              /\ IsFit(generation[MapSize - 1])
<1>1. MapSize \in Nat /\ MapSize >= 1 /\ MapSize - 1 \in 0 .. MapSize - 1
  BY GridAssumption, GeneticAssumption
<1>2. PICK p \in points : TRUE
  OBVIOUS
<1>3. /\ p[1] \in 0 .. MapSize - 1 /\ p[2] \in 0 .. MapSize - 1
      /\ t[1] \in 0 .. MapSize - 1 /\ t[2] \in 0 .. MapSize - 1
      /\ t = <<t[1], t[2]>>
  BY DEF Point, Coordinate
<1> DEFINE at(i) == <<Towards(p[1], t[1], i), Towards(p[2], t[2], i)>>
           generation == [i \in 0 .. MapSize - 1 |-> IF i = 0 THEN points ELSE {at(i)}]
<1>4. ASSUME NEW a \in 0 .. MapSize - 1, NEW b \in 0 .. MapSize - 1, NEW i \in Nat
      PROVE  /\ Towards(a, b, i) \in 0 .. MapSize - 1
             /\ Towards(a, b, i + 1) - Towards(a, b, i) \in -1 .. 1
             /\ Towards(a, b, 0) = a
             /\ Towards(a, b, MapSize - 1) = b
  BY <1>1 DEF Towards
<1>5. ASSUME NEW i \in Nat PROVE at(i) \in Point
  BY <1>3, <1>4 DEF Point, Coordinate
<1>6. at(MapSize - 1) = t
  BY <1>1, <1>3, <1>4
<1>7. generation \in [0 .. MapSize - 1 -> SUBSET Point] /\ generation[0] = points
  <2> HIDE DEF at
  <2> QED
    BY <1>1, <1>5
<1>8. ASSUME NEW i \in 1 .. MapSize - 1
      PROVE  generation[i] \in NewGenerations(generation[i - 1])
  <2>1. i - 1 \in Nat /\ (i - 1) + 1 = i /\ i - 1 \in 0 .. MapSize - 1 /\ i \in 0 .. MapSize - 1
    BY <1>1
  <2>2. generation[i] = {at(i)} /\ at(i) \in Point
    BY <1>5, <2>1
  <2>3. ASSUME NEW q, q[1] = Towards(p[1], t[1], i - 1), q[2] = Towards(p[2], t[2], i - 1)
        PROVE  at(i)[1] - q[1] \in -1 .. 1 /\ at(i)[2] - q[2] \in -1 .. 1
    <3>1. /\ Towards(p[1], t[1], i) - Towards(p[1], t[1], i - 1) \in -1 .. 1
          /\ Towards(p[2], t[2], i) - Towards(p[2], t[2], i - 1) \in -1 .. 1
      BY <1>3, <1>4, <2>1
    <3>2. at(i)[1] = Towards(p[1], t[1], i) /\ at(i)[2] = Towards(p[2], t[2], i)
      OBVIOUS
    <3> QED
      BY <2>3, <3>1, <3>2
  <2>4. \E q \in generation[i - 1] :
            at(i)[1] - q[1] \in -1 .. 1 /\ at(i)[2] - q[2] \in -1 .. 1
    <3>1. CASE i = 1
      <4>1. p[1] = Towards(p[1], t[1], i - 1) /\ p[2] = Towards(p[2], t[2], i - 1)
        BY <1>3, <1>4, <3>1
      <4>2. p \in generation[i - 1]
        BY <1>7, <3>1
      <4> QED
        BY <2>3, <4>1, <4>2
    <3>2. CASE i # 1
      <4>1. generation[i - 1] = {at(i - 1)}
        BY <2>1, <3>2
      <4>2. /\ at(i - 1)[1] = Towards(p[1], t[1], i - 1)
            /\ at(i - 1)[2] = Towards(p[2], t[2], i - 1)
        OBVIOUS
      <4> QED
        BY <2>3, <4>1, <4>2
    <3> QED
      BY <3>1, <3>2
  <2>5. generation[i - 1] \in SUBSET Point
    BY <1>7, <2>1
  <2> HIDE DEF at, generation
  <2> QED
    BY <2>2, <2>4, <2>5, MovesTowards
<1>9. IsFit(generation[MapSize - 1])
  <2>1. CASE MapSize = 1
    <3>1. Point = {t}
      BY <1>3, <2>1 DEF Point, Coordinate
    <3>2. generation[MapSize - 1] = {t}
      BY <2>1, <3>1
    <3> QED
      BY <3>2, FitOne
  <2>2. CASE MapSize # 1
    <3>1. generation[MapSize - 1] = {t}
      BY <1>1, <1>6, <2>2
    <3> QED
      BY <3>1, FitOne
  <2> QED
    BY <2>1, <2>2
<1> HIDE DEF generation
<1> QED
  BY <1>7, <1>8, <1>9

-----------------------------------------------------------------------------
(* Lines *)

\* The vector from the point to the state, and its sides.
Width(p, s) == s.x - p[1]
Height(p, s) == s.y - p[2]
Longest(p, s) == Max({Abs(Width(p, s)), Abs(Height(p, s))})
Shortest(p, s) == Min({Abs(Width(p, s)), Abs(Height(p, s))})

\* The next cell of a line.
NextCell(p, s, c) ==
    LET n == c.numerator + Shortest(p, s)
        aside == IF Abs(Width(p, s)) <= Abs(Height(p, s)) THEN <<0, Sign(Height(p, s))>>
                 ELSE <<Sign(Width(p, s)), 0>>
    IN IF n >= Longest(p, s)
       THEN [x |-> c.x + Sign(Width(p, s)), y |-> c.y + Sign(Height(p, s)),
             numerator |-> n - Longest(p, s)]
       ELSE [x |-> c.x + aside[1], y |-> c.y + aside[2], numerator |-> n]

FirstCell(p, s) == [x |-> p[1], y |-> p[2], numerator |-> Longest(p, s) \div 2]

Cell == [x : Int, y : Int, numerator : Int]

\* cell is what the recursive definition in Line makes.
Draws(cell, p, s) ==
    /\ cell[0] = FirstCell(p, s)
    /\ \A i \in 1 .. Longest(p, s) : cell[i] = NextCell(p, s, cell[i - 1])

LEMMA Sides ==
    ASSUME NEW p \in Point, NEW s \in State
    PROVE  /\ Width(p, s) \in Int /\ Height(p, s) \in Int
           /\ Longest(p, s) = IF Abs(Width(p, s)) >= Abs(Height(p, s))
                              THEN Abs(Width(p, s)) ELSE Abs(Height(p, s))
           /\ Shortest(p, s) = IF Abs(Width(p, s)) <= Abs(Height(p, s))
                               THEN Abs(Width(p, s)) ELSE Abs(Height(p, s))
           /\ Longest(p, s) \in Nat /\ Shortest(p, s) \in Nat
           /\ p[1] \in Int /\ p[2] \in Int
           /\ FirstCell(p, s) \in Cell
           /\ \A c \in Cell : NextCell(p, s, c) \in Cell
<1>1. p[1] \in Int /\ p[2] \in Int /\ s.x \in Int /\ s.y \in Int
  BY DEF Point, State, Coordinate
<1>2. Width(p, s) \in Int /\ Height(p, s) \in Int
  BY <1>1 DEF Width, Height
<1>3. Abs(Width(p, s)) \in Nat /\ Abs(Height(p, s)) \in Nat
  BY <1>2 DEF Abs
<1>4. /\ Longest(p, s) = IF Abs(Width(p, s)) >= Abs(Height(p, s))
                         THEN Abs(Width(p, s)) ELSE Abs(Height(p, s))
      /\ Shortest(p, s) = IF Abs(Width(p, s)) <= Abs(Height(p, s))
                          THEN Abs(Width(p, s)) ELSE Abs(Height(p, s))
  BY <1>3, MaxMin DEF Longest, Shortest
<1>5. Longest(p, s) \in Nat /\ Shortest(p, s) \in Nat
  BY <1>3, <1>4
<1>6. Longest(p, s) \div 2 \in Int
  BY <1>5
<1>7. FirstCell(p, s) \in Cell
  BY <1>1, <1>6 DEF FirstCell, Cell
<1>8. Sign(Width(p, s)) \in Int /\ Sign(Height(p, s)) \in Int
  BY <1>2 DEF Sign
<1>9. ASSUME NEW c \in Cell PROVE NextCell(p, s, c) \in Cell
  BY <1>5, <1>8 DEF NextCell, Cell
<1> QED
  BY <1>1, <1>2, <1>4, <1>5, <1>7, <1>9

LEMMA LineDrawn ==
    ASSUME NEW p \in Point, NEW s \in State
    PROVE  \E cell : /\ Draws(cell, p, s)
                     /\ Line(p, s) = [i \in 0 .. Longest(p, s) |-> <<cell[i].x, cell[i].y>>]
<1> DEFINE n == Longest(p, s)
           Solution(r) == [i \in 0 .. n |-> IF i = 0 THEN FirstCell(p, s)
                                            ELSE NextCell(p, s, r[i - 1])]
           F == [d \in Cell \X (1 .. n) |-> NextCell(p, s, d[1])]
           cell == CHOOSE r : r = Solution(r)
<1>1. n \in Nat /\ FirstCell(p, s) \in Cell /\ \A c \in Cell : NextCell(p, s, c) \in Cell
  BY Sides
<1>2. Line(p, s) = [i \in 0 .. n |-> <<cell[i].x, cell[i].y>>]
  BY DEF Line, FirstCell, NextCell, Longest, Shortest, Width, Height
<1> HIDE DEF n
<1>3. Steps(F, Cell, n)
  <2> SUFFICES ASSUME NEW d \in Cell, NEW k \in 1 .. n PROVE F[<<d, k>>] \in Cell
    BY DEF Steps
  <2>1. <<d, k>> \in Cell \X (1 .. n) /\ F[<<d, k>>] = NextCell(p, s, d)
    OBVIOUS
  <2> QED
    BY <1>1, <2>1
<1>4. PICK f : Iterates(f, F, Cell, FirstCell(p, s), n)
  <2> HIDE DEF F
  <2> QED
    BY <1>1, <1>3, Recursion
<1>5. f = Solution(f)
  <2>1. ASSUME NEW k \in 0 .. n, k # 0 PROVE f[k] = NextCell(p, s, f[k - 1])
    <3>1. k \in 1 .. n /\ k - 1 \in 0 .. n
      BY <1>1, <2>1
    <3>2. <<f[k - 1], k>> \in Cell \X (1 .. n)
      BY <1>4, <3>1 DEF Iterates
    <3>3. f[k] = F[<<f[k - 1], k>>]
      BY <1>4, <3>1 DEF Iterates
    <3> QED
      BY <3>2, <3>3
  <2> HIDE DEF F
  <2> QED
    BY <1>1, <1>4, <2>1 DEF Iterates
<1>6. cell = Solution(cell)
  <2> HIDE DEF Solution
  <2> QED
    BY <1>5
<1>7. ASSUME NEW i \in 0 .. n
      PROVE  cell[i] = IF i = 0 THEN FirstCell(p, s) ELSE NextCell(p, s, cell[i - 1])
  <2> HIDE DEF cell
  <2> QED
    BY <1>6
<1>8. Draws(cell, p, s)
  <2> HIDE DEF cell
  <2>1. cell[0] = FirstCell(p, s)
    BY <1>1, <1>7
  <2>2. ASSUME NEW i \in 1 .. Longest(p, s) PROVE cell[i] = NextCell(p, s, cell[i - 1])
    <3>1. i \in 0 .. n /\ i # 0
      BY <1>1 DEF n
    <3> QED
      BY <1>7, <3>1
  <2> QED
    BY <2>1, <2>2 DEF Draws
<1> QED
  <2> HIDE DEF cell
  <2> QED
    BY <1>2, <1>8 DEF n

\* A line begins at its point.
LEMMA LineBegins ==
    ASSUME NEW p \in Point, NEW s \in State
    PROVE  0 \in DOMAIN Line(p, s) /\ Line(p, s)[0] = p
<1>1. PICK cell : /\ Draws(cell, p, s)
                  /\ Line(p, s) = [i \in 0 .. Longest(p, s) |-> <<cell[i].x, cell[i].y>>]
  BY LineDrawn
<1>2. 0 \in 0 .. Longest(p, s)
  BY Sides
<1>3. Line(p, s)[0] = <<p[1], p[2]>>
  BY <1>1, <1>2 DEF Draws, FirstCell
<1>4. p = <<p[1], p[2]>>
  BY DEF Point
<1> QED
  BY <1>1, <1>2, <1>3, <1>4

\* On a row, a column or a diagonal the line goes straight.
LEMMA StraightStep ==
    ASSUME NEW p \in Point, NEW s \in State, Aligned(p, s), Longest(p, s) > 0,
           NEW c \in Cell, c.numerator = Longest(p, s) \div 2
    PROVE  NextCell(p, s, c) = [x |-> c.x + Sign(Width(p, s)), y |-> c.y + Sign(Height(p, s)),
                                numerator |-> Longest(p, s) \div 2]
<1> DEFINE w == Width(p, s)
           h == Height(p, s)
           n == Longest(p, s)
<1>1. w \in Int /\ h \in Int /\ n \in Nat /\ n > 0
  BY Sides
<1>2. n \div 2 \in Nat /\ n \div 2 < n
  BY <1>1
<1>3. w = 0 \/ h = 0 \/ Abs(w) = Abs(h)
  <2>1. p[1] \in Int /\ p[2] \in Int /\ s.x \in Int /\ s.y \in Int
    BY DEF Point, State, Coordinate
  <2>2. Abs(p[1] - s.x) = Abs(s.x - p[1]) /\ Abs(p[2] - s.y) = Abs(s.y - p[2])
    BY <2>1 DEF Abs
  <2>3. p[1] = s.x => w = 0
    BY <2>1 DEF Width
  <2>4. p[2] = s.y => h = 0
    BY <2>1 DEF Height
  <2> QED
    BY <2>2, <2>3, <2>4 DEF Aligned, Width, Height
<1>4. CASE Abs(w) = Abs(h)
  <2>1. Shortest(p, s) = n
    BY <1>4, Sides
  <2> DEFINE m == c.numerator + Shortest(p, s)
  <2>2. m >= Longest(p, s) /\ m - Longest(p, s) = Longest(p, s) \div 2
    BY <1>1, <1>2, <2>1
  <2>3. NextCell(p, s, c) = IF m >= Longest(p, s)
                            THEN [x |-> c.x + Sign(Width(p, s)), y |-> c.y + Sign(Height(p, s)),
                                  numerator |-> m - Longest(p, s)]
                            ELSE NextCell(p, s, c)
    BY Zenon DEF NextCell
  <2> HIDE DEF m
  <2> QED
    BY <2>2, <2>3
<1>5. CASE w = 0 /\ Abs(w) # Abs(h)
  <2>1. Abs(w) = 0 /\ Abs(h) \in Nat /\ Abs(w) <= Abs(h) /\ Sign(w) = 0
    BY <1>1, <1>5 DEF Abs, Sign
  <2>2. Shortest(p, s) = 0
    BY <2>1, Sides
  <2>3. ~(c.numerator + 0 >= n) /\ c.numerator + 0 = n \div 2
    BY <1>1, <1>2
  <2> QED
    BY <2>1, <2>2, <2>3 DEF NextCell
<1>6. CASE h = 0 /\ Abs(w) # Abs(h)
  <2>1. Abs(h) = 0 /\ Abs(w) \in Nat /\ ~(Abs(w) <= Abs(h)) /\ Sign(h) = 0
    BY <1>1, <1>6 DEF Abs, Sign
  <2>2. Shortest(p, s) = 0
    BY <2>1, Sides
  <2>3. ~(c.numerator + 0 >= n) /\ c.numerator + 0 = n \div 2
    BY <1>1, <1>2
  <2> QED
    BY <2>1, <2>2, <2>3 DEF NextCell
<1> QED
  BY <1>3, <1>4, <1>5, <1>6

LEMMA LineIsStraight ==
    ASSUME NEW p \in Point, NEW s \in State, Aligned(p, s), NEW q \in Between(p, s)
    PROVE  \E i \in DOMAIN Line(p, s) : Line(p, s)[i] = q
<1> DEFINE n == Longest(p, s)
           dx == Sign(Width(p, s))
           dy == Sign(Height(p, s))
           at(i) == [x |-> p[1] + i * dx, y |-> p[2] + i * dy, numerator |-> n \div 2]
<1>1. PICK cell : /\ Draws(cell, p, s)
                  /\ Line(p, s) = [i \in 0 .. n |-> <<cell[i].x, cell[i].y>>]
  BY LineDrawn
<1>2. n \in Nat /\ p[1] \in Int /\ p[2] \in Int /\ dx \in {-1, 0, 1} /\ dy \in {-1, 0, 1}
  BY Sides DEF Sign
<1>3. PICK i \in 0 .. n : q = <<p[1] + i * dx, p[2] + i * dy>>
  BY DEF Between, Longest, Width, Height
<1> DEFINE S == {k \in Nat : k <= n => cell[k] = at(k)}
<1>4. 0 \in S
  <2>1. 0 * dx = 0 /\ 0 * dy = 0
    BY <1>2
  <2> QED
    BY <1>1, <1>2, <2>1 DEF Draws, FirstCell
<1>5. ASSUME NEW k \in Nat, k \in S PROVE k + 1 \in S
  <2> SUFFICES ASSUME k + 1 <= n PROVE cell[k + 1] = at(k + 1)
    OBVIOUS
  <2>1. k <= n /\ n > 0 /\ k + 1 \in 1 .. n /\ (k + 1) - 1 = k
    BY <1>2
  <2>2. cell[k] = at(k)
    BY <1>5, <2>1
  <2>3. cell[k + 1] = NextCell(p, s, cell[k])
    BY <1>1, <2>1 DEF Draws
  <2>4. k * dx \in Int /\ k * dy \in Int /\ (k + 1) * dx = k * dx + dx /\ (k + 1) * dy = k * dy + dy
    BY <1>2
  <2>5. n \div 2 \in Int
    BY <1>2
  <2>6. at(k) \in Cell /\ at(k).numerator = n \div 2
    BY <1>2, <2>4, <2>5 DEF Cell
  <2>7. NextCell(p, s, at(k)) = [x |-> at(k).x + dx, y |-> at(k).y + dy, numerator |-> n \div 2]
    <3> HIDE DEF at
    <3> QED
      BY <2>1, <2>6, StraightStep
  <2>8. at(k).x + dx = p[1] + (k + 1) * dx /\ at(k).y + dy = p[2] + (k + 1) * dy
    BY <1>2, <2>4
  <2> QED
    BY <2>2, <2>3, <2>7, <2>8
<1>6. cell[i] = at(i)
  <2>1. i \in Nat /\ i <= n
    BY <1>2
  <2>2. i \in S
    <3> HIDE DEF S
    <3> QED
      BY <1>4, <1>5, <2>1, Induction
  <2> QED
    BY <2>1, <2>2
<1>7. Line(p, s)[i] = <<cell[i].x, cell[i].y>> /\ i \in DOMAIN Line(p, s)
  BY <1>1
<1> QED
  BY <1>3, <1>6, <1>7

-----------------------------------------------------------------------------
(* The best point *)

\* A point with a fitness below INF sees the goal.
LEMMA FitSees ==
    ASSUME NEW p \in Point, Fitness(p) < INF
    PROVE  /\ ~IsObstacle(p[1], p[2])
           /\ \A e \in Ends : Aligned(p, e) => Between(p, e) \cap Wall = {}
<1>1. ASSUME NEW e \in Ends PROVE ~AreThereWallsInPath(p, e)
  BY DEF Fitness, INF
<1>2. Ends \subseteq State
  BY GeneticAssumption
<1>3. PICK e \in Ends : e \in State
  BY GeneticAssumption
<1>4. p \notin Wall
  BY <1>1, <1>3, LineBegins DEF AreThereWallsInPath, Range
<1>5. p[1] \in Coordinate /\ p[2] \in Coordinate /\ p = <<p[1], p[2]>>
  BY DEF Point
<1>6. ~IsObstacle(p[1], p[2])
  BY <1>4, <1>5 DEF IsObstacle
<1>7. ASSUME NEW d \in Ends, Aligned(p, d), NEW q \in Between(p, d) PROVE q \notin Wall
  <2>1. PICK i \in DOMAIN Line(p, d) : Line(p, d)[i] = q
    BY <1>2, <1>7, LineIsStraight
  <2> QED
    BY <1>1, <2>1 DEF AreThereWallsInPath, Range
<1> QED
  BY <1>6, <1>7

LEMMA SightNext == TypeOK /\ BestIsInSight /\ [Next]_vars => BestIsInSight'
<1> SUFFICES ASSUME TypeOK, BestIsInSight, [Next]_vars, pc' = "best"
             PROVE  /\ Cardinality(population') = 1
                    /\ \A p \in population' :
                          /\ ~IsObstacle(p[1], p[2])
                          /\ \A e \in Ends : Aligned(p, e) => Between(p, e) \cap Wall = {}
  BY DEF BestIsInSight
<1>1. CASE FindPath
  <2>1. SelectBest
    BY <1>1 DEF FindPath, FindPathGoingThrough
  <2>2. PICK p \in population : population' = {p} /\ IsFit(population)
    BY <2>1 DEF SelectBest, Select
  <2>3. population \in SUBSET Point
    BY DEF TypeOK
  <2>4. Fitness(p) < INF
    BY <2>2, <2>3, FitEach
  <2>5. Cardinality({p}) = 1
    BY FS_Singleton
  <2> QED
    BY <2>2, <2>3, <2>4, <2>5, FitSees
<1>2. CASE pc = "best" /\ UNCHANGED population
  BY <1>2 DEF BestIsInSight
<1>3. CASE UNCHANGED vars
  BY <1>2, <1>3 DEF vars, findVars
<1>4. CASE Disconnect \/ Obstruct \/ Advance \/ Drift \/ Bear \/ Rotate
  BY <1>2, <1>4 DEF Disconnect, Obstruct, Advance, Drift, Bear, Rotate, programVars, findVars
<1>5. CASE Breed
  BY <1>5 DEF Breed, CreateNewGeneration
<1>6. CASE \E r \in Readable : Drive(r)
  <2>1. PICK r : Drive(r)
    BY <1>6
  <2>2. pc' \in Loops \cup {"endPass"}
    BY <2>1 DEF Drive, BeginPass, LeaveJunction, FollowLine, ReachLine, TurnAway, LeaveLine,
                FindLine, Body, Exit, Loops
  <2> QED
    BY <2>2 DEF Loops
<1>7. CASE SelectPathFinder \/ Connect \/ ReturnEarly \/ EndPass \/ Finish
           \/ \E robot, leftMotor, rightMotor \in BOOLEAN, ultrasonic, vision \in 0 .. 5 :
                  GetHandles(robot, ultrasonic, vision, leftMotor, rightMotor)
  BY <1>7 DEF SelectPathFinder, Connect, ReturnEarly, EndPass, Finish, GetHandles
<1> QED
  BY <1>1, <1>3, <1>4, <1>5, <1>6, <1>7 DEF Next

\* The point that the path is led through is free and sees the end states: the sum that ends
\* the breeding is below INF only when no line from any of the points, drawn cell by cell,
\* meets a wall (GeneticAlgorithm.cpp).
THEOREM BestSees == Spec => []BestIsInSight
<1>1. Init => BestIsInSight
  BY DEF Init, BestIsInSight
<1> QED
  BY <1>1, SightNext, TypeInit, TypeNext, PlanInit, PlanNext, PTL DEF Spec
=============================================================================
