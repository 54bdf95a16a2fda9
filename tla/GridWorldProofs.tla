--------------------------- MODULE GridWorldProofs ---------------------------
(***************************************************************************)
(* Facts about the moves of GridWorld and the commands made of them, that  *)
(* the searches and the robot's control rest on, and what an induction     *)
(* over a path rests on.                                                   *)
(***************************************************************************)
EXTENDS GridWorld, SequenceTheorems, FiniteSetTheorems, TLAPS

-----------------------------------------------------------------------------
(* Induction and recursion over the natural numbers, stated of sets and functions rather *)
(* than of operators, so that every prover can instantiate them.                         *)

\* If a number were missing, those missing up to it would map into themselves by n - 1,
\* one to one and not onto, which no finite set does.
LEMMA Induction ==
    ASSUME NEW S, 0 \in S, \A n \in Nat : n \in S => n + 1 \in S
    PROVE  Nat \subseteq S
<1> SUFFICES ASSUME NEW m \in Nat, m \notin S PROVE FALSE
  OBVIOUS
<1> DEFINE missing == {n \in 0 .. m : n \notin S}
           before == [n \in missing |-> n - 1]
<1>1. IsFiniteSet(missing)
  <2>1. IsFiniteSet(0 .. m)
    BY FS_Interval
  <2>2. missing \in SUBSET (0 .. m)
    OBVIOUS
  <2> QED
    BY <2>1, <2>2, FS_Subset
<1>2. m \in missing
  OBVIOUS
<1>3. ASSUME NEW n \in missing PROVE n - 1 \in missing
  <2>1. n # 0 /\ n - 1 \in Nat /\ (n - 1) + 1 = n
    OBVIOUS
  <2> QED
    BY <2>1
<1>4. before \in Injection(missing, missing)
  BY <1>3 DEF Injection, IsInjective
<1>5. before \in Surjection(missing, missing)
  BY <1>1, <1>4, FS_Injection
<1>6. PICK n \in missing : before[n] = m
  BY <1>2, <1>5 DEF Surjection
<1> QED
  BY <1>6

\* F takes an element of D and the number of a step to an element of D; f is what the steps
\* make of `base`.
Steps(F, D, n) == \A d \in D : \A k \in 1 .. n : F[<<d, k>>] \in D
Iterates(f, F, D, base, n) ==
    /\ f \in [0 .. n -> D]
    /\ f[0] = base
    /\ \A k \in 1 .. n : f[k] = F[<<f[k - 1], k>>]

\* A recursive definition has a solution.
LEMMA Recursion ==
    ASSUME NEW D, NEW base \in D, NEW n \in Nat, NEW F, Steps(F, D, n)
    PROVE  \E f : Iterates(f, F, D, base, n)
<1> DEFINE S == {m \in Nat : m <= n => \E f : Iterates(f, F, D, base, m)}
<1>1. 0 \in S
  <2>1. Iterates([k \in 0 .. 0 |-> base], F, D, base, 0)
    BY DEF Iterates
  <2> QED
    BY <2>1
<1>2. ASSUME NEW m \in Nat, m \in S PROVE m + 1 \in S
  <2> SUFFICES ASSUME m + 1 <= n PROVE \E f : Iterates(f, F, D, base, m + 1)
    OBVIOUS
  <2>1. PICK g : Iterates(g, F, D, base, m)
    BY <1>2
  <2> DEFINE f == [k \in 0 .. m + 1 |-> IF k <= m THEN g[k] ELSE F[<<g[m], m + 1>>]]
  <2>2. g \in [0 .. m -> D] /\ g[m] \in D /\ F[<<g[m], m + 1>>] \in D
    BY <2>1 DEF Iterates, Steps
  <2>3. f \in [0 .. m + 1 -> D]
    BY <2>2
  <2>4. f[0] = base
    BY <2>1 DEF Iterates
  <2>5. ASSUME NEW k \in 1 .. m + 1 PROVE f[k] = F[<<f[k - 1], k>>]
    <3>1. CASE k <= m
      <4>1. k \in 1 .. m /\ k \in 0 .. m + 1 /\ k - 1 \in 0 .. m + 1 /\ k - 1 <= m
        BY <3>1
      <4>2. f[k] = g[k] /\ f[k - 1] = g[k - 1]
        BY <3>1, <4>1
      <4> QED
        BY <2>1, <4>1, <4>2 DEF Iterates
    <3>2. CASE k = m + 1
      BY <3>2
    <3> QED
      BY <3>1, <3>2
  <2> HIDE DEF f
  <2> QED
    BY <2>3, <2>4, <2>5 DEF Iterates
<1>3. n \in S
  BY <1>1, <1>2, Induction
<1> QED
  BY <1>3

-----------------------------------------------------------------------------
(* Moves *)

LEMMA HeadingType == \A theta \in Theta : Right(theta) \in Theta /\ Left(theta) \in Theta
  BY DEF Theta, Right, Left

LEMMA AheadType ==
    ASSUME NEW s \in State, NEW theta \in Theta, ~Blocked(s, theta)
    PROVE  Ahead(s, theta) \in FreeState
<1>1. /\ Ahead(s, theta).theta = s.theta
      /\ Ahead(s, theta) = [x |-> Ahead(s, theta).x, y |-> Ahead(s, theta).y, theta |-> s.theta]
  BY DEF Ahead, State
<1>2. /\ Ahead(s, theta).x \in Coordinate /\ Ahead(s, theta).y \in Coordinate
      /\ ~IsObstacle(Ahead(s, theta).x, Ahead(s, theta).y)
  BY DEF Blocked, IsObstacle
<1> QED
  BY <1>1, <1>2 DEF FreeState, State

\* Every move leads to a free state: the robot is never planned into a wall or off the map.
LEMMA ExpandType == \A s \in FreeState : Expand(s) \in Seq(FreeState)
<1> SUFFICES ASSUME NEW s \in FreeState PROVE Expand(s) \in Seq(FreeState)
  OBVIOUS
<1>1. s \in State /\ s.theta \in Theta /\ ~IsObstacle(s.x, s.y)
  BY DEF FreeState, State
<1> DEFINE walk == IF Blocked(s, s.theta) THEN <<>> ELSE <<Walk(s)>>
           right == IF IsRightObstacle(s) THEN <<>> ELSE <<TurnRight(s)>>
           left == IF IsLeftObstacle(s) THEN <<>> ELSE <<TurnLeft(s)>>
<1>2. walk \in Seq(FreeState)
  BY <1>1, AheadType DEF Walk
<1>3. TurnRight(s) \in FreeState /\ TurnLeft(s) \in FreeState
  BY <1>1, HeadingType DEF FreeState, State, TurnRight, TurnLeft
<1>4. right \in Seq(FreeState) /\ left \in Seq(FreeState)
  BY <1>3
<1> HIDE DEF walk, right, left
<1>5. (walk \o right) \o left \in Seq(FreeState)
  BY <1>2, <1>4, ConcatProperties
<1> QED
  BY <1>5 DEF Expand, walk, right, left

\* Every move changes the state.
LEMMA MoveChanges == \A s \in FreeState : \A i \in DOMAIN Expand(s) : Expand(s)[i] # s
<1> SUFFICES ASSUME NEW s \in FreeState PROVE \A i \in DOMAIN Expand(s) : Expand(s)[i] # s
  OBVIOUS
<1>1. s \in State /\ s.theta \in Theta /\ s.x \in Int /\ s.y \in Int
  BY DEF FreeState, State, Coordinate
<1> DEFINE walk == IF Blocked(s, s.theta) THEN <<>> ELSE <<Walk(s)>>
           right == IF IsRightObstacle(s) THEN <<>> ELSE <<TurnRight(s)>>
           left == IF IsLeftObstacle(s) THEN <<>> ELSE <<TurnLeft(s)>>
           Other == State \ {s}
<1>2. ASSUME ~Blocked(s, s.theta) PROVE Walk(s) \in Other
  <2>1. Walk(s).x # s.x \/ Walk(s).y # s.y
    BY <1>1 DEF Walk, Ahead, Theta
  <2>2. Walk(s) \in State
    BY <1>1, <1>2, AheadType DEF Walk, FreeState
  <2> QED
    BY <2>1, <2>2
<1>3. TurnRight(s) \in Other /\ TurnLeft(s) \in Other
  <2>1. TurnRight(s).theta # s.theta /\ TurnLeft(s).theta # s.theta
    BY <1>1 DEF TurnRight, TurnLeft, Right, Left, Theta, State
  <2>2. TurnRight(s) \in State /\ TurnLeft(s) \in State
    BY <1>1, HeadingType DEF State, TurnRight, TurnLeft
  <2> QED
    BY <2>1, <2>2
<1> HIDE DEF Other
<1>4. walk \in Seq(Other)
  BY <1>2
<1>5. right \in Seq(Other) /\ left \in Seq(Other)
  BY <1>3
<1> HIDE DEF walk, right, left
<1>6. (walk \o right) \o left \in Seq(Other)
  BY <1>4, <1>5, ConcatProperties
<1>7. Expand(s) \in Seq(Other)
  BY <1>6 DEF Expand, walk, right, left
<1>8. \A i \in DOMAIN Expand(s) : Expand(s)[i] \in Other
  BY <1>7, ElementOfSeq
<1> QED
  BY <1>8 DEF Other

\* A move is one of the three, and each only towards a free cell.
LEMMA MoveCases ==
    ASSUME NEW s \in FreeState, NEW t, IsMove(s, t)
    PROVE  \/ ~Blocked(s, s.theta) /\ t = Walk(s)
           \/ ~IsRightObstacle(s) /\ t = TurnRight(s)
           \/ ~IsLeftObstacle(s) /\ t = TurnLeft(s)
<1> DEFINE Moves == {u \in {Walk(s), TurnRight(s), TurnLeft(s)} :
                       \/ ~Blocked(s, s.theta) /\ u = Walk(s)
                       \/ ~IsRightObstacle(s) /\ u = TurnRight(s)
                       \/ ~IsLeftObstacle(s) /\ u = TurnLeft(s)}
           walk == IF Blocked(s, s.theta) THEN <<>> ELSE <<Walk(s)>>
           right == IF IsRightObstacle(s) THEN <<>> ELSE <<TurnRight(s)>>
           left == IF IsLeftObstacle(s) THEN <<>> ELSE <<TurnLeft(s)>>
<1>1. /\ ~Blocked(s, s.theta) => Walk(s) \in Moves
      /\ ~IsRightObstacle(s) => TurnRight(s) \in Moves
      /\ ~IsLeftObstacle(s) => TurnLeft(s) \in Moves
  OBVIOUS
<1> HIDE DEF Moves
<1>2. walk \in Seq(Moves) /\ right \in Seq(Moves) /\ left \in Seq(Moves)
  BY <1>1
<1> HIDE DEF walk, right, left
<1>3. (walk \o right) \o left \in Seq(Moves)
  BY <1>2, ConcatProperties
<1>4. Expand(s) \in Seq(Moves)
  BY <1>3 DEF Expand, walk, right, left
<1>5. t \in Moves
  BY <1>4, ElementOfSeq DEF IsMove
<1> QED
  BY <1>5 DEF Moves

-----------------------------------------------------------------------------
(* Commands *)

\* The command made of a move makes the robot do this move (Path::toCommand).
LEMMA CommandMakesMove ==
    ASSUME NEW s \in FreeState, NEW t, IsMove(s, t)
    PROVE  /\ ToCommand(s, t) \in {WALK, RIGHT, LEFT}
           /\ Execute(s, ToCommand(s, t)) = t
           /\ ToCommand(s, t) = WALK => t = Walk(s) /\ ~Blocked(s, s.theta)
           /\ ToCommand(s, t) = RIGHT => t = TurnRight(s) /\ ~IsRightObstacle(s)
           /\ ToCommand(s, t) = LEFT => t = TurnLeft(s) /\ ~IsLeftObstacle(s)
<1>1. s \in State /\ s.theta \in Theta /\ s.x \in Int /\ s.y \in Int
  BY DEF FreeState, State, Coordinate
<1>2. Right(s.theta) # Left(s.theta) /\ Right(s.theta) # s.theta /\ Left(s.theta) # s.theta
  BY <1>1 DEF Right, Left, Theta
<1>3. CASE ~Blocked(s, s.theta) /\ t = Walk(s)
  <2>1. t.x # s.x \/ t.y # s.y
    BY <1>1, <1>3 DEF Walk, Ahead, Theta
  <2>2. ToCommand(s, t) = WALK
    BY <2>1 DEF ToCommand
  <2> QED
    BY <1>3, <2>2 DEF Execute, WALK, RIGHT, LEFT
<1>4. CASE ~IsRightObstacle(s) /\ t = TurnRight(s)
  <2>1. t.x = s.x /\ t.y = s.y /\ t.theta = Right(s.theta)
    BY <1>1, <1>4 DEF TurnRight, State
  <2>2. ToCommand(s, t) = RIGHT
    BY <1>2, <2>1 DEF ToCommand
  <2> QED
    BY <1>4, <2>2 DEF Execute, WALK, RIGHT, LEFT
<1>5. CASE ~IsLeftObstacle(s) /\ t = TurnLeft(s)
  <2>1. t.x = s.x /\ t.y = s.y /\ t.theta = Left(s.theta)
    BY <1>1, <1>5 DEF TurnLeft, State
  <2>2. ToCommand(s, t) = LEFT
    BY <2>1 DEF ToCommand
  <2> QED
    BY <1>5, <2>2 DEF Execute, WALK, RIGHT, LEFT
<1> QED
  BY <1>3, <1>4, <1>5, MoveCases

Pose == [x : Int, y : Int, theta : Theta]

LEMMA ExecuteType == \A s \in Pose, c \in Int : Execute(s, c) \in Pose
<1> SUFFICES ASSUME NEW s \in Pose, NEW c \in Int PROVE Execute(s, c) \in Pose
  OBVIOUS
<1>1. s.theta \in Theta /\ s.x \in Int /\ s.y \in Int
  BY DEF Pose
<1>2. Walk(s) \in Pose
  BY <1>1 DEF Walk, Ahead, Pose, Theta
<1>3. TurnRight(s) \in Pose /\ TurnLeft(s) \in Pose
  BY <1>1, HeadingType DEF TurnRight, TurnLeft, Pose
<1> QED
  BY <1>2, <1>3 DEF Execute

\* The recursive definition of Replay has a solution.
LEMMA ReplayDef ==
    ASSUME NEW s \in Pose, NEW commands \in Seq(Int)
    PROVE  /\ Replay(s, commands)[0] = s
           /\ \A i \in 1 .. Len(commands) :
                 Replay(s, commands)[i] = Execute(Replay(s, commands)[i - 1], commands[i])
<1> DEFINE n == Len(commands)
           Reached(r) == [i \in 0 .. n |-> IF i = 0 THEN s ELSE Execute(r[i - 1], commands[i])]
           F == [d \in Pose \X (1 .. n) |-> Execute(d[1], commands[d[2]])]
<1>1. n \in Nat /\ \A i \in 1 .. n : commands[i] \in Int
  BY ElementOfSeq, LenProperties
<1>2. Steps(F, Pose, n)
  BY <1>1, ExecuteType DEF Steps
<1>3. PICK f : Iterates(f, F, Pose, s, n)
  <2>1. n \in Nat
    BY <1>1
  <2> HIDE DEF F, n
  <2> QED
    BY <1>2, <2>1, Recursion
<1>4. f = Reached(f)
  <2>1. ASSUME NEW k \in 0 .. n, k # 0 PROVE f[k] = Execute(f[k - 1], commands[k])
    <3>1. k \in 1 .. n /\ k - 1 \in 0 .. n
      BY <1>1, <2>1
    <3>2. <<f[k - 1], k>> \in Pose \X (1 .. n)
      BY <1>3, <3>1 DEF Iterates
    <3> QED
      BY <1>3, <3>1, <3>2 DEF Iterates
  <2> HIDE DEF n, F
  <2> QED
    BY <1>1, <1>3, <2>1 DEF Iterates
<1>5. Replay(s, commands) = Reached(Replay(s, commands))
  <2>1. Replay(s, commands) = CHOOSE r : r = Reached(r)
    BY DEF Replay
  <2> HIDE DEF Reached
  <2> QED
    BY <1>4, <2>1
<1>6. ASSUME NEW i \in 0 .. n
      PROVE  Replay(s, commands)[i] =
                 IF i = 0 THEN s ELSE Execute(Replay(s, commands)[i - 1], commands[i])
  <2> DEFINE r == Replay(s, commands)
  <2> HIDE DEF r
  <2>1. r = [j \in 0 .. n |-> IF j = 0 THEN s ELSE Execute(r[j - 1], commands[j])]
    BY <1>5 DEF r
  <2>2. r[i] = IF i = 0 THEN s ELSE Execute(r[i - 1], commands[i])
    BY <2>1
  <2> QED
    BY <2>2 DEF r
<1> QED
  BY <1>1, <1>6

\* The commands made of a path of moves lead along it.
LEMMA CommandsLeadAlong ==
    ASSUME NEW p \in Seq(FreeState), p # <<>>, \A i \in 1 .. Len(p) - 1 : IsMove(p[i], p[i + 1])
    PROVE  \A i \in 1 .. Len(p) : Replay(p[1], ToCommands(p))[i - 1] = p[i]
<1> DEFINE n == Len(p) - 1
           r == Replay(p[1], ToCommands(p))
<1>1. n \in Nat /\ \A i \in 1 .. n + 1 : p[i] \in FreeState
  BY EmptySeq, LenProperties, ElementOfSeq
<1>2. ASSUME NEW i \in 1 .. n
      PROVE  /\ ToCommands(p)[i] = ToCommand(p[i], p[i + 1])
             /\ ToCommand(p[i], p[i + 1]) \in Int
             /\ Execute(p[i], ToCommands(p)[i]) = p[i + 1]
  <2>1. p[i] \in FreeState /\ IsMove(p[i], p[i + 1])
    BY <1>1
  <2>2. ToCommands(p)[i] = ToCommand(p[i], p[i + 1])
    BY DEF ToCommands
  <2>3. ToCommand(p[i], p[i + 1]) \in {WALK, RIGHT, LEFT}
    BY <2>1, CommandMakesMove
  <2>4. Execute(p[i], ToCommand(p[i], p[i + 1])) = p[i + 1]
    BY <2>1, CommandMakesMove
  <2> QED
    BY <2>2, <2>3, <2>4 DEF WALK, RIGHT, LEFT
<1>3. ToCommands(p) \in Seq(Int) /\ Len(ToCommands(p)) = n
  <2>1. ToCommands(p) = [i \in 1 .. n |-> ToCommand(p[i], p[i + 1])]
    BY DEF ToCommands
  <2>2. ToCommands(p) \in [1 .. n -> Int]
    BY <1>2, <2>1
  <2> QED
    BY <1>1, <2>2
<1>4. p[1] \in Pose
  BY <1>1 DEF FreeState, State, Pose, Coordinate
<1>5. r[0] = p[1] /\ \A i \in 1 .. n : r[i] = Execute(r[i - 1], ToCommands(p)[i])
  BY <1>3, <1>4, ReplayDef
<1> DEFINE S == {i \in Nat : i <= n => r[i] = p[i + 1]}
<1> HIDE DEF n, r
<1>6. 0 \in S
  BY <1>1, <1>5
<1>7. ASSUME NEW i \in Nat, i \in S PROVE i + 1 \in S
  <2> SUFFICES ASSUME i + 1 <= n PROVE r[i + 1] = p[i + 2]
    BY DEF n
  <2>1. i + 1 \in 1 .. n /\ r[i] = p[i + 1] /\ (i + 1) - 1 = i /\ (i + 1) + 1 = i + 2
    BY <1>1, <1>7
  <2>2. r[i + 1] = Execute(r[i], ToCommands(p)[i + 1])
    BY <1>5, <2>1
  <2> QED
    BY <1>2, <2>1, <2>2
<1>8. Nat \subseteq S
  <2> HIDE DEF S
  <2> QED
    BY <1>6, <1>7, Induction
<1> QED
  <2> SUFFICES ASSUME NEW i \in 1 .. Len(p) PROVE r[i - 1] = p[i]
    BY DEF r
  <2>1. i - 1 \in Nat /\ i - 1 <= n /\ (i - 1) + 1 = i
    BY <1>1 DEF n
  <2> QED
    BY <1>8, <2>1
=============================================================================
