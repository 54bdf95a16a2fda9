----------------------------- MODULE AStarSearch -----------------------------
(***************************************************************************)
(* AStarSearch.cpp: the search the program offers as A*.  The states it    *)
(* opens are objects that it allocates and links by pointers to their      *)
(* mothers; a state that has been expanded may be opened again.            *)
(*                                                                         *)
(* std::sort orders the list of pointers by address, and nothing tells     *)
(* where new puts an object: whichever open state is expanded next, there  *)
(* are addresses for which it is the first of the list.  So the order is   *)
(* the choice of the next state, and the addresses are not modelled.       *)
(***************************************************************************)
EXTENDS GridWorld

CONSTANTS
    Problems,  \* the searches started: records [start, ends]
    MaxNodes   \* bound: how many objects a search allocates

ASSUME AStarAssumption ==
    /\ \A p \in Problems : p.start \in FreeState /\ p.ends \subseteq State
    /\ MaxNodes \in Nat

VARIABLES
    problem,  \* start_state and end_states
    nodes,    \* the objects, start_state first: state, cost and mother
    open,     \* open_states
    cursor,   \* cursor_state of find, then cursor of createVector
    tried,    \* the position of the loop over expand()
    path,     \* returner
    result    \* what find is doing, or how it has ended

vars == <<problem, nodes, open, cursor, tried, path, result>>

Null == 0
Garbage == -1

Node(state, cost, mother) == [state |-> state, cost |-> cost, mother |-> mother]

\* The constructors leave the mother of start_state as the memory was.
Init ==
    /\ problem \in Problems
    /\ \E mother \in {Null, Garbage} : nodes = <<Node(problem.start, 0, mother)>>
    /\ open = {1}
    /\ cursor = 1
    /\ tried = 0
    /\ path = <<>>
    /\ result = "searching"

Children == Expand(nodes[cursor].state)
Child == Children[tried + 1]
ChildCost == nodes[cursor].cost + 1

-----------------------------------------------------------------------------
(* find: the loop over the moves from the cursor *)

NextChild ==
    /\ result = "searching"
    /\ tried < Len(Children)
    /\ tried' = tried + 1
    /\ UNCHANGED <<problem, cursor, path, result>>

\* Bug: the new object is not put into the list.
AddState_NotOpened ==
    /\ NextChild
    /\ \A n \in open : nodes[n].state # Child
    /\ Len(nodes) < MaxNodes
    /\ nodes' = Append(nodes, Node(Child, ChildCost, cursor))
    /\ UNCHANGED open

\* Bug: the new object gets the mother of the cursor.
AddState_Sister ==
    /\ NextChild
    /\ \A n \in open : nodes[n].state # Child
    /\ Len(nodes) < MaxNodes
    /\ nodes' = Append(nodes, Node(Child, ChildCost, nodes[cursor].mother))
    /\ open' = open \cup {Len(nodes) + 1}

\* Bug: the list is not searched.
AddState_Again ==
    /\ NextChild
    /\ Len(nodes) < MaxNodes
    /\ nodes' = Append(nodes, Node(Child, ChildCost, cursor))
    /\ open' = open \cup {Len(nodes) + 1}

\* A state that is not open is opened, whether or not it has been expanded before.
AddState ==
    /\ NextChild
    /\ \A n \in open : nodes[n].state # Child
    /\ Len(nodes) < MaxNodes
    /\ nodes' = Append(nodes, Node(Child, ChildCost, cursor))
    /\ open' = open \cup {Len(nodes) + 1}

\* Bug: the cost is forgotten.
Relax_KeepsCost ==
    /\ NextChild
    /\ \E n \in open :
          /\ nodes[n].state = Child
          /\ ChildCost < nodes[n].cost
          /\ nodes' = [nodes EXCEPT ![n] = Node(Child, nodes[n].cost, cursor)]
    /\ UNCHANGED open

\* An open state that is reached at a lower cost changes its mother.
Relax ==
    /\ NextChild
    /\ \E n \in open :
          /\ nodes[n].state = Child
          /\ ChildCost < nodes[n].cost
          /\ nodes' = [nodes EXCEPT ![n] = Node(Child, ChildCost, cursor)]
    /\ UNCHANGED open

Keep ==
    /\ NextChild
    /\ \E n \in open : nodes[n].state = Child /\ nodes[n].cost <= ChildCost
    /\ UNCHANGED <<nodes, open>>

\* The end of the loop: the cursor is closed, the list sorted, and its first state taken.
Pick ==
    /\ result = "searching"
    /\ tried = Len(Children)
    /\ open' = open \ {cursor}
    /\ cursor' \in open'
    /\ tried' = 0
    /\ result' = IF nodes[cursor'].state \in problem.ends THEN "walking" ELSE "searching"
    /\ UNCHANGED <<problem, nodes, path>>

\* ... which is undefined when there is none.
PickNothing ==
    /\ result = "searching"
    /\ tried = Len(Children)
    /\ open = {cursor}
    /\ open' = {}
    /\ result' = "undefined"
    /\ UNCHANGED <<problem, nodes, cursor, tried, path>>

-----------------------------------------------------------------------------
(* createVector *)

\* From mother to mother; the reversal at the end puts each state before the last one.
Collect ==
    /\ result = "walking"
    /\ cursor \in DOMAIN nodes
    /\ path' = <<nodes[cursor].state>> \o path
    /\ cursor' = nodes[cursor].mother
    /\ UNCHANGED <<problem, nodes, open, tried, result>>

\* Null ends the loop; what a pointer that was never set leads to is undefined.
Return ==
    /\ result = "walking"
    /\ cursor \in {Null, Garbage}
    /\ result' = IF cursor = Null THEN "found" ELSE "undefined"
    /\ UNCHANGED <<problem, nodes, open, cursor, tried, path>>

-----------------------------------------------------------------------------
Next == AddState \/ Relax \/ Keep \/ Pick \/ PickNothing \/ Collect \/ Return

Spec == Init /\ [][Next]_vars

-----------------------------------------------------------------------------
TypeOK ==
    /\ problem \in Problems
    /\ nodes \in Seq([state : FreeState, cost : Nat, mother : Nat \cup {Garbage}])
    /\ open \subseteq DOMAIN nodes
    /\ cursor \in DOMAIN nodes \cup {Null, Garbage}
    /\ tried \in Nat
    /\ path \in Seq(FreeState)
    /\ result \in {"searching", "walking", "found", "undefined"}

\* The list never holds a state twice: that is why looking for the first match is
\* enough, although states are opened again and again.
NoStateIsOpenTwice ==
    \A m, n \in open : nodes[m].state = nodes[n].state => m = n

\* The cost of a state is the length of the way back over its mothers, and every step of
\* that way is a move: a change of mother never concerns a state that is one itself, so
\* no way back is a circle or changes under a state that has been opened over it.
CostIsLengthOfWay ==
    \A n \in DOMAIN nodes \ {1} :
        /\ nodes[n].mother \in DOMAIN nodes
        /\ IsMove(nodes[nodes[n].mother].state, nodes[n].state)
        /\ nodes[n].cost = nodes[nodes[n].mother].cost + 1

\* Before the walk back comes to a pointer that is no object it has made a whole route:
\* all that can go wrong after that is the mother of the start state itself.
WalkIsRoute ==
    cursor \in {Null, Garbage} =>
        /\ path # <<>>
        /\ path[1] = problem.start
        /\ path[Len(path)] \in problem.ends
        /\ \A i \in 1 .. Len(path) - 1 : IsMove(path[i], path[i + 1])

\* The list runs empty only when the robot cannot move at all.
EmptiedInDeadEnd == open = {} => Expand(nodes[cursor].state) = <<>>

\* The menu of the program calls this search "A*": it returns a shortest route.
ShortestRoute ==
    LET Near[k \in 0 .. MaxNodes] ==    \* the states within k moves of the start
            IF k = 0 THEN {problem.start}
            ELSE Near[k - 1] \cup UNION {{Expand(s)[i] : i \in DOMAIN Expand(s)} : s \in Near[k - 1]}
    IN  result = "found" => \A k \in 0 .. Len(path) - 2 : Near[k] \cap problem.ends = {}
=============================================================================
