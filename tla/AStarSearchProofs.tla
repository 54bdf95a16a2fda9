-------------------------- MODULE AStarSearchProofs --------------------------
(***************************************************************************)
(* Theorems about AStarSearch, for every map, every set of problems and    *)
(* every number of objects.  IInv is the inductive invariant.              *)
(***************************************************************************)
EXTENDS AStarSearch, GridWorldProofs

\* The start state is no other's child, and no way back leads over a state that is open
\* and not the cursor: only such states change their mother and their cost.
HeapInv ==
    /\ Len(nodes) >= 1
    /\ nodes[1].state = problem.start
    /\ nodes[1].cost = 0
    /\ nodes[1].mother \in {Null, Garbage}
    /\ CostIsLengthOfWay
    /\ result = "searching" =>
         \A n \in DOMAIN nodes \ {1} : nodes[n].mother \notin open \ {cursor}

\* The moves the loop has come past lead to states that are open beside the cursor.
OpenInv ==
    /\ NoStateIsOpenTwice
    /\ result = "searching" =>
         /\ cursor \in open
         /\ tried <= Len(Children)
         /\ \A i \in 1 .. tried : \E n \in open \ {cursor} : nodes[n].state = Children[i]
    /\ open = {} => result = "undefined" /\ Children = <<>>

\* What has been collected is the end of a route, and the cursor one move before it.
WalkInv ==
    /\ result = "searching" => path = <<>>
    /\ \A i \in 1 .. Len(path) - 1 : IsMove(path[i], path[i + 1])
    /\ path # <<>> => path[Len(path)] \in problem.ends
    /\ cursor \in DOMAIN nodes =>
         IF path # <<>> THEN IsMove(nodes[cursor].state, path[1])
         ELSE result = "walking" => nodes[cursor].state \in problem.ends
    /\ cursor \in {Null, Garbage} =>
         result # "searching" /\ path # <<>> /\ path[1] = problem.start

IInv == TypeOK /\ HeapInv /\ OpenInv /\ WalkInv

Object == [state : FreeState, cost : Nat, mother : Nat \cup {Garbage}]

-----------------------------------------------------------------------------
(* What the actions have in common *)

LEMMA NodeFacts ==
    ASSUME TypeOK
    PROVE  /\ Len(nodes) \in Nat
           /\ DOMAIN nodes = 1 .. Len(nodes)
           /\ \A n \in DOMAIN nodes : /\ nodes[n] \in Object
                                      /\ nodes[n].state \in FreeState
                                      /\ nodes[n].cost \in Nat
                                      /\ nodes[n].mother \in Nat \cup {Garbage}
<1>1. nodes \in Seq(Object)
  BY DEF TypeOK, Object
<1>2. Len(nodes) \in Nat /\ DOMAIN nodes = 1 .. Len(nodes) /\ \A n \in 1 .. Len(nodes) : nodes[n] \in Object
  BY <1>1, LenProperties, ElementOfSeq
<1> QED
  BY <1>2 DEF Object

\* What the loop looks at in a step: a free state, one move from the cursor and not the
\* cursor's own.
LEMMA ChildFacts ==
    ASSUME IInv, NextChild
    PROVE  /\ cursor \in open /\ cursor \in DOMAIN nodes
           /\ tried \in Nat /\ tried' = tried + 1
           /\ Len(Children) \in Nat /\ tried' <= Len(Children)
           /\ Child \in FreeState
           /\ IsMove(nodes[cursor].state, Child)
           /\ Child # nodes[cursor].state
           /\ ChildCost \in Nat
<1>1. result = "searching" /\ tried < Len(Children) /\ tried' = tried + 1
  BY DEF NextChild
<1>2. cursor \in open /\ cursor \in DOMAIN nodes
  BY <1>1 DEF IInv, OpenInv, TypeOK
<1>3. nodes[cursor].state \in FreeState /\ ChildCost \in Nat
  BY <1>2, NodeFacts DEF IInv, ChildCost
<1>4. Children \in Seq(FreeState)
  BY <1>3, ExpandType DEF Children
<1>5. Len(Children) \in Nat /\ DOMAIN Children = 1 .. Len(Children)
  BY <1>4, LenProperties
<1>6. tried \in Nat /\ tried + 1 \in 1 .. Len(Children)
  BY <1>1, <1>5 DEF IInv, TypeOK
<1>7. Child \in FreeState
  BY <1>4, <1>5, <1>6, ElementOfSeq DEF Child
<1>8. tried + 1 \in DOMAIN Expand(nodes[cursor].state) /\ Child = Expand(nodes[cursor].state)[tried + 1]
  BY <1>5, <1>6 DEF Child, Children
<1>9. IsMove(nodes[cursor].state, Child) /\ Child # nodes[cursor].state
  BY <1>3, <1>8, MoveChanges DEF IsMove
<1> QED
  BY <1>1, <1>2, <1>3, <1>5, <1>6, <1>7, <1>9

\* A step of the loop that leaves the states of the objects as they are, opens at most the
\* child and leaves it open beside the cursor keeps OpenInv.
LEMMA LoopKeepsOpenInv ==
    ASSUME IInv, NextChild, open \subseteq open',
           \A n \in DOMAIN nodes : nodes'[n].state = nodes[n].state,
           \E n \in open' \ {cursor} : nodes'[n].state = Child,
           NoStateIsOpenTwice'
    PROVE  OpenInv'
<1>1. result = "searching" /\ result' = "searching" /\ cursor' = cursor
  BY DEF NextChild
<1>2. cursor \in open /\ cursor \in DOMAIN nodes /\ tried \in Nat /\ tried' = tried + 1
      /\ tried' <= Len(Children)
  BY ChildFacts
<1>3. Children' = Children
  BY <1>1, <1>2 DEF Children
<1>4. ASSUME NEW i \in 1 .. tried' PROVE \E n \in open' \ {cursor} : nodes'[n].state = Children[i]
  <2>1. i \in 1 .. tried \/ i = tried + 1
    BY <1>2
  <2>2. CASE i \in 1 .. tried
    <3>1. PICK n \in open \ {cursor} : nodes[n].state = Children[i]
      BY <1>1, <2>2 DEF IInv, OpenInv
    <3>2. n \in DOMAIN nodes /\ n \in open' \ {cursor}
      BY <3>1 DEF IInv, TypeOK
    <3> QED
      BY <3>1, <3>2
  <2>3. CASE i = tried + 1
    BY <2>3 DEF Child
  <2> QED
    BY <2>1, <2>2, <2>3
<1>5. open' # {} /\ cursor' \in open'
  BY <1>1, <1>2
<1> QED
  BY <1>1, <1>2, <1>3, <1>4, <1>5 DEF OpenInv

\* ... and WalkInv with it.
LEMMA LoopKeepsWalkInv ==
    ASSUME IInv, NextChild, cursor \in DOMAIN nodes'
    PROVE  WalkInv'
<1>1. /\ result = "searching" /\ result' = "searching" /\ cursor' = cursor
      /\ path' = path /\ path = <<>> /\ problem' = problem
  BY DEF NextChild, IInv, WalkInv
<1>2. cursor' \notin {Null, Garbage}
  BY <1>1, ChildFacts, NodeFacts DEF IInv, Null, Garbage
<1> QED
  BY <1>1, <1>2 DEF WalkInv, IInv

-----------------------------------------------------------------------------
(* One lemma for each action *)

LEMMA AddStateStep == ASSUME IInv, AddState PROVE IInv'
<1>1. /\ NextChild /\ Len(nodes) \in Nat /\ DOMAIN nodes = 1 .. Len(nodes)
      /\ \A n \in open : nodes[n].state # Child
      /\ problem' = problem /\ cursor' = cursor /\ path' = path
      /\ result = "searching" /\ result' = result
  BY NodeFacts DEF AddState, NextChild, IInv
<1> DEFINE new == Len(nodes) + 1
           object == Node(Child, ChildCost, cursor)
<1>2. nodes' = Append(nodes, object) /\ open' = open \cup {new}
  BY DEF AddState
<1>3. object \in Object /\ object.state = Child /\ object.cost = ChildCost /\ object.mother = cursor
  BY <1>1, ChildFacts, NodeFacts DEF Node, Object, IInv
<1>4. nodes \in Seq(Object)
  BY DEF IInv, TypeOK, Object
<1> HIDE DEF object
<1>5. /\ nodes' \in Seq(Object) /\ Len(nodes') = new /\ DOMAIN nodes' = 1 .. new
      /\ nodes'[new] = object
      /\ \A n \in DOMAIN nodes : nodes'[n] = nodes[n]
  BY <1>1, <1>2, <1>3, <1>4, AppendProperties, LenProperties
<1>6. /\ cursor \in DOMAIN nodes /\ cursor \in open /\ new \notin DOMAIN nodes
      /\ DOMAIN nodes' = DOMAIN nodes \cup {new} /\ open \subseteq DOMAIN nodes
  BY <1>1, <1>5, ChildFacts DEF IInv, TypeOK
<1>7. TypeOK'
  BY <1>1, <1>2, <1>5, <1>6, ChildFacts DEF IInv, TypeOK, Object
<1>8. NoStateIsOpenTwice'
  <2>1. \A n \in open : nodes'[n].state = nodes[n].state /\ nodes'[n].state # Child
    BY <1>1, <1>5, <1>6
  <2>2. nodes'[new].state = Child
    BY <1>3, <1>5
  <2>3. \A m, n \in open : nodes[m].state = nodes[n].state => m = n
    BY DEF IInv, OpenInv, NoStateIsOpenTwice
  <2> HIDE DEF new
  <2>4. \A m, n \in open \cup {new} : nodes'[m].state = nodes'[n].state => m = n
    BY <2>1, <2>2, <2>3
  <2> QED
    BY <1>2, <2>4 DEF NoStateIsOpenTwice
<1>9. CostIsLengthOfWay'
  <2> SUFFICES ASSUME NEW n \in DOMAIN nodes' \ {1}
               PROVE  /\ nodes'[n].mother \in DOMAIN nodes'
                      /\ IsMove(nodes'[nodes'[n].mother].state, nodes'[n].state)
                      /\ nodes'[n].cost = nodes'[nodes'[n].mother].cost + 1
    BY DEF CostIsLengthOfWay
  <2>1. CASE n = new
    <3>1. nodes'[n].mother = cursor /\ nodes'[n].state = Child /\ nodes'[n].cost = ChildCost
      BY <1>3, <1>5, <2>1
    <3>2. nodes'[cursor] = nodes[cursor] /\ cursor \in DOMAIN nodes'
      BY <1>5, <1>6
    <3> QED
      BY <1>1, <3>1, <3>2, ChildFacts DEF ChildCost
  <2>2. CASE n \in DOMAIN nodes
    BY <1>5, <1>6, <2>2 DEF IInv, HeapInv, CostIsLengthOfWay
  <2> QED
    BY <1>6, <2>1, <2>2
<1>10. \A n \in DOMAIN nodes' \ {1} : nodes'[n].mother \notin open' \ {cursor}
  <2> SUFFICES ASSUME NEW n \in DOMAIN nodes' \ {1} PROVE nodes'[n].mother \notin open' \ {cursor}
    OBVIOUS
  <2>1. CASE n = new
    BY <1>3, <1>5, <2>1
  <2>2. CASE n \in DOMAIN nodes
    <3>1. nodes'[n].mother = nodes[n].mother /\ nodes[n].mother \in DOMAIN nodes
          /\ nodes[n].mother \notin open \ {cursor}
      BY <1>1, <1>5, <2>2 DEF IInv, HeapInv, CostIsLengthOfWay
    <3> QED
      BY <1>2, <1>6, <3>1
  <2> QED
    BY <1>6, <2>1, <2>2
<1>11. HeapInv'
  <2>1. 1 \in DOMAIN nodes /\ nodes'[1] = nodes[1]
    BY <1>1, <1>5 DEF IInv, HeapInv
  <2> QED
    BY <1>1, <1>5, <1>9, <1>10, <2>1 DEF IInv, HeapInv
<1>12. OpenInv'
  <2>1. new \in open' \ {cursor} /\ nodes'[new].state = Child
    BY <1>2, <1>3, <1>5, <1>6
  <2> QED
    BY <1>1, <1>2, <1>5, <1>8, <2>1, LoopKeepsOpenInv
<1>13. WalkInv'
  BY <1>1, <1>6, LoopKeepsWalkInv
<1> QED
  BY <1>7, <1>11, <1>12, <1>13 DEF IInv

LEMMA RelaxStep == ASSUME IInv, Relax PROVE IInv'
<1>1. /\ NextChild /\ Len(nodes) \in Nat /\ DOMAIN nodes = 1 .. Len(nodes)
      /\ problem' = problem /\ cursor' = cursor /\ path' = path /\ open' = open
      /\ result = "searching" /\ result' = result
  BY NodeFacts DEF Relax, NextChild, IInv
<1>2. PICK o \in open : /\ nodes[o].state = Child
                        /\ ChildCost < nodes[o].cost
                        /\ nodes' = [nodes EXCEPT ![o] = Node(Child, ChildCost, cursor)]
  BY DEF Relax
<1> DEFINE object == Node(Child, ChildCost, cursor)
<1>3. object \in Object /\ object.state = Child /\ object.cost = ChildCost /\ object.mother = cursor
  BY <1>1, ChildFacts, NodeFacts DEF Node, Object, IInv
<1>4. nodes \in Seq(Object) /\ nodes' = [nodes EXCEPT ![o] = object] /\ o \in DOMAIN nodes
      /\ open \subseteq DOMAIN nodes /\ cursor \in DOMAIN nodes
  <2>1. nodes \in Seq(Object) /\ open \subseteq DOMAIN nodes
    BY DEF IInv, TypeOK, Object
  <2> QED
    BY <1>1, <1>2, <2>1, ChildFacts
<1> HIDE DEF object
<1>5. /\ nodes' \in Seq(Object) /\ Len(nodes') = Len(nodes) /\ DOMAIN nodes' = DOMAIN nodes
      /\ nodes'[o] = object
      /\ \A n \in DOMAIN nodes \ {o} : nodes'[n] = nodes[n]
  BY <1>1, <1>3, <1>4, ExceptSeq
\* the object that changes its mother is neither the start state nor the cursor
<1>6. o # cursor /\ o # 1
  <2>1. nodes[cursor].cost \in Nat /\ nodes[o].cost \in Nat /\ nodes[cursor].cost + 1 < nodes[o].cost
    BY <1>1, <1>2, <1>4, NodeFacts DEF ChildCost, IInv
  <2>2. nodes[1].cost = 0
    BY DEF IInv, HeapInv
  <2> QED
    BY <2>1, <2>2
<1>7. \A n \in DOMAIN nodes : nodes'[n].state = nodes[n].state
  BY <1>2, <1>3, <1>5
<1>8. TypeOK'
  BY <1>1, <1>4, <1>5, ChildFacts DEF IInv, TypeOK, Object
<1>9. NoStateIsOpenTwice'
  BY <1>1, <1>4, <1>7 DEF IInv, OpenInv, NoStateIsOpenTwice
<1>10. CostIsLengthOfWay'
  <2> SUFFICES ASSUME NEW n \in DOMAIN nodes \ {1}
               PROVE  /\ nodes'[n].mother \in DOMAIN nodes
                      /\ IsMove(nodes'[nodes'[n].mother].state, nodes'[n].state)
                      /\ nodes'[n].cost = nodes'[nodes'[n].mother].cost + 1
    BY <1>5 DEF CostIsLengthOfWay
  <2>1. CASE n = o
    <3>1. nodes'[n].mother = cursor /\ nodes'[n].state = Child /\ nodes'[n].cost = ChildCost
      BY <1>3, <1>5, <2>1
    <3>2. nodes'[cursor] = nodes[cursor]
      BY <1>4, <1>5, <1>6
    <3> QED
      BY <1>1, <1>4, <3>1, <3>2, ChildFacts DEF ChildCost
  <2>2. CASE n # o
    <3>1. /\ nodes[n].mother \in DOMAIN nodes /\ nodes[n].mother # o
          /\ IsMove(nodes[nodes[n].mother].state, nodes[n].state)
          /\ nodes[n].cost = nodes[nodes[n].mother].cost + 1
      BY <1>1, <1>2, <1>6 DEF IInv, HeapInv, CostIsLengthOfWay
    <3>2. nodes'[n] = nodes[n] /\ nodes'[nodes[n].mother] = nodes[nodes[n].mother]
      BY <1>5, <2>2, <3>1
    <3> QED
      BY <3>1, <3>2
  <2> QED
    BY <2>1, <2>2
<1>11. \A n \in DOMAIN nodes' \ {1} : nodes'[n].mother \notin open' \ {cursor}
  BY <1>1, <1>3, <1>5 DEF IInv, HeapInv
<1>12. HeapInv'
  <2>1. 1 \in DOMAIN nodes /\ nodes'[1] = nodes[1]
    BY <1>1, <1>5, <1>6 DEF IInv, HeapInv
  <2> QED
    BY <1>1, <1>5, <1>10, <1>11, <2>1 DEF IInv, HeapInv
<1>13. OpenInv'
  <2>1. o \in open' \ {cursor} /\ nodes'[o].state = Child
    BY <1>1, <1>3, <1>5, <1>6
  <2> QED
    BY <1>1, <1>7, <1>9, <2>1, LoopKeepsOpenInv
<1>14. WalkInv'
  BY <1>1, <1>4, <1>5, LoopKeepsWalkInv
<1> QED
  BY <1>8, <1>12, <1>13, <1>14 DEF IInv

LEMMA KeepStep == ASSUME IInv, Keep PROVE IInv'
<1>1. /\ NextChild /\ problem' = problem /\ cursor' = cursor /\ path' = path
      /\ nodes' = nodes /\ open' = open /\ result = "searching" /\ result' = result
  BY DEF Keep, NextChild
<1>2. TypeOK'
  BY <1>1, ChildFacts DEF IInv, TypeOK
<1>3. HeapInv'
  BY <1>1 DEF IInv, HeapInv, CostIsLengthOfWay
<1>4. NoStateIsOpenTwice'
  BY <1>1 DEF IInv, OpenInv, NoStateIsOpenTwice
<1>5. OpenInv'
  <2>1. PICK n \in open : nodes[n].state = Child
    BY DEF Keep
  <2>2. n # cursor
    BY <1>1, <2>1, ChildFacts
  <2> QED
    BY <1>1, <1>4, <2>1, <2>2, LoopKeepsOpenInv
<1>6. WalkInv'
  BY <1>1, ChildFacts, LoopKeepsWalkInv
<1> QED
  BY <1>2, <1>3, <1>5, <1>6 DEF IInv
LEMMA PickStep == ASSUME IInv, Pick PROVE IInv'
<1>1. /\ result = "searching" /\ open' = open \ {cursor} /\ cursor' \in open' /\ tried' = 0
      /\ result' = IF nodes[cursor'].state \in problem.ends THEN "walking" ELSE "searching"
      /\ problem' = problem /\ nodes' = nodes /\ path' = path
  BY DEF Pick
<1>2. cursor' \in DOMAIN nodes /\ cursor' \notin {Null, Garbage}
  BY <1>1, NodeFacts DEF IInv, TypeOK, Null, Garbage
<1>3. TypeOK'
  BY <1>1, <1>2 DEF IInv, TypeOK
<1>4. HeapInv'
  BY <1>1 DEF IInv, HeapInv, CostIsLengthOfWay
<1>5. OpenInv'
  <2>1. NoStateIsOpenTwice'
    BY <1>1 DEF IInv, OpenInv, NoStateIsOpenTwice
  <2>2. tried' <= Len(Children') /\ 1 .. tried' = {}
    <3>1. nodes'[cursor'].state \in FreeState
      BY <1>1, <1>2, NodeFacts DEF IInv
    <3>2. Children' \in Seq(FreeState)
      BY <3>1, ExpandType DEF Children
    <3> QED
      BY <1>1, <3>2, LenProperties
  <2>3. open' # {}
    BY <1>1
  <2> QED
    BY <1>1, <2>1, <2>2, <2>3 DEF OpenInv
<1>6. WalkInv'
  <2>1. path' = <<>> /\ (result' = "walking" => nodes'[cursor'].state \in problem'.ends)
    BY <1>1 DEF IInv, WalkInv
  <2>2. \A i \in 1 .. Len(path') - 1 : IsMove(path'[i], path'[i + 1])
    BY <1>1 DEF IInv, WalkInv
  <2> QED
    BY <1>2, <2>1, <2>2 DEF WalkInv
<1> QED
  BY <1>3, <1>4, <1>5, <1>6 DEF IInv

LEMMA PickNothingStep == ASSUME IInv, PickNothing PROVE IInv'
<1>1. /\ result = "searching" /\ tried = Len(Children) /\ open = {cursor}
      /\ open' = {} /\ result' = "undefined" /\ UNCHANGED <<problem, nodes, cursor, tried, path>>
  BY DEF PickNothing
<1>2. TypeOK'
  BY <1>1 DEF IInv, TypeOK
<1>3. HeapInv'
  BY <1>1 DEF IInv, HeapInv, CostIsLengthOfWay
<1>4. cursor \in DOMAIN nodes /\ cursor \notin {Null, Garbage}
  BY <1>1, NodeFacts DEF IInv, TypeOK, Null, Garbage
\* had the cursor a move, there would be a state open beside it
<1>5. Children = <<>>
  <2>1. Children \in Seq(FreeState)
    BY <1>4, NodeFacts, ExpandType DEF Children, IInv
  <2>2. ~ \E i \in 1 .. Len(Children) : TRUE
    BY <1>1 DEF IInv, OpenInv
  <2> QED
    BY <2>1, <2>2, EmptySeq
<1>6. OpenInv'
  BY <1>1, <1>5 DEF OpenInv, NoStateIsOpenTwice, Children
<1>7. WalkInv'
  BY <1>1, <1>4 DEF IInv, WalkInv
<1> QED
  BY <1>2, <1>3, <1>6, <1>7 DEF IInv

LEMMA CollectStep == ASSUME IInv, Collect PROVE IInv'
<1>1. /\ result = "walking" /\ cursor \in DOMAIN nodes
      /\ path' = <<nodes[cursor].state>> \o path
      /\ cursor' = nodes[cursor].mother
      /\ UNCHANGED <<problem, nodes, open, tried, result>>
  BY DEF Collect
<1> DEFINE s == nodes[cursor].state
<1>2. s \in FreeState /\ path \in Seq(FreeState) /\ Len(path) \in Nat
      /\ (path # <<>> => Len(path) >= 1)
  BY <1>1, NodeFacts, LenProperties, EmptySeq DEF IInv, TypeOK
<1>3. /\ path' \in Seq(FreeState) /\ Len(path') = Len(path) + 1 /\ path' # <<>>
      /\ path'[1] = s
      /\ \A i \in 2 .. Len(path') : path'[i] = path[i - 1]
  <2>1. <<s>> \in Seq(FreeState) /\ Len(<<s>>) = 1 /\ <<s>>[1] = s
    BY <1>2
  <2> HIDE DEF s
  <2>2. /\ path' \in Seq(FreeState) /\ Len(path') = 1 + Len(path)
        /\ \A i \in 1 .. 1 + Len(path) : path'[i] = IF i <= 1 THEN <<s>>[i] ELSE path[i - 1]
    BY <1>1, <1>2, <2>1, ConcatProperties DEF s
  <2>3. path' # <<>>
    BY <1>2, <2>2, EmptySeq
  <2> QED
    BY <1>2, <2>1, <2>2, <2>3
\* the mother is an object one move before, or the cursor is the start state
<1>4. \/ cursor' \in DOMAIN nodes /\ IsMove(nodes[cursor'].state, s)
      \/ cursor' \in {Null, Garbage} /\ s = problem.start
  <2>1. CASE cursor = 1
    BY <1>1, <2>1 DEF IInv, HeapInv
  <2>2. CASE cursor # 1
    BY <1>1, <2>2 DEF IInv, HeapInv, CostIsLengthOfWay
  <2> QED
    BY <2>1, <2>2
<1>5. DOMAIN nodes \cap {Null, Garbage} = {}
  BY NodeFacts DEF IInv, Null, Garbage
<1>6. TypeOK'
  BY <1>1, <1>3, <1>4 DEF IInv, TypeOK
<1>7. HeapInv'
  BY <1>1 DEF IInv, HeapInv, CostIsLengthOfWay
<1>8. OpenInv'
  <2>1. open # {}
    BY <1>1 DEF IInv, OpenInv
  <2> QED
    BY <1>1, <2>1 DEF IInv, OpenInv, NoStateIsOpenTwice
<1>9. WalkInv'
  <2>1. \A i \in 1 .. Len(path') - 1 : IsMove(path'[i], path'[i + 1])
    <3> SUFFICES ASSUME NEW i \in 1 .. Len(path) PROVE IsMove(path'[i], path'[i + 1])
      BY <1>2, <1>3
    <3>1. path'[i + 1] = path[i]
      <4>1. i + 1 \in 2 .. Len(path') /\ (i + 1) - 1 = i
        BY <1>2, <1>3
      <4> QED
        BY <1>3, <4>1
    <3>2. CASE i = 1
      <4>1. path # <<>>
        BY <1>2, <3>2, EmptySeq
      <4> QED
        BY <1>1, <1>3, <3>1, <3>2, <4>1 DEF IInv, WalkInv
    <3>3. CASE i # 1
      <4>1. i \in 2 .. Len(path') /\ i - 1 \in 1 .. Len(path) - 1 /\ (i - 1) + 1 = i
        BY <1>2, <1>3, <3>3
      <4>2. path'[i] = path[i - 1] /\ IsMove(path[i - 1], path[i])
        BY <1>3, <4>1 DEF IInv, WalkInv
      <4> QED
        BY <3>1, <4>2
    <3> QED
      BY <3>2, <3>3
  <2>2. path'[Len(path')] \in problem.ends
    <3>1. CASE path = <<>>
      BY <1>1, <1>2, <1>3, <3>1, EmptySeq DEF IInv, WalkInv
    <3>2. CASE path # <<>>
      <4>1. Len(path') \in 2 .. Len(path') /\ Len(path') - 1 = Len(path)
        BY <1>2, <1>3, <3>2
      <4> QED
        BY <1>3, <3>2, <4>1 DEF IInv, WalkInv
    <3> QED
      BY <3>1, <3>2
  <2> QED
    BY <1>1, <1>3, <1>4, <1>5, <2>1, <2>2 DEF WalkInv
<1> QED
  BY <1>6, <1>7, <1>8, <1>9 DEF IInv

LEMMA ReturnStep == ASSUME IInv, Return PROVE IInv'
<1>1. /\ result = "walking" /\ cursor \in {Null, Garbage}
      /\ result' \in {"found", "undefined"}
      /\ UNCHANGED <<problem, nodes, open, cursor, tried, path>>
  BY DEF Return
<1>2. open # {}
  BY <1>1 DEF IInv, OpenInv
<1>3. TypeOK'
  BY <1>1 DEF IInv, TypeOK
<1>4. HeapInv'
  BY <1>1 DEF IInv, HeapInv, CostIsLengthOfWay
<1>5. OpenInv'
  BY <1>1, <1>2 DEF IInv, OpenInv, NoStateIsOpenTwice
<1>6. WalkInv'
  BY <1>1 DEF IInv, WalkInv
<1> QED
  BY <1>3, <1>4, <1>5, <1>6 DEF IInv

-----------------------------------------------------------------------------
LEMMA InitInv == ASSUME Init PROVE IInv
<1>1. PICK mother \in {Null, Garbage} : nodes = <<Node(problem.start, 0, mother)>>
  BY DEF Init
<1>2. /\ problem \in Problems /\ open = {1} /\ cursor = 1 /\ tried = 0 /\ path = <<>>
      /\ result = "searching" /\ problem.start \in FreeState
  BY AStarAssumption DEF Init
<1>3. Node(problem.start, 0, mother) \in Object
  BY <1>1, <1>2 DEF Node, Object, Null, Garbage
<1>4. /\ nodes \in Seq(Object) /\ Len(nodes) = 1 /\ DOMAIN nodes = {1}
      /\ nodes[1].state = problem.start /\ nodes[1].cost = 0 /\ nodes[1].mother = mother
  BY <1>1, <1>3 DEF Node
<1>5. TypeOK
  BY <1>2, <1>4 DEF TypeOK, Object
<1>6. HeapInv
  BY <1>2, <1>4 DEF HeapInv, CostIsLengthOfWay
<1>7. tried <= Len(Children) /\ 1 .. tried = {}
  <2>1. Children \in Seq(FreeState)
    BY <1>2, <1>4, ExpandType DEF Children
  <2> QED
    BY <1>2, <2>1, LenProperties
<1>8. OpenInv
  BY <1>2, <1>7 DEF OpenInv, NoStateIsOpenTwice
<1>9. WalkInv
  BY <1>2 DEF WalkInv, Null, Garbage
<1> QED
  BY <1>5, <1>6, <1>8, <1>9 DEF IInv
\* IInv holds at every moment of every search (AStarSearch::find and createVector).
THEOREM Invariance == Spec => []IInv
<1>1. Init => IInv
  BY InitInv
<1>2. IInv /\ [Next]_vars => IInv'
  <2> SUFFICES ASSUME IInv, [Next]_vars PROVE IInv'
    OBVIOUS
  <2>1. CASE UNCHANGED vars
    BY <2>1 DEF IInv, TypeOK, HeapInv, CostIsLengthOfWay, OpenInv, NoStateIsOpenTwice,
                Children, WalkInv, vars
  <2>2. CASE AddState
    BY <2>2, AddStateStep
  <2>3. CASE Relax
    BY <2>3, RelaxStep
  <2>4. CASE Keep
    BY <2>4, KeepStep
  <2>5. CASE Pick
    BY <2>5, PickStep
  <2>6. CASE PickNothing
    BY <2>6, PickNothingStep
  <2>7. CASE Collect
    BY <2>7, CollectStep
  <2>8. CASE Return
    BY <2>8, ReturnStep
  <2> QED
    BY <2>1, <2>2, <2>3, <2>4, <2>5, <2>6, <2>7, <2>8 DEF Next
<1> QED
  BY <1>1, <1>2, PTL DEF Spec

\* The variables keep their types: no state that is opened lies in a wall or off the map,
\* and no mother is anything but an object, null or the pointer that was never set.
THEOREM TypeCorrect == Spec => []TypeOK
<1>1. IInv => TypeOK
  BY DEF IInv
<1> QED
  BY <1>1, Invariance, PTL

\* The list of open states never holds a state twice.
THEOREM OpenOnce == Spec => []NoStateIsOpenTwice
<1>1. IInv => NoStateIsOpenTwice
  BY DEF IInv, OpenInv
<1> QED
  BY <1>1, Invariance, PTL

\* The cost of a state is the length of its way back, however often mothers change.
THEOREM WaysHome == Spec => []CostIsLengthOfWay
<1>1. IInv => CostIsLengthOfWay
  BY DEF IInv, HeapInv
<1> QED
  BY <1>1, Invariance, PTL

\* What createVector has collected when it leaves the objects is a route from the start
\* to an end.
THEOREM WalkRoute == Spec => []WalkIsRoute
<1>1. IInv => WalkIsRoute
  BY DEF IInv, WalkInv, WalkIsRoute
<1> QED
  BY <1>1, Invariance, PTL

\* The list runs empty under the search only when the robot cannot move at all.
THEOREM DeadEnd == Spec => []EmptiedInDeadEnd
<1>1. IInv => EmptiedInDeadEnd
  BY DEF IInv, OpenInv, EmptiedInDeadEnd, Children
<1> QED
  BY <1>1, Invariance, PTL
=============================================================================
