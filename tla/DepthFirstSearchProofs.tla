----------------------- MODULE DepthFirstSearchProofs -----------------------
(***************************************************************************)
(* Proofs about DepthFirstSearch, for any map and any searches on it.      *)
(***************************************************************************)
EXTENDS DepthFirstSearch, GridWorldProofs

\* The calls that have not returned: each but the first was made by the loop of the one
\* before it, and no two are for the same state.
StackInv ==
    /\ Len(tried) = Len(path)
    /\ path # <<>> => path[1] = problem.start
    /\ \A k \in 1 .. Len(path) : path[k] \in alreadyVisited
    /\ \A k \in 1 .. Len(path) : tried[k] <= Len(Expand(path[k]))
    /\ \A k \in 1 .. Len(path) - 1 : tried[k] >= 1 /\ path[k + 1] = Expand(path[k])[tried[k]]
    /\ \A i, j \in 1 .. Len(path) : path[i] = path[j] => i = j

\* What has been visited is closed under moves, but for the moves the open loops have
\* still to take.
VisitInv ==
    /\ path # <<>> \/ result = "failed" => problem.start \in alreadyVisited
    /\ path = <<>> /\ result = "searching" => alreadyVisited = {}
    /\ \A k \in 1 .. Len(path) : \A i \in 1 .. tried[k] : Expand(path[k])[i] \in alreadyVisited
    /\ \A s \in alreadyVisited :
          \/ \E k \in 1 .. Len(path) : path[k] = s
          \/ \A i \in 1 .. Len(Expand(s)) : Expand(s)[i] \in alreadyVisited

\* An end state is never passed by.
EndInv ==
    /\ result = "found" => path # <<>> /\ path[Len(path)] \in problem.ends
    /\ result = "failed" => path = <<>>
    /\ result # "found" => alreadyVisited \cap problem.ends = {}

IInv == TypeOK /\ StackInv /\ VisitInv /\ EndInv

-----------------------------------------------------------------------------
\* What popping the last element leaves.
LEMMA FrontProperties ==
    ASSUME NEW S, NEW s \in Seq(S), s # <<>>
    PROVE  /\ Front(s) \in Seq(S)
           /\ Len(Front(s)) = Len(s) - 1
           /\ \A i \in 1 .. Len(s) - 1 : Front(s)[i] = s[i]
<1>1. Len(s) \in Nat /\ Len(s) >= 1 /\ \A i \in 1 .. Len(s) : s[i] \in S
  BY EmptySeq, LenProperties
<1>2. \A i \in 1 .. Len(s) - 1 : s[i] \in S
  BY <1>1
<1> DEFINE n == Len(s) - 1
<1>3. n \in Int /\ 1 \in Int /\ \A i \in 1 .. n : s[i] \in S
  BY <1>1, <1>2
<1> HIDE DEF n
<1>4. /\ SubSeq(s, 1, n) \in Seq(S)
      /\ Len(SubSeq(s, 1, n)) = IF 1 <= n THEN n - 1 + 1 ELSE 0
      /\ \A i \in 1 .. n - 1 + 1 : SubSeq(s, 1, n)[i] = s[1 + i - 1]
  BY <1>3, SubSeqProperties
<1>5. n \in Nat /\ Front(s) = SubSeq(s, 1, n)
  BY <1>1 DEF Front, n
<1>6. n - 1 + 1 = n /\ \A i \in 1 .. n : 1 + i - 1 = i
  BY <1>5
<1>7. Len(Front(s)) = n /\ \A i \in 1 .. n : Front(s)[i] = s[i]
  BY <1>4, <1>5, <1>6
<1> QED
  BY <1>4, <1>5, <1>7 DEF n

LEMMA MoveType ==
    ASSUME TypeOK, StackInv, path # <<>>, tried[Top] < Len(Expand(path[Top]))
    PROVE  /\ Top = Len(path) /\ Top \in Nat \ {0}
           /\ path[Top] \in FreeState
           /\ tried[Top] \in Nat
           /\ tried[Top] + 1 \in 1 .. Len(Expand(path[Top]))
           /\ Expand(path[Top])[tried[Top] + 1] \in FreeState
<1>1. Top = Len(path) /\ Top \in Nat \ {0}
  BY EmptySeq, LenProperties DEF TypeOK, StackInv, Top
<1>2. path[Top] \in FreeState /\ tried[Top] \in Nat
  BY <1>1, ElementOfSeq DEF TypeOK, StackInv, Top
<1>3. Expand(path[Top]) \in Seq(FreeState)
  BY <1>2, ExpandType
<1>4. tried[Top] + 1 \in 1 .. Len(Expand(path[Top]))
  BY <1>2, <1>3, LenProperties
<1> QED
  BY <1>1, <1>2, <1>3, <1>4, ElementOfSeq

-----------------------------------------------------------------------------
LEMMA InvInit == Init => IInv
<1> SUFFICES ASSUME Init PROVE IInv
  OBVIOUS
<1>1. path = <<>> /\ tried = <<>> /\ Len(path) = 0 /\ Len(tried) = 0
  BY EmptySeq DEF Init
<1>2. TypeOK
  BY <1>1, EmptySeq DEF Init, TypeOK
<1>3. StackInv /\ VisitInv /\ EndInv
  BY <1>1 DEF Init, StackInv, VisitInv, EndInv
<1> QED
  BY <1>2, <1>3 DEF IInv

\* Entering a state: it goes on top of the stack and among the visited.
LEMMA EnterStep ==
    ASSUME IInv, result = "searching", NEW s \in FreeState, NEW counted \in Seq(Nat),
           Enter(s), UNCHANGED problem,
           tried' = Append(counted, 0), Len(counted) = Len(path),
           \A k \in 1 .. Len(path) :
               counted[k] = IF k = Len(path) THEN tried[k] + 1 ELSE tried[k],
           path = <<>> => s = problem.start,
           path # <<>> => /\ counted[Len(path)] <= Len(Expand(path[Len(path)]))
                          /\ s = Expand(path[Len(path)])[counted[Len(path)]]
    PROVE  IInv'
<1> DEFINE n == Len(path)
<1> USE DEF IInv
<1>1. /\ n \in Nat /\ Len(path') = n + 1 /\ path'[n + 1] = s
      /\ path' \in Seq(FreeState)
      /\ \A k \in 1 .. n : path'[k] = path[k] /\ path[k] \in FreeState
  BY AppendProperties, LenProperties, ElementOfSeq DEF Enter, TypeOK
<1>2. /\ Len(tried') = n + 1 /\ tried'[n + 1] = 0
      /\ tried' \in Seq(Nat)
      /\ \A k \in 1 .. n : tried'[k] = counted[k]
  BY AppendProperties, LenProperties
<1>3. \A k \in 1 .. n : tried[k] \in Nat /\ counted[k] \in Nat
  BY ElementOfSeq DEF TypeOK, StackInv
<1>4. /\ s \notin alreadyVisited /\ alreadyVisited' = alreadyVisited \cup {s}
      /\ result' = IF s \in problem.ends THEN "found" ELSE "searching"
  BY DEF Enter
<1>5. n = 0 <=> path = <<>>
  BY <1>1, EmptySeq DEF TypeOK
<1>6. path' # <<>>
  BY <1>1, EmptySeq
<1>7. \A t \in FreeState : Len(Expand(t)) \in Nat
  BY ExpandType, LenProperties
<1>8. /\ \A k \in 1 .. n : k # n => counted[k] = tried[k]
      /\ n # 0 => /\ counted[n] = tried[n] + 1
                  /\ counted[n] <= Len(Expand(path[n]))
                  /\ s = Expand(path[n])[counted[n]]
      /\ Len(tried) = n
  BY <1>1, <1>5 DEF StackInv
<1>0. n \in Nat
  BY <1>1
<1> HIDE DEF n
<1>9. TypeOK'
  BY <1>1, <1>2, <1>4 DEF TypeOK
<1>10. StackInv'
  <2>1. path'[1] = problem.start
    BY <1>1, <1>5 DEF StackInv, n
  <2>2. \A k \in 1 .. n + 1 : path'[k] \in alreadyVisited'
    BY <1>1, <1>4 DEF StackInv, n
  <2>3. ASSUME NEW k \in 1 .. n + 1 PROVE tried'[k] <= Len(Expand(path'[k]))
    <3>1. CASE k = n + 1
      BY <1>1, <1>2, <1>7, <3>1
    <3>2. CASE k = n
      BY <1>1, <1>2, <1>8, <3>2
    <3>3. CASE k \in 1 .. n - 1
      BY <1>1, <1>2, <1>8, <3>3 DEF StackInv, n
    <3>4. k = n + 1 \/ k = n \/ k \in 1 .. n - 1
      BY <1>0
    <3> QED
      BY <3>1, <3>2, <3>3, <3>4
  <2>4. ASSUME NEW k \in 1 .. n
        PROVE  tried'[k] >= 1 /\ path'[k + 1] = Expand(path'[k])[tried'[k]]
    <3>1. CASE k = n
      BY <1>1, <1>2, <1>3, <1>8, <3>1
    <3>2. CASE k \in 1 .. n - 1
      BY <1>1, <1>2, <1>8, <3>2 DEF StackInv, n
    <3>3. k = n \/ k \in 1 .. n - 1
      BY <1>0
    <3> QED
      BY <3>1, <3>2, <3>3
  <2>5. ASSUME NEW i \in 1 .. n + 1, NEW j \in 1 .. n + 1, path'[i] = path'[j] PROVE i = j
    <3>1. \A k \in 1 .. n : path'[k] # path'[n + 1]
      BY <1>1, <1>4 DEF StackInv, n
    <3>2. \A k, l \in 1 .. n : path'[k] = path'[l] => k = l
      BY <1>1 DEF StackInv, n
    <3>3. /\ i = n + 1 \/ i \in 1 .. n
          /\ j = n + 1 \/ j \in 1 .. n
      BY <1>0
    <3> QED
      BY <2>5, <3>1, <3>2, <3>3
  <2> QED
    BY <1>1, <1>2, <2>1, <2>2, <2>3, <2>4, <2>5 DEF StackInv
<1>11. VisitInv'
  <2>1. problem.start \in alreadyVisited'
    BY <1>4, <1>5 DEF VisitInv
  <2>2. ASSUME NEW k \in 1 .. n + 1, NEW i \in 1 .. tried'[k]
        PROVE  Expand(path'[k])[i] \in alreadyVisited'
    <3>1. CASE k = n + 1
      BY <1>2, <3>1
    <3>2. CASE k = n
      <4>1. i \in 1 .. tried[n] \/ i = counted[n]
        BY <1>1, <1>2, <1>3, <1>8, <3>2
      <4>2. i \in 1 .. tried[n] => Expand(path[n])[i] \in alreadyVisited
        BY <1>1, <3>2 DEF VisitInv, n
      <4> QED
        BY <1>1, <1>4, <1>8, <3>2, <4>1, <4>2
    <3>3. CASE k \in 1 .. n - 1
      BY <1>1, <1>2, <1>4, <1>8, <3>3 DEF VisitInv, n
    <3>4. k = n + 1 \/ k = n \/ k \in 1 .. n - 1
      BY <1>0
    <3> QED
      BY <3>1, <3>2, <3>3, <3>4
  <2>3. \A t \in alreadyVisited' :
           \/ \E k \in 1 .. n + 1 : path'[k] = t
           \/ \A i \in 1 .. Len(Expand(t)) : Expand(t)[i] \in alreadyVisited'
    BY <1>1, <1>4 DEF VisitInv, n
  <2> QED
    BY <1>1, <1>6, <2>1, <2>2, <2>3 DEF VisitInv
<1>12. EndInv'
  BY <1>1, <1>4, <1>6 DEF EndInv
<1> QED
  BY <1>9, <1>10, <1>11, <1>12

LEMMA InvStep == IInv /\ [Next]_vars => IInv'
<1> SUFFICES ASSUME IInv, [Next]_vars PROVE IInv'
  OBVIOUS
<1>1. CASE Begin
  <2>1. problem.start \in FreeState
    BY SearchAssumption DEF IInv, TypeOK
  <2>2. tried' = Append(<<>>, 0) /\ path = <<>> /\ Len(path) = 0
    BY <1>1, EmptySeq DEF Begin
  <2>3. <<>> \in Seq(Nat) /\ Len(<<>>) = 0
    BY EmptySeq
  <2>4. \A k \in 1 .. Len(path) : <<>>[k] = IF k = Len(path) THEN tried[k] + 1 ELSE tried[k]
    BY <2>2
  <2>5. /\ result = "searching" /\ Enter(problem.start) /\ UNCHANGED problem
    BY <1>1 DEF Begin
  <2> QED
    BY <2>1, <2>2, <2>3, <2>4, <2>5, EnterStep
<1>2. CASE Descend
  <2>1. /\ Top = Len(path) /\ Top \in Nat \ {0} /\ path[Top] \in FreeState /\ tried[Top] \in Nat
        /\ tried[Top] + 1 \in 1 .. Len(Expand(path[Top]))
        /\ Expand(path[Top])[tried[Top] + 1] \in FreeState
    BY <1>2, MoveType DEF Descend, IInv
  <2> DEFINE counted == [tried EXCEPT ![Top] = @ + 1]
  <2>2. tried \in Seq(Nat) /\ Top \in 1 .. Len(tried) /\ tried[Top] + 1 \in Nat
    BY <2>1 DEF IInv, TypeOK, Top
  <2>3. /\ counted \in Seq(Nat) /\ Len(counted) = Len(tried)
        /\ \A k \in 1 .. Len(tried) : counted[k] = IF k = Top THEN tried[Top] + 1 ELSE tried[k]
    BY <2>2, ExceptSeq
  <2>4. tried' = Append(counted, 0) /\ Enter(Expand(path[Top])[tried[Top] + 1])
    BY <1>2 DEF Descend
  <2> HIDE DEF counted
  <2>5. /\ Len(counted) = Len(path)
        /\ \A k \in 1 .. Len(path) :
              counted[k] = IF k = Len(path) THEN tried[k] + 1 ELSE tried[k]
        /\ counted[Len(path)] = tried[Top] + 1
    BY <2>1, <2>3 DEF Top
  <2> QED
    BY <1>2, <2>1, <2>3, <2>4, <2>5, EnterStep DEF Descend
<1>3. CASE Skip
  <2>1. /\ Top = Len(path) /\ Top \in Nat \ {0} /\ path[Top] \in FreeState /\ tried[Top] \in Nat
        /\ tried[Top] + 1 \in 1 .. Len(Expand(path[Top]))
    BY <1>3, MoveType DEF Skip, IInv
  <2>2. tried \in Seq(Nat) /\ Top \in 1 .. Len(tried) /\ tried[Top] + 1 \in Nat
    BY <2>1 DEF IInv, TypeOK, Top
  <2>3. /\ tried' \in Seq(Nat) /\ Len(tried') = Len(tried)
        /\ \A k \in 1 .. Len(tried) : tried'[k] = IF k = Top THEN tried[Top] + 1 ELSE tried[k]
    BY <1>3, <2>2, ExceptSeq DEF Skip
  <2>4. /\ UNCHANGED <<problem, path, alreadyVisited, result>>
        /\ Expand(path[Top])[tried[Top] + 1] \in alreadyVisited
    BY <1>3 DEF Skip
  <2>5. TypeOK'
    BY <2>3, <2>4 DEF IInv, TypeOK
  <2>6. StackInv'
    <3>0. Len(tried) = Top /\ \A k \in 1 .. Top - 1 : k \in 1 .. Top /\ k # Top
      BY <2>1 DEF Top
    <3>1. \A k \in 1 .. Len(path) - 1 : tried'[k] = tried[k]
      BY <2>1, <2>3, <3>0
    <3>2. ASSUME NEW k \in 1 .. Len(path) PROVE tried'[k] <= Len(Expand(path[k]))
      <4>1. CASE k = Top
        BY <2>1, <2>2, <2>3, <4>1
      <4>2. CASE k # Top
        BY <2>1, <2>3, <3>0, <4>2 DEF IInv, StackInv
      <4> QED
        BY <4>1, <4>2
    <3> QED
      BY <2>3, <2>4, <3>1, <3>2 DEF IInv, StackInv
  <2>7. VisitInv'
    <3>1. ASSUME NEW k \in 1 .. Len(path), NEW i \in 1 .. tried'[k]
          PROVE  Expand(path[k])[i] \in alreadyVisited
      <4>1. CASE k = Top
        <5>1. i \in 1 .. tried[Top] \/ i = tried[Top] + 1
          BY <2>1, <2>3, <4>1 DEF Top
        <5> QED
          BY <2>4, <4>1, <5>1 DEF IInv, VisitInv
      <4>2. CASE k # Top
        BY <2>1, <2>3, <4>2 DEF IInv, VisitInv, Top
      <4> QED
        BY <4>1, <4>2
    <3> QED
      BY <2>4, <3>1 DEF IInv, VisitInv
  <2>8. EndInv'
    BY <2>4 DEF IInv, EndInv
  <2> QED
    BY <2>5, <2>6, <2>7, <2>8 DEF IInv
<1>4. CASE Backtrack
  <2> DEFINE n == Len(path) - 1
  <2>1. /\ Top = Len(path) /\ Top = n + 1 /\ n \in Nat /\ tried # <<>>
        /\ path \in Seq(FreeState) /\ tried \in Seq(Nat)
    BY <1>4, EmptySeq, LenProperties DEF Backtrack, IInv, TypeOK, StackInv, Top
  <2>2. /\ path' \in Seq(FreeState) /\ Len(path') = n
        /\ \A k \in 1 .. n : path'[k] = path[k]
    BY <1>4, <2>1, FrontProperties DEF Backtrack
  <2>3. /\ tried' \in Seq(Nat) /\ Len(tried') = n
        /\ \A k \in 1 .. n : tried'[k] = tried[k]
    BY <1>4, <2>1, FrontProperties DEF Backtrack, Top
  <2>4. /\ UNCHANGED <<problem, alreadyVisited>> /\ result = "searching"
        /\ result' = IF n = 0 THEN "failed" ELSE "searching"
        /\ tried[n + 1] = Len(Expand(path[n + 1]))
    BY <1>4, <2>1 DEF Backtrack
  <2>5. path' = <<>> <=> n = 0
    BY <2>1, <2>2, EmptySeq
  <2>6. path # <<>> /\ problem.start \in alreadyVisited
    BY <1>4 DEF Backtrack, IInv, VisitInv
  <2> HIDE DEF n
  <2>7. TypeOK'
    BY <2>2, <2>3, <2>4 DEF IInv, TypeOK
  <2>8. StackInv'
    <3>1. n # 0 => path'[1] = problem.start
      BY <2>1, <2>2, <2>6 DEF IInv, StackInv
    <3>2. \A k \in 1 .. n : path[k] \in alreadyVisited /\ tried[k] <= Len(Expand(path[k]))
      BY <2>1 DEF IInv, StackInv
    <3>3. \A k \in 1 .. n - 1 : tried[k] >= 1 /\ path[k + 1] = Expand(path[k])[tried[k]]
      BY <2>1 DEF IInv, StackInv
    <3>4. \A i, j \in 1 .. n : path[i] = path[j] => i = j
      BY <2>1 DEF IInv, StackInv
    <3>5. \A k \in 1 .. n - 1 : k \in 1 .. n /\ k + 1 \in 1 .. n
      BY <2>1
    <3>6. Len(tried') = Len(path') /\ Len(path') = n
      BY <2>2, <2>3
    <3>7. path' # <<>> => path'[1] = problem'.start
      BY <2>4, <2>5, <3>1
    <3>8. \A k \in 1 .. n : path'[k] \in alreadyVisited' /\ tried'[k] <= Len(Expand(path'[k]))
      BY <2>2, <2>3, <2>4, <3>2
    <3>9. \A k \in 1 .. n - 1 : tried'[k] >= 1 /\ path'[k + 1] = Expand(path'[k])[tried'[k]]
      BY <2>2, <2>3, <3>3, <3>5
    <3>10. \A i, j \in 1 .. n : path'[i] = path'[j] => i = j
      BY <2>2, <3>4
    <3> QED
      BY <3>6, <3>7, <3>8, <3>9, <3>10 DEF StackInv
  <2>9. VisitInv'
    <3>1. \A k \in 1 .. n : \A i \in 1 .. tried'[k] : Expand(path'[k])[i] \in alreadyVisited
      <4>1. \A k \in 1 .. n : k \in 1 .. Len(path)
        BY <2>1
      <4> QED
        BY <2>2, <2>3, <4>1 DEF IInv, VisitInv
    <3>2. \A i \in 1 .. Len(Expand(path[n + 1])) : Expand(path[n + 1])[i] \in alreadyVisited
      BY <2>1, <2>4 DEF IInv, VisitInv
    <3>3. ASSUME NEW s \in alreadyVisited
          PROVE  \/ \E k \in 1 .. n : path'[k] = s
                 \/ \A i \in 1 .. Len(Expand(s)) : Expand(s)[i] \in alreadyVisited
      <4>1. CASE \E k \in 1 .. Len(path) : path[k] = s
        <5>1. PICK k \in 1 .. n + 1 : path[k] = s
          BY <2>1, <4>1
        <5>2. k = n + 1 \/ k \in 1 .. n
          BY <2>1
        <5> QED
          BY <2>2, <3>2, <5>1, <5>2
      <4>2. CASE ~ \E k \in 1 .. Len(path) : path[k] = s
        BY <4>2 DEF IInv, VisitInv
      <4> QED
        BY <4>1, <4>2
    <3> QED
      BY <2>2, <2>4, <2>5, <2>6, <3>1, <3>3 DEF VisitInv
  <2>10. EndInv'
    BY <2>4, <2>5 DEF IInv, EndInv
  <2> QED
    BY <2>7, <2>8, <2>9, <2>10 DEF IInv
<1>5. CASE UNCHANGED vars
  BY <1>5 DEF vars, IInv, TypeOK, StackInv, VisitInv, EndInv
<1> QED
  BY <1>1, <1>2, <1>3, <1>4, <1>5 DEF Next

THEOREM Invariance == Spec => []IInv
  BY InvInit, InvStep, PTL DEF Spec

\* The search stays on the free cells of the map.
THEOREM TypeCorrect == Spec => []TypeOK
<1>1. IInv => TypeOK
  BY DEF IInv
<1> QED
  BY <1>1, Invariance, PTL

LEMMA RouteInv == IInv => PathIsRoute
<1> SUFFICES ASSUME IInv, result = "found" PROVE PathIsRoute
  BY DEF PathIsRoute
<1>1. path # <<>> /\ path[Len(path)] \in problem.ends /\ path[1] = problem.start
  BY DEF IInv, EndInv, StackInv
<1>2. ASSUME NEW i \in 1 .. Len(path) - 1 PROVE IsMove(path[i], path[i + 1])
  <2>1. path[i] \in FreeState /\ tried[i] \in Nat /\ Len(path) \in Nat /\ i \in 1 .. Len(path)
    BY LenProperties, ElementOfSeq DEF IInv, TypeOK, StackInv
  <2>2. tried[i] \in 1 .. Len(Expand(path[i])) /\ path[i + 1] = Expand(path[i])[tried[i]]
    BY <2>1, ExpandType, LenProperties DEF IInv, StackInv
  <2> QED
    BY <2>1, <2>2, ExpandType, LenProperties DEF IsMove
<1> QED
  BY <1>1, <1>2 DEF PathIsRoute, IInv, StackInv

LEMMA ClosedInv == IInv => FailureIsExhaustive
<1> SUFFICES ASSUME IInv, result = "failed" PROVE FailureIsExhaustive
  BY DEF FailureIsExhaustive
<1>1. path = <<>> /\ problem.start \in alreadyVisited /\ alreadyVisited \cap problem.ends = {}
  BY DEF IInv, EndInv, VisitInv
<1>2. ASSUME NEW s \in alreadyVisited, NEW i \in DOMAIN Expand(s)
      PROVE  Expand(s)[i] \in alreadyVisited
  <2>1. \A k \in 1 .. Len(path) : FALSE
    BY <1>1, EmptySeq
  <2>2. i \in 1 .. Len(Expand(s))
    BY ExpandType, LenProperties DEF IInv, TypeOK
  <2> QED
    BY <2>1, <2>2 DEF IInv, VisitInv
<1> QED
  BY <1>1, <1>2 DEF FailureIsExhaustive

\* A path that is returned is a route from the start to an end.
THEOREM FoundIsRoute == Spec => []PathIsRoute
  BY RouteInv, Invariance, PTL

\* The search fails only when the states that can be reached hold no end.
THEOREM FailureExhaustive == Spec => []FailureIsExhaustive
  BY ClosedInv, Invariance, PTL

\* The commands made of a path that is found lead the robot along it, from the start to an
\* end, however long it is (Path::getPath).
THEOREM CommandsFollow == Spec => []CommandsFollowPath
<1>1. IInv => CommandsFollowPath
  <2> SUFFICES ASSUME IInv, result = "found" PROVE CommandsFollowPath
    BY DEF CommandsFollowPath
  <2>1. path \in Seq(FreeState) /\ path # <<>>
    BY DEF IInv, TypeOK, EndInv
  <2>2. /\ path[1] = problem.start
        /\ \A i \in 1 .. Len(path) - 1 : IsMove(path[i], path[i + 1])
    BY RouteInv DEF PathIsRoute
  <2> QED
    BY <2>1, <2>2, CommandsLeadAlong DEF CommandsFollowPath
<1> QED
  BY <1>1, Invariance, PTL

\* From each state every free state can be reached: what is closed under moves, and not
\* empty, is all of the map.
Connected ==
    \A S \in SUBSET FreeState :
        S # {} /\ (\A s \in S : \A i \in DOMAIN Expand(s) : Expand(s)[i] \in S) => S = FreeState

\* On a map that is connected, as that of the program is, the search never misses a goal
\* that is free.
THEOREM FreeEndFound == ASSUME Connected PROVE Spec => []FreeEndIsFound
<1>1. IInv => FreeEndIsFound
  <2> SUFFICES ASSUME IInv, result = "failed" PROVE problem.ends \cap FreeState = {}
    BY DEF FreeEndIsFound
  <2>1. /\ alreadyVisited # {} /\ alreadyVisited \cap problem.ends = {}
        /\ \A s \in alreadyVisited : \A i \in DOMAIN Expand(s) : Expand(s)[i] \in alreadyVisited
    BY ClosedInv DEF FailureIsExhaustive
  <2>2. alreadyVisited \in SUBSET FreeState
    BY DEF IInv, TypeOK
  <2> QED
    BY <2>1, <2>2 DEF Connected
<1> QED
  BY <1>1, Invariance, PTL
=============================================================================
