-------------------------- MODULE DepthFirstSearch --------------------------
(***************************************************************************)
(* DepthFirstSearch.cpp: the recursive search for a path.  The calls of    *)
(* depthSearch that have not returned are those of the states on `path`,   *)
(* and `tried` counts, for each, the moves its loop has taken.             *)
(***************************************************************************)
EXTENDS GridWorld, FiniteSets

CONSTANT Problems   \* the searches started: records [start, ends]

ASSUME SearchAssumption ==
    \A p \in Problems : p.start \in FreeState /\ p.ends \subseteq State

VARIABLES
    problem,          \* start_state and end_states
    path,             \* path
    alreadyVisited,   \* already_visited: only looked up in, never read in order
    tried,            \* the position of the loop of each call
    result            \* what the first call has returned

vars == <<problem, path, alreadyVisited, tried, result>>

Init ==
    /\ problem \in Problems
    /\ path = <<>>
    /\ alreadyVisited = {}
    /\ tried = <<>>
    /\ result = "searching"

Top == Len(tried)
Front(s) == SubSeq(s, 1, Len(s) - 1)

\* A call that does not return at once: it ends the whole search at an end state.
Enter(s) ==
    /\ s \notin alreadyVisited
    /\ alreadyVisited' = alreadyVisited \cup {s}
    /\ path' = Append(path, s)
    /\ result' = IF s \in problem.ends THEN "found" ELSE "searching"

\* find() calls depthSearch for the start state
Begin ==
    /\ result = "searching"
    /\ path = <<>>
    /\ Enter(problem.start)
    /\ tried' = <<0>>
    /\ UNCHANGED problem

\* ... and the loop calls it for each move
Descend ==
    /\ result = "searching"
    /\ path # <<>>
    /\ tried[Top] < Len(Expand(path[Top]))
    /\ Enter(Expand(path[Top])[tried[Top] + 1])
    /\ tried' = Append([tried EXCEPT ![Top] = @ + 1], 0)
    /\ UNCHANGED problem

\* Bug: the loop does not advance.
Skip_Stays ==
    /\ result = "searching"
    /\ path # <<>>
    /\ tried[Top] < Len(Expand(path[Top]))
    /\ Expand(path[Top])[tried[Top] + 1] \in alreadyVisited
    /\ UNCHANGED vars

\* ... which returns false for a state that was visited before.
Skip ==
    /\ result = "searching"
    /\ path # <<>>
    /\ tried[Top] < Len(Expand(path[Top]))
    /\ Expand(path[Top])[tried[Top] + 1] \in alreadyVisited
    /\ tried' = [tried EXCEPT ![Top] = @ + 1]
    /\ UNCHANGED <<problem, path, alreadyVisited, result>>

\* Bug: one pass of the loop is missing.
Backtrack_Early ==
    /\ result = "searching"
    /\ path # <<>>
    /\ tried[Top] >= Len(Expand(path[Top])) - 1
    /\ path' = Front(path)
    /\ tried' = Front(tried)
    /\ result' = IF Top = 1 THEN "failed" ELSE "searching"
    /\ UNCHANGED <<problem, alreadyVisited>>

\* Bug: the state stays on the path.
Backtrack_NoPop ==
    /\ result = "searching"
    /\ path # <<>>
    /\ tried[Top] = Len(Expand(path[Top]))
    /\ tried' = Front(tried)
    /\ result' = IF Top = 1 THEN "failed" ELSE "searching"
    /\ UNCHANGED <<problem, path, alreadyVisited>>

\* The end of the loop.
Backtrack ==
    /\ result = "searching"
    /\ path # <<>>
    /\ tried[Top] = Len(Expand(path[Top]))
    /\ path' = Front(path)
    /\ tried' = Front(tried)
    /\ result' = IF Top = 1 THEN "failed" ELSE "searching"
    /\ UNCHANGED <<problem, alreadyVisited>>

Next == Begin \/ Descend \/ Skip \/ Backtrack

Spec == Init /\ [][Next]_vars

\* The search is one thread, and goes on.
FairSpec == Spec /\ WF_vars(Next)

-----------------------------------------------------------------------------
TypeOK ==
    /\ problem \in Problems
    /\ path \in Seq(FreeState)
    /\ alreadyVisited \subseteq FreeState
    /\ tried \in Seq(Nat)
    /\ result \in {"searching", "found", "failed"}

\* A path that is returned leads from the start to an end, by moves of the robot that
\* visit no state twice.
PathIsRoute ==
    result = "found" =>
        /\ path[1] = problem.start
        /\ path[Len(path)] \in problem.ends
        /\ \A i \in 1 .. Len(path) - 1 : IsMove(path[i], path[i + 1])
        /\ \A i, j \in 1 .. Len(path) : path[i] = path[j] => i = j

\* The search gives up only when no end can be reached: what it has visited contains the
\* start, every move from it, and no end.
FailureIsExhaustive ==
    result = "failed" =>
        /\ path = <<>>
        /\ problem.start \in alreadyVisited
        /\ \A s \in alreadyVisited : \A i \in DOMAIN Expand(s) : Expand(s)[i] \in alreadyVisited
        /\ alreadyVisited \cap problem.ends = {}

\* On the map of the program it never gives up: from each state every free cell can be
\* reached, in any heading, although a turn towards a wall is not a move.
FreeEndIsFound == result = "failed" => problem.ends \cap FreeState = {}

\* The commands made of the path take the robot along the path.
CommandsFollowPath ==
    result = "found" =>
        \A i \in 1 .. Len(path) : Replay(problem.start, ToCommands(path))[i - 1] = path[i]

\* The recursion ends.
Terminates == <>(result # "searching")
=============================================================================
