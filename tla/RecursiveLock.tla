--------------------------- MODULE RecursiveLock ---------------------------
(***************************************************************************)
(* What extApi_lockResources and extApi_lockSendStart promise their        *)
(* callers: a lock that one thread at a time is inside of, and that the    *)
(* thread inside may enter again.                                          *)
(***************************************************************************)
EXTENDS Naturals

CONSTANT Thread

VARIABLE depth   \* how many times each thread is inside

Init == depth = [t \in Thread |-> 0]

Enter(t) ==
    /\ \A u \in Thread \ {t} : depth[u] = 0
    /\ depth' = [depth EXCEPT ![t] = @ + 1]

Leave(t) ==
    /\ depth[t] > 0
    /\ depth' = [depth EXCEPT ![t] = @ - 1]

Next == \E t \in Thread : Enter(t) \/ Leave(t)

Spec == Init /\ [][Next]_depth
=============================================================================
