---------------------------- MODULE ResourceLock ----------------------------
(***************************************************************************)
(* The recursive lock of the remote API (remoteApi/extApiPlatform.c),      *)
(* built from two plain mutexes, a thread ID and a level.  The API has two *)
(* of them for each client: extApi_lockResources and extApi_lockSendStart, *)
(* the same code on different variables.                                   *)
(*                                                                         *)
(* A thread gives the lock back as often as it took it: the functions of   *)
(* extApi.c do, and a program that pairs its simxPauseCommunication calls. *)
(***************************************************************************)
EXTENDS Integers

CONSTANTS
    Thread,    \* the threads that use the lock
    NoThread,
    MaxDepth   \* bound: how many times a thread nests the lock

ASSUME LockAssumption ==
    /\ NoThread \notin Thread
    /\ MaxDepth \in Nat \ {0}

VARIABLES
    mutex,     \* _mutex1: the thread that holds it
    mutexAux,  \* _mutex1Aux
    owner,     \* _lock1ThreadId
    level,     \* _mutex1LockLevel
    pc,        \* where each thread is in lockResources or unlockResources
    depth      \* how many times each thread has come back from lockResources
               \* and not gone into unlockResources

lockVars == <<mutex, mutexAux, owner, level, pc, depth>>

\* The places of the two functions, each before the step it names: _simpleLock of the
\* aux mutex, first level or again, _simpleLock of the mutex, the aux mutex and the
\* ownership; the aux mutex, the decrement, _simpleUnlock of the mutex.
Locking == {"lockAux", "check", "lockMutex", "lockAux2", "own"}
Unlocking == {"unlockAux", "decrement", "unlockMutex"}

\* The thread ID is never initialised: a slot that is used again still has the last one.
LockInit ==
    /\ mutex = NoThread
    /\ mutexAux = NoThread
    /\ owner \in Thread \cup {NoThread}
    /\ level = 0
    /\ pc = [t \in Thread |-> "idle"]
    /\ depth = [t \in Thread |-> 0]

At(t, place) == pc[t] = place
Goto(t, place) == pc' = [pc EXCEPT ![t] = place]

-----------------------------------------------------------------------------
(* extApi_lockResources *)

Lock(t) ==
    /\ At(t, "idle")
    /\ depth[t] < MaxDepth
    /\ Goto(t, "lockAux")
    /\ UNCHANGED <<mutex, mutexAux, owner, level, depth>>

LockAux(t) ==
    /\ mutexAux = NoThread
    /\ mutexAux' = t
    /\ \/ At(t, "lockAux") /\ Goto(t, "check")
       \/ At(t, "lockAux2") /\ Goto(t, "own")
       \/ At(t, "unlockAux") /\ Goto(t, "decrement")
    /\ UNCHANGED <<mutex, owner, level, depth>>

\* Bug: the level is not looked at, only the thread that had the lock last.
LockAgain_AnyLevel(t) ==
    /\ At(t, "check")
    /\ owner = t
    /\ level' = level + 1
    /\ depth' = [depth EXCEPT ![t] = @ + 1]
    /\ mutexAux' = NoThread
    /\ Goto(t, "idle")
    /\ UNCHANGED <<mutex, owner>>

\* Bug: the level is not raised.
LockAgain_SameLevel(t) ==
    /\ At(t, "check")
    /\ owner = t /\ level > 0
    /\ depth' = [depth EXCEPT ![t] = @ + 1]
    /\ mutexAux' = NoThread
    /\ Goto(t, "idle")
    /\ UNCHANGED <<mutex, owner, level>>

\* Already locked by this thread
LockAgain(t) ==
    /\ At(t, "check")
    /\ owner = t /\ level > 0
    /\ level' = level + 1
    /\ depth' = [depth EXCEPT ![t] = @ + 1]
    /\ mutexAux' = NoThread
    /\ Goto(t, "idle")
    /\ UNCHANGED <<mutex, owner>>

\* First level lock
LockFirst(t) ==
    /\ At(t, "check")
    /\ ~(owner = t /\ level > 0)
    /\ mutexAux' = NoThread
    /\ Goto(t, "lockMutex")
    /\ UNCHANGED <<mutex, owner, level, depth>>

LockMutex(t) ==
    /\ At(t, "lockMutex")
    /\ mutex = NoThread
    /\ mutex' = t
    /\ Goto(t, "lockAux2")
    /\ UNCHANGED <<mutexAux, owner, level, depth>>

Own(t) ==
    /\ At(t, "own")
    /\ owner' = t
    /\ level' = 1
    /\ depth' = [depth EXCEPT ![t] = @ + 1]
    /\ mutexAux' = NoThread
    /\ Goto(t, "idle")
    /\ UNCHANGED mutex

-----------------------------------------------------------------------------
(* extApi_unlockResources *)

Unlock(t) ==
    /\ At(t, "idle")
    /\ depth[t] > 0
    /\ depth' = [depth EXCEPT ![t] = @ - 1]
    /\ Goto(t, "unlockAux")
    /\ UNCHANGED <<mutex, mutexAux, owner, level>>

\* Bug: the level is compared before it is lowered.
Decrement_After(t) ==
    /\ At(t, "decrement")
    /\ level' = level - 1
    /\ mutexAux' = NoThread
    /\ Goto(t, IF level = 0 THEN "unlockMutex" ELSE "idle")
    /\ UNCHANGED <<mutex, owner, depth>>

Decrement(t) ==
    /\ At(t, "decrement")
    /\ level' = level - 1
    /\ mutexAux' = NoThread
    /\ Goto(t, IF level' = 0 THEN "unlockMutex" ELSE "idle")
    /\ UNCHANGED <<mutex, owner, depth>>

\* After the aux mutex: another thread may be between the two.
UnlockMutex(t) ==
    /\ At(t, "unlockMutex")
    /\ mutex' = NoThread
    /\ Goto(t, "idle")
    /\ UNCHANGED <<mutexAux, owner, level, depth>>

-----------------------------------------------------------------------------
LockStep(t) ==
    \/ LockAux(t) \/ LockAgain(t) \/ LockFirst(t) \/ LockMutex(t) \/ Own(t)
    \/ Decrement(t) \/ UnlockMutex(t)

LockNext == \E t \in Thread : Lock(t) \/ Unlock(t) \/ LockStep(t)

LockSpec == LockInit /\ [][LockNext]_lockVars

\* A thread inside one of the two functions goes on.  Nothing says that a thread ever
\* calls them, nor that a mutex is given to the thread that has waited longest.
FairLockSpec == LockSpec /\ \A t \in Thread : WF_lockVars(LockStep(t))

-----------------------------------------------------------------------------
LockTypeOK ==
    /\ mutex \in Thread \cup {NoThread}
    /\ mutexAux \in Thread \cup {NoThread}
    /\ owner \in Thread \cup {NoThread}
    /\ level \in Nat
    /\ pc \in [Thread -> {"idle"} \cup Locking \cup Unlocking]
    /\ depth \in [Thread -> Nat]

\* The level the code keeps is the nesting of the thread inside, which it knows by its
\* ID: otherwise a nested lock would wait for itself, or an inner unlock open the lock.
LevelIsDepth ==
    \A t \in Thread : At(t, "idle") /\ depth[t] > 0 => owner = t /\ level = depth[t]

\* The nesting of a thread as the ID and the level tell it.
Nesting == [t \in Thread |-> IF owner = t THEN level ELSE 0]

\* The two functions are a recursive lock: the ID and the level change as the nesting of
\* such a lock does, so that no thread owns the lock before the one inside has left it,
\* whatever stale ID _lock1ThreadId holds.
Abstract == INSTANCE RecursiveLock WITH depth <- Nesting
RefinesRecursiveLock == Abstract!Spec

\* A lock that everyone has left, or is leaving, is taken by one of those who want it.
LockIsTaken ==
    /\ \A t \in Thread : depth[t] = 0
    /\ \E t \in Thread : pc[t] \in Locking
    ~> \E t \in Thread : depth[t] > 0
=============================================================================
