---------------------------- MODULE ClientSlots ----------------------------
(***************************************************************************)
(* simxStart and simxFinish (extApi.c): the table of clients that all the  *)
(* threads of a program share, the count of clients, the global mutex that *)
(* lives as long as a client does, and the thread that each client gets.   *)
(*                                                                         *)
(* _softLock is "very simple non fail-safe": it tests and sets a plain     *)
(* variable.  The table is read under the global mutex but written without *)
(* it.  When two calls meet in one of the places that this leaves open the *)
(* program does not recover; the model notes the mishap and goes no        *)
(* further.  What the messages do is in RemoteApiExchange.                 *)
(***************************************************************************)
EXTENDS Integers, FiniteSets

CONSTANTS
    User,       \* the threads of the program that call simxStart and simxFinish
    MaxSlots,   \* MAX_EXT_API_CONNECTIONS
    Address,    \* an address together with a port
    PortOf,     \* the port of each
    Freed,      \* an address whose memory is not, or no longer, allocated
    Options,    \* bound: waitUntilConnected and doNotReconnectOnceDisconnected, as pairs
    MaxStarts,  \* bound: calls of simxStart
    MaxFinishes \* bound: calls of simxFinish by the program

Slot == 0 .. MaxSlots - 1
NoSlot == -1
Client == 1 .. MaxStarts  \* a call of simxStart, and the client it makes
NoClient == 0

ASSUME SlotsAssumption ==
    /\ IsFiniteSet(User)
    /\ {"none", "free"} \cap User = {}
    /\ MaxSlots \in Nat \ {0}
    /\ Freed \notin Address
    /\ PortOf \in [Address -> Nat]
    /\ Options \subseteq BOOLEAN \X BOOLEAN
    /\ MaxStarts \in Nat
    /\ MaxFinishes \in Nat

VARIABLES
    softLock,     \* _softLock_
    initialised,  \* _wholeThingInitialized
    count,        \* _clientsCount
    mutex,        \* _globalMutex: "none", "free" or the thread that holds it
    pending,      \* _clientIDForThread
    taken,        \* _nextConnectionID[i] != 0
    port,         \* _connectionPort[i], which the clean-up leaves as it is
    address,      \* _connectionIP[i], with the port that was stored before it
    running,      \* _communicationThreadRunning[i]
    connected,    \* _connectionID[i] != -1
    temp,         \* _tempConnectionAddress[i], _tempDoNotReconnectOnceDisconnected[i]
    thread,       \* the communication thread launched for each client
    pc,           \* where a call is
    call,         \* its parameters; the client it makes or is meant to end
    slot,         \* its clientID; in simxFinish(-1) the loop variable
    starts,
    finishes,
    owner,        \* history: whose slot it is
    mishap        \* history: the first step that spoils everything

table == <<taken, port, address, owner>>
threads == <<pending, running, connected, temp, thread>>
global == <<softLock, initialised, count, mutex>>
vars == <<global, table, threads, pc, call, slot, starts, finishes, mishap>>

NoCall == [kind |-> "none", client |-> NoClient]

Init ==
    /\ softLock = FALSE
    /\ initialised = FALSE
    /\ count = 0
    /\ mutex = "none"
    /\ pending = NoSlot
    /\ taken = [s \in Slot |-> FALSE]
    /\ port = [s \in Slot |-> 0]
    /\ address = [s \in Slot |-> Freed]
    /\ running = [s \in Slot |-> FALSE]
    /\ connected = [s \in Slot |-> FALSE]
    /\ temp = [s \in Slot |-> [address |-> Freed, stay |-> FALSE]]
    /\ thread = [c \in Client |-> [state |-> "none", slot |-> NoSlot, address |-> Freed]]
    /\ pc = [u \in User |-> "idle"]
    /\ call = [u \in User |-> NoCall]
    /\ slot = [u \in User |-> NoSlot]
    /\ starts = 0
    /\ finishes = 0
    /\ owner = [s \in Slot |-> NoClient]
    /\ mishap = "none"

-----------------------------------------------------------------------------
Go(u, label) == pc' = [pc EXCEPT ![u] = label]
At(u, label) == pc[u] = label /\ mishap = "none"

Spoil(what) ==
    /\ mishap' = what
    /\ UNCHANGED <<global, table, threads, pc, call, slot, starts, finishes>>

rest == <<call, slot, starts, finishes, mishap>>

\* The call comes back.
Return(u) ==
    /\ Go(u, "idle")
    /\ call' = [call EXCEPT ![u] = NoCall]
    /\ slot' = [slot EXCEPT ![u] = NoSlot]

\* The test of the variable is one step, the assignment another.
SoftLock(u, test, set, locked) ==
    \/ /\ At(u, test)
       /\ ~softLock
       /\ Go(u, set)
       /\ UNCHANGED <<global, table, threads, rest>>
    \/ /\ At(u, set)
       /\ softLock
       /\ Spoil("both have the soft lock")
    \/ /\ At(u, set)
       /\ ~softLock
       /\ softLock' = TRUE
       /\ Go(u, locked)
       /\ UNCHANGED <<initialised, count, mutex, table, threads, rest>>

-----------------------------------------------------------------------------
(* simxStart *)

Start(u, a, wait, stay) ==
    /\ At(u, "idle")
    /\ starts < MaxStarts
    /\ starts' = starts + 1
    /\ call' = [call EXCEPT ![u] =
           [kind |-> "start", client |-> starts + 1, address |-> a, wait |-> wait, stay |-> stay]]
    /\ Go(u, "increase")
    /\ UNCHANGED <<global, table, threads, slot, finishes, mishap>>

\* _increaseClientCount, up to _softUnlock
Initialise(u) ==
    /\ At(u, "initialise")
    /\ IF initialised THEN UNCHANGED <<initialised, mutex, taken, owner>>
       ELSE /\ initialised' = TRUE
            /\ taken' = [s \in Slot |-> FALSE]
            /\ owner' = [s \in Slot |-> NoClient]
            /\ mutex' = "free"
    /\ softLock' = FALSE
    /\ Go(u, "count")
    /\ UNCHANGED <<count, port, address, threads, rest>>

IncreaseClientCount(u) ==
    \/ /\ At(u, "count")
       /\ mutex = "none"
       /\ Spoil("a mutex is locked that is not there")
    \/ /\ At(u, "count")
       /\ mutex = "free"
       /\ count' = count + 1
       /\ Go(u, "choose")
       /\ UNCHANGED <<softLock, initialised, mutex, table, threads, rest>>

\* Bug: the addresses of the other clients are not compared.
IsUsed_Never(a) == FALSE

IsUsed(a) == \E s \in Slot : taken[s] /\ address[s] = a

\* The first free slot; there is none if all are taken or the address is already used.
IsFreeSlot(s, a) == ~taken[s] /\ (\A t \in 0 .. s - 1 : taken[t]) /\ ~IsUsed(a)
IsRefused(a) == (\A s \in Slot : taken[s]) \/ IsUsed(a)

\* If a slot is free the addresses at the same port are compared, up to the first that is
\* equal; one of them may not be stored yet, or released already.
ReadsNoAddress(a) ==
    /\ \E s \in Slot : ~taken[s]
    /\ \E t \in Slot :
          /\ taken[t] /\ port[t] = PortOf[a] /\ address[t] = Freed
          /\ ~\E r \in 0 .. t - 1 : taken[r] /\ address[r] = a

ChooseSlot(u) ==
    /\ At(u, "choose")
    /\ mutex = "free"
    /\ \/ ReadsNoAddress(call[u].address) /\ Spoil("an address is read that is not there")
       \/ /\ ~ReadsNoAddress(call[u].address)
          /\ \/ /\ \E s \in Slot :
                      IsFreeSlot(s, call[u].address) /\ slot' = [slot EXCEPT ![u] = s]
                /\ Go(u, "claim")
             \/ /\ IsRefused(call[u].address)
                /\ slot' = [slot EXCEPT ![u] = NoSlot]
                /\ Go(u, "refused")
          /\ UNCHANGED <<global, table, threads, call, starts, finishes, mishap>>

\* Outside of the mutex.
ClaimSlot(u) ==
    /\ At(u, "claim")
    /\ \/ taken[slot[u]] /\ Spoil("the slot is given twice")
       \/ /\ ~taken[slot[u]]
          /\ taken' = [taken EXCEPT ![slot[u]] = TRUE]
          /\ owner' = [owner EXCEPT ![slot[u]] = call[u].client]
          /\ Go(u, "fill")
          /\ UNCHANGED <<global, port, address, threads, rest>>

\* The port is stored before the address; the one that is there may be the same.
StorePort(u) ==
    /\ At(u, "fill")
    /\ port[slot[u]] # PortOf[call[u].address]
    /\ port' = [port EXCEPT ![slot[u]] = PortOf[call[u].address]]
    /\ UNCHANGED <<global, taken, address, owner, threads, pc, rest>>

FillSlot(u) ==
    \/ /\ At(u, "fill")
       /\ port[slot[u]] = PortOf[call[u].address]
       /\ IsUsed(call[u].address)
       /\ Spoil("an address is used twice")
    \/ /\ At(u, "fill")
       /\ port[slot[u]] = PortOf[call[u].address]
       /\ ~IsUsed(call[u].address)
       /\ address' = [address EXCEPT ![slot[u]] = call[u].address]
       /\ running' = [running EXCEPT ![slot[u]] = TRUE]
       /\ connected' = [connected EXCEPT ![slot[u]] = FALSE]
       /\ temp' = [temp EXCEPT ![slot[u]] = [address |-> call[u].address, stay |-> call[u].stay]]
       /\ Go(u, "launch")
       /\ UNCHANGED <<global, taken, port, owner, pending, thread, rest>>

\* The mutex is kept until the thread knows whose it is.  If the system makes no thread, of
\* which the code takes no notice, it is kept for ever.
LaunchThread(u) ==
    \/ /\ At(u, "launch")
       /\ mutex = "free"
       /\ Spoil("no thread is made")
    \/ /\ At(u, "launch")
       /\ mutex = "free"
       /\ mutex' = u
       /\ pending' = slot[u]
       /\ thread' = [thread EXCEPT ![call[u].client].state = "launched"]
       /\ Go(u, "launched")
       /\ UNCHANGED <<softLock, initialised, count, table, running, connected, temp, rest>>

ThreadIsSet(u) ==
    /\ At(u, "launched")
    /\ pending = NoSlot
    /\ mutex' = "free"
    /\ Go(u, "await")
    /\ UNCHANGED <<softLock, initialised, count, table, threads, rest>>

\* Another call has ended the client, and the slot is a third one's by now.
IsTakenAway(u) == owner[slot[u]] \notin {NoClient, call[u].client}

\* The time may be over at any moment: the client is given up.
AwaitConnection(u) ==
    /\ At(u, "await")
    /\ \/ /\ IsTakenAway(u)
          /\ Spoil("the slot is another's")
       \/ /\ ~IsTakenAway(u)
          /\ ~call[u].wait \/ connected[slot[u]]
          /\ Return(u)
          /\ UNCHANGED <<global, table, threads, starts, finishes, mishap>>
       \/ /\ ~IsTakenAway(u)
          /\ call[u].wait /\ ~connected[slot[u]]
          /\ Go(u, "finish")
          /\ UNCHANGED <<global, table, threads, rest>>

-----------------------------------------------------------------------------
(* simxFinish *)

\* The clients that a simxStart has returned.
Open == {s \in Slot : taken[s] /\ \A u \in User : call[u].client # owner[s]}

Finish(u, s) ==
    /\ At(u, "idle")
    /\ finishes < MaxFinishes
    /\ finishes' = finishes + 1
    /\ s \in Open
    /\ call' = [call EXCEPT ![u] = [kind |-> "finish", client |-> owner[s]]]
    /\ slot' = [slot EXCEPT ![u] = s]
    /\ Go(u, "finish")
    /\ UNCHANGED <<global, table, threads, starts, mishap>>

\* simxFinish(-1)
FinishAll(u) ==
    /\ At(u, "idle")
    /\ finishes < MaxFinishes
    /\ finishes' = finishes + 1
    /\ call' = [call EXCEPT ![u] = [kind |-> "finishAll", client |-> NoClient]]
    /\ slot' = [slot EXCEPT ![u] = 0]
    /\ Go(u, "finish")
    /\ UNCHANGED <<global, table, threads, starts, mishap>>

\* What simxFinish does next when it has done with a slot.
AfterSlot(u) ==
    IF call[u].kind = "finishAll" /\ slot[u] + 1 \in Slot
    THEN slot' = [slot EXCEPT ![u] = @ + 1] /\ Go(u, "stop")
    ELSE UNCHANGED slot /\ Go(u, "unlock")

StopThread(u) ==
    /\ At(u, "stop")
    /\ \/ /\ count > 0 /\ running[slot[u]]
          /\ call[u].kind # "finishAll" /\ IsTakenAway(u)
          /\ Spoil("the slot is another's")
       \/ /\ count > 0 /\ running[slot[u]]
          /\ call[u].kind # "finishAll" => ~IsTakenAway(u)
          /\ running' = [running EXCEPT ![slot[u]] = FALSE]
          /\ Go(u, "join")
          /\ UNCHANGED <<global, table, pending, connected, temp, thread, rest>>
       \/ /\ count <= 0 \/ ~running[slot[u]]
          /\ AfterSlot(u)
          /\ UNCHANGED <<global, table, threads, call, starts, finishes, mishap>>

\* Bug: it is not waited until the thread is done.
JoinThread_DoesNotWait(u) ==
    /\ At(u, "join")
    /\ running' = [running EXCEPT ![slot[u]] = FALSE]
    /\ address' = [address EXCEPT ![slot[u]] = Freed]
    /\ Go(u, "free")
    /\ UNCHANGED <<global, taken, port, owner, pending, connected, temp, thread, rest>>

JoinThread(u) ==
    /\ At(u, "join")
    /\ running[slot[u]]
    /\ running' = [running EXCEPT ![slot[u]] = FALSE]
    /\ address' = [address EXCEPT ![slot[u]] = Freed]
    /\ Go(u, "free")
    /\ UNCHANGED <<global, taken, port, owner, pending, connected, temp, thread, rest>>

GiveSlotBack(u) ==
    /\ At(u, "free")
    /\ taken' = [taken EXCEPT ![slot[u]] = FALSE]
    /\ owner' = [owner EXCEPT ![slot[u]] = NoClient]
    /\ Go(u, "decrease")
    /\ UNCHANGED <<global, port, address, threads, rest>>

\* _decreaseClientCount: there is always a client to be subtracted (SlotIsOwn).
DecreaseClientCount(u) ==
    /\ At(u, "decrease")
    /\ mutex = "free"
    /\ count > 0
    /\ count' = count - 1
    /\ Go(u, "last")
    /\ UNCHANGED <<softLock, initialised, mutex, table, threads, rest>>

\* The count is read again, without the mutex.
LastClient(u) ==
    /\ At(u, "last")
    /\ IF count = 0 THEN UNCHANGED slot /\ Go(u, "delete") ELSE AfterSlot(u)
    /\ UNCHANGED <<global, table, threads, call, starts, finishes, mishap>>

DeleteMutex(u) ==
    \/ /\ At(u, "delete")
       /\ count > 0
       /\ Spoil("the mutex of a new client is deleted")
    \/ /\ At(u, "delete")
       /\ count = 0
       /\ mutex' = "none"
       /\ initialised' = FALSE
       /\ AfterSlot(u)
       /\ UNCHANGED <<softLock, count, table, threads, call, starts, finishes, mishap>>

SoftUnlock(u) ==
    /\ At(u, "unlock")
    /\ softLock' = FALSE
    /\ Return(u)
    /\ UNCHANGED <<initialised, count, mutex, table, threads, starts, finishes, mishap>>

Step(u) ==
    \/ SoftLock(u, "increase", "increaseSet", "initialise")
    \/ SoftLock(u, "refused", "refusedSet", "decrease")
    \/ SoftLock(u, "finish", "finishSet", "stop")
    \/ Initialise(u) \/ IncreaseClientCount(u) \/ ChooseSlot(u) \/ ClaimSlot(u)
    \/ StorePort(u) \/ FillSlot(u) \/ LaunchThread(u) \/ ThreadIsSet(u) \/ AwaitConnection(u)
    \/ StopThread(u) \/ JoinThread(u) \/ GiveSlotBack(u) \/ DecreaseClientCount(u)
    \/ LastClient(u) \/ DeleteMutex(u) \/ SoftUnlock(u)

-----------------------------------------------------------------------------
(* _communicationThread *)

In(c, state) == thread[c].state = state /\ mishap = "none"
Becomes(c, state) == thread' = [thread EXCEPT ![c].state = state]
others == <<global, table, pc, call, slot, starts, finishes, mishap>>

ReadClient(c) ==
    /\ In(c, "launched")
    /\ thread' = [thread EXCEPT ![c] = [state |-> "top", slot |-> pending, address |-> Freed]]
    /\ pending' = NoSlot
    /\ UNCHANGED <<others, running, connected, temp>>

Connect(c) ==
    LET s == thread[c].slot
    IN /\ In(c, "top")
       /\ running[s]
       /\ \/ /\ thread' = [thread EXCEPT ![c] =
                    [state |-> "connected", slot |-> s, address |-> temp[s].address]]
             /\ connected' = [connected EXCEPT ![s] = TRUE]
          \/ /\ Becomes(c, "after")
             /\ UNCHANGED connected
       /\ UNCHANGED <<others, pending, running, temp>>

\* The connection is lost, or to be closed.
Disconnect(c) ==
    /\ In(c, "connected")
    /\ connected' = [connected EXCEPT ![thread[c].slot] = FALSE]
    /\ Becomes(c, "after")
    /\ UNCHANGED <<others, pending, running, temp>>

AfterConnection(c) ==
    /\ In(c, "after")
    /\ Becomes(c, IF temp[thread[c].slot].stay THEN "parked" ELSE "top")
    /\ UNCHANGED <<others, pending, running, connected, temp>>

\* Bug: the thread does not say that it is done.
Leave_Silent(c) ==
    /\ In(c, "top") \/ In(c, "parked")
    /\ ~running[thread[c].slot]
    /\ Becomes(c, "gone")
    /\ UNCHANGED <<others, pending, running, connected, temp>>

Leave(c) ==
    /\ In(c, "top") \/ In(c, "parked")
    /\ ~running[thread[c].slot]
    /\ running' = [running EXCEPT ![thread[c].slot] = TRUE]
    /\ Becomes(c, "gone")
    /\ UNCHANGED <<others, pending, connected, temp>>

Thread(c) ==
    \/ ReadClient(c) \/ Connect(c) \/ Disconnect(c) \/ AfterConnection(c) \/ Leave(c)

-----------------------------------------------------------------------------
Next ==
    \/ \E u \in User :
          \/ \E a \in Address, o \in Options : Start(u, a, o[1], o[2])
          \/ \E s \in Slot : Finish(u, s)
          \/ FinishAll(u)
          \/ Step(u)
    \/ \E c \in Client : Thread(c)

Spec == Init /\ [][Next]_vars

-----------------------------------------------------------------------------
(* Properties *)

\* The calls that are counted although they have no slot yet, or no longer.
Counted ==
    {u \in User : pc[u] \in {"choose", "claim", "refused", "refusedSet", "decrease"}}

\* While nothing goes wrong, every client has a slot and an address of its own until it is
\* given up, the count is that of the clients, and the mutex is there as long as one is: a
\* simxStart that is refused or gives up leaves nothing behind, and simxFinish neither ends
\* nor forgets the client of another.
SlotIsOwn ==
    mishap = "none" =>
        /\ count = Cardinality({s \in Slot : taken[s]}) + Cardinality(Counted)
        /\ \A s \in Slot : taken[s] <=> owner[s] # NoClient
        /\ \A s, t \in Slot : s # t /\ taken[s] /\ taken[t] =>
              owner[s] # owner[t] /\ (address[s] # address[t] \/ address[s] = Freed)
        /\ \A u \in User :
              pc[u] \in {"fill", "launch"} => owner[slot[u]] = call[u].client
        /\ count > 0 => initialised /\ mutex # "none"

\* A thread works for the client that it was launched for, at the address that this client
\* was given, and is gone when the slot is free again.
ThreadIsOwn ==
    mishap = "none" =>
        \A c \in Client : thread[c].state \notin {"none", "launched", "gone"} =>
            /\ thread[c].slot \in Slot
            /\ owner[thread[c].slot] = c
            /\ thread[c].state = "connected" => thread[c].address = address[thread[c].slot]

\* No call waits for what cannot come.  The soft lock is with a call that goes on to give it
\* back, the mutex with one whose thread is on its way, and the flag that simxFinish waits
\* for is raised by a thread that is still there, or that is yet to be launched.
NobodyWaitsInVain ==
    mishap = "none" =>
        /\ softLock =>
              \E u \in User : pc[u] \in {"initialise", "stop", "join", "free", "decrease",
                                       "last", "delete", "unlock"}
        /\ mutex \in User => pc[mutex] = "launched"
        /\ \A u \in User :
              /\ pc[u] = "launched" =>
                    /\ mutex = u
                    /\ pending # NoSlot =>
                          /\ pending = slot[u]
                          /\ \E c \in Client : thread[c].state = "launched"
              /\ pc[u] = "join" /\ ~running[slot[u]] =>
                    \/ \E c \in Client : thread[c].slot = slot[u] /\ thread[c].state # "gone"
                    \/ pending = slot[u]
                    \/ \E v \in User : pc[v] = "launch" /\ slot[v] = slot[u]
=============================================================================
