------------------------- MODULE ClientSlotsProofs -------------------------
(***************************************************************************)
(* ClientSlots for any number of threads, slots, addresses and calls: as   *)
(* long as no two calls meet where simxStart and simxFinish are            *)
(* unprotected, slots, threads and the count are in order, and nobody      *)
(* waits for what cannot come.                                             *)
(***************************************************************************)
EXTENDS ClientSlots, FiniteSetTheorems, TLAPS

-----------------------------------------------------------------------------
(* The inductive invariant *)

\* Where a call holds the soft lock.
Soft == {"initialise", "stop", "join", "free", "decrease", "last", "delete", "unlock"}

\* Where a simxStart has no slot yet, and where it has no thread yet.
Slotless == {"increase", "increaseSet", "initialise", "count", "choose", "claim"}
Threadless == Slotless \cup {"fill", "launch"}

Label ==
    Soft \cup Threadless
         \cup {"idle", "refused", "refusedSet", "launched", "await", "finish", "finishSet"}

ThreadState == {"none", "launched", "top", "connected", "after", "parked", "gone"}
Asleep == {"none", "launched", "gone"}

CallType ==
    [kind : {"start"}, client : Client, address : Address, wait : BOOLEAN, stay : BOOLEAN]
        \cup [kind : {"none", "finish", "finishAll"}, client : Client \cup {NoClient}]

TypeInv ==
    /\ softLock \in BOOLEAN
    /\ initialised \in BOOLEAN
    /\ count \in Int
    /\ mutex \in {"none", "free"} \cup User
    /\ pending \in Slot \cup {NoSlot}
    /\ taken \in [Slot -> BOOLEAN]
    /\ address \in [Slot -> Address \cup {Freed}]
    /\ running \in [Slot -> BOOLEAN]
    /\ temp \in [Slot -> [address : Address \cup {Freed}, stay : BOOLEAN]]
    /\ thread \in [Client -> [state : ThreadState, slot : Slot \cup {NoSlot},
                              address : Address \cup {Freed}]]
    /\ pc \in [User -> Label]
    /\ call \in [User -> CallType]
    /\ slot \in [User -> Slot \cup {NoSlot}]
    /\ starts \in 0 .. MaxStarts
    /\ owner \in [Slot -> Client \cup {NoClient}]

\* What a call needs where it is.
CallInv ==
    \A u \in User :
       /\ pc[u] \in Threadless \cup {"launched", "await", "refused", "refusedSet"}
             => call[u].kind = "start" /\ call[u].client \in Client
       /\ pc[u] \in {"claim", "fill", "launch", "launched", "await", "finish", "finishSet",
                     "stop", "join", "free"}
             => slot[u] \in Slot

\* One call at a time holds the soft lock.
SoftInv ==
    /\ softLock => \E u \in User : pc[u] \in Soft
    /\ \A u \in User : pc[u] \in Soft => softLock
    /\ \A u, v \in User : pc[u] \in Soft /\ pc[v] \in Soft => u = v

\* The clients are numbered as they come.
Numbered ==
    /\ \A u \in User : call[u].client <= starts
    /\ \A s \in Slot : owner[s] <= starts
    /\ \A c \in Client : starts < c => thread[c].state = "none"

\* Each is made or ended by one call.
OneCall ==
    \A u, v \in User : u # v /\ call[u].client # NoClient => call[u].client # call[v].client

\* A simxStart gets a slot and then a thread.
Progress ==
    \A u \in User :
       /\ pc[u] \in Slotless => \A s \in Slot : owner[s] # call[u].client
       /\ pc[u] \in Threadless => thread[call[u].client].state = "none"
       /\ pc[u] \in {"fill", "launch"} => owner[slot[u]] = call[u].client
       /\ pc[u] = "fill" => ~running[slot[u]]
       /\ pc[u] = "launch" => temp[slot[u]].address = address[slot[u]]

\* The table of clients.
TableInv ==
    \A s \in Slot :
       /\ taken[s] <=> owner[s] # NoClient
       /\ ~taken[s] => address[s] = Freed /\ ~running[s]

Distinct ==
    \A s, t \in Slot : s # t /\ taken[s] /\ taken[t] =>
       owner[s] # owner[t] /\ (address[s] # address[t] \/ address[s] = Freed)

\* A thread that was told its slot, and one that is yet to read it.
Awake ==
    \A c \in Client : thread[c].state \notin Asleep =>
       /\ thread[c].slot \in Slot
       /\ owner[thread[c].slot] = c
       /\ temp[thread[c].slot].address = address[thread[c].slot]
       /\ thread[c].state = "connected" => thread[c].address = address[thread[c].slot]

Launched ==
    /\ \A c \in Client : thread[c].state = "launched" =>
          /\ mutex \in User
          /\ call[mutex].client = c
          /\ pending = slot[mutex]
          /\ owner[slot[mutex]] = c
          /\ temp[slot[mutex]].address = address[slot[mutex]]
    /\ pending # NoSlot =>
          /\ mutex \in User
          /\ call[mutex].client \in Client
          /\ thread[call[mutex].client].state = "launched"

\* A call that ends a client, and what becomes of its thread meanwhile.
Ending ==
    \A w \in User :
       /\ pc[w] \in {"join", "free"} =>
             /\ taken[slot[w]]
             /\ \A u \in User : pc[u] = "fill" => slot[u] # slot[w]
       /\ pc[w] = "join" =>
             (running[slot[w]] <=> thread[owner[slot[w]]].state = "gone")
       /\ pc[w] = "free" =>
             /\ ~running[slot[w]]
             /\ thread[owner[slot[w]]].state = "gone"
             /\ address[slot[w]] = Freed

\* A thread leaves for such a call only, and the slot of one that is yet to be launched is
\* that of a call that is about to do so.
Gone ==
    \A s \in Slot : taken[s] /\ thread[owner[s]].state = "gone" =>
       \E w \in User : pc[w] \in {"join", "free"} /\ slot[w] = s

Stopped ==
    \A s \in Slot : taken[s] /\ ~running[s] =>
       \E w \in User : pc[w] \in {"fill", "join", "free"} /\ slot[w] = s

Unlaunched ==
    \A s \in Slot : taken[s] /\ thread[owner[s]].state = "none" =>
       \E v \in User : pc[v] \in {"fill", "launch"} /\ slot[v] = s

\* The global mutex.
MutexInv ==
    /\ initialised <=> mutex # "none"
    /\ \A u \in User : pc[u] = "launched" <=> mutex = u
    /\ \A u \in User : pc[u] = "launched" =>
          owner[slot[u]] = call[u].client \/ \E w \in User : pc[w] = "decrease"

Taken == {s \in Slot : taken[s]}

CountInv ==
    /\ count = Cardinality(Taken) + Cardinality(Counted)
    /\ count > 0 => initialised

Inv ==
    /\ TypeInv /\ CallInv /\ SoftInv /\ Numbered /\ OneCall /\ Progress
    /\ TableInv /\ Distinct /\ Awake /\ Launched
    /\ Ending /\ Gone /\ Stopped /\ Unlaunched
    /\ MutexInv /\ CountInv

IInv == mishap = "none" => Inv

-----------------------------------------------------------------------------
LEMMA Constants ==
    /\ NoSlot \notin Slot
    /\ NoClient \notin Client
    /\ 0 \in Slot
    /\ Client \subseteq Int
    /\ NoClient = 0
    /\ Freed \notin Address
    /\ "none" \notin User
    /\ "free" \notin User
    /\ IsFiniteSet(User)
    /\ IsFiniteSet(Slot)
<1>1. IsFiniteSet(Slot)
  BY SlotsAssumption, FS_Interval DEF Slot
<1>2. QED
  BY <1>1, SlotsAssumption DEF NoSlot, Slot, NoClient, Client

\* There is a client as long as a slot is taken or a call is counted.
LEMMA Positive ==
    ASSUME TypeInv, CountInv
    PROVE  /\ count \in Nat
           /\ \A s \in Slot : taken[s] => count > 0
           /\ \A u \in Counted : count > 0
<1>1. IsFiniteSet(Taken) /\ IsFiniteSet(Counted)
  BY Constants, FS_Subset DEF Taken, Counted
<1>2. Cardinality(Taken) \in Nat /\ Cardinality(Counted) \in Nat
  BY <1>1, FS_CardinalityType
<1>3. Taken # {} \/ Counted # {} => count > 0
  BY <1>1, <1>2, FS_EmptySet DEF CountInv
<1>4. (\A s \in Slot : taken[s] => Taken # {}) /\ \A u \in Counted : Counted # {}
  BY DEF Taken
<1>5. QED
  BY <1>2, <1>3, <1>4 DEF CountInv

\* Nobody is counted anew, and nobody is forgotten.
LEMMA SameCount ==
    ASSUME CountInv, Counted' = Counted, taken' = taken, count' = count,
           count > 0 => initialised'
    PROVE  CountInv'
  BY DEF CountInv, Taken

\* One is counted more, or less; a slot is taken by one who was counted, or given back.
LEMMA CountedMore ==
    ASSUME CountInv, NEW u \in User, u \notin Counted, Counted' = Counted \cup {u},
           taken' = taken, count' = count + 1, initialised'
    PROVE  CountInv'
<1>1. IsFiniteSet(Taken) /\ IsFiniteSet(Counted)
  BY Constants, FS_Subset DEF Taken, Counted
<1>2. Cardinality(Taken) \in Nat /\ Cardinality(Counted) \in Nat
  BY <1>1, FS_CardinalityType
<1>3. Cardinality(Counted \cup {u}) = Cardinality(Counted) + 1
  BY <1>1, FS_AddElement
<1>4. Taken' = Taken
  BY DEF Taken
<1>5. QED
  BY <1>2, <1>3, <1>4 DEF CountInv

LEMMA CountedLess ==
    ASSUME CountInv, NEW u \in Counted, Counted' = Counted \ {u},
           taken' = taken, count' = count - 1, initialised' = initialised
    PROVE  CountInv'
<1>1. IsFiniteSet(Taken) /\ IsFiniteSet(Counted)
  BY Constants, FS_Subset DEF Taken, Counted
<1>2. Cardinality(Taken) \in Nat /\ Cardinality(Counted) \in Nat
  BY <1>1, FS_CardinalityType
<1>3. Cardinality(Counted \ {u}) = Cardinality(Counted) - 1
  BY <1>1, FS_RemoveElement
<1>4. Taken' = Taken
  BY DEF Taken
<1>5. QED
  BY <1>2, <1>3, <1>4 DEF CountInv

LEMMA CountedTakes ==
    ASSUME CountInv, NEW u \in Counted, Counted' = Counted \ {u},
           NEW s \in Slot, s \notin Taken, Taken' = Taken \cup {s},
           count' = count, initialised' = initialised
    PROVE  CountInv'
<1>1. IsFiniteSet(Taken) /\ IsFiniteSet(Counted)
  BY Constants, FS_Subset DEF Taken, Counted
<1>2. Cardinality(Taken) \in Nat /\ Cardinality(Counted) \in Nat
  BY <1>1, FS_CardinalityType
<1>3. Cardinality(Counted \ {u}) = Cardinality(Counted) - 1
  BY <1>1, FS_RemoveElement
<1>4. Cardinality(Taken \cup {s}) = Cardinality(Taken) + 1
  BY <1>1, FS_AddElement
<1>5. QED
  BY <1>2, <1>3, <1>4 DEF CountInv

LEMMA GiverCounted ==
    ASSUME CountInv, NEW u \in User, u \notin Counted, Counted' = Counted \cup {u},
           NEW s \in Taken, Taken' = Taken \ {s},
           count' = count, initialised' = initialised
    PROVE  CountInv'
<1>1. IsFiniteSet(Taken) /\ IsFiniteSet(Counted)
  BY Constants, FS_Subset DEF Taken, Counted
<1>2. Cardinality(Taken) \in Nat /\ Cardinality(Counted) \in Nat
  BY <1>1, FS_CardinalityType
<1>3. Cardinality(Counted \cup {u}) = Cardinality(Counted) + 1
  BY <1>1, FS_AddElement
<1>4. Cardinality(Taken \ {s}) = Cardinality(Taken) - 1
  BY <1>1, FS_RemoveElement
<1>5. QED
  BY <1>2, <1>3, <1>4 DEF CountInv

-----------------------------------------------------------------------------
(* Every step keeps the invariant *)

LEMMA TestKeeps ==
    ASSUME Inv, mishap = "none", NEW u \in User,
           << pc[u], pc'[u] >> \in {<<"increase", "increaseSet">>, <<"refused", "refusedSet">>,
                                  <<"finish", "finishSet">>},
           pc' = [pc EXCEPT ![u] = pc'[u]],
           UNCHANGED <<global, table, threads, call, slot, starts>>, mishap' = "none"
    PROVE  Inv'
<1> USE Constants DEF Inv, TypeInv, Soft, Slotless, Threadless, Asleep
<1>1. /\ pc[u] \in {"increase", "refused", "finish"}
      /\ pc'[u] \in {"increaseSet", "refusedSet", "finishSet"}
      /\ pc[u] = "increase" <=> pc'[u] = "increaseSet"
      /\ pc[u] = "refused" <=> pc'[u] = "refusedSet"
  OBVIOUS
<1> USE <1>1 DEF global, table, threads
<1>2. TypeInv'
  BY DEF Label, ThreadState, CallType
<1>3. CallInv'
  BY DEF CallInv
<1>4. SoftInv'
  BY DEF SoftInv
<1>5. Progress'
  BY DEF Progress
<1>6. Ending'
  BY DEF Ending
<1>7. Gone'
  BY DEF Gone
<1>8. Stopped'
  BY DEF Stopped
<1>9. Unlaunched'
  BY DEF Unlaunched
<1>10. MutexInv'
  BY DEF MutexInv
<1>11. CountInv'
  <2>1. Counted' = Counted
    BY DEF Counted
  <2> QED
    BY <2>1, SameCount DEF CountInv
<1>12. Numbered' /\ OneCall' /\ TableInv' /\ Distinct' /\ Awake' /\ Launched'
  BY DEF Numbered, OneCall, TableInv, Distinct, Awake, Launched
<1> QED
  BY <1>2, <1>3, <1>4, <1>5, <1>6, <1>7, <1>8, <1>9, <1>10, <1>11, <1>12

LEMMA SetKeeps ==
    ASSUME Inv, mishap = "none", NEW u \in User, ~softLock, softLock' = TRUE,
           << pc[u], pc'[u] >> \in {<<"increaseSet", "initialise">>, <<"refusedSet", "decrease">>,
                                  <<"finishSet", "stop">>},
           pc' = [pc EXCEPT ![u] = pc'[u]],
           UNCHANGED <<initialised, count, mutex, table, threads, call, slot, starts>>, mishap' = "none"
    PROVE  Inv'
<1> USE Constants DEF Inv, TypeInv, Soft, Slotless, Threadless, Asleep
<1>1. /\ pc[u] \in {"increaseSet", "refusedSet", "finishSet"}
      /\ pc'[u] \in {"initialise", "decrease", "stop"}
      /\ pc[u] = "increaseSet" <=> pc'[u] = "initialise"
      /\ pc[u] = "refusedSet" <=> pc'[u] = "decrease"
  OBVIOUS
<1> USE <1>1 DEF table, threads
<1>2. TypeInv'
  BY DEF Label, ThreadState, CallType
<1>3. CallInv'
  BY DEF CallInv
<1>4. SoftInv'
  BY DEF SoftInv
<1>5. Progress'
  BY DEF Progress
<1>6. Ending'
  BY DEF Ending
<1>7. Gone'
  BY DEF Gone
<1>8. Stopped'
  BY DEF Stopped
<1>9. Unlaunched'
  BY DEF Unlaunched
<1>10. MutexInv'
  BY DEF MutexInv
<1>11. CountInv'
  <2>1. Counted' = Counted
    BY DEF Counted
  <2> QED
    BY <2>1, SameCount DEF CountInv
<1>12. Numbered' /\ OneCall' /\ TableInv' /\ Distinct' /\ Awake' /\ Launched'
  BY DEF Numbered, OneCall, TableInv, Distinct, Awake, Launched
<1> QED
  BY <1>2, <1>3, <1>4, <1>5, <1>6, <1>7, <1>8, <1>9, <1>10, <1>11, <1>12

LEMMA StartKeeps ==
    ASSUME Inv, mishap = "none", NEW u \in User, NEW a \in Address,
           NEW wait \in BOOLEAN, NEW stay \in BOOLEAN,
           Start(u, a, wait, stay), mishap' = "none"
    PROVE  Inv'
<1> USE Constants DEF Inv, TypeInv, Soft, Slotless, Threadless, Asleep
<1>1. /\ pc[u] = "idle"
      /\ starts' = starts + 1
      /\ starts' \in Client
      /\ pc' = [pc EXCEPT ![u] = "increase"]
      /\ call' = [call EXCEPT ![u] = [kind |-> "start", client |-> starts', address |-> a,
                                    wait |-> wait, stay |-> stay]]
      /\ UNCHANGED <<global, table, threads, slot>>
  BY SlotsAssumption DEF Start, Go, At, Inv, TypeInv, Client
<1> USE <1>1 DEF global, table, threads
<1>2. [kind |-> "start", client |-> starts', address |-> a, wait |-> wait, stay |-> stay] \in CallType
  BY DEF CallType
<1>3. call' \in [User -> CallType]
  BY <1>2 DEF Inv, TypeInv
<1>4. \A v \in User : call[v].client \in Int /\ (v # u => call'[v] = call[v])
  BY DEF Inv, TypeInv, CallType, Client
<1>5. call'[u].client = starts'
  BY DEF Inv, TypeInv
<1>6. TypeInv'
 BY <1>3 DEF Inv, TypeInv, Label, ThreadState, Client
<1>7. CallInv'
  BY <1>2, <1>3, <1>4, <1>5 DEF CallInv
<1>8. SoftInv'
  BY <1>2, <1>3, <1>4, <1>5 DEF SoftInv
<1>9. Numbered'
  BY <1>2, <1>3, <1>4, <1>5 DEF Numbered, Client, CallType
<1>10. OneCall'
  BY <1>2, <1>3, <1>4, <1>5 DEF OneCall, Numbered
<1>11. Progress'
  BY <1>2, <1>3, <1>4, <1>5 DEF Progress, Numbered
<1>12. Launched'
  BY <1>2, <1>3, <1>4, <1>5 DEF Launched, MutexInv
<1>13. Ending'
  BY <1>2, <1>3, <1>4, <1>5 DEF Ending
<1>14. Gone'
  BY <1>2, <1>3, <1>4, <1>5 DEF Gone
<1>15. Stopped'
  BY <1>2, <1>3, <1>4, <1>5 DEF Stopped
<1>16. Unlaunched'
  BY <1>2, <1>3, <1>4, <1>5 DEF Unlaunched
<1>17. MutexInv'
  BY <1>2, <1>3, <1>4, <1>5 DEF MutexInv
<1>18. CountInv'
  <2>1. Counted' = Counted
    BY DEF Counted
  <2> QED
    BY <2>1, SameCount DEF CountInv
<1>19. TableInv' /\ Distinct' /\ Awake'
  BY DEF TableInv, Distinct, Awake
<1> QED
  BY <1>6, <1>7, <1>8, <1>9, <1>10, <1>11, <1>12, <1>13, <1>14, <1>15, <1>16, <1>17, <1>18, <1>19

LEMMA InitialiseKeeps ==
    ASSUME Inv, mishap = "none", NEW u \in User, Initialise(u), mishap' = "none"
    PROVE  Inv'
<1> USE Constants DEF Inv, TypeInv, Soft, Slotless, Threadless, Asleep
<1>1. /\ pc[u] = "initialise"
      /\ softLock' = FALSE
      /\ initialised' = TRUE
      /\ mutex' = IF initialised THEN mutex ELSE "free"
      /\ pc' = [pc EXCEPT ![u] = "count"]
      /\ UNCHANGED <<count, table, threads, call, slot, starts>>
  <2>1. CASE initialised
    BY <2>1 DEF Initialise, Go, At, rest, table
  <2>2. CASE ~initialised
    <3>1. \A s \in Slot : taken[s] = FALSE /\ owner[s] = NoClient
      BY <2>2, Positive DEF Inv, TypeInv, TableInv, CountInv
    <3>2. taken = [s \in Slot |-> FALSE]
      BY <3>1 DEF Inv, TypeInv
    <3>3. owner = [s \in Slot |-> NoClient]
      BY <3>1 DEF Inv, TypeInv
    <3> QED
      BY <2>2, <3>2, <3>3 DEF Initialise, Go, At, rest, table
  <2> QED
    BY <2>1, <2>2
<1> USE <1>1 DEF table, threads
<1>2. TypeInv'
  BY DEF Label, ThreadState, CallType
<1>3. CallInv'
  BY DEF CallInv
<1>4. SoftInv'
  BY DEF SoftInv
<1>5. Progress'
  BY DEF Progress
<1>6. Launched'
  BY DEF Launched, MutexInv
<1>7. Ending'
  BY DEF Ending
<1>8. Gone'
  BY DEF Gone
<1>9. Stopped'
  BY DEF Stopped
<1>10. Unlaunched'
  BY DEF Unlaunched
<1>11. MutexInv'
  BY DEF MutexInv
<1>12. CountInv'
 <2>1. Counted' = Counted
    BY DEF Counted, Inv, TypeInv
  <2>2. QED
    BY <2>1, SameCount DEF Inv
<1>13. Numbered' /\ OneCall' /\ TableInv' /\ Distinct' /\ Awake'
  BY DEF Numbered, OneCall, TableInv, Distinct, Awake
<1> QED
  BY <1>2, <1>3, <1>4, <1>5, <1>6, <1>7, <1>8, <1>9, <1>10, <1>11, <1>12, <1>13

LEMMA IncreaseKeeps ==
    ASSUME Inv, mishap = "none", NEW u \in User, IncreaseClientCount(u), mishap' = "none"
    PROVE  Inv'
<1> USE Constants DEF Inv, TypeInv, Soft, Slotless, Threadless, Asleep
<1>1. /\ pc[u] = "count"
      /\ mutex = "free"
      /\ count' = count + 1
      /\ pc' = [pc EXCEPT ![u] = "choose"]
      /\ UNCHANGED <<softLock, initialised, mutex, table, threads, call, slot, starts>>
  BY DEF IncreaseClientCount, Spoil, Go, At, rest
<1> USE <1>1 DEF table, threads
<1>2. TypeInv'
  BY DEF Label, ThreadState, CallType
<1>3. CallInv'
  BY DEF CallInv
<1>4. SoftInv'
  BY DEF SoftInv
<1>5. Progress'
  BY DEF Progress
<1>6. Ending'
  BY DEF Ending
<1>7. Gone'
  BY DEF Gone
<1>8. Stopped'
  BY DEF Stopped
<1>9. Unlaunched'
  BY DEF Unlaunched
<1>10. MutexInv'
  BY DEF MutexInv
<1>11. CountInv'
  <2>1. Counted' = Counted \cup {u}
    BY DEF Counted, Inv, TypeInv
  <2>2. initialised'
    BY DEF Inv, MutexInv
  <2>3. QED
    BY <2>1, <2>2, CountedMore DEF Inv, Counted
<1>12. Numbered' /\ OneCall' /\ TableInv' /\ Distinct' /\ Awake' /\ Launched'
  BY DEF Numbered, OneCall, TableInv, Distinct, Awake, Launched
<1> QED
  BY <1>2, <1>3, <1>4, <1>5, <1>6, <1>7, <1>8, <1>9, <1>10, <1>11, <1>12

LEMMA ChooseKeeps ==
    ASSUME Inv, mishap = "none", NEW u \in User, NEW s \in Slot, pc[u] = "choose", ~taken[s],
           slot' = [slot EXCEPT ![u] = s], pc' = [pc EXCEPT ![u] = "claim"],
           UNCHANGED <<global, table, threads, call, starts>>, mishap' = "none"
    PROVE  Inv'
<1> USE Constants DEF Inv, TypeInv, Soft, Slotless, Threadless, Asleep
<1>1. /\ TRUE
  OBVIOUS
<1> USE <1>1 DEF global, table, threads
<1>2. TypeInv'
  BY DEF Label, ThreadState, CallType
<1>3. CallInv'
  BY DEF CallInv
<1>4. SoftInv'
  BY DEF SoftInv
<1>5. Progress'
  BY DEF Progress
<1>6. Launched'
  BY DEF Launched, MutexInv
<1>7. Ending'
  BY DEF Ending
<1>8. Gone'
  BY DEF Gone
<1>9. Stopped'
  BY DEF Stopped
<1>10. Unlaunched'
  BY DEF Unlaunched
<1>11. MutexInv'
  BY DEF MutexInv
<1>12. CountInv'
  <2>1. Counted' = Counted
    BY DEF Counted
  <2> QED
    BY <2>1, SameCount DEF CountInv
<1>13. Numbered' /\ OneCall' /\ TableInv' /\ Distinct' /\ Awake'
  BY DEF Numbered, OneCall, TableInv, Distinct, Awake
<1> QED
  BY <1>2, <1>3, <1>4, <1>5, <1>6, <1>7, <1>8, <1>9, <1>10, <1>11, <1>12, <1>13

LEMMA RefuseKeeps ==
    ASSUME Inv, mishap = "none", NEW u \in User, pc[u] = "choose",
           slot' = [slot EXCEPT ![u] = NoSlot], pc' = [pc EXCEPT ![u] = "refused"],
           UNCHANGED <<global, table, threads, call, starts>>, mishap' = "none"
    PROVE  Inv'
<1> USE Constants DEF Inv, TypeInv, Soft, Slotless, Threadless, Asleep
<1>1. /\ TRUE
  OBVIOUS
<1> USE <1>1 DEF global, table, threads
<1>2. TypeInv'
  BY DEF Label, ThreadState, CallType
<1>3. CallInv'
  BY DEF CallInv
<1>4. SoftInv'
  BY DEF SoftInv
<1>5. Progress'
  BY DEF Progress
<1>6. Launched'
  BY DEF Launched, MutexInv
<1>7. Ending'
  BY DEF Ending
<1>8. Gone'
  BY DEF Gone
<1>9. Stopped'
  BY DEF Stopped
<1>10. Unlaunched'
  BY DEF Unlaunched
<1>11. MutexInv'
  BY DEF MutexInv
<1>12. CountInv'
  <2>1. Counted' = Counted
    BY DEF Counted
  <2> QED
    BY <2>1, SameCount DEF CountInv
<1>13. Numbered' /\ OneCall' /\ TableInv' /\ Distinct' /\ Awake'
  BY DEF Numbered, OneCall, TableInv, Distinct, Awake
<1> QED
  BY <1>2, <1>3, <1>4, <1>5, <1>6, <1>7, <1>8, <1>9, <1>10, <1>11, <1>12, <1>13

LEMMA ClaimKeeps ==
    ASSUME Inv, mishap = "none", NEW u \in User, ClaimSlot(u), mishap' = "none"
    PROVE  Inv'
<1> USE Constants DEF Inv, TypeInv, Soft, Slotless, Threadless, Asleep
<1>1. /\ pc[u] = "claim"
      /\ ~taken[slot[u]]
      /\ taken' = [taken EXCEPT ![slot[u]] = TRUE]
      /\ owner' = [owner EXCEPT ![slot[u]] = call[u].client]
      /\ pc' = [pc EXCEPT ![u] = "fill"]
      /\ UNCHANGED <<global, address, threads, call, slot, starts>>
  BY DEF ClaimSlot, Spoil, Go, At, rest
<1> USE <1>1 DEF global, threads
<1>2. PICK c \in Client : c = call[u].client /\ slot[u] \in Slot
  BY DEF Inv, CallInv
<1>3. TypeInv'
  BY <1>2 DEF Label, ThreadState, CallType
<1>4. CallInv'
  BY <1>2 DEF CallInv
<1>5. SoftInv'
  BY <1>2 DEF SoftInv
<1>6. Numbered'
  BY <1>2 DEF Numbered
<1>7. Progress'
  BY <1>2 DEF Progress, OneCall, CallInv, TableInv
<1>8. TableInv'
  BY <1>2 DEF TableInv
<1>9. Distinct'
  BY <1>2 DEF Distinct, TableInv, Progress
<1>10. Awake'
  BY <1>2 DEF Awake, TableInv
<1>11. Launched'
  BY <1>2 DEF Launched, MutexInv, TableInv, CallInv
<1>12. Ending'
  BY <1>2 DEF Ending
<1>13. Gone'
  BY <1>2 DEF Gone, Progress, TableInv
<1>14. Stopped'
  BY <1>2 DEF Stopped
<1>15. Unlaunched'
  BY <1>2 DEF Unlaunched
<1>16. MutexInv'
  BY <1>2 DEF MutexInv, TableInv, CallInv
<1>17. CountInv'
  <2>1. Counted' = Counted \ {u}
    BY DEF Counted, Inv, TypeInv
  <2>2. Taken' = Taken \cup {slot[u]} /\ slot[u] \notin Taken
    BY <1>2 DEF Taken, Inv, TypeInv
  <2>3. QED
    BY <2>1, <2>2, <1>2, CountedTakes DEF Inv, Counted
<1>18. OneCall'
  BY DEF OneCall
<1> QED
  BY <1>3, <1>4, <1>5, <1>6, <1>7, <1>8, <1>9, <1>10, <1>11, <1>12, <1>13, <1>14, <1>15, <1>16, <1>17, <1>18

LEMMA FillKeeps ==
    ASSUME Inv, mishap = "none", NEW u \in User, FillSlot(u), mishap' = "none"
    PROVE  Inv'
<1> USE Constants DEF Inv, TypeInv, Soft, Slotless, Threadless, Asleep
<1>1. /\ pc[u] = "fill"
      /\ \A s \in Slot : taken[s] => address[s] # call[u].address
      /\ address' = [address EXCEPT ![slot[u]] = call[u].address]
      /\ running' = [running EXCEPT ![slot[u]] = TRUE]
      /\ temp' = [temp EXCEPT ![slot[u]] = [address |-> call[u].address, stay |-> call[u].stay]]
      /\ pc' = [pc EXCEPT ![u] = "launch"]
      /\ UNCHANGED <<global, taken, owner, pending, thread, call, slot, starts>>
  BY DEF FillSlot, IsUsed, Spoil, Go, At, rest
<1> USE <1>1 DEF global
<1>2. PICK c \in Client : c = call[u].client /\ slot[u] \in Slot
  BY DEF Inv, CallInv
<1>3. call[u].address \in Address /\ call[u].stay \in BOOLEAN
  BY DEF Inv, TypeInv, CallInv, CallType
<1>4. TypeInv'
  BY <1>2, <1>3 DEF Label, ThreadState, CallType
<1>5. CallInv'
  BY <1>2, <1>3 DEF CallInv
<1>6. SoftInv'
  BY <1>2, <1>3 DEF SoftInv
<1>7. Progress'
  BY <1>2, <1>3 DEF Progress, OneCall
<1>8. TableInv'
  BY <1>2, <1>3 DEF TableInv, Progress
<1>9. Distinct'
  BY <1>2, <1>3 DEF Distinct
<1>10. Awake'
  BY <1>2, <1>3 DEF Awake, Progress
<1>11. Launched'
  BY <1>2, <1>3 DEF Launched, MutexInv, Progress
<1>12. Ending'
  BY <1>2, <1>3 DEF Ending, Progress
<1>13. Gone'
  BY <1>2, <1>3 DEF Gone
<1>14. Stopped'
  BY <1>2, <1>3 DEF Stopped
<1>15. Unlaunched'
  BY <1>2, <1>3 DEF Unlaunched, Progress
<1>16. MutexInv'
  BY <1>2, <1>3 DEF MutexInv
<1>17. CountInv'
  <2>1. Counted' = Counted
    BY DEF Counted
  <2> QED
    BY <2>1, SameCount DEF CountInv
<1>18. Numbered' /\ OneCall'
  BY DEF Numbered, OneCall
<1> QED
  BY <1>4, <1>5, <1>6, <1>7, <1>8, <1>9, <1>10, <1>11, <1>12, <1>13, <1>14, <1>15, <1>16, <1>17, <1>18

LEMMA StorePortKeeps ==
    ASSUME Inv, mishap = "none", NEW u \in User, StorePort(u), mishap' = "none"
    PROVE  Inv'
<1>1. UNCHANGED <<global, taken, address, owner, threads, pc, call, slot, starts>>
  BY DEF StorePort, rest
<1> QED
  BY <1>1
     DEF global, threads, Inv, TypeInv, CallInv, SoftInv, Numbered, OneCall, Progress,
         TableInv, Distinct, Awake, Launched, Ending, Gone, Stopped, Unlaunched, MutexInv,
         CountInv, Taken, Counted

LEMMA LaunchKeeps ==
    ASSUME Inv, mishap = "none", NEW u \in User, LaunchThread(u), mishap' = "none"
    PROVE  Inv'
<1> USE Constants DEF Inv, TypeInv, Soft, Slotless, Threadless, Asleep
<1>1. /\ pc[u] = "launch"
      /\ mutex = "free"
      /\ mutex' = u
      /\ pending' = slot[u]
      /\ thread' = [thread EXCEPT ![call[u].client].state = "launched"]
      /\ pc' = [pc EXCEPT ![u] = "launched"]
      /\ UNCHANGED <<softLock, initialised, count, table, running, temp, call, slot, starts>>
  BY DEF LaunchThread, Spoil, Go, At, rest
<1> USE <1>1 DEF table
<1>2. PICK c \in Client : c = call[u].client /\ slot[u] \in Slot
  BY DEF Inv, CallInv
<1>3. thread' \in [Client -> [state : ThreadState, slot : Slot \cup {NoSlot},
                               address : Address \cup {Freed}]]
  BY <1>2 DEF Inv, TypeInv, ThreadState
<1>4. TypeInv'
  BY <1>2, <1>3 DEF Label, ThreadState, CallType
<1>5. CallInv'
  BY <1>2, <1>3 DEF CallInv
<1>6. SoftInv'
  BY <1>2, <1>3 DEF SoftInv
<1>7. Numbered'
  BY <1>2, <1>3 DEF Numbered
<1>8. Progress'
  BY <1>2, <1>3 DEF Progress, OneCall, CallInv
<1>9. Awake'
  BY <1>2, <1>3 DEF Awake
<1>10. Launched'
  BY <1>2, <1>3 DEF Launched, MutexInv, Progress
<1>11. Ending'
  BY <1>2, <1>3 DEF Ending, TableInv, Progress
<1>12. Gone'
  BY <1>2, <1>3 DEF Gone
<1>13. Stopped'
  BY <1>2, <1>3 DEF Stopped
<1>14. Unlaunched'
  BY <1>2, <1>3 DEF Unlaunched, Progress, Distinct, TableInv
<1>15. MutexInv'
  BY <1>2, <1>3 DEF MutexInv, Progress
<1>16. CountInv'
  <2>1. Counted' = Counted
    BY DEF Counted
  <2> QED
    BY <2>1, SameCount DEF CountInv
<1>17. OneCall' /\ TableInv' /\ Distinct'
  BY DEF OneCall, TableInv, Distinct
<1> QED
  BY <1>4, <1>5, <1>6, <1>7, <1>8, <1>9, <1>10, <1>11, <1>12, <1>13, <1>14, <1>15, <1>16, <1>17

LEMMA SetThreadKeeps ==
    ASSUME Inv, mishap = "none", NEW u \in User, ThreadIsSet(u), mishap' = "none"
    PROVE  Inv'
<1> USE Constants DEF Inv, TypeInv, Soft, Slotless, Threadless, Asleep
<1>1. /\ pc[u] = "launched"
      /\ pending = NoSlot
      /\ mutex' = "free"
      /\ pc' = [pc EXCEPT ![u] = "await"]
      /\ UNCHANGED <<softLock, initialised, count, table, threads, call, slot, starts>>
  BY DEF ThreadIsSet, Go, At, rest
<1> USE <1>1 DEF table, threads
<1>2. TypeInv'
  BY DEF Label, ThreadState, CallType
<1>3. CallInv'
  BY DEF CallInv
<1>4. SoftInv'
  BY DEF SoftInv
<1>5. Progress'
  BY DEF Progress
<1>6. Launched'
  BY DEF Launched, MutexInv, CallInv
<1>7. Ending'
  BY DEF Ending
<1>8. Gone'
  BY DEF Gone
<1>9. Stopped'
  BY DEF Stopped
<1>10. Unlaunched'
  BY DEF Unlaunched
<1>11. MutexInv'
  BY DEF MutexInv
<1>12. CountInv'
  <2>1. Counted' = Counted
    BY DEF Counted
  <2> QED
    BY <2>1, SameCount DEF CountInv
<1>13. Numbered' /\ OneCall' /\ TableInv' /\ Distinct' /\ Awake'
  BY DEF Numbered, OneCall, TableInv, Distinct, Awake
<1> QED
  BY <1>2, <1>3, <1>4, <1>5, <1>6, <1>7, <1>8, <1>9, <1>10, <1>11, <1>12, <1>13

LEMMA ReturnKeeps ==
    ASSUME Inv, mishap = "none", NEW u \in User, pc[u] = "await", Return(u),
           UNCHANGED <<global, table, threads, starts>>, mishap' = "none"
    PROVE  Inv'
<1> USE Constants DEF Inv, TypeInv, Soft, Slotless, Threadless, Asleep
<1>1. /\ pc' = [pc EXCEPT ![u] = "idle"]
      /\ call' = [call EXCEPT ![u] = NoCall]
      /\ slot' = [slot EXCEPT ![u] = NoSlot]
  BY DEF Return, Go
<1> USE <1>1 DEF NoCall, global, table, threads
<1>2. TypeInv'
  BY DEF Label, ThreadState, CallType
<1>3. CallInv'
  BY DEF CallInv
<1>4. SoftInv'
  BY DEF SoftInv
<1>5. Numbered'
  BY DEF Numbered, Client
<1>6. OneCall'
  BY DEF OneCall
<1>7. Progress'
  BY DEF Progress
<1>8. Launched'
  BY DEF Launched, MutexInv
<1>9. Ending'
  BY DEF Ending
<1>10. Gone'
  BY DEF Gone
<1>11. Stopped'
  BY DEF Stopped
<1>12. Unlaunched'
  BY DEF Unlaunched
<1>13. MutexInv'
  BY DEF MutexInv
<1>14. CountInv'
  <2>1. Counted' = Counted
    BY DEF Counted
  <2> QED
    BY <2>1, SameCount DEF CountInv
<1>15. TableInv' /\ Distinct' /\ Awake'
  BY DEF TableInv, Distinct, Awake
<1> QED
  BY <1>2, <1>3, <1>4, <1>5, <1>6, <1>7, <1>8, <1>9, <1>10, <1>11, <1>12, <1>13, <1>14, <1>15

LEMMA GiveUpKeeps ==
    ASSUME Inv, mishap = "none", NEW u \in User, pc[u] = "await", Go(u, "finish"),
           UNCHANGED <<global, table, threads, call, slot, starts>>, mishap' = "none"
    PROVE  Inv'
<1> USE Constants DEF Inv, TypeInv, Soft, Slotless, Threadless, Asleep
<1>1. /\ pc' = [pc EXCEPT ![u] = "finish"]
  BY DEF Go
<1> USE <1>1 DEF global, table, threads
<1>2. TypeInv'
  BY DEF Label, ThreadState, CallType
<1>3. CallInv'
  BY DEF CallInv
<1>4. SoftInv'
  BY DEF SoftInv
<1>5. Progress'
  BY DEF Progress
<1>6. Ending'
  BY DEF Ending
<1>7. Gone'
  BY DEF Gone
<1>8. Stopped'
  BY DEF Stopped
<1>9. Unlaunched'
  BY DEF Unlaunched
<1>10. MutexInv'
  BY DEF MutexInv
<1>11. CountInv'
  <2>1. Counted' = Counted
    BY DEF Counted
  <2> QED
    BY <2>1, SameCount DEF CountInv
<1>12. Numbered' /\ OneCall' /\ TableInv' /\ Distinct' /\ Awake' /\ Launched'
  BY DEF Numbered, OneCall, TableInv, Distinct, Awake, Launched
<1> QED
  BY <1>2, <1>3, <1>4, <1>5, <1>6, <1>7, <1>8, <1>9, <1>10, <1>11, <1>12

LEMMA FinishKeeps ==
    ASSUME Inv, mishap = "none", NEW u \in User, NEW s \in Slot, Finish(u, s), mishap' = "none"
    PROVE  Inv'
<1> USE Constants DEF Inv, TypeInv, Soft, Slotless, Threadless, Asleep
<1>1. /\ pc[u] = "idle"
      /\ taken[s] /\ \A v \in User : call[v].client # owner[s]
      /\ pc' = [pc EXCEPT ![u] = "finish"]
      /\ call' = [call EXCEPT ![u] = [kind |-> "finish", client |-> owner[s]]]
      /\ slot' = [slot EXCEPT ![u] = s]
      /\ UNCHANGED <<global, table, threads, starts>>
  BY DEF Finish, Open, Go, At
<1> USE <1>1 DEF global, table, threads
<1>2. TypeInv'
  BY DEF Label, ThreadState, CallType
<1>3. CallInv'
  BY DEF CallInv
<1>4. SoftInv'
  BY DEF SoftInv
<1>5. Numbered'
  BY DEF Numbered
<1>6. OneCall'
  BY DEF OneCall
<1>7. Progress'
  BY DEF Progress
<1>8. Launched'
  BY DEF Launched, MutexInv
<1>9. Ending'
  BY DEF Ending
<1>10. Gone'
  BY DEF Gone
<1>11. Stopped'
  BY DEF Stopped
<1>12. Unlaunched'
  BY DEF Unlaunched
<1>13. MutexInv'
  BY DEF MutexInv
<1>14. CountInv'
  <2>1. Counted' = Counted
    BY DEF Counted
  <2> QED
    BY <2>1, SameCount DEF CountInv
<1>15. TableInv' /\ Distinct' /\ Awake'
  BY DEF TableInv, Distinct, Awake
<1> QED
  BY <1>2, <1>3, <1>4, <1>5, <1>6, <1>7, <1>8, <1>9, <1>10, <1>11, <1>12, <1>13, <1>14, <1>15

LEMMA FinishAllKeeps ==
    ASSUME Inv, mishap = "none", NEW u \in User, FinishAll(u), mishap' = "none"
    PROVE  Inv'
<1> USE Constants DEF Inv, TypeInv, Soft, Slotless, Threadless, Asleep
<1>1. /\ pc[u] = "idle"
      /\ pc' = [pc EXCEPT ![u] = "finish"]
      /\ call' = [call EXCEPT ![u] = [kind |-> "finishAll", client |-> NoClient]]
      /\ slot' = [slot EXCEPT ![u] = 0]
      /\ UNCHANGED <<global, table, threads, starts>>
  BY DEF FinishAll, Go, At
<1> USE <1>1 DEF global, table, threads
<1>2. TypeInv'
  BY DEF Label, ThreadState, CallType
<1>3. CallInv'
  BY DEF CallInv
<1>4. SoftInv'
  BY DEF SoftInv
<1>5. Numbered'
  BY DEF Numbered, Client
<1>6. OneCall'
  BY DEF OneCall
<1>7. Progress'
  BY DEF Progress
<1>8. Launched'
  BY DEF Launched, MutexInv
<1>9. Ending'
  BY DEF Ending
<1>10. Gone'
  BY DEF Gone
<1>11. Stopped'
  BY DEF Stopped
<1>12. Unlaunched'
  BY DEF Unlaunched
<1>13. MutexInv'
  BY DEF MutexInv
<1>14. CountInv'
  <2>1. Counted' = Counted
    BY DEF Counted
  <2> QED
    BY <2>1, SameCount DEF CountInv
<1>15. TableInv' /\ Distinct' /\ Awake'
  BY DEF TableInv, Distinct, Awake
<1> QED
  BY <1>2, <1>3, <1>4, <1>5, <1>6, <1>7, <1>8, <1>9, <1>10, <1>11, <1>12, <1>13, <1>14, <1>15

LEMMA StopKeeps ==
    ASSUME Inv, mishap = "none", NEW u \in User, pc[u] = "stop", running[slot[u]],
           running' = [running EXCEPT ![slot[u]] = FALSE], pc' = [pc EXCEPT ![u] = "join"],
           UNCHANGED <<global, table, pending, temp, thread, call, slot, starts>>, mishap' = "none"
    PROVE  Inv'
<1> USE Constants DEF Inv, TypeInv, Soft, Slotless, Threadless, Asleep
<1>1. /\ slot[u] \in Slot
      /\ taken[slot[u]]
  BY DEF Inv, CallInv, TableInv
<1> USE <1>1 DEF global, table
<1>2. TypeInv'
  BY DEF Label, ThreadState, CallType
<1>3. CallInv'
  BY DEF CallInv
<1>4. SoftInv'
  BY DEF SoftInv
<1>5. Progress'
  BY DEF Progress
<1>6. TableInv'
  BY DEF TableInv
<1>7. Ending'
  BY DEF Ending, Gone, SoftInv, Progress
<1>8. Gone'
  BY DEF Gone
<1>9. Stopped'
  BY DEF Stopped
<1>10. Unlaunched'
  BY DEF Unlaunched
<1>11. MutexInv'
  BY DEF MutexInv
<1>12. CountInv'
  <2>1. Counted' = Counted
    BY DEF Counted
  <2> QED
    BY <2>1, SameCount DEF CountInv
<1>13. Numbered' /\ OneCall' /\ Distinct' /\ Awake' /\ Launched'
  BY DEF Numbered, OneCall, Distinct, Awake, Launched
<1> QED
  BY <1>2, <1>3, <1>4, <1>5, <1>6, <1>7, <1>8, <1>9, <1>10, <1>11, <1>12, <1>13

LEMMA NextSlotKeeps ==
    ASSUME Inv, mishap = "none", NEW u \in User, NEW s \in Slot, pc[u] \in {"stop", "last"},
           slot' = [slot EXCEPT ![u] = s], pc' = [pc EXCEPT ![u] = "stop"],
           UNCHANGED <<global, table, threads, call, starts>>, mishap' = "none"
    PROVE  Inv'
<1> USE Constants DEF Inv, TypeInv, Soft, Slotless, Threadless, Asleep
<1>1. /\ TRUE
  OBVIOUS
<1> USE <1>1 DEF global, table, threads
<1>2. TypeInv'
  BY DEF Label, ThreadState, CallType
<1>3. CallInv'
  BY DEF CallInv
<1>4. SoftInv'
  BY DEF SoftInv
<1>5. Progress'
  BY DEF Progress
<1>6. Launched'
  BY DEF Launched, MutexInv
<1>7. Ending'
  BY DEF Ending
<1>8. Gone'
  BY DEF Gone
<1>9. Stopped'
  BY DEF Stopped
<1>10. Unlaunched'
  BY DEF Unlaunched
<1>11. MutexInv'
  BY DEF MutexInv
<1>12. CountInv'
  <2>1. Counted' = Counted
    BY DEF Counted
  <2> QED
    BY <2>1, SameCount DEF CountInv
<1>13. Numbered' /\ OneCall' /\ TableInv' /\ Distinct' /\ Awake'
  BY DEF Numbered, OneCall, TableInv, Distinct, Awake
<1> QED
  BY <1>2, <1>3, <1>4, <1>5, <1>6, <1>7, <1>8, <1>9, <1>10, <1>11, <1>12, <1>13

LEMMA SlotsDoneKeeps ==
    ASSUME Inv, mishap = "none", NEW u \in User, pc[u] \in {"stop", "last"},
           pc' = [pc EXCEPT ![u] = "unlock"],
           UNCHANGED <<global, table, threads, call, slot, starts>>, mishap' = "none"
    PROVE  Inv'
<1> USE Constants DEF Inv, TypeInv, Soft, Slotless, Threadless, Asleep
<1>1. /\ TRUE
  OBVIOUS
<1> USE <1>1 DEF global, table, threads
<1>2. TypeInv'
  BY DEF Label, ThreadState, CallType
<1>3. CallInv'
  BY DEF CallInv
<1>4. SoftInv'
  BY DEF SoftInv
<1>5. Progress'
  BY DEF Progress
<1>6. Ending'
  BY DEF Ending
<1>7. Gone'
  BY DEF Gone
<1>8. Stopped'
  BY DEF Stopped
<1>9. Unlaunched'
  BY DEF Unlaunched
<1>10. MutexInv'
  BY DEF MutexInv
<1>11. CountInv'
  <2>1. Counted' = Counted
    BY DEF Counted
  <2> QED
    BY <2>1, SameCount DEF CountInv
<1>12. Numbered' /\ OneCall' /\ TableInv' /\ Distinct' /\ Awake' /\ Launched'
  BY DEF Numbered, OneCall, TableInv, Distinct, Awake, Launched
<1> QED
  BY <1>2, <1>3, <1>4, <1>5, <1>6, <1>7, <1>8, <1>9, <1>10, <1>11, <1>12

LEMMA JoinKeeps ==
    ASSUME Inv, mishap = "none", NEW u \in User, JoinThread(u), mishap' = "none"
    PROVE  Inv'
<1> USE Constants DEF Inv, TypeInv, Soft, Slotless, Threadless, Asleep
<1>1. /\ pc[u] = "join"
      /\ running[slot[u]]
      /\ running' = [running EXCEPT ![slot[u]] = FALSE]
      /\ address' = [address EXCEPT ![slot[u]] = Freed]
      /\ pc' = [pc EXCEPT ![u] = "free"]
      /\ UNCHANGED <<global, taken, owner, pending, temp, thread, call, slot, starts>>
  BY DEF JoinThread, Go, At, rest
<1> USE <1>1 DEF global
<1>2. slot[u] \in Slot /\ taken[slot[u]] /\ thread[owner[slot[u]]].state = "gone"
  BY DEF Inv, CallInv, Ending
<1>3. TypeInv'
  BY <1>2 DEF Label, ThreadState, CallType
<1>4. CallInv'
  BY <1>2 DEF CallInv
<1>5. SoftInv'
  BY <1>2 DEF SoftInv
<1>6. Progress'
  BY <1>2 DEF Progress, TableInv
<1>7. TableInv'
  BY <1>2 DEF TableInv
<1>8. Distinct'
  BY <1>2 DEF Distinct
<1>9. Awake'
  BY <1>2 DEF Awake
<1>10. Launched'
  BY <1>2 DEF Launched, MutexInv
<1>11. Ending'
  BY <1>2 DEF Ending, SoftInv
<1>12. Gone'
  BY <1>2 DEF Gone
<1>13. Stopped'
  BY <1>2 DEF Stopped
<1>14. Unlaunched'
  BY <1>2 DEF Unlaunched
<1>15. MutexInv'
  BY <1>2 DEF MutexInv
<1>16. CountInv'
  <2>1. Counted' = Counted
    BY DEF Counted
  <2> QED
    BY <2>1, SameCount DEF CountInv
<1>17. Numbered' /\ OneCall'
  BY DEF Numbered, OneCall
<1> QED
  BY <1>3, <1>4, <1>5, <1>6, <1>7, <1>8, <1>9, <1>10, <1>11, <1>12, <1>13, <1>14, <1>15, <1>16, <1>17

LEMMA GiveBackKeeps ==
    ASSUME Inv, mishap = "none", NEW u \in User, GiveSlotBack(u), mishap' = "none"
    PROVE  Inv'
<1> USE Constants DEF Inv, TypeInv, Soft, Slotless, Threadless, Asleep
<1>1. /\ pc[u] = "free"
      /\ taken' = [taken EXCEPT ![slot[u]] = FALSE]
      /\ owner' = [owner EXCEPT ![slot[u]] = NoClient]
      /\ pc' = [pc EXCEPT ![u] = "decrease"]
      /\ UNCHANGED <<global, address, threads, call, slot, starts>>
  BY DEF GiveSlotBack, Go, At, rest
<1> USE <1>1 DEF global, threads
<1>2. slot[u] \in Slot /\ taken[slot[u]] /\ thread[owner[slot[u]]].state = "gone"
  BY DEF Inv, CallInv, Ending
<1>3. TypeInv'
  BY <1>2 DEF Label, ThreadState, CallType
<1>4. CallInv'
  BY <1>2 DEF CallInv
<1>5. SoftInv'
  BY <1>2 DEF SoftInv
<1>6. Numbered'
  BY <1>2 DEF Numbered, Client
<1>7. Progress'
  BY <1>2 DEF Progress, CallInv
<1>8. TableInv'
  BY <1>2 DEF TableInv, Ending
<1>9. Distinct'
  BY <1>2 DEF Distinct
<1>10. Awake'
  BY <1>2 DEF Awake
<1>11. Launched'
  BY <1>2 DEF Launched, MutexInv
<1>12. Ending'
  BY <1>2 DEF Ending, SoftInv
<1>13. Gone'
  BY <1>2 DEF Gone
<1>14. Stopped'
  BY <1>2 DEF Stopped
<1>15. Unlaunched'
  BY <1>2 DEF Unlaunched
<1>16. MutexInv'
  BY <1>2 DEF MutexInv
<1>17. CountInv'
  <2>1. Counted' = Counted \cup {u}
    BY DEF Counted, Inv, TypeInv
  <2>2. Taken' = Taken \ {slot[u]} /\ slot[u] \in Taken
    BY <1>2 DEF Taken, Inv, TypeInv
  <2>3. QED
    BY <2>1, <2>2, <1>2, GiverCounted DEF Inv, Counted
<1>18. OneCall'
  BY DEF OneCall
<1> QED
  BY <1>3, <1>4, <1>5, <1>6, <1>7, <1>8, <1>9, <1>10, <1>11, <1>12, <1>13, <1>14, <1>15, <1>16, <1>17, <1>18

LEMMA DecreaseKeeps ==
    ASSUME Inv, mishap = "none", NEW u \in User, DecreaseClientCount(u), mishap' = "none"
    PROVE  Inv'
<1> USE Constants DEF Inv, TypeInv, Soft, Slotless, Threadless, Asleep
<1>1. /\ pc[u] = "decrease"
      /\ mutex = "free"
      /\ count' = count - 1
      /\ pc' = [pc EXCEPT ![u] = "last"]
      /\ UNCHANGED <<softLock, initialised, mutex, table, threads, call, slot, starts>>
  BY DEF DecreaseClientCount, Go, At, rest
<1> USE <1>1 DEF table, threads
<1>2. TypeInv'
  BY DEF Label, ThreadState, CallType
<1>3. CallInv'
  BY DEF CallInv
<1>4. SoftInv'
  BY DEF SoftInv
<1>5. Progress'
  BY DEF Progress
<1>6. Ending'
  BY DEF Ending
<1>7. Gone'
  BY DEF Gone
<1>8. Stopped'
  BY DEF Stopped
<1>9. Unlaunched'
  BY DEF Unlaunched
<1>10. MutexInv'
  BY DEF MutexInv
<1>11. CountInv'
  <2>1. Counted' = Counted \ {u}
    BY DEF Counted, Inv, TypeInv
  <2>2. QED
    BY <2>1, CountedLess DEF Inv, Counted
<1>12. Numbered' /\ OneCall' /\ TableInv' /\ Distinct' /\ Awake' /\ Launched'
  BY DEF Numbered, OneCall, TableInv, Distinct, Awake, Launched
<1> QED
  BY <1>2, <1>3, <1>4, <1>5, <1>6, <1>7, <1>8, <1>9, <1>10, <1>11, <1>12

LEMMA NoClientLeftKeeps ==
    ASSUME Inv, mishap = "none", NEW u \in User, pc[u] = "last", pc' = [pc EXCEPT ![u] = "delete"],
           UNCHANGED <<global, table, threads, call, slot, starts>>, mishap' = "none"
    PROVE  Inv'
<1> USE Constants DEF Inv, TypeInv, Soft, Slotless, Threadless, Asleep
<1>1. /\ TRUE
  OBVIOUS
<1> USE <1>1 DEF global, table, threads
<1>2. TypeInv'
  BY DEF Label, ThreadState, CallType
<1>3. CallInv'
  BY DEF CallInv
<1>4. SoftInv'
  BY DEF SoftInv
<1>5. Progress'
  BY DEF Progress
<1>6. Ending'
  BY DEF Ending
<1>7. Gone'
  BY DEF Gone
<1>8. Stopped'
  BY DEF Stopped
<1>9. Unlaunched'
  BY DEF Unlaunched
<1>10. MutexInv'
  BY DEF MutexInv
<1>11. CountInv'
  <2>1. Counted' = Counted
    BY DEF Counted
  <2> QED
    BY <2>1, SameCount DEF CountInv
<1>12. Numbered' /\ OneCall' /\ TableInv' /\ Distinct' /\ Awake' /\ Launched'
  BY DEF Numbered, OneCall, TableInv, Distinct, Awake, Launched
<1> QED
  BY <1>2, <1>3, <1>4, <1>5, <1>6, <1>7, <1>8, <1>9, <1>10, <1>11, <1>12

LEMMA DeleteNextKeeps ==
    ASSUME Inv, mishap = "none", NEW u \in User, NEW s \in Slot, pc[u] = "delete", count = 0,
           mutex' = "none", initialised' = FALSE,
           slot' = [slot EXCEPT ![u] = s], pc' = [pc EXCEPT ![u] = "stop"],
           UNCHANGED <<softLock, count, table, threads, call, starts>>, mishap' = "none"
    PROVE  Inv'
<1> USE Constants DEF Inv, TypeInv, Soft, Slotless, Threadless, Asleep
<1>1. /\ \A v \in User : pc[v] # "launched"
  <2> SUFFICES ASSUME NEW v \in User, pc[v] = "launched" PROVE FALSE
    OBVIOUS
  <2>1. owner[slot[v]] = call[v].client \/ \E w \in User : pc[w] = "decrease"
    BY DEF Inv, MutexInv
  <2>2. slot[v] \in Slot /\ call[v].client \in Client
    BY DEF Inv, CallInv
  <2>3. CASE owner[slot[v]] = call[v].client
    <3>1. taken[slot[v]]
      BY <2>2, <2>3 DEF Inv, TableInv
    <3> QED
      BY <2>2, <3>1, Positive DEF Inv
  <2>4. CASE \E w \in User : pc[w] = "decrease"
    BY <2>4 DEF Inv, SoftInv
  <2> QED
    BY <2>1, <2>3, <2>4
<1> USE <1>1 DEF table, threads
<1>2. TypeInv'
  BY DEF Label, ThreadState, CallType
<1>3. CallInv'
  BY DEF CallInv
<1>4. SoftInv'
  BY DEF SoftInv
<1>5. Progress'
  BY DEF Progress
<1>6. Launched'
  BY DEF Launched, MutexInv
<1>7. Ending'
  BY DEF Ending
<1>8. Gone'
  BY DEF Gone
<1>9. Stopped'
  BY DEF Stopped
<1>10. Unlaunched'
  BY DEF Unlaunched
<1>11. MutexInv'
  BY DEF MutexInv
<1>12. CountInv'
 <2>1. Counted' = Counted
    BY DEF Counted, Inv, TypeInv
  <2>2. QED
    BY <2>1, SameCount DEF Inv
<1>13. Numbered' /\ OneCall' /\ TableInv' /\ Distinct' /\ Awake'
  BY DEF Numbered, OneCall, TableInv, Distinct, Awake
<1> QED
  BY <1>2, <1>3, <1>4, <1>5, <1>6, <1>7, <1>8, <1>9, <1>10, <1>11, <1>12, <1>13

LEMMA DeleteDoneKeeps ==
    ASSUME Inv, mishap = "none", NEW u \in User, pc[u] = "delete", count = 0,
           mutex' = "none", initialised' = FALSE,
           slot' = slot, pc' = [pc EXCEPT ![u] = "unlock"],
           UNCHANGED <<softLock, count, table, threads, call, starts>>, mishap' = "none"
    PROVE  Inv'
<1> USE Constants DEF Inv, TypeInv, Soft, Slotless, Threadless, Asleep
<1>1. /\ \A v \in User : pc[v] # "launched"
  <2> SUFFICES ASSUME NEW v \in User, pc[v] = "launched" PROVE FALSE
    OBVIOUS
  <2>1. owner[slot[v]] = call[v].client \/ \E w \in User : pc[w] = "decrease"
    BY DEF Inv, MutexInv
  <2>2. slot[v] \in Slot /\ call[v].client \in Client
    BY DEF Inv, CallInv
  <2>3. CASE owner[slot[v]] = call[v].client
    <3>1. taken[slot[v]]
      BY <2>2, <2>3 DEF Inv, TableInv
    <3> QED
      BY <2>2, <3>1, Positive DEF Inv
  <2>4. CASE \E w \in User : pc[w] = "decrease"
    BY <2>4 DEF Inv, SoftInv
  <2> QED
    BY <2>1, <2>3, <2>4
<1> USE <1>1 DEF table, threads
<1>2. TypeInv'
  BY DEF Label, ThreadState, CallType
<1>3. CallInv'
  BY DEF CallInv
<1>4. SoftInv'
  BY DEF SoftInv
<1>5. Progress'
  BY DEF Progress
<1>6. Launched'
  BY DEF Launched, MutexInv
<1>7. Ending'
  BY DEF Ending
<1>8. Gone'
  BY DEF Gone
<1>9. Stopped'
  BY DEF Stopped
<1>10. Unlaunched'
  BY DEF Unlaunched
<1>11. MutexInv'
  BY DEF MutexInv
<1>12. CountInv'
 <2>1. Counted' = Counted
    BY DEF Counted, Inv, TypeInv
  <2>2. QED
    BY <2>1, SameCount DEF Inv
<1>13. Numbered' /\ OneCall' /\ TableInv' /\ Distinct' /\ Awake'
  BY DEF Numbered, OneCall, TableInv, Distinct, Awake
<1> QED
  BY <1>2, <1>3, <1>4, <1>5, <1>6, <1>7, <1>8, <1>9, <1>10, <1>11, <1>12, <1>13

LEMMA UnlockKeeps ==
    ASSUME Inv, mishap = "none", NEW u \in User, SoftUnlock(u), mishap' = "none"
    PROVE  Inv'
<1> USE Constants DEF Inv, TypeInv, Soft, Slotless, Threadless, Asleep
<1>1. /\ pc[u] = "unlock"
      /\ softLock' = FALSE
      /\ pc' = [pc EXCEPT ![u] = "idle"]
      /\ call' = [call EXCEPT ![u] = NoCall]
      /\ slot' = [slot EXCEPT ![u] = NoSlot]
      /\ UNCHANGED <<initialised, count, mutex, table, threads, starts>>
  BY DEF SoftUnlock, Return, Go, At
<1> USE <1>1 DEF NoCall, table, threads
<1>2. TypeInv'
  BY DEF Label, ThreadState, CallType
<1>3. CallInv'
  BY DEF CallInv
<1>4. SoftInv'
  BY DEF SoftInv
<1>5. Numbered'
  BY DEF Numbered, Client
<1>6. OneCall'
  BY DEF OneCall
<1>7. Progress'
  BY DEF Progress
<1>8. Launched'
  BY DEF Launched, MutexInv
<1>9. Ending'
  BY DEF Ending
<1>10. Gone'
  BY DEF Gone
<1>11. Stopped'
  BY DEF Stopped
<1>12. Unlaunched'
  BY DEF Unlaunched
<1>13. MutexInv'
  BY DEF MutexInv
<1>14. CountInv'
  <2>1. Counted' = Counted
    BY DEF Counted
  <2> QED
    BY <2>1, SameCount DEF CountInv
<1>15. TableInv' /\ Distinct' /\ Awake'
  BY DEF TableInv, Distinct, Awake
<1> QED
  BY <1>2, <1>3, <1>4, <1>5, <1>6, <1>7, <1>8, <1>9, <1>10, <1>11, <1>12, <1>13, <1>14, <1>15

LEMMA ReadKeeps ==
    ASSUME Inv, mishap = "none", NEW c \in Client, ReadClient(c), mishap' = "none"
    PROVE  Inv'
<1> USE Constants DEF Inv, TypeInv, Soft, Slotless, Threadless, Asleep
<1>1. /\ thread[c].state = "launched"
      /\ thread' = [thread EXCEPT ![c] = [state |-> "top", slot |-> pending, address |-> Freed]]
      /\ pending' = NoSlot
      /\ UNCHANGED <<global, table, pc, call, slot, starts, running, temp>>
  BY DEF ReadClient, In, others
<1> USE <1>1 DEF global, table
<1>2. /\ mutex \in User /\ pc[mutex] = "launched" /\ call[mutex].client = c
      /\ pending = slot[mutex] /\ slot[mutex] \in Slot
      /\ owner[slot[mutex]] = c
      /\ temp[slot[mutex]].address = address[slot[mutex]]
  BY DEF Inv, Launched, MutexInv, CallInv
<1>3. TypeInv'
  BY <1>2 DEF Label, ThreadState, CallType
<1>4. Numbered'
  BY <1>2 DEF Numbered
<1>5. Progress'
  BY <1>2 DEF Progress
<1>6. Awake'
  BY <1>2 DEF Awake
<1>7. Launched'
  BY <1>2 DEF Launched, MutexInv
<1>8. Ending'
  BY <1>2 DEF Ending
<1>9. Gone'
  BY <1>2 DEF Gone
<1>10. Unlaunched'
  BY <1>2 DEF Unlaunched
<1>11. CallInv' /\ SoftInv' /\ OneCall' /\ TableInv' /\ Distinct' /\ Stopped' /\ MutexInv' /\ CountInv'
  BY DEF CallInv, SoftInv, OneCall, TableInv, Distinct, Stopped, MutexInv, CountInv, Taken, Counted
<1> QED
  BY <1>3, <1>4, <1>5, <1>6, <1>7, <1>8, <1>9, <1>10, <1>11

LEMMA ConnectKeeps ==
    ASSUME Inv, mishap = "none", NEW c \in Client, thread[c].state = "top",
           thread' = [thread EXCEPT ![c] = [state |-> "connected", slot |-> thread[c].slot,
                                          address |-> temp[thread[c].slot].address]],
           UNCHANGED <<global, table, pc, call, slot, starts, pending, running, temp>>, mishap' = "none"
    PROVE  Inv'
<1> USE Constants DEF Inv, TypeInv, Soft, Slotless, Threadless, Asleep
<1>1. /\ TRUE
  OBVIOUS
<1> USE <1>1 DEF global, table
<1>2. thread[c].slot \in Slot
  BY DEF Inv, Awake
<1>3. TypeInv'
  BY <1>2 DEF Label, ThreadState, CallType
<1>4. Numbered'
  BY <1>2 DEF Numbered
<1>5. Progress'
  BY <1>2 DEF Progress
<1>6. Awake'
  BY <1>2 DEF Awake
<1>7. Launched'
  BY <1>2 DEF Launched, MutexInv
<1>8. Ending'
  BY <1>2 DEF Ending
<1>9. Gone'
  BY <1>2 DEF Gone
<1>10. Unlaunched'
  BY <1>2 DEF Unlaunched
<1>11. CallInv' /\ SoftInv' /\ OneCall' /\ TableInv' /\ Distinct' /\ Stopped' /\ MutexInv' /\ CountInv'
  BY DEF CallInv, SoftInv, OneCall, TableInv, Distinct, Stopped, MutexInv, CountInv, Taken, Counted
<1> QED
  BY <1>3, <1>4, <1>5, <1>6, <1>7, <1>8, <1>9, <1>10, <1>11

LEMMA GoOnKeeps ==
    ASSUME Inv, mishap = "none", NEW c \in Client, NEW state \in {"top", "after", "parked"},
           thread[c].state \in {"top", "connected", "after"},
           thread' = [thread EXCEPT ![c].state = state],
           UNCHANGED <<global, table, pc, call, slot, starts, pending, running, temp>>, mishap' = "none"
    PROVE  Inv'
<1> USE Constants DEF Inv, TypeInv, Soft, Slotless, Threadless, Asleep
<1>1. /\ TRUE
  OBVIOUS
<1> USE <1>1 DEF global, table
<1>2. thread' \in [Client -> [state : ThreadState, slot : Slot \cup {NoSlot},
                               address : Address \cup {Freed}]]
  BY DEF Inv, TypeInv, ThreadState
<1>3. TypeInv'
  BY <1>2 DEF Label, ThreadState, CallType
<1>4. Numbered'
  BY <1>2 DEF Numbered
<1>5. Progress'
  BY <1>2 DEF Progress
<1>6. Awake'
  BY <1>2 DEF Awake
<1>7. Launched'
  BY <1>2 DEF Launched, MutexInv
<1>8. Ending'
  BY <1>2 DEF Ending
<1>9. Gone'
  BY <1>2 DEF Gone
<1>10. Unlaunched'
  BY <1>2 DEF Unlaunched
<1>11. CallInv' /\ SoftInv' /\ OneCall' /\ TableInv' /\ Distinct' /\ Stopped' /\ MutexInv' /\ CountInv'
  BY DEF CallInv, SoftInv, OneCall, TableInv, Distinct, Stopped, MutexInv, CountInv, Taken, Counted
<1> QED
  BY <1>3, <1>4, <1>5, <1>6, <1>7, <1>8, <1>9, <1>10, <1>11

LEMMA LeaveKeeps ==
    ASSUME Inv, mishap = "none", NEW c \in Client, Leave(c), mishap' = "none"
    PROVE  Inv'
<1> USE Constants DEF Inv, TypeInv, Soft, Slotless, Threadless, Asleep
<1>1. /\ thread[c].state \in {"top", "parked"}
      /\ ~running[thread[c].slot]
      /\ running' = [running EXCEPT ![thread[c].slot] = TRUE]
      /\ thread' = [thread EXCEPT ![c].state = "gone"]
      /\ UNCHANGED <<global, table, pc, call, slot, starts, pending, temp>>
  BY DEF Leave, Becomes, In, others
<1> USE <1>1 DEF global, table
<1>2. thread[c].slot \in Slot /\ owner[thread[c].slot] = c /\ taken[thread[c].slot]
  BY DEF Inv, Awake, TableInv
<1>3. \E w \in User : pc[w] = "join" /\ slot[w] = thread[c].slot
  BY <1>2 DEF Inv, TypeInv, Stopped, Progress, Ending
<1>4. TypeInv'
  BY <1>2, <1>3 DEF Label, ThreadState, CallType
<1>5. Numbered'
  BY <1>2, <1>3 DEF Numbered
<1>6. Progress'
  BY <1>2, <1>3 DEF Progress
<1>7. TableInv'
  BY <1>2, <1>3 DEF TableInv
<1>8. Awake'
  BY <1>2, <1>3 DEF Awake
<1>9. Launched'
  BY <1>2, <1>3 DEF Launched, MutexInv
<1>10. Ending'
  BY <1>2, <1>3 DEF Ending, Distinct, SoftInv
<1>11. Gone'
  BY <1>2, <1>3 DEF Gone, Distinct
<1>12. Stopped'
  BY <1>2, <1>3 DEF Stopped
<1>13. Unlaunched'
  BY <1>2, <1>3 DEF Unlaunched
<1>14. CallInv' /\ SoftInv' /\ OneCall' /\ Distinct' /\ MutexInv' /\ CountInv'
  BY DEF CallInv, SoftInv, OneCall, Distinct, MutexInv, CountInv, Taken, Counted
<1> QED
  BY <1>4, <1>5, <1>6, <1>7, <1>8, <1>9, <1>10, <1>11, <1>12, <1>13, <1>14

-----------------------------------------------------------------------------
LEMMA SlotsInit == Init => Inv
<1> SUFFICES ASSUME Init PROVE Inv
  OBVIOUS
<1> USE Constants, SlotsAssumption DEF Init, Soft, Slotless, Threadless, Asleep
<1>1. NoCall \in CallType
  BY DEF NoCall, CallType
<1>2. TypeInv
  <2>8. softLock \in BOOLEAN /\ initialised \in BOOLEAN
    BY Zenon
  <2>1. /\ count \in Int
        /\ mutex \in {"none", "free"} \cup User
        /\ pending \in Slot \cup {NoSlot}
    OBVIOUS
  <2>2. /\ taken \in [Slot -> BOOLEAN]
        /\ address \in [Slot -> Address \cup {Freed}]
        /\ running \in [Slot -> BOOLEAN]
        /\ owner \in [Slot -> Client \cup {NoClient}]
    OBVIOUS
  <2>3. temp \in [Slot -> [address : Address \cup {Freed}, stay : BOOLEAN]]
    OBVIOUS
  <2>4. thread \in [Client -> [state : ThreadState, slot : Slot \cup {NoSlot},
                              address : Address \cup {Freed}]]
    <3>1. [state |-> "none", slot |-> NoSlot, address |-> Freed]
             \in [state : ThreadState, slot : Slot \cup {NoSlot}, address : Address \cup {Freed}]
      BY DEF ThreadState
    <3> QED
      BY <3>1
  <2>5. pc \in [User -> Label] /\ slot \in [User -> Slot \cup {NoSlot}]
    BY DEF Label
  <2>6. call \in [User -> CallType]
    BY <1>1
  <2>7. starts \in 0 .. MaxStarts
    <3>1. starts = 0 /\ MaxStarts \in Nat
      OBVIOUS
    <3> HIDE Constants, SlotsAssumption DEF Init
    <3> QED
      BY <3>1
  <2> QED
    BY <2>1, <2>2, <2>3, <2>4, <2>5, <2>6, <2>7, <2>8 DEF TypeInv
<1>3. CallInv /\ SoftInv /\ OneCall /\ Progress /\ MutexInv
  BY DEF CallInv, SoftInv, OneCall, Progress, MutexInv, NoCall
<1>4. Numbered
  BY DEF Numbered, NoCall
<1>5. TableInv /\ Distinct /\ Awake /\ Launched /\ Ending /\ Gone /\ Stopped /\ Unlaunched
  BY DEF TableInv, Distinct, Awake, Launched, Ending, Gone, Stopped, Unlaunched
<1>6. CountInv
  <2>1. Taken = {} /\ Counted = {}
    BY DEF Taken, Counted
  <2> QED
    BY <2>1, FS_EmptySet DEF CountInv
<1> QED
  BY <1>2, <1>3, <1>4, <1>5, <1>6 DEF Inv

LEMMA LockKeeps ==
    ASSUME Inv, mishap = "none", NEW u \in User, NEW test, NEW set, NEW locked,
           <<test, set, locked>> \in {<<"increase", "increaseSet", "initialise">>,
                                      <<"refused", "refusedSet", "decrease">>,
                                      <<"finish", "finishSet", "stop">>},
           SoftLock(u, test, set, locked), mishap' = "none"
    PROVE  Inv'
<1>1. pc \in [User -> Label]
  BY DEF Inv, TypeInv
<1>2. CASE pc[u] = test /\ Go(u, set) /\ UNCHANGED <<global, table, threads, rest>>
  <2>1. pc' = [pc EXCEPT ![u] = pc'[u]] /\ pc'[u] = set
    BY <1>1, <1>2 DEF Go
  <2>2. << pc[u], pc'[u] >> \in {<<"increase", "increaseSet">>, <<"refused", "refusedSet">>,
                                 <<"finish", "finishSet">>}
    BY <1>2, <2>1
  <2> QED
    BY <1>2, <2>1, <2>2, TestKeeps DEF rest
<1>3. CASE /\ pc[u] = set
           /\ ~softLock
           /\ softLock' = TRUE
           /\ Go(u, locked)
           /\ UNCHANGED <<initialised, count, mutex, table, threads, rest>>
  <2>1. pc' = [pc EXCEPT ![u] = pc'[u]] /\ pc'[u] = locked
    BY <1>1, <1>3 DEF Go
  <2>2. << pc[u], pc'[u] >> \in {<<"increaseSet", "initialise">>, <<"refusedSet", "decrease">>,
                                 <<"finishSet", "stop">>}
    BY <1>3, <2>1
  <2> QED
    BY <1>3, <2>1, <2>2, SetKeeps DEF rest
<1> QED
  BY <1>2, <1>3 DEF SoftLock, At, Spoil

\* What simxFinish does when it has done with a slot: the next one, or it is done.
LEMMA AfterSlotCases ==
    ASSUME NEW u \in User, AfterSlot(u)
    PROVE  \/ \E s \in Slot : /\ slot' = [slot EXCEPT ![u] = s]
                              /\ pc' = [pc EXCEPT ![u] = "stop"]
           \/ slot' = slot /\ pc' = [pc EXCEPT ![u] = "unlock"]
<1>1. CASE call[u].kind = "finishAll" /\ slot[u] + 1 \in Slot
  <2>1. slot' = [slot EXCEPT ![u] = slot[u] + 1] /\ pc' = [pc EXCEPT ![u] = "stop"]
    BY <1>1 DEF AfterSlot, Go
  <2> QED
    BY <1>1, <2>1
<1>2. CASE ~(call[u].kind = "finishAll" /\ slot[u] + 1 \in Slot)
  BY <1>2 DEF AfterSlot, Go
<1> QED
  BY <1>1, <1>2

LEMMA CallKeeps ==
    ASSUME Inv, mishap = "none", NEW u \in User, Step(u), mishap' = "none"
    PROVE  Inv'
<1>1. CASE \/ SoftLock(u, "increase", "increaseSet", "initialise")
           \/ SoftLock(u, "refused", "refusedSet", "decrease")
           \/ SoftLock(u, "finish", "finishSet", "stop")
  BY <1>1, LockKeeps
<1>2. CASE Initialise(u) \/ IncreaseClientCount(u)
  BY <1>2, InitialiseKeeps, IncreaseKeeps
<1>3. CASE ChooseSlot(u)
  <2>1. CASE \E s \in Slot : /\ IsFreeSlot(s, call[u].address)
                             /\ slot' = [slot EXCEPT ![u] = s]
                             /\ Go(u, "claim")
    BY <1>3, <2>1, ChooseKeeps DEF ChooseSlot, At, IsFreeSlot, Go, Spoil
  <2>2. CASE slot' = [slot EXCEPT ![u] = NoSlot] /\ Go(u, "refused")
    BY <1>3, <2>2, RefuseKeeps DEF ChooseSlot, At, Go, Spoil
  <2> QED
    BY <1>3, <2>1, <2>2 DEF ChooseSlot, Spoil
<1>4. CASE ClaimSlot(u) \/ StorePort(u) \/ FillSlot(u) \/ LaunchThread(u) \/ ThreadIsSet(u)
  BY <1>4, ClaimKeeps, StorePortKeeps, FillKeeps, LaunchKeeps, SetThreadKeeps
<1>5. CASE AwaitConnection(u)
  <2>1. CASE Return(u) /\ UNCHANGED <<global, table, threads, starts>>
    BY <1>5, <2>1, ReturnKeeps DEF AwaitConnection, At
  <2>2. CASE Go(u, "finish") /\ UNCHANGED <<global, table, threads, rest>>
    BY <1>5, <2>2, GiveUpKeeps DEF AwaitConnection, At, rest
  <2> QED
    BY <1>5, <2>1, <2>2 DEF AwaitConnection, Spoil
<1>6. CASE StopThread(u)
  <2>1. CASE /\ running[slot[u]]
             /\ running' = [running EXCEPT ![slot[u]] = FALSE]
             /\ Go(u, "join")
             /\ UNCHANGED <<global, table, pending, temp, thread, rest>>
    BY <1>6, <2>1, StopKeeps DEF StopThread, At, Go, rest
  <2>2. CASE AfterSlot(u) /\ UNCHANGED <<global, table, threads, call, starts>>
    BY <1>6, <2>2, AfterSlotCases, NextSlotKeeps, SlotsDoneKeeps DEF StopThread, At
  <2> QED
    BY <1>6, <2>1, <2>2 DEF StopThread, Spoil
<1>7. CASE JoinThread(u) \/ GiveSlotBack(u) \/ DecreaseClientCount(u)
  BY <1>7, JoinKeeps, GiveBackKeeps, DecreaseKeeps
<1>8. CASE LastClient(u)
  <2>1. CASE slot' = slot /\ Go(u, "delete")
    BY <1>8, <2>1, NoClientLeftKeeps DEF LastClient, At, Go
  <2>2. CASE AfterSlot(u)
    BY <1>8, <2>2, AfterSlotCases, NextSlotKeeps, SlotsDoneKeeps DEF LastClient, At
  <2> QED
    BY <1>8, <2>1, <2>2 DEF LastClient
<1>9. CASE DeleteMutex(u)
  <2>1. /\ pc[u] = "delete" /\ count = 0 /\ mutex' = "none" /\ initialised' = FALSE
        /\ AfterSlot(u)
        /\ UNCHANGED <<softLock, count, table, threads, call, starts>>
    BY <1>9 DEF DeleteMutex, Spoil, At
  <2> QED
    BY <2>1, AfterSlotCases, DeleteNextKeeps, DeleteDoneKeeps
<1>10. CASE SoftUnlock(u)
  BY <1>10, UnlockKeeps
<1> QED
  BY <1>1, <1>2, <1>3, <1>4, <1>5, <1>6, <1>7, <1>8, <1>9, <1>10 DEF Step

LEMMA CommKeeps ==
    ASSUME Inv, mishap = "none", NEW c \in Client, Thread(c), mishap' = "none"
    PROVE  Inv'
<1>1. CASE ReadClient(c) \/ Leave(c)
  BY <1>1, ReadKeeps, LeaveKeeps
<1>2. CASE Connect(c)
  <2>1. CASE thread' = [thread EXCEPT ![c] = [state |-> "connected", slot |-> thread[c].slot,
                                              address |-> temp[thread[c].slot].address]]
    BY <1>2, <2>1, ConnectKeeps DEF Connect, In, others
  <2>2. CASE Becomes(c, "after")
    BY <1>2, <2>2, GoOnKeeps DEF Connect, In, others, Becomes
  <2> QED
    BY <1>2, <2>1, <2>2 DEF Connect
<1>3. CASE Disconnect(c)
  BY <1>3, GoOnKeeps DEF Disconnect, In, others, Becomes
<1>4. CASE AfterConnection(c)
  BY <1>4, GoOnKeeps DEF AfterConnection, In, others, Becomes
<1> QED
  BY <1>1, <1>2, <1>3, <1>4 DEF Thread

LEMMA NoMishapBefore == ASSUME [Next]_vars, mishap' = "none" PROVE mishap = "none"
<1>1. ASSUME NEW u \in User, Step(u) PROVE mishap = "none"
  BY <1>1 DEF Step, SoftLock, Initialise, IncreaseClientCount, ChooseSlot, ClaimSlot, StorePort,
       FillSlot, LaunchThread, ThreadIsSet, AwaitConnection, StopThread, JoinThread, GiveSlotBack,
       DecreaseClientCount, LastClient, DeleteMutex, SoftUnlock, At
<1>2. ASSUME NEW c \in Client, Thread(c) PROVE mishap = "none"
  BY <1>2 DEF Thread, ReadClient, Connect, Disconnect, AfterConnection, Leave, In
<1> QED
  BY <1>1, <1>2 DEF Next, Start, Finish, FinishAll, At, vars

LEMMA SlotsNext == IInv /\ [Next]_vars => IInv'
<1> SUFFICES ASSUME IInv, [Next]_vars, mishap' = "none" PROVE Inv'
  BY DEF IInv
<1>1. mishap = "none" /\ Inv
  BY NoMishapBefore DEF IInv
<1>2. ASSUME NEW u \in User, NEW a \in Address, NEW o \in Options, Start(u, a, o[1], o[2])
      PROVE  Inv'
  <2>1. o[1] \in BOOLEAN /\ o[2] \in BOOLEAN
    BY SlotsAssumption
  <2> QED
    BY <1>1, <1>2, <2>1, StartKeeps
<1>3. ASSUME NEW u \in User,
             (\E s \in Slot : Finish(u, s)) \/ FinishAll(u) \/ Step(u)
      PROVE  Inv'
  BY <1>1, <1>3, FinishKeeps, FinishAllKeeps, CallKeeps
<1>4. ASSUME NEW c \in Client, Thread(c) PROVE Inv'
  BY <1>1, <1>4, CommKeeps
<1>5. CASE UNCHANGED vars
  BY <1>1, <1>5
     DEF vars, global, table, threads, Inv, TypeInv, CallInv, SoftInv, Numbered, OneCall, Progress,
         TableInv, Distinct, Awake, Launched, Ending, Gone, Stopped, Unlaunched, MutexInv,
         CountInv, Taken, Counted
<1> QED
  BY <1>2, <1>3, <1>4, <1>5 DEF Next

LEMMA Invariance == Spec => []IInv
<1>1. Init => IInv
  BY SlotsInit DEF IInv
<1> QED
  BY <1>1, SlotsNext, PTL DEF Spec

-----------------------------------------------------------------------------
\* Slots and addresses have one owner each, the count is that of the clients and the mutex
\* is there as long as one is, up to the step in which two calls meet (simxStart,
\* simxFinish).
THEOREM OneOwner == Spec => []SlotIsOwn
<1>1. IInv => SlotIsOwn
  BY Constants DEF IInv, Inv, SlotIsOwn, TableInv, Distinct, Progress, MutexInv, CountInv, Taken
<1> QED
  BY <1>1, Invariance, PTL

\* A thread works for the client that it was launched for (_communicationThread).
THEOREM OwnThread == Spec => []ThreadIsOwn
<1>1. IInv => ThreadIsOwn
  BY DEF IInv, Inv, ThreadIsOwn, Awake, Asleep
<1> QED
  BY <1>1, Invariance, PTL

\* Whoever a call waits for is there: for the soft lock, the mutex, the thread that reads
\* whose it is, and the thread that is to leave.
THEOREM WaitsAreMet == Spec => []NobodyWaitsInVain
<1>1. IInv => NobodyWaitsInVain
  <2> SUFFICES ASSUME Inv, mishap = "none" PROVE NobodyWaitsInVain
    BY DEF IInv, NobodyWaitsInVain
  <2>1. softLock => \E u \in User : pc[u] \in Soft
    BY DEF Inv, SoftInv
  <2>2. mutex \in User => pc[mutex] = "launched"
    BY DEF Inv, MutexInv
  <2>3. ASSUME NEW u \in User, pc[u] = "launched"
        PROVE  /\ mutex = u
               /\ pending # NoSlot =>
                     /\ pending = slot[u]
                     /\ \E c \in Client : thread[c].state = "launched"
    BY <2>3 DEF Inv, MutexInv, Launched
  <2>4. ASSUME NEW u \in User, pc[u] = "join", ~running[slot[u]]
        PROVE  \/ \E c \in Client : thread[c].slot = slot[u] /\ thread[c].state # "gone"
               \/ pending = slot[u]
               \/ \E v \in User : pc[v] = "launch" /\ slot[v] = slot[u]
    <3>1. slot[u] \in Slot /\ taken[slot[u]] /\ thread[owner[slot[u]]].state # "gone"
      BY <2>4 DEF Inv, CallInv, Ending
    <3>2. PICK c \in Client : c = owner[slot[u]]
      BY <3>1 DEF Inv, TypeInv, TableInv
    <3>3. CASE thread[c].state = "none"
      <4>1. PICK v \in User : pc[v] \in {"fill", "launch"} /\ slot[v] = slot[u]
        BY <3>1, <3>2, <3>3 DEF Inv, Unlaunched
      <4>2. pc[v] # "fill"
        BY <2>4, <4>1 DEF Inv, Ending
      <4> QED
        BY <4>1, <4>2
    <3>4. CASE thread[c].state = "launched"
      <4>1. pending = slot[mutex] /\ owner[slot[mutex]] = c /\ mutex \in User
        BY <3>4 DEF Inv, Launched
      <4>2. slot[mutex] \in Slot
        BY <4>1, <2>2 DEF Inv, CallInv
      <4>3. taken[slot[mutex]]
        BY <4>1, <4>2, Constants DEF Inv, TableInv
      <4> QED
        BY <3>1, <3>2, <4>1, <4>2, <4>3 DEF Inv, Distinct
    <3>5. CASE thread[c].state \notin Asleep
      <4>1. thread[c].slot \in Slot /\ owner[thread[c].slot] = c
        BY <3>5 DEF Inv, Awake
      <4>2. taken[thread[c].slot]
        BY <4>1, Constants DEF Inv, TableInv
      <4>3. thread[c].slot = slot[u]
        BY <3>1, <3>2, <4>1, <4>2 DEF Inv, Distinct
      <4> QED
        BY <3>1, <3>2, <4>3
    <3> QED
      BY <3>1, <3>2, <3>3, <3>4, <3>5 DEF Asleep
  <2> QED
    BY <2>1, <2>2, <2>3, <2>4 DEF NobodyWaitsInVain, Soft
<1> QED
  BY <1>1, Invariance, PTL
=============================================================================
