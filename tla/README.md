# A TLA+ model of csi30-vrep

The program plans a route for a robot over a 10 x 10 map, turns it into commands, and
drives the robot of a V-REP simulation along it through the simulator's remote API. This
directory holds the specification of its parts, the model-checking configurations and the
proofs. Everything is translated from the source; the API's server, which is not in the
repository, is modelled by what the client relies on.

    tlc -config exchange.cfg MCRemoteApiExchange.tla     a run (see "Runs")
    tlapm AStarSearchProofs.tla                          a module of proofs

## Inventory

| Part | Source | State | Operations | Interacts with |
|---|---|---|---|---|
| Robot control loop | `main.cpp` | queue of commands, current command, sensor readings, motor speeds | choose the finder, connect, get the handles, execute each command, finish | calls a finder, `Path`, and the API |
| Grid world | `Map.cpp`, `State.cpp` | none (the map is constant) | moves from a state, obstacle tests | called by the searches and the genetic algorithm |
| Depth first search | `DepthFirstSearch.cpp` | path, visited states, call stack | `find`, `depthSearch` | grid world |
| A* | `AStarSearch.cpp` | heap of states linked by mothers, list of open states | `find`, `addState`, `createVector` | grid world, the allocator |
| Genetic algorithm | `GeneticAlgorithm.cpp` | population of ten points | `find`, selection, crossover, mutation, fitness | A* for both halves of its path |
| Commands of a path | `Path.cpp` | none | `getPath`, `toCommand` | made by the finders, executed by the loop |
| API functions | `remoteApi/extApi.c` 2100-4190 | none of their own | some hundred `simx*` functions and their Matlab wrappers | each calls an `_exec_*` function or removes a reply; a few make several such calls |
| Message exchange of a client | `remoteApi/extApi.c` 231-2232 | outbox, inbox, message numbers, awaited number, connection, running flag | `_exec_*`, `_waitUntilMessageArrived`, `simxPauseCommunication`, `simxFinish`, `_communicationThread` | two threads share it; the simulator answers |
| Recursive locks of a client | `remoteApi/extApiPlatform.c` 270-476 | two mutexes, thread ID and level, twice | `lockResources`, `unlockResources`, `lockSendStart`, `unlockSendStart` | guard the exchange |
| Client slots and life cycle | `extApi.c` 37-319 | table of clients, their number, soft lock, global mutex, client number for the next thread | `simxStart`, `simxFinish` | create and destroy the two parts above and the communication thread |
| Split commands and replies | `extApi.c` 373-1097, 1264-1530, 1857-2046 | chunks under way in both directions | the `_split` operation modes, a chunk of each command into every message, the reassembly | inside the communication thread |
| Packets and clock | `extApi.c` 1623-1802, `extApiPlatform.c` 158-179 | packet counters, time of the last message | cut a message into packets, put it together, time differences | inside the communication thread |
| Java wrappers | `extApi.c` 4192-6292 | none | one per API function | not compiled here (`_Included_extApiJava`) |
| Shared memory transport | `extApiPlatform.c`, `extApi.c`, under its define | a mapped buffer | connect, send, receive | not compiled here (`USE_ALSO_SHARED_MEMORY`) |
| Simulator headers | `include/`, `remoteApi/v_rep*.h` | none | none | vendored constants |

What is hard in each of them, and what makes it correct:

- **Exchange.** Two threads interleave between the critical sections of a call: it queues
  its command, waits, fetches the reply and removes it in different ones. The connection
  may be lost at each step and made again; a timeout races the answer; streamed data of a
  command races the reply to a blocking call of the same command; `simxFinish` and the
  thread hand one flag to and fro. Correct means: a blocking call gets the reply to its own
  message or a timeout; nothing is freed under the thread; no data of an earlier connection
  is served; a paused batch leaves in one message; every call and `simxFinish` return.
- **Locks.** Recursion is decided from a thread ID and a level that outlive their owner,
  under a second mutex that is not held over the whole operation. Correct means: it is a
  recursive lock, and the level is the nesting.
- **Searches.** Long sequences of legal steps: marks that are never cleared (depth first),
  states expanded again, mothers and costs that change, an order that the allocator makes
  (A*). Correct means: what is returned is a route; giving up means that there is none.
- **Commands.** One wrong turn shows only several commands later. Correct means: executing
  the commands leads along the planned path.
- **Genetic algorithm.** The generations go on until every point sees the goal at once, by
  chance alone; the halves of the path meet in one state, which is in it twice. Correct
  means: the breeding ends, and the point it ends with is one the goal can be seen from.
- **Control loop.** The loops poll an inbox that stops changing when the connection is
  lost, and know lines only, no cells; the command variable is read before it is set.
  Correct means: between two commands the robot is where the plan has it, and every loop
  is left.
- **API functions.** Each function chooses what identifies its command, what becomes of a
  duplicate, and whether the reply is removed after the read; some combine several
  calls. Correct means: the inbox holds the last reply to a command and no other, an
  answered call finds its answer, no stream data are lost.
- **Client slots.** Test-and-set on a plain variable, a table that is written outside of
  its mutex, a count that decides when the mutex is destroyed, one variable that tells a
  new thread whose it is, a `simxFinish` under a `simxStart` that is still waiting.
  Correct means: slots, addresses and threads have one owner, and nobody waits for
  something that cannot come.
- **Split commands, packets, clock.** Chunks of several commands mixed in every message, a
  size that is compared wrongly, connections lost between two chunks, a 16-bit packet
  count, a clock that wraps. Correct means: data arrive whole or not at all, and in order.

`PROJECT.json` lists each hazard at its line.

## Modules

| Module | Models |
|---|---|
| `RemoteApiExchange` | one client's exchange: the api thread, the communication thread, the connection, the simulator |
| `ResourceLock` | the two locks of a client, mutex by mutex |
| `RecursiveLock` | the abstract lock that `ResourceLock` implements |
| `ApiFunctions` | each API function as data: its command, its argument, its treatment of duplicates and replies; the functions of several calls |
| `ApiInbox` | what those functions do to outbox and inbox, entry by entry, and what the simulator does with their commands |
| `ClientSlots` | `simxStart` and `simxFinish` of several threads, and the life of the communication threads |
| `DataTransfer` | the abstract transfer: what was given arrives whole and in order |
| `SplitTransfer` | chunks, packets and the clock; implements `DataTransfer` in both directions |
| `GridWorld` | map, states, moves, commands and what a command does to the robot |
| `DepthFirstSearch` | the depth first search with its call stack |
| `AStarSearch` | the search called A* with its objects and pointers |
| `GeneticOperators` | points, their fitness, what can be bred from a generation, the routes of a search |
| `GeneticAlgorithm` | the breeding, the selection, and the path through the best point |
| `RobotControl` | `main.cpp`: finder, connection, loop and sensor loops, with the scene |
| `MC...` | values of the constants for TLC |
| `RemoteApiExchangeProofs` (of the locks as well), `ApiInboxProofs`, `SplitTransferProofs`, `GridWorldProofs`, `DepthFirstSearchProofs`, `AStarSearchProofs`, `ClientSlotsProofs`, `RobotControlProofs` | theorems and proofs |

How they fit together. The searches and `GeneticAlgorithm` EXTEND `GridWorld`, and
`RobotControl` EXTENDS `GeneticAlgorithm`: it is the whole program but for the remote API,
of which it uses one promise, that a read of a stream returns what was received last or
fails (`HeldIsLatest`, `InboxIsOfThisConnection`). `ApiInbox` EXTENDS `ApiFunctions`.
`RemoteApiExchange` takes each critical section as one action, which is what `ResourceLock`
and its refinement of `RecursiveLock` justify; `ApiInbox` takes an exchange of messages as
one action, which `RemoteApiExchange` has in full. `ClientSlots` has the life of the
communication thread around it.

An operator with a name like `Fetch_KeepsWaiting` and a comment that begins with "Bug:" is
a faulty variant of the operator after it (`Fetch`), which is never part of a
specification: it shows which property would catch that fault.

### RemoteApiExchange

The data of a command and of a reply is abstracted: a command is its number and argument, a
reply carries the number of the message it answers. For a command with an argument the inbox
holds one reply, for a command without (`Kept`) all that were received since they were last
taken, because `_getSameCommandPointer` never finds one of them again; a lookup finds the
newest (`Newest`). `_exec_null` moreover keeps a queued duplicate with the mode it has.

| Variable | In the code |
|---|---|
| `messageToSend`, `messageReceived`, `inboxFilled` | `_messageToSend`, `_messageReceived` and its `_dataSize` |
| `nextMessageID`, `lastReceivedID`, `waitID` | `_nextMessageIDToSend`, `_lastReceivedMessageID`, `_waitBeforeSendingAgainWhenMessageIDArrived` |
| `running`, `connected`, `doNotReconnect` | `_communicationThreadRunning`, `_connectionID`, `_tempDoNotReconnectOnceDisconnected` |
| `sendStart` | the holder of `extApi_lockSendStart` |
| `apiPC`, `call`, `timedOut`, `fetched`, `finishing` | where the calling thread is, and its locals |
| `commPC` | where `_communicationThread` is |
| `wire`, `stored` | the connection and the simulator's streaming commands |
| `asked`, `displaced`, `connectedAt`, `batch` | history, read by properties only (and by no guard) |

| Action | In the code (`extApi.c`) |
|---|---|
| `Exec`, `ExecBuffer`, `WaitUntilMessageArrived`, `Fetch`, `RemoveBlockingReply` | the critical sections of `_exec_*` 373-1097, in order |
| `RemoveReply` | `_removeCommandReply_*` 2100-2173 |
| `Pause`, `Resume` | `simxPauseCommunication` 2223-2232 |
| `Finish`, `StopThread`, `JoinThread` | `simxFinish` 231-271 |
| `StartConnecting`, `Connect`, `ConnectFails`, `Leave` | the outer loop of `_communicationThread` 1804-1838, 2067-2078 |
| `Gate`, `Hold`, `LockSendStart`, `SendRequest`, `ReceiveReply`, `ReceiveFails` | its inner loop 1839-2046 |
| `Cleanup`, `CloseConnection` | the end of a connection 2047-2066 |
| `ServerReply` | the simulator: answers every command of a message in the next reply, adds streamed data, puts -1 in the header of a reply nobody asked for |

A message is one event: it arrives whole, or the send or the receive fails. Timeouts may
elapse in any pass of a waiting loop, so no clock is needed.

### ResourceLock

`Lock`, `LockAux`, `LockAgain`, `LockFirst`, `LockMutex`, `Own` are the steps of
`extApi_lockResources` (358-391) and `Unlock`, `LockAux`, `Decrement`, `UnlockMutex` those of
`extApi_unlockResources` (393-416); the send-start lock is the same code on other variables.
The thread ID starts with any value, as in a slot used before. A thread is assumed to unlock
as often as it locks, which all callers in the repository do.

With `Nesting` as the depths of the threads' calls, `Abstract` is the instance of
`RecursiveLock` that the property `RefinesRecursiveLock` names.

### ApiFunctions, ApiInbox

`ApiFunctions` is a table: for each API function the command, the argument the command and
its reply are looked up by, the `_exec_*` function it calls, what `simx_opmode_remove`
removes when it is not the function's own entry, and when the reply is taken out after a
read. Each `_exec_*` function has an operator of its name, which says what becomes of a
duplicate in the outbox: `_exec_null` leaves it as it is (`Keep`), those without a buffer
overwrite its mode (`Update`), those with one queue it anew (`Move`); a call with options 1
adds a second one (`Again`). A
call is a sequence of steps, so that `simxLoadModel`, `simxLoadUI`, `simxLoadScene` and
`simxQuery` are what they are: several such calls, some of which depend on the success of
one before.

| Action of `ApiInbox` | In the code |
|---|---|
| `Begin`, `Exec`, `Fetch`, `Take` | a call and the critical sections of its `_exec_*` function |
| `RemoveReply`, `ReturnAtOnce` | `simx_opmode_remove`; the functions that return before they queue anything |
| `Exchange` | a message is sent, the simulator executes it, and `_communicationThread` places the replies 1859-2044 |

`outbox` and `inbox` are sequences in the order of the buffers. `Exchange` may fall between
any two critical sections, but not while an answered blocking call has still to fetch: that
is the gate of the communication thread, and `BlockingReplyIsOwn` is about it. In an
exchange any one command may fail, an event may have happened, and the second value of
`get_ui_event_button`, which no function looks up, is either of two. The history `owed`
counts what was received and not yet taken for each stream that the program reads, and
`latest` has the last reply of each command and whether the program has since called its
function in `simx_opmode_remove`. It is the reply of the function's own command that is to
be erased, whatever the code looks for: `HeldIsLatest` says that no such reply is held but
for those that the code misses (`Missed`: a file is transferred under its name at the
server and removed by its path at the client, and so is a temporary one that is loaded).
`Exchange` is one action, so a step of the program between the send and the receipt is left
out (`RemoteApiExchange` has it), and no property of this module is about one.

`Programs` may be any sets of calls that `InboxAssumption` admits: a step passes the
argument that its command is identified by (`WellFormed`: as many values as the class of the
command says, options 1 only for a command that is not replaced, the special treatment of
`simxReadStringStream` for its own command), and temporary file names are used by
`simxLoadModel`, `simxLoadUI` and `simxLoadScene` only. That the functions of the library are
such is not taken for granted: `MCPrograms` has all of them, and TLC evaluates the assumption
for them. A function that passed an argument too few would make it false. `Completed`, the
data of a reply, is where the simulator adds a value of its own, which `TypeOK` is about: the
lookup of a reply by the function's argument works because that argument is a prefix of it.

### ClientSlots

The steps are as small as threads can interleave: the soft lock is a test and an assignment,
the slot is chosen under the global mutex and claimed, filled and launched after it.

| Action | In the code (`extApi.c`) |
|---|---|
| `SoftLock` (for three places), `SoftUnlock` | `_softLock`, `_softUnlock` 41-58 |
| `Initialise`, `IncreaseClientCount` | `_increaseClientCount` 60-78 |
| `Start`, `ChooseSlot`, `ClaimSlot`, `StorePort`, `FillSlot`, `LaunchThread`, `ThreadIsSet`, `AwaitConnection` | `simxStart` 99-229 |
| `Finish`, `FinishAll`, `StopThread`, `JoinThread`, `GiveSlotBack` | `simxFinish` 231-319, of one client and of all |
| `DecreaseClientCount`, `LastClient`, `DeleteMutex` | `_decreaseClientCount` 80-95 |
| `ReadClient`, `Connect`, `Disconnect`, `AfterConnection`, `Leave` | the life of `_communicationThread` 1804-2078 |

The code says of the soft lock that it is "very simple non fail-safe", and there are more
places where two calls that meet spoil what they share: a slot claimed twice, an address
used twice, an address read while it is not stored or released already (`ReadsNoAddress`:
line 137 looks at it only when the port is the same, and the port is stored first,
`StorePort`), the mutex of a new client deleted. A thread that the system does not make,
which `simxStart` does not notice, keeps the global mutex for ever. In such a step the model
notes what happened in `mishap` and stops, because no promise is left to be kept. The properties say
what holds in every behaviour before it: apart from those named places nothing goes wrong.
Because a behaviour may end in a mishap at almost any time, waiting is stated as an
invariant (`NobodyWaitsInVain`: for every wait, whoever is to end it is there) and not as a
liveness property.

### DataTransfer, SplitTransfer

`DataTransfer` is the promise: per command a queue of what was given and not yet arrived; a
newer datum may take the place of the last one; what arrives is the head of the queue; a
broken link may lose what is under way, the oldest first, and what has arrived, but nothing
may be mixed, reordered or invented: that is `Safety`. `Delivers` adds that nothing stays
under way for ever; `Spec` is both.

`SplitTransfer` has the chunks. A datum is a sequence of cells of which each tells the call
it is of and its place, so that a mixture is not equal to any datum. `ExecSplit` is the part
of the `_exec_*` functions with options for `_split`; `StartPass` waits for the delay and
takes the time, `TakeBuffer` follows when the thread has both locks and takes a chunk of
every queued command, and `SendMessage` sends them; between the two the message is `held`,
as long as the program has paused the communication or is in a call; `Answer` is the simulator, which puts the chunks together
in the same way and sends its own replies in chunks; `ReceiveReply` is the reassembly
through `_splitCommandsReceived`; `Cleanup` is what both ends drop when the connection is
lost. `IsReadWhole` counts packets in a short of `Shorts` values, as
`_receiveReplyMessage_socketOrSharedMem` does, and `TimeDiff` is `extApi_getTimeDiffInMs`. The
time of line 1862 is that at which a message is due. `MessagesAreSpaced` says what the code
keeps: a message leaves no sooner than the delay after the one before was due (`gap`). Two
messages as sent may be closer, by as long as the first was held up: after a pause the next
one follows at once. The commands
of a message come in one (`RemoteApiExchange`) and their chunks here; message numbers are
not repeated. Each buffer (`toSend`, `partial`, `inbox`) is a sequence for each command and a
message has at most one chunk of a command: every lookup is by command, so the order of
different commands in a buffer makes no difference here (`ApiInbox` has it). A command of
class `simx_cmdnull`, which `_getSameCommandPointer` never finds, may be in `partial` and
`inbox` several times.

Two mappings state the refinement: `Requests` maps what is under way to the chunks in
`toSend` and in the message, and what has arrived to what the simulator executed;
`Replies` maps the simulator's replies to what the inbox holds, to its last entry, so that
an older reply that stayed behind the new one would break it. Commands of class
`simx_cmdnull` are exempt from the second: their chunks are not recognised and not put
together.

### GridWorld, DepthFirstSearch, AStarSearch

`Expand` is `State::expand`, `ToCommand` and `ToCommands` are `Path::toCommand` and
`Path::getPath`, `Execute` is what the three branches of the control loop do with a robot
that is where the plan takes it to be.

In `DepthFirstSearch`, `path` is both the path of the code and the stack of its calls, and
`tried` the positions of their loops: `Begin` is the call from `find`, `Descend` a call that
enters a new state, `Skip` a call that returns at once, `Backtrack` the end of a loop.

In `AStarSearch`, `nodes` is the heap, and a pointer is an index of it. `AddState`, `Relax`
and `Keep` are the three ways through the body of the loop over the moves, `Pick` and
`PickNothing` the erase, sort and read of the first state, `Collect` and `Return` the walk of
`createVector`. `std::sort` is given pointers and orders addresses. A state leaves the list
only when it is picked, so any sequence of picks is the order of some addresses (those that
follow the sequence): a free choice among the open states is exact, and no address is
modelled. The constructors of `State` leave the mother of the start state unset, so it is
null or garbage; reading the first element of an empty list is undefined. In both cases
the search ends with `result = "undefined"`.

### GeneticAlgorithm, RobotControl

A generation is the set of its points: repetitions and order in the vector change neither
what `select` may return nor whether the fitness is finite. `Line` is the cell by cell walk
of `areThereWallsInPath`, compared with the straight lines of `BestIsInSight`.
`FindPathGoingThrough` puts two routes together, each of which is anything that
`AStarSearch` is shown to return (`WalkIsRoute`). `SelectFit` and `BreedCloser` are parts of
`SelectBest` and `CreateNewGeneration`, named for the fairness (see there). The search to the best point is towards
heading 0, which no move reaches when the cell in that direction is not free: then A* finds
nothing and the model, like the program, does not go on.

| `RobotControl` | In the code (`main.cpp`) |
|---|---|
| `path`, `comando` | the commands left (with the states they are made from), the command under way |
| `reading`, `origin`, `turn`, `motors` | what the program read last, where a loop began, the side the line was lost to, the motors |
| `pose`, `phase`, `offset`, `obstacle` | external: the cell, the way to the next one, the drift, an obstacle |
| `astray` | history: a walk was skipped or cut short, or a handle is missing |
| `SelectPathFinder`, `Breed`, `FindPath`, `Connect`, `GetHandles` | the finder 499-519, the connection and the handles 43-144 |
| `ReturnEarly`, `BeginPass`, `EndPass`, `Finish` | the loop 148-177, 478-496, and `get_next_command` 521-533 |
| `LeaveJunction`, `FollowLine`, `ReachLine` | the loops of a walk 189-377 |
| `TurnAway`, `LeaveLine`, `FindLine` | the loops of a turn 379-477 |
| `Advance`, `Drift`, `Bear`, `Rotate`, `Obstruct`, `Disconnect` | external: what the robot, the scene and the connection do |

A read has what the robot senses, or what was read last, or, before the first reply, what
the uninitialised arrays hold: `Connect` chooses it (`Uninitialised`) and it stays the same
until a reply overwrites it. When `FollowLine` has steered to a side the program reads once
more in the same pass, and the second reading decides whether the loop goes on. The scene is assumed (`SceneAssumption`): a
line joins neighbouring free cells, every cell that can be walked to has a line to a side,
by which the robot knows it, and the robot does not move on before the program has
read what it senses. Once the robot is `astray` the readings are arbitrary and the model
says nothing of where it is. An invalid choice of finder and a failed `simxStart` (whose -1
is used as an index) end in `pc = "undefined"`.

## Runs

| Run | Instance | Asks |
|---|---|---|
| `exchange` | 2 commands (one of `_exec_null`) and `kill_connection`, 8 kinds of calls, messages 0-2 | is a blocking call's reply its own, is nothing freed too early, is the inbox of this connection, does a paused batch stay together |
| `exchange_live` | the same commands, 3 kinds of calls, messages 0-1, with fairness | do calls and `simxFinish` return, do queued commands leave |
| `exchange_late_reply` | only the `_exec_null` command, blocking or discontinue | **violated**: a comment says that the reply to a blocking call never stays in the inbox |
| `exchange_kept_duplicate` | the same | **violated**: an answered blocking call may come back without a value |
| `lock` | 3 threads, nesting up to 3 | is it a recursive lock, is the level the nesting, is a free lock taken |
| `dfs` | the map of `Map.cpp`; every start, every end cell | is a path a route, is giving up justified, do the commands follow the path, does it end |
| `astar` | 3 x 3 cells with a wall next to a corner, 14 objects, 3 problems | is the list without duplicates, are costs lengths of ways, is the walk back a route, when does the list run empty |
| `astar_shortest` | the same map, a goal two moves away | **violated**: the search called A* returns a shortest route |
| `api` | every API function alone in all modes, the file loaders, a stream, two streams, queries, two handles; 3 exchanges | does the inbox hold the last reply once and none that was removed, does an answered call find its answer, is a stream whole, is a file there when it is loaded |
| `robot` | the program on 5 x 5 cells with a wall, 2 points up to three generations away from a fit one, paths of up to 4 moves per search | does the breeding end at a point that sees the goal, is the robot where the plan has it, is every loop left, when does the program end |
| `slots` | 2 threads, 2 slots, 2 addresses at different ports, 3 starts, 1 finish | do slots, addresses, threads and the count stay in order, does nobody wait in vain |
| `split` | 3 commands, data of 2 and 3 cells, chunks of 1 or 2 cells by `MinSplit` 2, 3 calls, 1 lost connection, messages held up for up to 2 ms | do both directions implement `DataTransfer`, does a message leave no sooner than the delay after the one before was due |

What the violated ones show:

- `exchange_late_reply`: a blocking call times out and removes "its" reply, then the reply
  arrives and is merged like any other. The next buffer-mode read takes it for data.
- `exchange_kept_duplicate`: `_exec_null` keeps a queued duplicate with the mode it has. A
  discontinue that is still queued takes the place of the blocking command, the message is
  answered in time, and the call returns nothing. The other `_exec_*` functions replace the
  duplicate. This is why `BlockingReplyIsOwn` makes an exception for `Kept` commands.
- `astar_shortest`: `State::operator<`, cost plus distance, is never called, since the list
  holds pointers. With addresses in an unlucky order a detour is returned.

One disagreement has no run of its own: `v_repConst.h` 1835 says of `simx_opmode_remove` that
it "just erases a similar command reply in the inbox". `simxTransferFile` looks for the reply
under the client's path (2687) although it is stored under the server's name, and the
functions that load files do the same with a temporary file (2718): the reply stays.
`HeldIsLatest` in run `api` excepts these (`Missed`); without the exception a oneshot transfer,
a read and a removal violate it. `simxCallScriptFunction` removes the reply of another command
(2925), of one that `HeldIsLatest` is not about.

### Bounds, and why they are enough

- `MaxMessageID` (exchange): the connection carries that many messages and then stays down.
  Three are a message that a call waits for, one before it (of which a reply may be held or
  late) and one after it (streamed data that may overwrite the answer); they can be spread
  over two connections. Every faulty variant shows within them. The proofs hold for any
  number.
- Two commands: replies of different commands do not touch each other but through the
  awaited number, which the pair covers; one of them is kept as a duplicate and one is not.
- Liveness uses two messages: a request and the one after a reconnection.
- Locks: two threads of a client and one more; a nesting of 3 distinguishes the first,
  an inner and the last unlock.
- Depth first: no bound, the map is the program's (and `MapIsConnected` evaluates what
  `FreeEndFound` wants of it).
- API: three exchanges are the one that answers, the one that streams over it or comes too
  late, and one after a removal. `MaxQueued` only stops commands with options 1 from piling
  up; two of them are enough to stand in each other's way. Functions do not share entries
  but for the groups that `MCPrograms` combines.
- Slots: two calls at a time meet in every pair of places; the third start reuses the slot
  of a client that was ended or refused, and one `simxFinish`, with those that `simxStart`
  makes itself, ends a client under another's hands. 8.8 million states. The addresses
  are at different ports: the address of a slot is read only for a client at the same one.
- Split: data of 3 cells in chunks of 2 have a last chunk that is shorter, data of 2 are
  whole in one chunk, and the three commands are those whose size is compared, not compared
  and compared with a cell too many. A message has up to 4 packets, which is the count that
  makes a short of 3 bits negative. A period of 4 ms with a delay of 2 lets the clock wrap in
  any pause; `MaxWait` 3 lets a pause be longer than the delay, and `MaxHold` 2 lets a message
  be held up for so long that the next one is due when it leaves. A stall of a period or more
  is beyond the run; the theorem `Spaced` has no such bound.
- Robot: on 5 x 5 cells with a wall there are crossings, ends of lines, sides without a line
  and points that do not see the goal; from those on the far side of the wall up to three
  generations are needed, of which the first are as unfit as they are. The search parts are bounded by `MaxMoves`, the two
  halves together go up to 8 moves with turns on the spot at the joint. The robot can walk at
  once from where it starts, while its readings are still those of uninitialised memory, and
  its way to the end leads round a corner. The theorems have no such bounds.
- A*: a search that can turn to and fro opens objects without end; 14 objects on a map of
  3 x 3 let it expand several states twice, change mothers, and reach goals by detours.
  The proofs hold for any map and number.

`CHECK_DEADLOCK FALSE` stands where the system stops: searches and the program end (or reach
the bound), the calls of `slots` are used up or two of them have met, and `simxFinish` called
while the communication is paused leaves both threads waiting, which `FinishReturns` states.

### Fairness

- Exchange: the api thread goes on with a call it has begun and each thread with its loop
  (they are ordinary threads, and every wait in them is a polling loop); the simulator
  answers a request, or closes the connection that a request killed ("the server always
  replies!", says `extApi.c`). No call ever has to begin, and `ReceiveFails` is otherwise
  never obliged. Weak fairness suffices: the only contended lock, `sendStart`, can be held
  against the thread only by a program that pauses, and the properties make that exception.
- Locks: a thread inside one of the functions goes on. Nothing is assumed on the order in
  which a mutex serves its waiters, so only "a lock that everybody has left is taken by
  somebody" is claimed, not that each thread gets it.
- Depth first: one thread that goes on. A*: no fairness and no liveness, because the code
  may really expand two states in turn for ever.
- Split: the communication thread goes on, time passes, and the simulator answers or the
  connection is given up: weak fairness of each. The thread's includes the two locks: a
  program does not hold up a message for ever (one that does is in `RemoteApiExchange`).
- Robot: the program goes on, and as long as it is connected its readings are renewed (the
  sensors are streamed). The generations are bred with numbers of `std::random_device`. A fit
  generation cannot be bred from each: behind the wall it takes several unfit ones. So
  fairness is stated step by step: a generation of which a fit one can be bred in k + 1
  generations and not in k is followed, if it comes again and again, by one that is closer
  (`BreedCloser(k)`, strong fairness, with a probability that has a lower bound in the
  program). `GenerationsEnd` does not follow from one of these alone: there has to be such a
  step from every generation, which `FitIsBred` proves for every map, and the generations
  between must not lead away for ever. Where mutation does nothing the property fails. Strong
  fairness of the motors says that they turn and move the robot, and that bearing towards
  the line is stronger than the drift away from it.

## Proofs

All theorems hold for every value of the constants under the modules' named assumptions:
calls are of known commands and modes (`ExchangeAssumption`), functions pass what their
command is identified by and leave temporary files to the functions that load them
(`InboxAssumption`, see above), there are threads and slots
(`LockAssumption`, `SlotsAssumption`), the wall lies on the map (`GridAssumption`), searches
start on a free state (`SearchAssumption`, `AStarAssumption`), there is an end state and the
fitness of a generation stays below `INF` (`GeneticAssumption`), every line that a robot
walks along crosses another where it comes to a cell (`SceneAssumption`), sizes and split
amounts are numbers and sizes are not 0 (`SplitAssumption`, `ClockAssumption`,
`ShortAssumption`). TLC evaluates them in the runs. One theorem has a hypothesis of its own,
`Connected`, which `MCDepthFirstSearch` evaluates for the program's map.

- **Exchange.** `BlockingReplyIsOwn` is not inductive: that the inbox holds the right reply
  when it is fetched depends on where the command was before. `CallInv` says that the command
  of a waiting call is in the outbox under the awaited number (`Queueing`), in a message
  or its reply under way (`Asking`), in the inbox, with the communication thread held back
  (`Answered`), or lost with its connection, when only a timeout ends the call (`Lost`).
  `WireInv` orders message numbers, `WaitInv` ties the awaited number to the place of the
  call, `Handshake` describes the flag that `simxFinish` and the thread share, `SessionInv`
  ages the replies. The theorems: `TypeCorrect`, `OwnReply`, `ThreadLeft`, `InboxSession`.
  `PausedBatchLeavesTogether` speaks of a step; `BatchInv` is what holds before it: as long as
  the pause's flag is up, all of the batch is in the outbox or the thread has begun to end the
  connection (`Ending`), and the thread sends with the lock that the pause takes
  (`BatchTogether`).
- **API functions.** None of the properties is inductive. `HeldIsLatest` and `AnswerIsFound`
  need that the outbox, too, has a replaced command once (`Single`): else the replies to a
  message would be two, and the inbox would hold both. `AnswerIsFound` moreover needs that the
  command of a waiting call is in the outbox until it is answered (`AskedInv`), and that a
  lookup finds the new reply first, because `Merged` puts the replies before what is left of
  the old buffer. `StreamIsWhole` speaks of what a lookup finds; `Whole` of every entry of a
  stream, and `StreamPlace` says that a call which reads one is never between its lookup and
  its removal. `LoadsWhatWasSent` is a matter of two places: a file that the call is about to
  have loaded is there, or the call still waits for its transfer (`TodoInv`, with `Sending`
  and `FileThere`), and one whose load is in the outbox stays there until then, since an
  erasure comes after it (`LoadInv`) and the simulator does not repeat one (`ErasedOnce`).
  The proof goes from lookups (`SamePlace`, `PrefixFacts`: a prefix of the data that has its
  length is the data) to the outbox after a call (`QueuedFacts`), to what a message makes the
  simulator execute (`ExecutedFacts`), to the placement of one reply (`PlaceFacts`) and, by
  induction, of all (`BuffersInduction`, `OldStep`, `NewStep`, `MergedFacts`): afterwards the
  inbox is the replies that were not discontinued, then the old entries of other commands.
  On these rests one lemma for each part of the invariant (`TypeStep`, `SingleStep`,
  `HeldStep`, `AnswerStep`, `WholeStep`, `LoadStep`, ...), with one step per action. The
  theorems: `TypeCorrect`, `HeldCorrect`, `AnswerCorrect`, `StreamCorrect`, `LoadsCorrect`.
- **Locks.** `LockInv` says who holds which mutex at which place, and that the level is 0 unless
  the ID is that of the holder of the mutex: that is why a stale ID is harmless. From it
  `LockTypeCorrect`, `LevelCounts` and `LockRefinement` (every step is `Enter`, `Leave` or a stutter of
  `RecursiveLock`).
- **Grid world.** Every move leads to a free state and changes the state (`ExpandType`,
  `MoveChanges`); both searches rest on it. A command made of a move makes that move, and
  by induction over a route the commands made of it lead along it.
- **Depth first.** The stack is a chain of moves without repetition, and what is visited is
  closed under moves except for those that open loops have still to try. From it
  `TypeCorrect`, `FoundIsRoute`, `FailureExhaustive`; with the induction over routes
  `CommandsFollow`. Where every state can be reached from every other (`Connected`) what is
  closed is the whole map, hence `FreeEndFound`.
- **A\*.** `HeapInv`: no object's way home passes over a state that is open and not the
  cursor, so a change of mother and cost never concerns a mother. `OpenInv`: the moves the
  loop has passed lead to states open beside the cursor. `WalkInv`: what is collected is
  the tail of a route, one move after the cursor. From them `TypeCorrect`, `OpenOnce`,
  `WaysHome`, `WalkRoute`, `DeadEnd`.
- **Clock and packets.** `TimeInv` says that the time since the last message was due is the
  difference of the clock plus whole periods; hence the clock, which falls short by a
  millisecond per wrap, never tells of more time than has passed, and `Spaced` holds for every
  period and delay, and however long messages are held up. `ReadWhole`: a message of up to 2^15 packets is read whole by a
  count in 16 bits, the one that makes the count negative included.
- **Client slots.** The invariant is `Inv` as long as there was no mishap. None of the three
  properties is inductive: that the count is the number of clients needs the calls that have
  counted and have no slot (`CountInv`, a cardinality, hence `User` is finite); that a slot
  has one owner needs that every client is of one call (`Numbered`, `OneCall`) and that a
  call without a slot has put none into its client's name (`Progress`); that a thread finds
  its own slot needs that the variable it reads is written under the mutex that its maker
  still holds (`MutexInv`, `Launched`); and that a wait is met ties the flag of a slot to
  its thread and to the one call that may clear or await it (`Ending`, `Gone`, `Stopped`,
  `Unlaunched`), and the soft lock to its one holder (`SoftInv`). The theorems: `OneOwner`,
  `OwnThread`, `WaitsAreMet`.
- **Split commands and replies.** A reader has the first cells of a datum and not the rest,
  and both ends go on separately. `Even` says that the receiver has exactly what the sender's
  first entry counts as sent; `Ahead` says what a chunk in a message adds to that, also when a
  new call has replaced the entry meanwhile; `UnderWay` is one of them for every command,
  whichever is in the message. With it the last chunk completes the datum of one call
  (`Begins`), and each step maps to a step of `DataTransfer` or to none: `ExecSplit` and the
  replies that become due are `Give`, `Answer` and `ReceiveReply` are `Arrive`, a failure is
  `Break` and `Connect` is `Link`; chunks that leave without being the last change nothing.
  `CommandsWhole` and `RepliesWhole` are the safety part of `CommandsArriveWhole` and
  `RepliesArriveWhole`.
- **The robot and its plan.** `FollowsPlan` speaks of the moments between two commands only.
  `PathInv` has that the rest of the path is a route to an end state, in every one of its
  states; the two halves that the genetic algorithm joins are routes because a walk of `k`
  moves is one, by induction over `k`. `DriveInv` has what is true in each loop of `main.cpp`:
  a walk sets out along a line (`Setout`), and what was read last is of the place where the
  robot is or of one it has passed, so that the loop which ends on a crossing ends at the next
  cell, by the line that `SceneAssumption` promises; a turn leaves the line on the side it
  turns to and ends at the next one. From these `Follows`; with the types of points, generations
  and readings `TypeCorrect`.
- **The genetic algorithm.** The breeding ends when the sum of the fitness is below `INF`. The
  sum is a fold and `Line` a recursive function; lemmas say that a sum below `INF` has no
  term of `INF` (`FitEach`), and that the cells drawn between two aligned points are those
  between them (`LineIsStraight`). From them `BestSees`. `FitIsBred`: two equal parents have
  children equal to them, which a mutation brings one cell closer to any point; so a point of
  the generation and its copies come to one that sees the goal in as many generations as the
  map has rows less one.
- **The program's end.** `CommandInv`: between two passes the command is cleared, or still
  unset before the first. From it `EndsOnlyUnset`.

Inductions, over the replies of a message too (`Numbers` in `ApiInboxProofs`, an instance in
which the map plays no part), use two lemmas of `GridWorldProofs` that are stated of sets and functions, since
no prover here instantiates a theorem about an operator: a set that has 0 and every successor
has all numbers (`Induction`, from facts on finite sets), and a recursive equation has a
solution (`Recursion`), so that the `CHOOSE` behind a recursive function is one.

Only model-checked: liveness (`CallReturns`, `FinishReturns`, `QueuedCommandLeaves`,
`LockIsTaken`, `Terminates`, `GenerationsEnd`, `PlanIsUsedUp`), the part `Delivers` of the
refinements of `DataTransfer` included: it is out of the prover's reach. Every other property
that a passing run checks is stated by a theorem.
The violated properties have a counterexample each.

## Not modelled

- The data and formats of commands and replies: the API functions only copy them. The check
  sum of a packet and the byte order, which are computed without state.
- Code that this program does not compile: the Java wrappers and shared memory.
- `simxGetInMessageInfo`, `simxGetOutMessageInfo` and `simxGetLastCmdTime`, which read the
  header of the last message.
- Several program threads on one client (the locks are modelled for any number of threads,
  the calls for one), and an unlock that no lock goes before.
- The values of the timeouts: they may elapse at any time. That one is left over from the
  last client of a slot makes no difference to the models.
- The lookup of a split reply of `read_string_stream` in the bytes before it (`extApi.c`
  2005), and commands whose name is a prefix of another's beyond what `CommandPointer` has.
- What happens after a step of undefined behaviour: a mishap in `ClientSlots`, an invalid
  finder or a client number of -1 in `RobotControl`, an empty list in `AStarSearch`.
- The robot's physics, the scene and the simulator, beyond what the modules assume of them;
  the simulator's headers.
