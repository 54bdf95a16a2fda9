------------------------- MODULE RemoteApiExchange -------------------------
(***************************************************************************)
(* The message exchange of one client of the remote API                    *)
(* (remoteApi/extApi.c): the thread of the program that calls the API      *)
(* (`api`), the communication thread that simxStart launched (`comm`), and *)
(* the simulator at the other end of the connection.                       *)
(*                                                                         *)
(* The two threads share the outbox _messageToSend, the inbox              *)
(* _messageReceived, the message counters and the number of the message    *)
(* whose answer a blocking call waits for.  Each critical section under    *)
(* extApi_lockResources is one action: ResourceLock is the model of that   *)
(* lock.  What the threads read or write outside it has a step of its own. *)
(*                                                                         *)
(* A command is a command number with the argument it is looked up by; a   *)
(* reply carries the number of the message it answers in place of its      *)
(* data.  ApiFunctions has the commands of the API functions, those that   *)
(* are never overwritten and the merging of read_string_stream;            *)
(* SplitTransfer has the operation modes with _split.                      *)
(***************************************************************************)
EXTENDS Integers

CONSTANTS
    Cmd,          \* the commands
    Kept,         \* those without argument: _exec_null keeps a queued duplicate of them as
                  \* it is, and a new reply does not replace the one the inbox holds
    Kill,         \* simx_cmd_kill_connection
    Calls,        \* the calls the program makes: records [cmd, mode]
    MaxMessageID  \* bound: the network carries the messages below it, then stays down

QueuedMode == {"oneshot", "blocking", "streaming", "discontinue"}
None == "none"
CallType == [cmd : Cmd, mode : QueuedMode \cup {"buffer", "remove"}]

ASSUME ExchangeAssumption ==
    /\ Kept \subseteq Cmd
    /\ Kill \in Cmd \ Kept
    /\ Calls \subseteq CallType
    /\ \A call \in Calls : call.cmd # Kill
    /\ MaxMessageID \in Nat
    /\ None \notin Cmd

VARIABLES
    apiPC,            \* where the api thread is in an _exec_ function or in simxFinish
    call,             \* the call being executed
    asked,            \* history: the number of the message that takes a blocking call's command
    displaced,        \* history: a queued discontinue has kept the place of that command
    timedOut,         \* simx_return_timeout_flag of the call
    fetched,          \* the reply the call found in the inbox
    finishing,        \* the call is the kill_connection of simxFinish
    messageToSend,    \* the outbox: the mode each command is queued with
    messageReceived,  \* the inbox: the replies held for each command
    inboxFilled,      \* _messageReceived_dataSize >= SIMX_HEADER_SIZE
    nextMessageID,    \* _nextMessageIDToSend
    lastReceivedID,   \* _lastReceivedMessageID
    waitID,           \* _waitBeforeSendingAgainWhenMessageIDArrived
    running,          \* _communicationThreadRunning
    connected,        \* _connectionID # -1
    sendStart,        \* the holder of extApi_lockSendStart
    doNotReconnect,   \* _tempDoNotReconnectOnceDisconnected
    commPC,           \* where the communication thread is
    wire,             \* the message on the connection
    stored,           \* the streaming commands the simulator keeps for this connection
    connectedAt,      \* history: nextMessageID when the connection was made
    batch             \* history: commands queued while paused that have not left yet

apiVars == <<apiPC, call, asked, displaced, timedOut, fetched, finishing>>
boxVars == <<messageToSend, messageReceived, inboxFilled>>
idVars  == <<nextMessageID, lastReceivedID, waitID>>
commVars == <<connected, commPC, connectedAt>>
netVars == <<wire, stored>>
vars == <<apiVars, boxVars, idVars, commVars, netVars, running, sendStart, doNotReconnect, batch>>

MessageID == 0 .. MaxMessageID + 1
NoReply == [id |-> -1, mode |-> None]
Reply == [id : MessageID \cup {-1}, mode : QueuedMode \cup {None}]
NoCommands == [c \in Cmd |-> None]
Content == [Cmd -> QueuedMode \cup {None}]
NoMessage == [kind |-> "none", id |-> -1, header |-> -1, cmds |-> NoCommands]
Message == [kind : {"none", "request", "reply"}, id : MessageID \cup {-1},
            header : MessageID \cup {-1}, cmds : Content]
NoCall == [cmd |-> Kill, mode |-> "oneshot"]

\* The comm thread has a connection it has not found broken yet.
Linked == commPC \in {"gate", "hold", "lockSend", "send", "receive"}

-----------------------------------------------------------------------------
(* simxStart has prepared the buffers and launched the communication thread *)

Init ==
    /\ apiPC = "idle"
    /\ call = NoCall
    /\ asked = -1
    /\ displaced = FALSE
    /\ timedOut = FALSE
    /\ fetched = NoReply
    /\ finishing = FALSE
    /\ messageToSend = NoCommands
    /\ messageReceived = [c \in Cmd |-> {}]
    /\ inboxFilled = FALSE
    /\ nextMessageID = 0
    /\ lastReceivedID = -1
    /\ waitID = -1
    /\ running = TRUE
    /\ connected = FALSE
    /\ sendStart = "free"
    /\ doNotReconnect \in BOOLEAN
    /\ commPC = "connect"
    /\ wire = NoMessage
    /\ stored = {}
    /\ connectedAt = 0
    /\ batch = {}

-----------------------------------------------------------------------------
(* The api thread: _exec_null ... _exec_intstringstring_buffer *)

\* A duplicate already in the outbox is overwritten, or kept as it is by _exec_null.
Queued(c, mode) ==
    IF c \in Kept /\ messageToSend[c] # None
    THEN messageToSend
    ELSE [messageToSend EXCEPT ![c] = mode]

\* First critical section of _exec_*: queue the command and, for a blocking call, ask
\* for the answer to the next message.
Append(c, mode) ==
    /\ messageToSend' = Queued(c, mode)
    /\ call' = [cmd |-> c, mode |-> mode]
    /\ batch' = IF sendStart = "api" THEN batch \cup {c} ELSE batch
    /\ timedOut' = FALSE
    /\ IF mode = "blocking"
       THEN /\ waitID' = nextMessageID
            /\ asked' = nextMessageID
            /\ displaced' = (Queued(c, mode)[c] = "discontinue")
            /\ apiPC' = "wait"
       ELSE /\ apiPC' = "fetch"
            /\ UNCHANGED <<waitID, asked, displaced>>

Exec(request) ==
    /\ apiPC = "idle"
    /\ request.mode \in QueuedMode
    /\ Append(request.cmd, request.mode)
    /\ UNCHANGED <<fetched, finishing, messageReceived, inboxFilled, nextMessageID,
                   lastReceivedID, running, sendStart, doNotReconnect, commVars, netVars>>

\* simx_opmode_buffer only looks into the inbox.
ExecBuffer(request) ==
    /\ apiPC = "idle"
    /\ request.mode = "buffer"
    /\ call' = request
    /\ timedOut' = FALSE
    /\ apiPC' = "fetch"
    /\ UNCHANGED <<asked, displaced, fetched, finishing, boxVars, idVars, commVars, netVars, running,
                   sendStart, doNotReconnect, batch>>

\* The reply that a lookup in the inbox finds: newer replies come first.
Newest(held) ==
    LET newest == {r \in held : \A q \in held : q.id <= r.id}
    IN IF newest = {} THEN NoReply ELSE CHOOSE r \in newest : TRUE

\* simx_opmode_remove: the API function returns _removeCommandReply_*.
RemoveReply(request) ==
    /\ apiPC = "idle"
    /\ request.mode = "remove"
    /\ messageReceived' = [messageReceived EXCEPT ![request.cmd] = @ \ {Newest(@)}]
    /\ UNCHANGED <<apiVars, messageToSend, inboxFilled, idVars, commVars, netVars, running,
                   sendStart, doNotReconnect, batch>>

\* Bug: the timeout is never looked at.
WaitUntilMessageArrived_NoTimeout ==
    /\ apiPC = "wait"
    /\ lastReceivedID >= waitID
    /\ apiPC' = "fetch"
    /\ UNCHANGED <<call, asked, displaced, timedOut, fetched, finishing, boxVars, idVars, commVars,
                   netVars, running, sendStart, doNotReconnect, batch>>

\* _waitUntilMessageArrived: one pass of the loop that ends it.  The copy of
\* _lastReceivedMessageID taken under the lock decides about the timeout flag.
WaitUntilMessageArrived ==
    /\ apiPC = "wait"
    /\ \/ lastReceivedID >= waitID /\ UNCHANGED timedOut
       \/ lastReceivedID < waitID /\ timedOut' = TRUE     \* _replyWaitTimeoutInMs elapsed
    /\ apiPC' = "fetch"
    /\ UNCHANGED <<call, asked, displaced, fetched, finishing, boxVars, idVars, commVars, netVars,
                   running, sendStart, doNotReconnect, batch>>

\* Bug: the comm thread is not enabled again.
Fetch_KeepsWaiting ==
    /\ apiPC = "fetch"
    /\ fetched' = IF call.mode = "blocking" THEN Newest(messageReceived[call.cmd]) ELSE NoReply
    /\ apiPC' = IF call.mode = "blocking" THEN "remove" ELSE IF finishing THEN "stop" ELSE "idle"
    /\ UNCHANGED <<asked, displaced, call, timedOut, finishing, boxVars, idVars, commVars,
                   netVars, running, sendStart, doNotReconnect, batch>>

\* Second critical section of _exec_*: look the reply up, let the comm thread send again.
Fetch ==
    /\ apiPC = "fetch"
    /\ waitID' = -1
    /\ IF call.mode = "blocking"
       THEN /\ apiPC' = "remove"
            /\ fetched' = Newest(messageReceived[call.cmd])
            /\ UNCHANGED <<call, timedOut>>
       ELSE /\ apiPC' = IF finishing THEN "stop" ELSE "idle"
            /\ fetched' = NoReply      \* copied out by the API function that returns
            /\ call' = NoCall
            /\ timedOut' = FALSE
    /\ UNCHANGED <<asked, displaced, finishing, boxVars, nextMessageID, lastReceivedID, commVars,
                   netVars, running, sendStart, doNotReconnect, batch>>

\* A blocking call takes its reply out of the inbox in a third critical section.
RemoveBlockingReply ==
    /\ apiPC = "remove"
    /\ messageReceived' = [messageReceived EXCEPT ![call.cmd] = @ \ {Newest(@)}]
    /\ apiPC' = "idle"
    /\ asked' = -1
    /\ displaced' = FALSE
    /\ fetched' = NoReply
    /\ call' = NoCall
    /\ timedOut' = FALSE
    /\ UNCHANGED <<finishing, messageToSend, inboxFilled, idVars, commVars, netVars,
                   running, sendStart, doNotReconnect, batch>>

-----------------------------------------------------------------------------
(* The api thread: simxPauseCommunication and simxFinish *)

\* simxPauseCommunication(1): blocks while the comm thread holds the lock.
Pause ==
    /\ apiPC = "idle"
    /\ sendStart = "free"
    /\ sendStart' = "api"
    /\ batch' = {}
    /\ UNCHANGED <<apiVars, boxVars, idVars, commVars, netVars, running, doNotReconnect>>

Resume ==
    /\ apiPC = "idle"
    /\ sendStart = "api"
    /\ sendStart' = "free"
    /\ UNCHANGED <<apiVars, boxVars, idVars, commVars, netVars, running, doNotReconnect, batch>>

\* simxFinish: a client that is connected first queues kill_connection.
Finish ==
    /\ apiPC = "idle"
    /\ finishing' = TRUE
    /\ IF connected
       THEN Append(Kill, "oneshot")
       ELSE /\ apiPC' = "stop"
            /\ UNCHANGED <<call, asked, displaced, timedOut, messageToSend, waitID, batch>>
    /\ UNCHANGED <<fetched, messageReceived, inboxFilled, nextMessageID, lastReceivedID,
                   running, sendStart, doNotReconnect, commVars, netVars>>

\* ... then, half a second later, tells the comm thread to end
StopThread ==
    /\ apiPC = "stop"
    /\ running' = FALSE
    /\ apiPC' = "join"
    /\ UNCHANGED <<call, asked, displaced, timedOut, fetched, finishing, boxVars, idVars, commVars,
                   netVars, sendStart, doNotReconnect, batch>>

\* Bug: the spin loop waits for the value it has just written.
JoinThread_AtOnce ==
    /\ apiPC = "join"
    /\ running' = FALSE
    /\ apiPC' = "finished"
    /\ UNCHANGED <<call, asked, displaced, timedOut, fetched, finishing, boxVars, idVars, commVars,
                   netVars, sendStart, doNotReconnect, batch>>

\* ... and spins until that thread has set the flag again.
JoinThread ==
    /\ apiPC = "join"
    /\ running
    /\ running' = FALSE
    /\ apiPC' = "finished"
    /\ UNCHANGED <<call, asked, displaced, timedOut, fetched, finishing, boxVars, idVars, commVars,
                   netVars, sendStart, doNotReconnect, batch>>

-----------------------------------------------------------------------------
(* _communicationThread *)

\* while (_communicationThreadRunning[clientID]!=0), or the end of the thread
StartConnecting ==
    /\ commPC = "connect"
    /\ running
    /\ commPC' = "connecting"
    /\ UNCHANGED <<apiVars, boxVars, idVars, connected, connectedAt, netVars, running,
                   sendStart, doNotReconnect, batch>>

\* Bug: the thread ends without telling simxFinish.
Leave_Silent ==
    /\ commPC \in {"connect", "park"}
    /\ ~running
    /\ commPC' = "left"
    /\ UNCHANGED <<apiVars, boxVars, idVars, connected, connectedAt, netVars, running,
                   sendStart, doNotReconnect, batch>>

\* The end of the thread sets the flag again, for simxFinish to see.
Leave ==
    /\ commPC \in {"connect", "park"}
    /\ ~running
    /\ running' = TRUE
    /\ commPC' = "left"
    /\ UNCHANGED <<apiVars, boxVars, idVars, connected, connectedAt, netVars, sendStart,
                   doNotReconnect, batch>>

Connect ==
    /\ commPC = "connecting"
    /\ nextMessageID < MaxMessageID
    /\ connected' = TRUE
    /\ connectedAt' = nextMessageID
    /\ commPC' = "gate"
    /\ stored' = {}                    \* the simulator starts a new connection
    /\ UNCHANGED <<apiVars, boxVars, idVars, wire, running, sendStart, doNotReconnect, batch>>

AfterConnection == IF doNotReconnect THEN "park" ELSE "connect"

ConnectFails ==
    /\ commPC = "connecting"
    /\ commPC' = AfterConnection
    /\ UNCHANGED <<apiVars, boxVars, idVars, connected, connectedAt, netVars, running,
                   sendStart, doNotReconnect, batch>>

\* Bug: the thread never waits for an answer to be fetched.
Gate_Open ==
    /\ commPC = "gate"
    /\ commPC' = IF ~running THEN "cleanup" ELSE "lockSend"
    /\ UNCHANGED <<apiVars, boxVars, idVars, connected, connectedAt, netVars, running,
                   sendStart, doNotReconnect, batch>>

\* Top of the inner loop: 1. check if we should wait until the input buffer got read.
Gate ==
    /\ commPC = "gate"
    /\ commPC' = IF ~running THEN "cleanup"
                 ELSE IF waitID # -1 /\ inboxFilled THEN "hold" ELSE "lockSend"
    /\ UNCHANGED <<apiVars, boxVars, idVars, connected, connectedAt, netVars, running,
                   sendStart, doNotReconnect, batch>>

\* The loop that waits ends when nobody waits or the answer has not come yet.  The two
\* reads of waitID, one outside the lock, let it end in no other case.
Hold ==
    /\ commPC = "hold"
    /\ waitID = -1 \/ lastReceivedID < waitID
    /\ commPC' = "lockSend"
    /\ UNCHANGED <<apiVars, boxVars, idVars, connected, connectedAt, netVars, running,
                   sendStart, doNotReconnect, batch>>

\* Bug: the lock is taken and given back at once.
LockSendStart_Released ==
    /\ commPC = "lockSend"
    /\ sendStart = "free"
    /\ commPC' = "send"
    /\ UNCHANGED <<apiVars, boxVars, idVars, connected, connectedAt, netVars, running,
                   sendStart, doNotReconnect, batch>>

LockSendStart ==
    /\ commPC = "lockSend"
    /\ sendStart = "free"
    /\ sendStart' = "comm"
    /\ commPC' = "send"
    /\ UNCHANGED <<apiVars, boxVars, idVars, connected, connectedAt, netVars, running,
                   doNotReconnect, batch>>

\* 3. Send a request: the outbox is taken, numbered and sent in one critical section,
\* in which the send-start lock is released; a failed send has taken it all the same.
SendRequest ==
    /\ commPC = "send"
    /\ sendStart' = "free"
    /\ messageToSend' = NoCommands
    /\ nextMessageID' = nextMessageID + 1
    /\ batch' = IF \E c \in batch : messageToSend[c] # None THEN {} ELSE batch
    /\ \/ /\ nextMessageID < MaxMessageID
          /\ wire' = [kind |-> "request", id |-> nextMessageID, header |-> nextMessageID,
                      cmds |-> messageToSend]
          /\ commPC' = "receive"
       \/ /\ commPC' = "cleanup"
          /\ UNCHANGED wire
    /\ UNCHANGED <<apiVars, messageReceived, inboxFilled, lastReceivedID, waitID, connected,
                   connectedAt, stored, running, doNotReconnect>>

\* Bug: replies in discontinue mode are put into the inbox too.
Merged_KeepsDiscontinued(c, held, id, mode) ==
    IF mode = None THEN held
    ELSE (IF c \in Kept THEN held ELSE {}) \cup {[id |-> id, mode |-> mode]}

\* The replies the inbox holds for a command after a message with this content: a newer
\* reply replaces the old one, a discontinue reply only removes it; but for a command
\* without argument _getSameCommandPointer finds no old reply to remove.
Merged(c, held, id, mode) ==
    IF mode = None THEN held
    ELSE (IF c \in Kept THEN held ELSE {})
           \cup (IF mode = "discontinue" THEN {} ELSE {[id |-> id, mode |-> mode]})

\* 4. Read the reply, and merge it into the inbox in one critical section.  A reply that
\* is only a header changes nothing, not even the last received message ID.
ReceiveReply ==
    /\ commPC = "receive"
    /\ wire.kind = "reply"
    /\ wire' = NoMessage
    /\ commPC' = "gate"
    /\ IF wire.cmds = NoCommands
       THEN UNCHANGED <<messageReceived, inboxFilled, lastReceivedID>>
       ELSE /\ messageReceived' =
                 [c \in Cmd |-> Merged(c, messageReceived[c], wire.id, wire.cmds[c])]
            /\ inboxFilled' = TRUE
            /\ lastReceivedID' = IF wire.header = -1 THEN lastReceivedID ELSE wire.header
    /\ UNCHANGED <<apiVars, messageToSend, nextMessageID, waitID, connected, connectedAt,
                   stored, running, sendStart, doNotReconnect, batch>>

\* recv fails: the server has closed the connection or the network has dropped it.
ReceiveFails ==
    /\ commPC = "receive"
    /\ wire' = NoMessage
    /\ commPC' = "cleanup"
    /\ UNCHANGED <<apiVars, boxVars, idVars, connected, connectedAt, stored, running,
                   sendStart, doNotReconnect, batch>>

\* Bug: the inbox survives the connection.
Cleanup_KeepsInbox ==
    /\ commPC = "cleanup"
    /\ messageToSend' = NoCommands
    /\ commPC' = "closing"
    /\ UNCHANGED <<apiVars, messageReceived, inboxFilled, idVars, connected, connectedAt,
                   netVars, running, sendStart, doNotReconnect, batch>>

\* The end of a connection: outbox and inbox are emptied under the lock
Cleanup ==
    /\ commPC = "cleanup"
    /\ messageToSend' = NoCommands
    /\ messageReceived' = [c \in Cmd |-> {}]
    /\ inboxFilled' = FALSE
    /\ batch' = IF sendStart = "api" THEN batch ELSE {}
    /\ commPC' = "closing"
    /\ UNCHANGED <<apiVars, idVars, connected, connectedAt, netVars, running, sendStart,
                   doNotReconnect>>

\* ... and the connection ID is withdrawn outside it.
CloseConnection ==
    /\ commPC = "closing"
    /\ connected' = FALSE
    /\ commPC' = AfterConnection
    /\ UNCHANGED <<apiVars, boxVars, idVars, connectedAt, netVars, running, sendStart,
                   doNotReconnect, batch>>

-----------------------------------------------------------------------------
(* The simulator, as the communication thread relies on it: it answers every *)
(* command of a message in the reply to that message, keeps the streaming    *)
(* commands and adds their data to later replies, with message ID -1 when    *)
(* the message asked for nothing.  kill_connection is never answered.        *)

ServerReply ==
    /\ wire.kind = "request"
    /\ wire.cmds[Kill] = None
    /\ LET executed == {c \in Cmd : wire.cmds[c] # None}
           table == (stored \cup {c \in Cmd : wire.cmds[c] = "streaming"})
                       \ {c \in Cmd : wire.cmds[c] = "discontinue"}
       IN \E due \in SUBSET (table \ executed),
             header \in {wire.id} \cup (IF executed = {} THEN {-1} ELSE {}) :
            /\ stored' = table
            /\ wire' = [kind |-> "reply", id |-> wire.id, header |-> header,
                        cmds |-> [c \in Cmd |-> IF c \in due THEN "streaming"
                                                ELSE wire.cmds[c]]]
    /\ UNCHANGED <<apiVars, boxVars, idVars, commVars, running, sendStart, doNotReconnect,
                   batch>>

-----------------------------------------------------------------------------
Api ==
    \/ \E request \in Calls : Exec(request) \/ ExecBuffer(request) \/ RemoveReply(request)
    \/ WaitUntilMessageArrived \/ Fetch \/ RemoveBlockingReply
    \/ Pause \/ Resume
    \/ Finish \/ StopThread \/ JoinThread

Comm ==
    \/ StartConnecting \/ Connect \/ ConnectFails \/ Leave
    \/ Gate \/ Hold \/ LockSendStart \/ SendRequest \/ ReceiveReply \/ ReceiveFails
    \/ Cleanup \/ CloseConnection

Next == Api \/ Comm \/ ServerReply

Spec == Init /\ [][Next]_vars

\* The api thread goes on with a call it has begun, the comm thread with its loop; a
\* request is answered (extApi.c: "the server always replies!") or, when it kills the
\* connection, the connection is closed.  No call is ever obliged to begin.
Fairness ==
    /\ WF_vars(WaitUntilMessageArrived \/ Fetch \/ RemoveBlockingReply)
    /\ WF_vars(StopThread \/ JoinThread)
    /\ WF_vars(StartConnecting \/ Connect \/ ConnectFails \/ Leave)
    /\ WF_vars(Gate \/ Hold \/ LockSendStart \/ SendRequest \/ ReceiveReply)
    /\ WF_vars(Cleanup \/ CloseConnection)
    /\ WF_vars(ServerReply)
    /\ WF_vars(wire.cmds[Kill] # None /\ ReceiveFails)

FairSpec == Spec /\ Fairness

-----------------------------------------------------------------------------
\* The values the variables take.  In particular a discontinue reply is never held.
TypeOK ==
    /\ apiPC \in {"idle", "wait", "fetch", "remove", "stop", "join", "finished"}
    /\ call \in CallType
    /\ asked \in MessageID \cup {-1}
    /\ displaced \in BOOLEAN
    /\ timedOut \in BOOLEAN
    /\ fetched \in Reply
    /\ finishing \in BOOLEAN
    /\ messageToSend \in Content
    /\ messageReceived \in [Cmd -> SUBSET Reply]
    /\ \A c \in Cmd : \A r \in messageReceived[c] : r.mode \in QueuedMode \ {"discontinue"}
    /\ inboxFilled \in BOOLEAN
    /\ nextMessageID \in MessageID
    /\ lastReceivedID \in MessageID \cup {-1}
    /\ waitID \in MessageID \cup {-1}
    /\ running \in BOOLEAN
    /\ connected \in BOOLEAN
    /\ sendStart \in {"free", "api", "comm"}
    /\ doNotReconnect \in BOOLEAN
    /\ commPC \in {"connect", "connecting", "gate", "hold", "lockSend", "send", "receive",
                   "cleanup", "closing", "park", "left"}
    /\ wire \in Message
    /\ stored \in SUBSET Cmd
    /\ connectedAt \in MessageID
    /\ batch \in SUBSET Cmd

\* A blocking call that did not time out returns the reply to its own message: not one
\* left in the inbox by an earlier call, nor data streamed after its answer.  Only when
\* _exec_null has kept a queued discontinue in its place does it return what was there.
BlockingReplyIsOwn ==
    apiPC = "remove" /\ ~timedOut /\ ~displaced => fetched.id = asked

\* simxFinish deletes the mutexes and frees the buffers once it has joined the comm
\* thread: by then that thread has left for good, connected or parked as it may have been.
FreedAfterThreadLeft == apiPC = "finished" => commPC = "left"

\* While a connection lives, the inbox holds nothing that an earlier connection
\* received: after a reconnection a buffer-mode read cannot return the old scene.
InboxIsOfThisConnection ==
    Linked => \A c \in Cmd : \A r \in messageReceived[c] : r.id >= connectedAt

\* The commands queued while the program holds the communication paused leave in one
\* message ("several specific commands are sent at the same time", at
\* extApi_lockSendStart), for a client that does not reconnect.
PausedBatchLeavesTogether ==
    [][ /\ doNotReconnect
        /\ nextMessageID' # nextMessageID
        /\ \E c \in batch : messageToSend[c] # None
        => /\ \A c \in batch : messageToSend[c] # None
           /\ sendStart # "api" ]_vars

\* The comment on the last step of _exec_*: a reply to a blocking call does not stay in
\* the inbox ("to avoid polluting the inbox").
NoBlockingReplyLeft ==
    apiPC = "idle" => \A c \in Cmd : \A r \in messageReceived[c] : r.mode # "blocking"

\* A blocking call of any command that did not time out comes back with a reply.
AnsweredCallHasValue ==
    apiPC = "remove" /\ ~timedOut => fetched # NoReply

-----------------------------------------------------------------------------
\* Every call returns, answered or not, connected or not.
CallReturns == apiPC \in {"wait", "fetch", "remove"} ~> apiPC \in {"idle", "stop"}

\* simxFinish returns, unless the program has left the communication paused: then the
\* comm thread stays blocked on the send-start lock.
FinishReturns == finishing ~> (apiPC = "finished" \/ sendStart = "api")

\* What is queued on a connected client leaves the outbox, unless the communication is
\* paused or the connection ends.
QueuedCommandLeaves ==
    \A c \in Cmd : messageToSend[c] # None /\ connected
                     ~> (messageToSend[c] = None \/ ~connected \/ sendStart = "api")
=============================================================================
