---------------------- MODULE RemoteApiExchangeProofs ----------------------
(***************************************************************************)
(* Proofs about RemoteApiExchange, for any set of commands and calls, and  *)
(* about the locks under which its steps run, for any number of threads    *)
(* and any nesting.                                                        *)
(***************************************************************************)
EXTENDS RemoteApiExchange, ResourceLock, TLAPS

\* The flag _communicationThreadRunning as the two threads hand it over: only the last
\* step of the comm thread sets it again after simxFinish has cleared it.
Handshake ==
    /\ apiPC \notin {"join", "finished"} => running /\ commPC # "left"
    /\ apiPC = "join" => (running <=> commPC = "left")
    /\ apiPC = "finished" => commPC = "left"

\* The network is used as long as the bound allows a message more.
TypeInv == TypeOK /\ (Linked => nextMessageID <= MaxMessageID)

\* A message is on the connection only while the comm thread reads the reply, and every
\* message ID in use is older than the next one.
WireInv ==
    /\ wire.kind = "none" => wire = NoMessage
    /\ wire.kind # "none" => commPC = "receive"
    /\ wire.kind = "request" => wire.header = wire.id
    /\ wire.header \in {-1, wire.id}
    /\ wire.id < nextMessageID
    /\ lastReceivedID < nextMessageID
    /\ wire.kind # "none" => lastReceivedID < wire.id

\* Between its two critical sections a blocking call waits for the message it asked for.
WaitInv ==
    /\ waitID # -1 <=> apiPC = "wait" \/ (apiPC = "fetch" /\ call.mode = "blocking")
    /\ waitID # -1 => waitID = asked /\ call.mode = "blocking"
    /\ apiPC = "wait" => timedOut = FALSE
    /\ apiPC = "fetch" /\ call.mode = "blocking" /\ ~timedOut => lastReceivedID >= waitID

\* Where the command of a waiting call is: in the outbox,
Queueing ==
    /\ nextMessageID = waitID
    /\ lastReceivedID < waitID
    /\ messageToSend[call.cmd] # None
    /\ messageToSend[call.cmd] = "discontinue" => displaced

\* ... on its way in the message that was asked for,
Asking ==
    /\ nextMessageID = waitID + 1
    /\ lastReceivedID < waitID
    /\ commPC = "receive"
    /\ wire.id = waitID
    /\ wire.header = waitID
    /\ wire.kind # "none"
    /\ wire.cmds[call.cmd] # None
    /\ wire.cmds[call.cmd] = "discontinue" => displaced
    /\ messageToSend = NoCommands

\* ... answered, with the comm thread held until the answer is fetched,
Answered ==
    /\ lastReceivedID = waitID
    /\ commPC \in {"gate", "hold"}
    /\ inboxFilled
    /\ wire = NoMessage
    /\ Newest(messageReceived[call.cmd]).id = waitID \/ displaced

\* ... or lost with its connection: nothing is left that a message could be answered for.
Lost ==
    /\ lastReceivedID < waitID
    /\ waitID <= nextMessageID
    /\ messageToSend = NoCommands
    /\ wire.cmds = NoCommands
    /\ commPC \in {"cleanup", "closing", "park", "connect", "connecting"} \/ stored = {}

CallInv == waitID # -1 => Queueing \/ Asking \/ Answered \/ Lost

\* What the inbox and the connection hold is as young as the connection.  Without one the
\* inbox is empty: Cleanup comes between any two connections.
SessionInv ==
    /\ wire.kind # "none" => wire.id >= connectedAt
    /\ Linked => nextMessageID >= connectedAt
    /\ commPC \in {"connect", "connecting", "closing", "park", "left"} =>
           \A c \in Cmd : messageReceived[c] = {}
    /\ InboxIsOfThisConnection

\* The inbox holds replies to messages before the one under way.
HeldInv ==
    \A c \in Cmd : \A r \in messageReceived[c] :
        r.id < nextMessageID /\ (wire.kind # "none" => r.id < wire.id)

IInv ==
    /\ TypeInv
    /\ Handshake
    /\ WireInv
    /\ WaitInv
    /\ CallInv
    /\ BlockingReplyIsOwn
    /\ SessionInv
    /\ HeldInv

-----------------------------------------------------------------------------
LEMMA EmptyValues ==
    /\ NoReply \in Reply
    /\ NoReply.mode = None
    /\ NoCommands \in Content
    /\ NoMessage \in Message
    /\ NoCall \in CallType
<1>1. NoReply \in Reply /\ NoReply.mode = None
  BY DEF NoReply, Reply
<1>2. NoCommands \in Content
  BY DEF NoCommands, Content
<1>3. NoMessage \in Message
  BY <1>2 DEF NoMessage, Message
<1>4. NoCall \in CallType
  BY ExchangeAssumption DEF NoCall, CallType, QueuedMode
<1> QED
  BY <1>1, <1>2, <1>3, <1>4

LEMMA NoMessageFields ==
    /\ NoMessage.kind = "none" /\ NoMessage.id = -1 /\ NoMessage.header = -1
    /\ NoMessage.cmds = NoCommands
  BY DEF NoMessage

LEMMA TypeInit == Init => TypeInv
<1> SUFFICES ASSUME Init PROVE TypeInv
  OBVIOUS
<1>1. {displaced, timedOut, finishing, inboxFilled, running, connected, doNotReconnect} \subseteq BOOLEAN
  BY DEF Init
<1> QED
  BY <1>1, EmptyValues, ExchangeAssumption DEF Init, TypeInv, TypeOK, None, MessageID, Linked

\* Queueing a command keeps the outbox well formed.
LEMMA QueuedType ==
    ASSUME NEW c \in Cmd, NEW mode \in QueuedMode, messageToSend \in Content
    PROVE  Queued(c, mode) \in Content
  BY DEF Queued, Content

LEMMA AppendType ==
    ASSUME TypeOK, NEW c \in Cmd, NEW mode \in QueuedMode, Append(c, mode)
    PROVE  /\ messageToSend' \in Content
           /\ call' \in CallType
           /\ batch' \in SUBSET Cmd
           /\ timedOut' \in BOOLEAN
           /\ waitID' \in MessageID \cup {-1}
           /\ asked' \in MessageID \cup {-1}
           /\ displaced' \in BOOLEAN
           /\ apiPC' \in {"wait", "fetch"}
<1>1. messageToSend' \in Content
  BY QueuedType DEF Append, TypeOK
<1>2. call' \in CallType
  BY DEF Append, CallType
<1>3. displaced' \in BOOLEAN
  BY DEF Append, TypeOK
<1> QED
  BY <1>1, <1>2, <1>3 DEF Append, TypeOK

\* What an inbox may hold for a command.
Holdable == {r \in Reply : r.mode \in QueuedMode \ {"discontinue"}}

LEMMA HoldableHeld ==
    (messageReceived \in [Cmd -> SUBSET Holdable]) <=>
        /\ messageReceived \in [Cmd -> SUBSET Reply]
        /\ \A c \in Cmd : \A r \in messageReceived[c] : r.mode \in QueuedMode \ {"discontinue"}
  BY DEF Holdable

\* A reply merged into the inbox: a discontinue reply leaves nothing new behind.
LEMMA MergedType ==
    ASSUME NEW c \in Cmd, NEW held \in SUBSET Holdable, NEW id \in MessageID \cup {-1},
           NEW mode \in QueuedMode \cup {None}
    PROVE  Merged(c, held, id, mode) \in SUBSET Holdable
<1>1. CASE mode \in {None, "discontinue"}
  BY <1>1 DEF Merged, None, QueuedMode
<1>2. CASE mode \notin {None, "discontinue"}
  <2>1. [id |-> id, mode |-> mode] \in Holdable
    BY <1>2 DEF Holdable, Reply
  <2> QED
    BY <1>2, <2>1 DEF Merged
<1> QED
  BY <1>1, <1>2

\* What a merge leaves is what was held before or the reply merged.
LEMMA MergedHolds ==
    ASSUME NEW c \in Cmd, NEW held, NEW id, NEW mode,
           NEW r \in Merged(c, held, id, mode)
    PROVE  r \in held \/ r.id = id
  BY DEF Merged

\* A reply younger than all others is the one a lookup finds.
LEMMA NewestIsYoungest ==
    ASSUME NEW held, NEW r \in held, r.id \in Int,
           \A q \in held : q = r \/ (q.id \in Int /\ q.id < r.id)
    PROVE  Newest(held) = r
<1> DEFINE newest == {x \in held : \A q \in held : q.id <= x.id}
<1>1. newest = {r}
  OBVIOUS
<1>2. Newest(held) = CHOOSE x \in newest : TRUE
  BY <1>1 DEF Newest
<1> HIDE DEF newest
<1> QED
  BY <1>1, <1>2

LEMMA NewestType ==
    ASSUME NEW held \in SUBSET Holdable
    PROVE  Newest(held) \in Reply
<1> DEFINE newest == {r \in held : \A q \in held : q.id <= r.id}
<1>1. newest \subseteq Reply
  BY DEF Holdable
<1>2. Newest(held) = IF newest = {} THEN NoReply ELSE CHOOSE r \in newest : TRUE
  BY DEF Newest
<1> HIDE DEF newest
<1> QED
  BY <1>1, <1>2, EmptyValues

LEMMA TypeStep == TypeInv /\ [Next]_vars => TypeInv'
<1> SUFFICES ASSUME TypeInv, [Next]_vars PROVE TypeInv'
  OBVIOUS
<1> USE ExchangeAssumption, EmptyValues
    DEF TypeInv, TypeOK, Linked, apiVars, boxVars, idVars, commVars, netVars
<1>1. ASSUME NEW request \in Calls, Exec(request) PROVE TypeInv'
  BY <1>1, AppendType DEF Exec, CallType
<1>2. ASSUME NEW request \in Calls, ExecBuffer(request) PROVE TypeInv'
  <2>1. timedOut' \in BOOLEAN
    BY <1>2 DEF ExecBuffer
  <2> QED
    BY <1>2, <2>1 DEF ExecBuffer
<1>3. ASSUME NEW request \in Calls, RemoveReply(request) PROVE TypeInv'
  <2>1. /\ messageReceived' \in [Cmd -> SUBSET Reply]
        /\ \A c \in Cmd : messageReceived'[c] \subseteq messageReceived[c]
    BY <1>3 DEF RemoveReply, CallType
  <2> QED
    BY <1>3, <2>1 DEF RemoveReply
<1>4. CASE WaitUntilMessageArrived
  <2>1. timedOut' \in BOOLEAN
    BY <1>4 DEF WaitUntilMessageArrived
  <2> QED
    BY <1>4, <2>1 DEF WaitUntilMessageArrived
<1>5. CASE Fetch
  <2>1. timedOut' \in BOOLEAN
    BY <1>5 DEF Fetch
  <2>2. call.cmd \in Cmd
    BY DEF CallType
  <2>3. messageReceived \in [Cmd -> SUBSET Holdable]
    BY HoldableHeld
  <2>4. Newest(messageReceived[call.cmd]) \in Reply
    BY <2>2, <2>3, NewestType
  <2>5. fetched' \in Reply
    BY <1>5, <2>4 DEF Fetch
  <2> QED
    BY <1>5, <2>1, <2>5 DEF Fetch, CallType
<1>6. CASE RemoveBlockingReply
  <2>1. timedOut' \in BOOLEAN
    BY <1>6 DEF RemoveBlockingReply
  <2>2. call.cmd \in Cmd
    BY DEF CallType
  <2>3. /\ messageReceived' \in [Cmd -> SUBSET Reply]
        /\ \A c \in Cmd : messageReceived'[c] \subseteq messageReceived[c]
    BY <1>6, <2>2 DEF RemoveBlockingReply
  <2>4. displaced' \in BOOLEAN
    BY <1>6 DEF RemoveBlockingReply
  <2> QED
    BY <1>6, <2>1, <2>2, <2>3, <2>4 DEF RemoveBlockingReply
<1>7. CASE Pause
  BY <1>7 DEF Pause
<1>8. CASE Resume
  BY <1>8 DEF Resume
<1>9. CASE Finish
  BY <1>9, AppendType DEF Finish, QueuedMode
<1>10. CASE StopThread
  <2>1. running' \in BOOLEAN
    BY <1>10 DEF StopThread
  <2> QED
    BY <1>10, <2>1 DEF StopThread
<1>11. CASE JoinThread
  <2>1. running' \in BOOLEAN
    BY <1>11 DEF JoinThread
  <2> QED
    BY <1>11, <2>1 DEF JoinThread
<1>12. CASE StartConnecting
  BY <1>12 DEF StartConnecting
<1>13. CASE Leave
  BY <1>13 DEF Leave
<1>14. CASE Connect
  BY <1>14 DEF Connect, MessageID
<1>15. CASE ConnectFails
  BY <1>15 DEF ConnectFails, AfterConnection
<1>16. CASE Gate
  BY <1>16 DEF Gate
<1>17. CASE Hold
  BY <1>17 DEF Hold
<1>18. CASE LockSendStart
  BY <1>18 DEF LockSendStart
<1>19. CASE SendRequest
  <2>1. nextMessageID' \in MessageID /\ (commPC' = "receive" => nextMessageID' <= MaxMessageID)
    BY <1>19 DEF SendRequest, MessageID
  <2>2. wire' \in Message
    BY <1>19 DEF SendRequest, Message
  <2> QED
    BY <1>19, <2>1, <2>2 DEF SendRequest
<1>20. CASE ReceiveReply
  <2>1. messageReceived' \in [Cmd -> SUBSET Holdable]
    <3> DEFINE merged == [c \in Cmd |-> Merged(c, messageReceived[c], wire.id, wire.cmds[c])]
    <3>1. wire.id \in MessageID \cup {-1} /\ \A c \in Cmd : wire.cmds[c] \in QueuedMode \cup {None}
      BY DEF Message, Content
    <3>2. messageReceived \in [Cmd -> SUBSET Holdable]
      BY HoldableHeld
    <3>3. \A c \in Cmd : Merged(c, messageReceived[c], wire.id, wire.cmds[c]) \in SUBSET Holdable
      BY <3>1, <3>2, MergedType
    <3>4. merged \in [Cmd -> SUBSET Holdable]
      BY <3>3
    <3>5. messageReceived' = messageReceived \/ messageReceived' = merged
      BY <1>20 DEF ReceiveReply
    <3> HIDE DEF merged
    <3> QED
      BY <3>2, <3>4, <3>5
  <2>4. /\ messageReceived' \in [Cmd -> SUBSET Reply]
        /\ \A c \in Cmd : \A r \in messageReceived'[c] : r.mode \in QueuedMode \ {"discontinue"}
    BY <2>1 DEF Holdable
  <2>2. lastReceivedID' \in MessageID \cup {-1}
    BY <1>20 DEF ReceiveReply, Message
  <2>3. inboxFilled' \in BOOLEAN
    BY <1>20 DEF ReceiveReply
  <2> QED
    BY <1>20, <2>2, <2>3, <2>4 DEF ReceiveReply
<1>21. CASE ReceiveFails
  BY <1>21 DEF ReceiveFails
<1>22. CASE Cleanup
  <2>1. inboxFilled' \in BOOLEAN
    BY <1>22 DEF Cleanup
  <2> QED
    BY <1>22, <2>1 DEF Cleanup, None
<1>23. CASE CloseConnection
  <2>1. connected' \in BOOLEAN
    BY <1>23 DEF CloseConnection
  <2> QED
    BY <1>23, <2>1 DEF CloseConnection, AfterConnection
<1>24. CASE ServerReply
  <2>1. wire' \in Message
    <3>1. wire.id \in MessageID \cup {-1} /\ wire.cmds \in Content
      BY DEF Message
    <3>2. PICK due \in SUBSET Cmd, header \in {wire.id, -1} :
             wire' = [kind |-> "reply", id |-> wire.id, header |-> header,
                      cmds |-> [c \in Cmd |-> IF c \in due THEN "streaming" ELSE wire.cmds[c]]]
      BY <1>24 DEF ServerReply
    <3>3. [c \in Cmd |-> IF c \in due THEN "streaming" ELSE wire.cmds[c]] \in Content
      BY <3>1 DEF Content, QueuedMode
    <3> QED
      BY <3>1, <3>2, <3>3 DEF Message
  <2>2. stored' \in SUBSET Cmd
    BY <1>24 DEF ServerReply
  <2> QED
    BY <1>24, <2>1, <2>2 DEF ServerReply
<1>25. CASE UNCHANGED vars
  BY <1>25 DEF vars
<1> QED
  BY <1>1, <1>2, <1>3, <1>4, <1>5, <1>6, <1>7, <1>8, <1>9, <1>10, <1>11, <1>12, <1>13,
     <1>14, <1>15, <1>16, <1>17, <1>18, <1>19, <1>20, <1>21, <1>22, <1>23, <1>24, <1>25 DEF Next, Api, Comm
-----------------------------------------------------------------------------
LEMMA HandshakeInit == Init => Handshake
  BY DEF Init, Handshake

LEMMA HandshakeStep == TypeOK /\ Handshake /\ [Next]_vars => Handshake'
<1> SUFFICES ASSUME TypeOK /\ Handshake, [Next]_vars PROVE Handshake'
  OBVIOUS
<1> USE DEF TypeOK, Handshake, apiVars, boxVars, idVars, commVars, netVars
<1>1. ASSUME NEW request \in Calls, Exec(request) PROVE Handshake'
  BY <1>1 DEF Exec, Append
<1>2. ASSUME NEW request \in Calls, ExecBuffer(request) PROVE Handshake'
  BY <1>2 DEF ExecBuffer
<1>3. ASSUME NEW request \in Calls, RemoveReply(request) PROVE Handshake'
  BY <1>3 DEF RemoveReply
<1>4. CASE WaitUntilMessageArrived
  BY <1>4 DEF WaitUntilMessageArrived
<1>5. CASE Fetch
  BY <1>5 DEF Fetch
<1>6. CASE RemoveBlockingReply
  BY <1>6 DEF RemoveBlockingReply
<1>7. CASE Pause
  BY <1>7 DEF Pause
<1>8. CASE Resume
  BY <1>8 DEF Resume
<1>9. CASE Finish
  BY <1>9 DEF Finish, Append
<1>10. CASE StopThread
  BY <1>10 DEF StopThread
<1>11. CASE JoinThread
  BY <1>11 DEF JoinThread
<1>12. CASE StartConnecting
  BY <1>12 DEF StartConnecting
<1>13. CASE Leave
  BY <1>13 DEF Leave
<1>14. CASE Connect
  BY <1>14 DEF Connect
<1>15. CASE ConnectFails
  BY <1>15 DEF ConnectFails, AfterConnection
<1>16. CASE Gate
  BY <1>16 DEF Gate
<1>17. CASE Hold
  BY <1>17 DEF Hold
<1>18. CASE LockSendStart
  BY <1>18 DEF LockSendStart
<1>19. CASE SendRequest
  BY <1>19 DEF SendRequest
<1>20. CASE ReceiveReply
  BY <1>20 DEF ReceiveReply
<1>21. CASE ReceiveFails
  BY <1>21 DEF ReceiveFails
<1>22. CASE Cleanup
  BY <1>22 DEF Cleanup
<1>23. CASE CloseConnection
  BY <1>23 DEF CloseConnection, AfterConnection
<1>24. CASE ServerReply
  BY <1>24 DEF ServerReply
<1>25. CASE UNCHANGED vars
  BY <1>25 DEF vars
<1> QED
  BY <1>1, <1>2, <1>3, <1>4, <1>5, <1>6, <1>7, <1>8, <1>9, <1>10, <1>11, <1>12, <1>13,
     <1>14, <1>15, <1>16, <1>17, <1>18, <1>19, <1>20, <1>21, <1>22, <1>23, <1>24, <1>25 DEF Next, Api, Comm

LEMMA WireInit == Init => WireInv
  BY DEF Init, WireInv, NoMessage

LEMMA WireStep == TypeInv /\ WireInv /\ [Next]_vars => WireInv'
<1> SUFFICES ASSUME TypeInv /\ WireInv, [Next]_vars PROVE WireInv'
  OBVIOUS
<1> USE EmptyValues, NoMessageFields, ExchangeAssumption DEF TypeInv, TypeOK, WireInv, MessageID, apiVars, boxVars, idVars, commVars, netVars
<1>1. ASSUME NEW request \in Calls, Exec(request) PROVE WireInv'
  BY <1>1 DEF Exec, Append
<1>2. ASSUME NEW request \in Calls, ExecBuffer(request) PROVE WireInv'
  BY <1>2 DEF ExecBuffer
<1>3. ASSUME NEW request \in Calls, RemoveReply(request) PROVE WireInv'
  BY <1>3 DEF RemoveReply
<1>4. CASE WaitUntilMessageArrived
  BY <1>4 DEF WaitUntilMessageArrived
<1>5. CASE Fetch
  BY <1>5 DEF Fetch
<1>6. CASE RemoveBlockingReply
  BY <1>6 DEF RemoveBlockingReply
<1>7. CASE Pause
  BY <1>7 DEF Pause
<1>8. CASE Resume
  BY <1>8 DEF Resume
<1>9. CASE Finish
  BY <1>9 DEF Finish, Append
<1>10. CASE StopThread
  BY <1>10 DEF StopThread
<1>11. CASE JoinThread
  BY <1>11 DEF JoinThread
<1>12. CASE StartConnecting
  BY <1>12 DEF StartConnecting
<1>13. CASE Leave
  BY <1>13 DEF Leave
<1>14. CASE Connect
  BY <1>14 DEF Connect
<1>15. CASE ConnectFails
  BY <1>15 DEF ConnectFails, AfterConnection
<1>16. CASE Gate
  BY <1>16 DEF Gate
<1>17. CASE Hold
  BY <1>17 DEF Hold
<1>18. CASE LockSendStart
  BY <1>18 DEF LockSendStart
<1>19. CASE SendRequest
  <2>1. wire = NoMessage
    BY <1>19 DEF SendRequest, Message
  <2>2. CASE wire' = wire
    BY <1>19, <2>1, <2>2 DEF SendRequest
  <2>3. CASE wire' = [kind |-> "request", id |-> nextMessageID, header |-> nextMessageID,
                      cmds |-> messageToSend]
    <3>1. /\ wire'.kind = "request"
          /\ wire'.id = nextMessageID
          /\ wire'.header = nextMessageID
      BY <2>3
    <3>2. commPC' = "receive"
      BY <1>19, <2>1, <3>1 DEF SendRequest
    <3> QED
      BY <1>19, <3>1, <3>2 DEF SendRequest
  <2> QED
    BY <1>19, <2>2, <2>3 DEF SendRequest
<1>20. CASE ReceiveReply
  <2>1. wire.id \in Int /\ nextMessageID \in Int /\ lastReceivedID \in Int
    BY DEF Message
  <2>2. lastReceivedID' \in {lastReceivedID, wire.id}
    BY <1>20 DEF ReceiveReply
  <2> QED
    BY <1>20, <2>1, <2>2 DEF ReceiveReply
<1>21. CASE ReceiveFails
  BY <1>21 DEF ReceiveFails
<1>22. CASE Cleanup
  BY <1>22 DEF Cleanup
<1>23. CASE CloseConnection
  BY <1>23 DEF CloseConnection, AfterConnection
<1>24. CASE ServerReply
  BY <1>24 DEF ServerReply, Message
<1>25. CASE UNCHANGED vars
  BY <1>25 DEF vars
<1> QED
  BY <1>1, <1>2, <1>3, <1>4, <1>5, <1>6, <1>7, <1>8, <1>9, <1>10, <1>11, <1>12, <1>13,
     <1>14, <1>15, <1>16, <1>17, <1>18, <1>19, <1>20, <1>21, <1>22, <1>23, <1>24, <1>25 DEF Next, Api, Comm

LEMMA WaitInit == Init => WaitInv
  BY DEF Init, WaitInv

LEMMA WaitStep == TypeInv /\ WireInv /\ WaitInv /\ [Next]_vars => WaitInv'
<1> SUFFICES ASSUME TypeInv /\ WireInv /\ WaitInv, [Next]_vars PROVE WaitInv'
  OBVIOUS
<1> USE DEF TypeInv, TypeOK, WireInv, WaitInv, MessageID, apiVars, boxVars, idVars, commVars, netVars
<1>1. ASSUME NEW request \in Calls, Exec(request) PROVE WaitInv'
  BY <1>1 DEF Exec, Append
<1>2. ASSUME NEW request \in Calls, ExecBuffer(request) PROVE WaitInv'
  BY <1>2 DEF ExecBuffer
<1>3. ASSUME NEW request \in Calls, RemoveReply(request) PROVE WaitInv'
  BY <1>3 DEF RemoveReply
<1>4. CASE WaitUntilMessageArrived
  BY <1>4 DEF WaitUntilMessageArrived
<1>5. CASE Fetch
  BY <1>5 DEF Fetch
<1>6. CASE RemoveBlockingReply
  BY <1>6 DEF RemoveBlockingReply
<1>7. CASE Pause
  BY <1>7 DEF Pause
<1>8. CASE Resume
  BY <1>8 DEF Resume
<1>9. CASE Finish
  BY <1>9 DEF Finish, Append
<1>10. CASE StopThread
  BY <1>10 DEF StopThread
<1>11. CASE JoinThread
  BY <1>11 DEF JoinThread
<1>12. CASE StartConnecting
  BY <1>12 DEF StartConnecting
<1>13. CASE Leave
  BY <1>13 DEF Leave
<1>14. CASE Connect
  BY <1>14 DEF Connect
<1>15. CASE ConnectFails
  BY <1>15 DEF ConnectFails, AfterConnection
<1>16. CASE Gate
  BY <1>16 DEF Gate
<1>17. CASE Hold
  BY <1>17 DEF Hold
<1>18. CASE LockSendStart
  BY <1>18 DEF LockSendStart
<1>19. CASE SendRequest
  BY <1>19 DEF SendRequest
<1>20. CASE ReceiveReply
  <2>1. wire.id \in Int /\ nextMessageID \in Int /\ lastReceivedID \in Int /\ waitID \in Int
    BY DEF Message
  <2>2. lastReceivedID' \in {lastReceivedID, wire.id} /\ lastReceivedID < wire.id
    BY <1>20 DEF ReceiveReply
  <2> QED
    BY <1>20, <2>1, <2>2 DEF ReceiveReply
<1>21. CASE ReceiveFails
  BY <1>21 DEF ReceiveFails
<1>22. CASE Cleanup
  BY <1>22 DEF Cleanup
<1>23. CASE CloseConnection
  BY <1>23 DEF CloseConnection, AfterConnection
<1>24. CASE ServerReply
  BY <1>24 DEF ServerReply
<1>25. CASE UNCHANGED vars
  BY <1>25 DEF vars
<1> QED
  BY <1>1, <1>2, <1>3, <1>4, <1>5, <1>6, <1>7, <1>8, <1>9, <1>10, <1>11, <1>12, <1>13,
     <1>14, <1>15, <1>16, <1>17, <1>18, <1>19, <1>20, <1>21, <1>22, <1>23, <1>24, <1>25 DEF Next, Api, Comm

-----------------------------------------------------------------------------
\* The call that waits keeps to its four stages: the gate before the next request is what
\* takes Answered no further until the answer has been fetched.
LEMMA CallStep ==
    TypeInv /\ Handshake /\ WireInv /\ WaitInv /\ CallInv /\ HeldInv /\ [Next]_vars => CallInv'
<1> SUFFICES ASSUME TypeInv /\ Handshake /\ WireInv /\ WaitInv /\ CallInv /\ HeldInv, [Next]_vars
             PROVE  CallInv'
  OBVIOUS
<1> USE EmptyValues, NoMessageFields, ExchangeAssumption DEF TypeInv, TypeOK, Handshake, WireInv, WaitInv, CallInv, MessageID, apiVars, boxVars, idVars, commVars, netVars
<1>1. ASSUME NEW request \in Calls, Exec(request) PROVE CallInv'
  <2>1. waitID = -1
    BY <1>1 DEF Exec
  <2>2. CASE request.mode = "blocking"
    <3>1. /\ waitID' = nextMessageID
          /\ call' = [cmd |-> request.cmd, mode |-> "blocking"]
          /\ messageToSend' = Queued(request.cmd, "blocking")
          /\ displaced' = (Queued(request.cmd, "blocking")[request.cmd] = "discontinue")
          /\ UNCHANGED <<nextMessageID, lastReceivedID>>
      BY <1>1, <2>2 DEF Exec, Append
    <3>2. call'.cmd = request.cmd /\ request.cmd \in Cmd
      BY <3>1 DEF CallType
    <3>3. /\ messageToSend'[request.cmd] # None
          /\ messageToSend'[request.cmd] = "discontinue" => displaced'
      BY <3>1, <3>2 DEF Queued, None, Content
    <3> QED
      BY <3>1, <3>2, <3>3 DEF Queueing
  <2>3. CASE request.mode # "blocking"
    BY <1>1, <2>1, <2>3 DEF Exec, Append
  <2> QED
    BY <2>2, <2>3
<1>2. ASSUME NEW request \in Calls, ExecBuffer(request) PROVE CallInv'
  BY <1>2 DEF ExecBuffer, Queueing, Asking, Answered, Lost
<1>3. ASSUME NEW request \in Calls, RemoveReply(request) PROVE CallInv'
  BY <1>3 DEF RemoveReply, Queueing, Asking, Answered, Lost
<1>4. CASE WaitUntilMessageArrived
  BY <1>4 DEF WaitUntilMessageArrived, Queueing, Asking, Answered, Lost
<1>5. CASE Fetch
  BY <1>5 DEF Fetch, Queueing, Asking, Answered, Lost
<1>6. CASE RemoveBlockingReply
  BY <1>6 DEF RemoveBlockingReply, Queueing, Asking, Answered, Lost
<1>7. CASE Pause
  BY <1>7 DEF Pause, Queueing, Asking, Answered, Lost
<1>8. CASE Resume
  BY <1>8 DEF Resume, Queueing, Asking, Answered, Lost
<1>9. CASE Finish
  BY <1>9 DEF Finish, Append
<1>10. CASE StopThread
  BY <1>10 DEF StopThread, Queueing, Asking, Answered, Lost
<1>11. CASE JoinThread
  BY <1>11 DEF JoinThread, Queueing, Asking, Answered, Lost
<1>12. CASE StartConnecting
  BY <1>12 DEF StartConnecting, Queueing, Asking, Answered, Lost
<1>13. CASE Leave
  BY <1>13 DEF Leave, Queueing
<1>14. CASE Connect
  BY <1>14 DEF Connect, Queueing, Asking, Answered, Lost
<1>15. CASE ConnectFails
  BY <1>15 DEF ConnectFails, AfterConnection, Queueing, Asking, Answered, Lost
<1>16. CASE Gate
  BY <1>16 DEF Gate, Queueing, Asking, Answered, Lost
<1>17. CASE Hold
  BY <1>17 DEF Hold, Queueing, Asking, Answered, Lost
<1>18. CASE LockSendStart
  BY <1>18 DEF LockSendStart, Queueing, Asking, Answered, Lost
<1>19. CASE SendRequest
  <2> SUFFICES ASSUME waitID # -1 PROVE CallInv'
    BY <1>19 DEF SendRequest
  <2>1. wire = NoMessage /\ waitID \in Int /\ nextMessageID \in Int /\ lastReceivedID \in Int
    BY <1>19 DEF SendRequest, Message
  <2>2. Queueing \/ Lost
    BY <1>19 DEF SendRequest, Asking, Answered
  <2>3. CASE wire' = wire /\ commPC' = "cleanup"
    BY <1>19, <2>1, <2>2, <2>3 DEF SendRequest, Queueing, Lost
  <2>4. CASE /\ wire' = [kind |-> "request", id |-> nextMessageID, header |-> nextMessageID,
                         cmds |-> messageToSend]
             /\ commPC' = "receive"
    <3>1. /\ wire'.kind # "none" /\ wire'.id = nextMessageID
          /\ wire'.header = nextMessageID /\ wire'.cmds = messageToSend
      BY <2>4
    <3>2. /\ messageToSend' = NoCommands /\ nextMessageID' = nextMessageID + 1
          /\ UNCHANGED <<call, displaced, waitID, lastReceivedID, stored>>
      BY <1>19 DEF SendRequest
    <3>3. CASE Queueing
      <4>1. Asking'
        BY <2>4, <3>1, <3>2, <3>3 DEF Queueing, Asking
      <4> QED
        BY <4>1
    <3>4. CASE Lost
      <4>1. Lost'
        BY <1>19, <2>1, <2>4, <3>1, <3>2, <3>4 DEF Lost, SendRequest
      <4> QED
        BY <4>1
    <3> QED
      BY <2>2, <3>3, <3>4
  <2> QED
    BY <1>19, <2>3, <2>4 DEF SendRequest
<1>20. CASE ReceiveReply
  <2> SUFFICES ASSUME waitID # -1 PROVE CallInv'
    BY <1>20 DEF ReceiveReply
  <2>1. /\ commPC = "receive" /\ wire.kind = "reply" /\ wire' = NoMessage /\ commPC' = "gate"
        /\ UNCHANGED <<call, displaced, waitID, nextMessageID, messageToSend, stored>>
    BY <1>20 DEF ReceiveReply
  <2>2. /\ waitID \in Int /\ nextMessageID \in Int /\ lastReceivedID \in Int /\ wire.id \in Int
        /\ call.cmd \in Cmd
    BY DEF Message, CallType
  <2>3. CASE Queueing
    <3>1. lastReceivedID' \in {lastReceivedID, wire.id}
      BY <1>20 DEF ReceiveReply
    <3> QED
      BY <2>1, <2>2, <2>3, <3>1 DEF Queueing
  <2>4. CASE Asking
    <3> DEFINE merged == [c \in Cmd |-> Merged(c, messageReceived[c], wire.id, wire.cmds[c])]
               own == [id |-> wire.id, mode |-> wire.cmds[call.cmd]]
    <3>1. wire.cmds # NoCommands
      BY <2>2, <2>4 DEF Asking, NoCommands
    <3>2. messageReceived' = merged /\ inboxFilled' = TRUE /\ lastReceivedID' = wire.header
      BY <1>20, <2>2, <2>4, <3>1 DEF ReceiveReply, Asking
    <3>3. messageReceived'[call.cmd]
            = Merged(call.cmd, messageReceived[call.cmd], wire.id, wire.cmds[call.cmd])
      BY <2>2, <3>2
    <3>4. Newest(messageReceived'[call.cmd]).id = wire.id \/ displaced
      <4> SUFFICES ASSUME ~displaced PROVE Newest(messageReceived'[call.cmd]).id = wire.id
        OBVIOUS
      <4>1. wire.cmds[call.cmd] \notin {None, "discontinue"}
        BY <2>4 DEF Asking
      <4>2. messageReceived'[call.cmd] \subseteq messageReceived[call.cmd] \cup {own}
        BY <3>3, <4>1 DEF Merged
      <4>3. own \in messageReceived'[call.cmd]
        BY <3>3, <4>1 DEF Merged
      <4>4. \A q \in messageReceived[call.cmd] : q.id \in Int /\ q.id < wire.id
        BY <2>2, <2>4 DEF HeldInv, Asking, Reply
      <4>5. own.id = wire.id
        OBVIOUS
      <4> HIDE DEF own
      <4>6. Newest(messageReceived'[call.cmd]) = own
        BY <2>2, <4>2, <4>3, <4>4, <4>5, NewestIsYoungest
      <4> QED
        BY <4>5, <4>6
    <3> HIDE DEF merged
    <3>5. Answered'
      BY <2>1, <2>4, <3>2, <3>4 DEF Asking, Answered
    <3> QED
      BY <3>5
  <2>5. CASE Lost
    <3>1. UNCHANGED lastReceivedID
      BY <1>20, <2>5 DEF ReceiveReply, Lost
    <3> QED
      BY <2>1, <2>5, <3>1 DEF Lost
  <2> QED
    BY <2>1, <2>3, <2>4, <2>5 DEF Answered
<1>21. CASE ReceiveFails
  BY <1>21 DEF ReceiveFails, Queueing, Asking, Answered, Lost
<1>22. CASE Cleanup
  <2> SUFFICES ASSUME waitID # -1 PROVE CallInv'
    BY <1>22 DEF Cleanup
  <2>1. /\ wire = NoMessage /\ wire' = wire /\ messageToSend' = NoCommands /\ commPC' = "closing"
        /\ UNCHANGED <<waitID, nextMessageID, lastReceivedID>>
    BY <1>22 DEF Cleanup
  <2>2. Queueing \/ Lost
    BY <1>22 DEF Cleanup, Asking, Answered
  <2>3. lastReceivedID < waitID /\ waitID <= nextMessageID
    BY <2>2 DEF Queueing, Lost
  <2> QED
    BY <2>1, <2>3 DEF Lost
<1>23. CASE CloseConnection
  BY <1>23 DEF CloseConnection, AfterConnection, Queueing, Asking, Answered, Lost
<1>24. CASE ServerReply
  <2> SUFFICES ASSUME waitID # -1 PROVE CallInv'
    BY <1>24 DEF ServerReply
  <2>1. /\ commPC = "receive" /\ wire.kind = "request"
        /\ UNCHANGED <<call, displaced, waitID, nextMessageID, lastReceivedID, messageToSend, commPC>>
    BY <1>24 DEF ServerReply
  <2> DEFINE executed == {c \in Cmd : wire.cmds[c] # None}
             table == (stored \cup {c \in Cmd : wire.cmds[c] = "streaming"})
                         \ {c \in Cmd : wire.cmds[c] = "discontinue"}
             answered(due) == [c \in Cmd |-> IF c \in due THEN "streaming" ELSE wire.cmds[c]]
  <2>2. PICK due \in SUBSET (table \ executed),
             header \in {wire.id} \cup (IF executed = {} THEN {-1} ELSE {}) :
           /\ stored' = table
           /\ wire' = [kind |-> "reply", id |-> wire.id, header |-> header, cmds |-> answered(due)]
    BY <1>24 DEF ServerReply
  <2>3. /\ wire'.kind = "reply" /\ wire'.id = wire.id /\ wire'.header = header
        /\ wire'.cmds = answered(due)
    BY <2>2
  <2>4. call.cmd \in Cmd
    BY DEF CallType
  <2>5. CASE Queueing
    BY <2>1, <2>5 DEF Queueing
  <2>6. CASE Asking
    <3>1. call.cmd \in executed
      BY <2>4, <2>6 DEF Asking
    <3>2. wire'.cmds[call.cmd] = wire.cmds[call.cmd] /\ header = wire.id
      BY <2>2, <2>3, <2>4, <3>1
    <3> HIDE DEF executed, table, answered
    <3>3. Asking'
      BY <2>1, <2>3, <2>6, <3>2 DEF Asking
    <3> QED
      BY <3>3
  <2>7. CASE Lost
    <3>1. stored = {} /\ wire.cmds = NoCommands
      BY <2>1, <2>7 DEF Lost
    <3>2. \A c \in Cmd : wire.cmds[c] = None
      BY <3>1 DEF NoCommands
    <3>3. table = {}
      BY <3>1, <3>2 DEF None
    <3>4. answered(due) = [c \in Cmd |-> None]
      BY <2>2, <3>2, <3>3
    <3>5. stored' = {} /\ wire'.cmds = NoCommands
      BY <2>2, <2>3, <3>3, <3>4 DEF NoCommands
    <3> HIDE DEF executed, table, answered
    <3>6. Lost'
      BY <2>1, <2>7, <3>5 DEF Lost
    <3> QED
      BY <3>6
  <2> QED
    BY <2>1, <2>5, <2>6, <2>7 DEF Answered
<1>25. CASE UNCHANGED vars
  BY <1>25 DEF vars, Queueing, Asking, Answered, Lost
<1> QED
  BY <1>1, <1>2, <1>3, <1>4, <1>5, <1>6, <1>7, <1>8, <1>9, <1>10, <1>11, <1>12, <1>13,
     <1>14, <1>15, <1>16, <1>17, <1>18, <1>19, <1>20, <1>21, <1>22, <1>23, <1>24, <1>25 DEF Next, Api, Comm

LEMMA OwnReplyStep == TypeInv /\ WaitInv /\ CallInv /\ BlockingReplyIsOwn /\ [Next]_vars => BlockingReplyIsOwn'
<1> SUFFICES ASSUME TypeInv /\ WaitInv /\ CallInv /\ BlockingReplyIsOwn, [Next]_vars PROVE BlockingReplyIsOwn'
  OBVIOUS
<1> USE DEF TypeInv, TypeOK, BlockingReplyIsOwn, MessageID, apiVars, boxVars, idVars, commVars, netVars
<1>1. ASSUME NEW request \in Calls, Exec(request) PROVE BlockingReplyIsOwn'
  BY <1>1 DEF Exec, Append
<1>2. ASSUME NEW request \in Calls, ExecBuffer(request) PROVE BlockingReplyIsOwn'
  BY <1>2 DEF ExecBuffer
<1>3. ASSUME NEW request \in Calls, RemoveReply(request) PROVE BlockingReplyIsOwn'
  BY <1>3 DEF RemoveReply
<1>4. CASE WaitUntilMessageArrived
  BY <1>4 DEF WaitUntilMessageArrived
<1>5. CASE Fetch
  <2> SUFFICES ASSUME call.mode = "blocking", ~timedOut PROVE BlockingReplyIsOwn'
    BY <1>5 DEF Fetch
  <2>1. /\ apiPC = "fetch" /\ fetched' = Newest(messageReceived[call.cmd])
        /\ UNCHANGED <<call, timedOut, asked, displaced>>
    BY <1>5 DEF Fetch
  <2>2. waitID # -1 /\ waitID = asked /\ lastReceivedID >= waitID
    BY <2>1 DEF WaitInv
  <2>3. Answered
    BY <2>2 DEF CallInv, Queueing, Asking, Lost
  <2> QED
    BY <2>1, <2>2, <2>3 DEF Answered
<1>6. CASE RemoveBlockingReply
  BY <1>6 DEF RemoveBlockingReply
<1>7. CASE Pause
  BY <1>7 DEF Pause
<1>8. CASE Resume
  BY <1>8 DEF Resume
<1>9. CASE Finish
  BY <1>9 DEF Finish, Append
<1>10. CASE StopThread
  BY <1>10 DEF StopThread
<1>11. CASE JoinThread
  BY <1>11 DEF JoinThread
<1>12. CASE StartConnecting
  BY <1>12 DEF StartConnecting
<1>13. CASE Leave
  BY <1>13 DEF Leave
<1>14. CASE Connect
  BY <1>14 DEF Connect
<1>15. CASE ConnectFails
  BY <1>15 DEF ConnectFails, AfterConnection
<1>16. CASE Gate
  BY <1>16 DEF Gate
<1>17. CASE Hold
  BY <1>17 DEF Hold
<1>18. CASE LockSendStart
  BY <1>18 DEF LockSendStart
<1>19. CASE SendRequest
  BY <1>19 DEF SendRequest
<1>20. CASE ReceiveReply
  BY <1>20 DEF ReceiveReply
<1>21. CASE ReceiveFails
  BY <1>21 DEF ReceiveFails
<1>22. CASE Cleanup
  BY <1>22 DEF Cleanup
<1>23. CASE CloseConnection
  BY <1>23 DEF CloseConnection, AfterConnection
<1>24. CASE ServerReply
  BY <1>24 DEF ServerReply
<1>25. CASE UNCHANGED vars
  BY <1>25 DEF vars
<1> QED
  BY <1>1, <1>2, <1>3, <1>4, <1>5, <1>6, <1>7, <1>8, <1>9, <1>10, <1>11, <1>12, <1>13,
     <1>14, <1>15, <1>16, <1>17, <1>18, <1>19, <1>20, <1>21, <1>22, <1>23, <1>24, <1>25 DEF Next, Api, Comm

LEMMA SessionInit == Init => SessionInv
  BY NoMessageFields DEF Init, SessionInv, InboxIsOfThisConnection, Linked

LEMMA SessionStep == TypeInv /\ WireInv /\ SessionInv /\ [Next]_vars => SessionInv'
<1> SUFFICES ASSUME TypeInv /\ WireInv /\ SessionInv, [Next]_vars PROVE SessionInv'
  OBVIOUS
<1> USE NoMessageFields DEF TypeInv, TypeOK, WireInv, SessionInv, InboxIsOfThisConnection, Linked, MessageID, apiVars, boxVars, idVars, commVars, netVars
<1>1. ASSUME NEW request \in Calls, Exec(request) PROVE SessionInv'
  BY <1>1 DEF Exec, Append
<1>2. ASSUME NEW request \in Calls, ExecBuffer(request) PROVE SessionInv'
  BY <1>2 DEF ExecBuffer
<1>3. ASSUME NEW request \in Calls, RemoveReply(request) PROVE SessionInv'
  <2>1. \A c \in Cmd : messageReceived'[c] \subseteq messageReceived[c]
    BY <1>3 DEF RemoveReply
  <2> QED
    BY <1>3, <2>1 DEF RemoveReply
<1>4. CASE WaitUntilMessageArrived
  BY <1>4 DEF WaitUntilMessageArrived
<1>5. CASE Fetch
  BY <1>5 DEF Fetch
<1>6. CASE RemoveBlockingReply
  <2>1. \A c \in Cmd : messageReceived'[c] \subseteq messageReceived[c]
    BY <1>6 DEF RemoveBlockingReply
  <2> QED
    BY <1>6, <2>1 DEF RemoveBlockingReply
<1>7. CASE Pause
  BY <1>7 DEF Pause
<1>8. CASE Resume
  BY <1>8 DEF Resume
<1>9. CASE Finish
  BY <1>9 DEF Finish, Append
<1>10. CASE StopThread
  BY <1>10 DEF StopThread
<1>11. CASE JoinThread
  BY <1>11 DEF JoinThread
<1>12. CASE StartConnecting
  BY <1>12 DEF StartConnecting
<1>13. CASE Leave
  BY <1>13 DEF Leave
<1>14. CASE Connect
  BY <1>14 DEF Connect
<1>15. CASE ConnectFails
  BY <1>15 DEF ConnectFails, AfterConnection
<1>16. CASE Gate
  BY <1>16 DEF Gate
<1>17. CASE Hold
  BY <1>17 DEF Hold
<1>18. CASE LockSendStart
  BY <1>18 DEF LockSendStart
<1>19. CASE SendRequest
  <2>1. wire' = wire \/ wire'.id = nextMessageID
    BY <1>19 DEF SendRequest
  <2>2. nextMessageID \in Int /\ nextMessageID >= connectedAt
    BY <1>19 DEF SendRequest
  <2> QED
    BY <1>19, <2>1, <2>2 DEF SendRequest
<1>20. CASE ReceiveReply
  <2>1. \A c \in Cmd : \A r \in messageReceived'[c] : r \in messageReceived[c] \/ r.id = wire.id
    BY <1>20, MergedHolds DEF ReceiveReply
  <2>3. /\ commPC = "receive" /\ commPC' = "gate" /\ wire.id >= connectedAt /\ wire' = NoMessage
        /\ UNCHANGED <<nextMessageID, connectedAt>>
    BY <1>20 DEF ReceiveReply
  <2> QED
    BY <2>1, <2>3
<1>21. CASE ReceiveFails
  BY <1>21 DEF ReceiveFails
<1>22. CASE Cleanup
  BY <1>22 DEF Cleanup
<1>23. CASE CloseConnection
  BY <1>23 DEF CloseConnection, AfterConnection
<1>24. CASE ServerReply
  <2>1. wire'.id = wire.id /\ UNCHANGED <<commPC, nextMessageID, connectedAt, messageReceived>>
    BY <1>24 DEF ServerReply
  <2> QED
    BY <1>24, <2>1 DEF ServerReply
<1>25. CASE UNCHANGED vars
  BY <1>25 DEF vars
<1> QED
  BY <1>1, <1>2, <1>3, <1>4, <1>5, <1>6, <1>7, <1>8, <1>9, <1>10, <1>11, <1>12, <1>13,
     <1>14, <1>15, <1>16, <1>17, <1>18, <1>19, <1>20, <1>21, <1>22, <1>23, <1>24, <1>25 DEF Next, Api, Comm

LEMMA HeldInit == Init => HeldInv
  BY DEF Init, HeldInv

\* Only ReceiveReply puts replies into the inbox, and SendRequest numbers a message higher
\* than all before it.
LEMMA HeldStep == TypeInv /\ WireInv /\ HeldInv /\ [Next]_vars => HeldInv'
<1> SUFFICES ASSUME TypeInv /\ WireInv /\ HeldInv, [Next]_vars PROVE HeldInv'
  OBVIOUS
<1> USE NoMessageFields DEF HeldInv, WireInv
<1>1. /\ nextMessageID \in Int
      /\ \A c \in Cmd : \A r \in messageReceived[c] : r.id \in Int
  BY DEF TypeInv, TypeOK, MessageID, Reply
<1>2. ASSUME UNCHANGED <<messageReceived, nextMessageID, wire>> PROVE HeldInv'
  BY <1>2
<1>3. ASSUME \A c \in Cmd : messageReceived'[c] \subseteq messageReceived[c],
             UNCHANGED <<nextMessageID, wire>>
      PROVE  HeldInv'
  BY <1>3
<1>4. ASSUME NEW request \in Calls, RemoveReply(request) PROVE HeldInv'
  <2>1. \A c \in Cmd : messageReceived'[c] \subseteq messageReceived[c]
    BY <1>4 DEF RemoveReply, TypeInv, TypeOK
  <2> QED
    BY <1>3, <1>4, <2>1 DEF RemoveReply, idVars, netVars
<1>5. CASE RemoveBlockingReply
  <2>1. \A c \in Cmd : messageReceived'[c] \subseteq messageReceived[c]
    BY <1>5 DEF RemoveBlockingReply, TypeInv, TypeOK
  <2> QED
    BY <1>3, <1>5, <2>1 DEF RemoveBlockingReply, idVars, netVars
<1>6. CASE Cleanup
  <2>1. \A c \in Cmd : messageReceived'[c] \subseteq messageReceived[c]
    BY <1>6 DEF Cleanup
  <2> QED
    BY <1>3, <1>6, <2>1 DEF Cleanup, idVars, netVars
<1>7. CASE SendRequest
  <2>1. wire' = wire \/ wire'.id = nextMessageID
    BY <1>7 DEF SendRequest
  <2>2. nextMessageID' = nextMessageID + 1 /\ UNCHANGED messageReceived
    BY <1>7 DEF SendRequest
  <2>3. wire.kind = "none"
    BY <1>7 DEF SendRequest
  <2> QED
    BY <1>1, <2>1, <2>2, <2>3
<1>8. CASE ReceiveReply
  <2>1. \A c \in Cmd : \A r \in messageReceived'[c] : r \in messageReceived[c] \/ r.id = wire.id
    BY <1>8, MergedHolds DEF ReceiveReply
  <2>2. wire' = NoMessage /\ UNCHANGED nextMessageID
    BY <1>8 DEF ReceiveReply
  <2> QED
    BY <2>1, <2>2
<1>9. CASE ReceiveFails
  BY <1>9 DEF ReceiveFails, boxVars, idVars
<1>10. CASE ServerReply
  <2>1. wire'.id = wire.id /\ wire.kind = "request" /\ UNCHANGED <<nextMessageID, messageReceived>>
    BY <1>10 DEF ServerReply, boxVars, idVars
  <2> QED
    BY <2>1
<1>11. ASSUME NEW request \in Calls, Exec(request) \/ ExecBuffer(request) PROVE HeldInv'
  BY <1>2, <1>11 DEF Exec, Append, ExecBuffer, boxVars, idVars, netVars
<1>12. CASE WaitUntilMessageArrived \/ Fetch \/ Pause \/ Resume
  BY <1>2, <1>12 DEF WaitUntilMessageArrived, Fetch, Pause, Resume, boxVars, idVars, netVars
<1>13. CASE Finish \/ StopThread \/ JoinThread
  BY <1>2, <1>13 DEF Finish, Append, StopThread, JoinThread, boxVars, idVars, netVars
<1>14. CASE StartConnecting \/ Connect \/ ConnectFails \/ Leave
  BY <1>2, <1>14 DEF StartConnecting, Connect, ConnectFails, Leave, boxVars, idVars, netVars
<1>15. CASE Gate \/ Hold \/ LockSendStart \/ CloseConnection
  BY <1>2, <1>15 DEF Gate, Hold, LockSendStart, CloseConnection, boxVars, idVars, netVars
<1>16. CASE UNCHANGED vars
  BY <1>2, <1>16 DEF vars, boxVars, idVars, netVars
<1> QED
  BY <1>4, <1>5, <1>6, <1>7, <1>8, <1>9, <1>10, <1>11, <1>12, <1>13, <1>14, <1>15, <1>16
     DEF Next, Api, Comm

-----------------------------------------------------------------------------
LEMMA InvInit == Init => IInv
<1> SUFFICES ASSUME Init PROVE IInv
  OBVIOUS
<1>1. CallInv /\ BlockingReplyIsOwn
  BY DEF Init, CallInv, BlockingReplyIsOwn
<1> QED
  BY <1>1, TypeInit, HandshakeInit, WireInit, WaitInit, SessionInit, HeldInit DEF IInv

LEMMA InvStep == IInv /\ [Next]_vars => IInv'
  BY TypeStep, HandshakeStep, WireStep, WaitStep, CallStep, OwnReplyStep, SessionStep,
     HeldStep
     DEF IInv, TypeInv

THEOREM Invariance == Spec => []IInv
  BY InvInit, InvStep, PTL DEF Spec

\* Type correctness of every variable the two threads and the simulator share.
THEOREM TypeCorrect == Spec => []TypeOK
<1>1. IInv => TypeOK
  BY DEF IInv, TypeInv
<1> QED
  BY <1>1, Invariance, PTL

\* simxFinish frees nothing that the communication thread still uses.
THEOREM ThreadLeft == Spec => []FreedAfterThreadLeft
<1>1. IInv => FreedAfterThreadLeft
  BY DEF IInv, Handshake, FreedAfterThreadLeft
<1> QED
  BY <1>1, Invariance, PTL

\* A blocking call returns the answer to its own message, whatever the commands are and
\* however many messages, reconnections and streamed replies come in between.
THEOREM OwnReply == Spec => []BlockingReplyIsOwn
<1>1. IInv => BlockingReplyIsOwn
  BY DEF IInv
<1> QED
  BY <1>1, Invariance, PTL

\* After a reconnection the inbox holds no data of the connection before it.
THEOREM InboxSession == Spec => []InboxIsOfThisConnection
<1>1. IInv => InboxIsOfThisConnection
  BY DEF IInv, SessionInv
<1> QED
  BY <1>1, Invariance, PTL

-----------------------------------------------------------------------------
(* A paused batch *)

Ending == {"cleanup", "closing", "park", "left"}

\* A client that does not reconnect sends nothing after its connection; until then what was
\* queued in a pause is in the outbox.  Only who holds the lock sends.
BatchInv ==
    /\ doNotReconnect => commPC \in Ending \/ \A c \in batch : messageToSend[c] # None
    /\ commPC = "send" <=> sendStart = "comm"

LEMMA BatchInit == Init => BatchInv
  BY DEF Init, BatchInv, Ending

LEMMA BatchQueued ==
    ASSUME TypeOK, BatchInv, NEW c \in Cmd, NEW mode \in QueuedMode, Append(c, mode),
           UNCHANGED <<doNotReconnect, commPC, sendStart>>
    PROVE  BatchInv'
<1>1. mode # None
  BY DEF QueuedMode, None
<1>2. /\ \A d \in Cmd : messageToSend[d] # None => messageToSend'[d] # None
      /\ messageToSend'[c] # None
  BY <1>1 DEF TypeOK, Content, Append, Queued
<1>3. batch' \subseteq batch \cup {c} /\ batch \subseteq Cmd
  BY DEF Append, TypeOK
<1> QED
  BY <1>2, <1>3 DEF BatchInv

LEMMA BatchStep == TypeOK /\ BatchInv /\ [Next]_vars => BatchInv'
<1> SUFFICES ASSUME TypeOK, BatchInv, [Next]_vars PROVE BatchInv'
  OBVIOUS
<1>1. CASE \E request \in Calls : Exec(request)
  <2>1. PICK request \in Calls : Exec(request)
    BY <1>1
  <2> QED
    BY <2>1, BatchQueued, ExchangeAssumption DEF Exec, CallType, commVars
<1>2. CASE Finish
  <2>1. CASE connected
    BY <1>2, <2>1, BatchQueued, ExchangeAssumption DEF Finish, QueuedMode, commVars
  <2>2. CASE ~connected
    BY <1>2, <2>2 DEF Finish, commVars, BatchInv
  <2> QED
    BY <2>1, <2>2
<1>3. CASE Pause \/ Resume
  BY <1>3 DEF Pause, Resume, boxVars, commVars, BatchInv
<1>4. CASE SendRequest
  BY <1>4 DEF SendRequest, BatchInv, Ending
<1>5. CASE Cleanup
  BY <1>5 DEF Cleanup, BatchInv, Ending
<1>6. CASE CloseConnection
  BY <1>6 DEF CloseConnection, AfterConnection, boxVars, BatchInv, Ending
<1>7. CASE StartConnecting \/ Connect \/ ConnectFails \/ Leave
  BY <1>7 DEF StartConnecting, Connect, ConnectFails, Leave, AfterConnection, boxVars, BatchInv, Ending
<1>8. CASE Gate \/ Hold \/ LockSendStart
  BY <1>8 DEF Gate, Hold, LockSendStart, boxVars, BatchInv, Ending
<1>9. CASE ReceiveReply \/ ReceiveFails
  BY <1>9 DEF ReceiveReply, ReceiveFails, boxVars, BatchInv, Ending
<1>10. CASE \/ \E request \in Calls : ExecBuffer(request) \/ RemoveReply(request)
            \/ WaitUntilMessageArrived \/ Fetch \/ RemoveBlockingReply
            \/ StopThread \/ JoinThread \/ ServerReply \/ UNCHANGED vars
  <2>1. UNCHANGED <<messageToSend, batch, doNotReconnect, commPC, sendStart>>
    BY <1>10 DEF ExecBuffer, RemoveReply, WaitUntilMessageArrived, Fetch, RemoveBlockingReply,
                 StopThread, JoinThread, ServerReply, vars, boxVars, commVars
  <2> QED
    BY <2>1 DEF BatchInv
<1> QED
  BY <1>1, <1>2, <1>3, <1>4, <1>5, <1>6, <1>7, <1>8, <1>9, <1>10 DEF Next, Api, Comm

\* What a program queues while the communication is paused leaves in one message, which is
\* not sent before it resumes: simxPauseCommunication holds extApi_lockSendStart, and the
\* outbox loses its commands to a message or with the connection only.
THEOREM BatchTogether == Spec => PausedBatchLeavesTogether
<1>1. TypeOK /\ BatchInv /\ [Next]_vars
        => [ /\ doNotReconnect
             /\ nextMessageID' # nextMessageID
             /\ \E c \in batch : messageToSend[c] # None
             => /\ \A c \in batch : messageToSend[c] # None
                /\ sendStart # "api" ]_vars
  <2> SUFFICES ASSUME TypeOK, BatchInv, [Next]_vars, doNotReconnect, nextMessageID' # nextMessageID
               PROVE  (\A c \in batch : messageToSend[c] # None) /\ sendStart # "api"
    OBVIOUS
  <2>1. SendRequest
    BY DEF Next, Api, Comm, Exec, ExecBuffer, RemoveReply, WaitUntilMessageArrived, Fetch,
           RemoveBlockingReply, Pause, Resume, Finish, Append, StopThread, JoinThread, StartConnecting,
           Connect, ConnectFails, Leave, Gate, Hold, LockSendStart, ReceiveReply, ReceiveFails,
           Cleanup, CloseConnection, ServerReply, vars, idVars
  <2>2. commPC = "send"
    BY <2>1 DEF SendRequest
  <2> QED
    BY <2>2 DEF BatchInv, Ending
<1> QED
  BY <1>1, TypeCorrect, BatchInit, BatchStep, PTL DEF Spec, PausedBatchLeavesTogether

-----------------------------------------------------------------------------
(* The lock of the critical sections (ResourceLock): for any set of threads, any nesting *)
(* and any thread ID found in _lock1ThreadId, it is a recursive lock.                    *)

\* From the step that takes the mutex to the one that gives it back.
Taking(t) == pc[t] \in {"lockAux2", "own"}
Inside(t) == depth[t] > 0 \/ Taking(t) \/ pc[t] \in Unlocking

\* The level counts the unlock under way until it is lowered.
Held(t) == depth[t] + (IF pc[t] \in {"unlockAux", "decrement"} THEN 1 ELSE 0)

AuxInv == \A t \in Thread : pc[t] \in {"check", "own", "decrement"} <=> mutexAux = t

MutexInv == \A t \in Thread : Inside(t) <=> mutex = t

\* The level is 0 whenever the mutex is free or not yet owned by ID: a stale ID, the last
\* owner's or a former client's, passes no thread in.
LevelInv ==
    /\ mutex = NoThread => level = 0
    /\ \A t \in Thread : Taking(t) => level = 0
    /\ \A t \in Thread : mutex = t /\ ~Taking(t) => owner = t /\ level = Held(t)
    /\ \A t \in Thread : pc[t] \in {"lockMutex", "lockAux2", "own", "unlockMutex"} => depth[t] = 0

LockInv == LockTypeOK /\ AuxInv /\ MutexInv /\ LevelInv

LEMMA LockInvInit == LockInit => LockInv
  BY LockAssumption
     DEF LockInit, LockInv, LockTypeOK, AuxInv, MutexInv, LevelInv, Inside, Taking, Unlocking

\* The thread that finds its ID and a positive level is inside already.
LEMMA AgainIsInside ==
    ASSUME LockInv, NEW t \in Thread, LockAgain(t)
    PROVE  mutex = t /\ depth[t] > 0 /\ level = depth[t]
<1>1. mutex \in Thread
  BY DEF LockAgain, LockInv, LockTypeOK, LevelInv
<1>2. ~Taking(mutex)
  BY <1>1 DEF LockAgain, LockInv, LevelInv
<1>3. mutex = t
  BY <1>1, <1>2 DEF LockAgain, LockInv, LevelInv
<1>4. Inside(t) /\ At(t, "check")
  BY <1>3 DEF LockAgain, LockInv, MutexInv
<1> QED
  BY <1>2, <1>3, <1>4 DEF LockInv, LockTypeOK, LevelInv, Inside, Taking, Held, At, Unlocking

LEMMA LockInvStep == LockInv /\ [LockNext]_lockVars => LockInv'
<1> SUFFICES ASSUME LockInv, [LockNext]_lockVars PROVE LockInv'
  OBVIOUS
<1> USE LockAssumption
    DEF LockInv, LockTypeOK, AuxInv, MutexInv, LevelInv, Inside, Taking, Held, At, Goto, Locking, Unlocking
<1>1. ASSUME NEW t \in Thread, Lock(t) PROVE LockInv'
  BY <1>1 DEF Lock
<1>2. ASSUME NEW t \in Thread, Unlock(t) PROVE LockInv'
  BY <1>2 DEF Unlock
<1>3. ASSUME NEW t \in Thread, LockAux(t) PROVE LockInv'
  BY <1>3 DEF LockAux
<1>4. ASSUME NEW t \in Thread, LockAgain(t) PROVE LockInv'
  BY <1>4, AgainIsInside DEF LockAgain
<1>5. ASSUME NEW t \in Thread, LockFirst(t) PROVE LockInv'
  BY <1>5 DEF LockFirst
<1>6. ASSUME NEW t \in Thread, LockMutex(t) PROVE LockInv'
  BY <1>6 DEF LockMutex
<1>7. ASSUME NEW t \in Thread, Own(t) PROVE LockInv'
  BY <1>7 DEF Own
<1>8. ASSUME NEW t \in Thread, Decrement(t) PROVE LockInv'
  BY <1>8 DEF Decrement
<1>9. ASSUME NEW t \in Thread, UnlockMutex(t) PROVE LockInv'
  BY <1>9 DEF UnlockMutex
<1>10. CASE UNCHANGED lockVars
  BY <1>10 DEF lockVars
<1> QED
  BY <1>1, <1>2, <1>3, <1>4, <1>5, <1>6, <1>7, <1>8, <1>9, <1>10 DEF LockNext, LockStep

\* Every step of the lock is a step of the recursive lock it stands for, or none.
LEMMA LockStepRefines == LockInv /\ [LockNext]_lockVars => [Abstract!Next]_Nesting
<1> SUFFICES ASSUME LockInv, [LockNext]_lockVars PROVE [Abstract!Next]_Nesting
  OBVIOUS
<1> USE DEF Abstract!Next, Nesting
<1>1. ASSUME NEW t \in Thread, LockAgain(t) PROVE Abstract!Enter(t)
  BY <1>1 DEF LockAgain, Abstract!Enter, LockInv, LockTypeOK
<1>2. ASSUME NEW t \in Thread, Own(t) PROVE Abstract!Enter(t)
  <2>1. level = 0 /\ level' = 1 /\ owner' = t
    BY <1>2 DEF Own, At, LockInv, LevelInv, Taking
  <2> QED
    BY <2>1 DEF Abstract!Enter
<1>3. ASSUME NEW t \in Thread, Decrement(t) PROVE Abstract!Leave(t)
  <2>1. mutex = t /\ ~Taking(t)
    BY <1>3 DEF Decrement, At, LockInv, MutexInv, Inside, Taking, Unlocking
  <2>2. owner = t /\ level = Held(t)
    BY <2>1 DEF LockInv, LevelInv
  <2>3. level > 0
    BY <1>3, <2>2 DEF Decrement, At, Held, LockInv, LockTypeOK
  <2> QED
    BY <1>3, <2>2, <2>3 DEF Decrement, Abstract!Leave, LockInv, LockTypeOK
<1>4. ASSUME NEW t \in Thread,
             \/ Lock(t) \/ Unlock(t) \/ LockAux(t) \/ LockFirst(t) \/ LockMutex(t)
             \/ UnlockMutex(t)
      PROVE  UNCHANGED Nesting
  BY <1>4 DEF Lock, Unlock, LockAux, LockFirst, LockMutex, UnlockMutex
<1>5. CASE UNCHANGED lockVars
  BY <1>5 DEF lockVars
<1> QED
  BY <1>1, <1>2, <1>3, <1>4, <1>5 DEF LockNext, LockStep

-----------------------------------------------------------------------------
THEOREM LockInvariance == LockSpec => []LockInv
  BY LockInvInit, LockInvStep, PTL DEF LockSpec

\* Type correctness of the mutexes, the ID, the level and the places of the threads.
THEOREM LockTypeCorrect == LockSpec => []LockTypeOK
<1>1. LockInv => LockTypeOK
  BY DEF LockInv
<1> QED
  BY <1>1, LockInvariance, PTL

\* The level is the nesting of the thread inside.
THEOREM LevelCounts == LockSpec => []LevelIsDepth
<1>1. LockInv => LevelIsDepth
  BY DEF LockInv, LockTypeOK, MutexInv, LevelInv, LevelIsDepth, Inside, Taking, Held, At
<1> QED
  BY <1>1, LockInvariance, PTL

\* The mutexes, the ID and the level implement a recursive lock.
THEOREM LockRefinement == LockSpec => RefinesRecursiveLock
<1>1. LockInit => Abstract!Init
  BY DEF LockInit, Abstract!Init, Nesting
<1> QED
  BY <1>1, LockStepRefines, LockInvariance, PTL DEF LockSpec, RefinesRecursiveLock, Abstract!Spec
=============================================================================
