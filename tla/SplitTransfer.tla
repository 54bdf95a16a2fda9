--------------------------- MODULE SplitTransfer ---------------------------
(***************************************************************************)
(* Commands and replies in several chunks (src/remoteApi/extApi.c): what   *)
(* the split modes of a call do to _splitCommandsToSend, how the           *)
(* communication thread takes a chunk of each command into every message,  *)
(* how it puts the chunks of a reply together in _splitCommandsReceived    *)
(* and when it moves them to _messageReceived; the packets a message is    *)
(* cut into; and the clock by which messages are spaced.                   *)
(*                                                                         *)
(* Pure data are sequences of cells of 4 bytes; every cell tells the call  *)
(* it is of and its place, so that a mixture of two calls is seen.  A chunk*)
(* has the data it is a part of as a field (whole): the program has their  *)
(* size only (full_mem_size).  Whole commands in the same message, message *)
(* IDs and the waits for them are RemoteApiExchange's.  Buffers are kept   *)
(* command by command: a buffer is looked up by command, and a message has *)
(* one chunk of each, so that the order in which it holds different        *)
(* commands tells nothing.  The simulator is external: it puts the chunks  *)
(* of a command together, does it, and answers every message, one reply of *)
(* a command at a time.                                                    *)
(* read_string_stream, whose replies are merged, is in ApiInbox; the       *)
(* lookup of line 2005, in the bytes before the split reply that it        *)
(* appends, is in neither.                                                 *)
(***************************************************************************)
EXTENDS Integers, Sequences, Functions

CONSTANTS
    Cmd,          \* commands, told apart by their integers and strings
    NullCmd,      \* those of class simx_cmdnull
    Unsized,      \* those whose size a later call does not compare
    Sizes,        \* sizes of pure data
    Splits,       \* the split amount a call asks for, and the simulator for its replies
    MinSplit,     \* _MIN_SPLIT_AMOUNT_IN_BYTES
    Nothing,      \* no data
    Unset,        \* a cell nothing was written to
    HeaderSize,   \* SIMX_HEADER_SIZE, in cells
    SubheaderSize,\* SIMX_SUBHEADER_SIZE
    PacketSize,   \* SOCKET_MAX_PACKET_SIZE - SOCKET_HEADER_LENGTH
    Shorts,       \* 2^16, the values of a simxShort
    Period,       \* 0x04000000, the values of the clock
    MinDelay,     \* _minCommunicationDelay
    MaxWait,      \* bound: how long a pass keeps the next one waiting
    MaxHold,      \* bound: how long a message is held up
    MaxCalls,     \* bound: calls
    MaxLosses     \* bound: connections lost

ASSUME ClockAssumption ==
    /\ Period \in Nat \ {0}
    /\ MinDelay \in Nat
    /\ MaxWait \in Nat
    /\ MaxHold \in Nat

ASSUME ShortAssumption ==
    Shorts \in Nat \ {0} /\ Shorts % 2 = 0

ASSUME SplitAssumption ==
    /\ NullCmd \subseteq Cmd
    /\ Unsized \subseteq Cmd
    /\ Sizes \subseteq Nat \ {0}
    /\ Splits \subseteq Nat
    /\ MinSplit \in Nat \ {0}
    /\ MaxCalls \in Nat

VARIABLES
    calls,      \* how many calls were made
    toSend,     \* _splitCommandsToSend: for each command, what is queued of it
    pc,         \* where the communication thread is
    message,    \* the chunks of the message, or of the reply, on its way
    partial,    \* _splitCommandsReceived: for each command, the data that have begun to come
    inbox,      \* _messageReceived: for each command, the data held, the newest first
    assembled,  \* external: the simulator's part of each command
    executed,   \* external: the data of each command as it last executed it
    replies,    \* external: the replies to each command that it has yet to send
    clock,      \* extApi_getTimeInMs
    lastTime,   \* lastTime of the communication thread
    waited,     \* the milliseconds since then
    gap,        \* history: those since the message before was due, sent then or held up
    losses      \* how many connections were lost

sendVars == <<calls, toSend>>
simulatorVars == <<assembled, executed, replies>>
receiveVars == <<partial, inbox>>
clockVars == <<clock, lastTime, waited, gap>>
vars == <<sendVars, pc, message, receiveVars, simulatorVars, clockVars, losses>>

Empty == [c \in Cmd |-> <<>>]

Init ==
    /\ calls = 0
    /\ toSend = Empty
    /\ pc = "unlinked"
    /\ message = <<>>
    /\ partial = Empty
    /\ inbox = Empty
    /\ assembled = Empty
    /\ executed = [c \in Cmd |-> Nothing]
    /\ replies = Empty
    /\ clock \in 0 .. Period - 1
    /\ lastTime = clock
    /\ waited = 0
    /\ gap = 0
    /\ losses = 0

-----------------------------------------------------------------------------
(* The clock.                                                              *)

\* The difference lacks a millisecond when the clock has wrapped.
TimeDiff_Absolute(from) == IF clock < from THEN from - clock ELSE clock - from
TimeDiff(from) == IF clock < from THEN clock + Period - 1 - from ELSE clock - from

\* Time passes between the messages and while one is held up.  What the sending and the
\* reply take is counted with the pause after them.
Tick ==
    /\ pc \in {"pause", "held"}
    /\ waited < (IF pc = "held" THEN MaxHold ELSE MaxWait)
    /\ clock' = (clock + 1) % Period
    /\ waited' = waited + 1
    /\ gap' = gap + 1
    /\ UNCHANGED <<sendVars, pc, message, receiveVars, simulatorVars, lastTime, losses>>

-----------------------------------------------------------------------------
(* The program's calls.                                                    *)

\* The data of the nth call: every cell tells the call and its place.
Datum(n, size) == [i \in 1 .. size |-> <<n, i>>]

Entry(data, split) ==
    [data |-> data, sent |-> 0, split |-> IF split < MinSplit THEN MinSplit ELSE split]

\* The call leaves what is queued for the command and tells that it is in progress.  The
\* size is compared with an int too many for a command without one, and not compared at
\* all for one without a buffer or with two integers.
InProgress(c, size) ==
    /\ toSend[c] # <<>>
    /\ \/ c \in Unsized
       \/ Len(toSend[c][1].data) = IF c \in NullCmd THEN size + 1 ELSE size

ExecSplit(c, size, split) ==
    /\ calls < MaxCalls
    /\ calls' = calls + 1
    /\ IF InProgress(c, size)
       THEN UNCHANGED toSend
       ELSE toSend' = [toSend EXCEPT ![c] = <<Entry(Datum(calls + 1, size), split)>>]
    /\ UNCHANGED <<pc, message, receiveVars, simulatorVars, clockVars, losses>>

-----------------------------------------------------------------------------
(* Chunks of what is queued, here and at the simulator.                    *)

PureDataSize(e) ==
    IF Len(e.data) - e.sent > e.split THEN e.split ELSE Len(e.data) - e.sent

ChunkOf_FromStart(e) ==
    [whole |-> e.data, offset |-> e.sent, data |-> SubSeq(e.data, 1, PureDataSize(e))]
ChunkOf(e) ==
    [whole |-> e.data, offset |-> e.sent,
     data |-> SubSeq(e.data, e.sent + 1, e.sent + PureDataSize(e))]

IsLast(k) == k.offset + Len(k.data) >= Len(k.whole)

\* A message has a chunk of the first entry of each command.
Chunks(queue) == [c \in {d \in Cmd : queue[d] # <<>>} |-> ChunkOf(queue[c][1])]

\* What is left of an entry that a chunk was sent of, and of the queue.
Advanced(e) == [e EXCEPT !.sent = @ + PureDataSize(e)]

Rest(queue) ==
    [c \in Cmd |-> IF queue[c] = <<>> THEN <<>>
                   ELSE IF IsLast(ChunkOf(queue[c][1])) THEN Tail(queue[c])
                   ELSE [queue[c] EXCEPT ![1] = Advanced(@)]]

\* The message completes the command.
Completes(chunks, c) == c \in DOMAIN chunks /\ IsLast(chunks[c])

-----------------------------------------------------------------------------
(* Packets.                                                                *)

MessageSize(chunks) ==
    FoldFunction(LAMBDA k, n : n + SubheaderSize + Len(k.data), HeaderSize, chunks)

PacketCount(size) == (size + PacketSize - 1) \div PacketSize

\* The value of n in a simxShort.
Short(n) == ((n + Shorts \div 2) % Shorts) - (Shorts \div 2)

PacketsLeft(count, i) == Short(Short(count) - i)

\* The reader puts packets together until none is left, and gives up at a negative count.
IsReadWhole(chunks) ==
    LET count == PacketCount(MessageSize(chunks))
    IN  \A i \in 1 .. count :
            /\ PacketsLeft(count, i) >= 0
            /\ PacketsLeft(count, i) = 0 => i = count

-----------------------------------------------------------------------------
(* Chunks put together.                                                    *)

\* The data as they are after the chunk: those before it, if they are of the same size.
Placed_AtStart(old, k) ==
    [i \in 1 .. Len(k.whole) |->
        IF i <= Len(k.data) THEN k.data[i]
        ELSE IF Len(old) = Len(k.whole) THEN old[i] ELSE Unset]
Placed(old, k) ==
    [i \in 1 .. Len(k.whole) |->
        IF i \in k.offset + 1 .. k.offset + Len(k.data) THEN k.data[i - k.offset]
        ELSE IF Len(old) = Len(k.whole) THEN old[i] ELSE Unset]

\* The data that _getSameCommandPointer finds begun: it finds no command of class simx_cmdnull.
Found(c) == IF c \in NullCmd \/ partial[c] = <<>> THEN <<>> ELSE partial[c][1]

\* The data of a command with the chunk of a reply.
Merged(c, k) == Placed(Found(c), k)

\* What has begun to come, after the chunk: a whole reply leaves it as it is.
Begun(c, k) ==
    IF Len(k.data) = Len(k.whole) THEN partial[c]
    ELSE (IF c \in NullCmd THEN partial[c] ELSE <<>>)
           \o (IF IsLast(k) THEN <<>> ELSE <<Merged(c, k)>>)

-----------------------------------------------------------------------------
(* The communication thread.                                               *)

Connect ==
    /\ pc = "unlinked"
    /\ pc' = "pause"
    /\ lastTime' = clock
    /\ waited' = 0
    /\ gap' = 0
    /\ UNCHANGED <<sendVars, message, receiveVars, simulatorVars, clock, losses>>

\* lastTime is taken before the two locks: a program that has paused the communication
\* holds the first, and every call the second.
StartPass ==
    /\ pc = "pause"
    /\ TimeDiff(lastTime) >= MinDelay
    /\ lastTime' = clock
    /\ waited' = 0
    /\ pc' = "held"
    /\ UNCHANGED <<sendVars, message, receiveVars, simulatorVars, clock, gap, losses>>

\* The chunks leave the queue before the message is sent, whether it is or not.
TakeBuffer ==
    /\ pc = "held"
    /\ toSend' = Rest(toSend)
    /\ gap' = waited
    /\ UNCHANGED <<calls, receiveVars, simulatorVars, clock, lastTime, waited>>

SendMessage ==
    /\ TakeBuffer
    /\ IsReadWhole(Chunks(toSend))
    /\ message' = Chunks(toSend)
    /\ pc' = "reply"
    /\ UNCHANGED losses

SendFails ==
    /\ losses < MaxLosses
    /\ TakeBuffer
    /\ losses' = losses + 1
    /\ pc' = "lost"
    /\ UNCHANGED message

\* Line 1948 on: the whole replies and the chunks, in turn, then what the inbox had and
\* was not received anew.
ReceiveReply ==
    /\ pc = "answered"
    /\ IsReadWhole(message)
    /\ partial' = [c \in Cmd |->
          IF c \in DOMAIN message THEN Begun(c, message[c]) ELSE partial[c]]
    /\ inbox' = [c \in Cmd |->
          IF Completes(message, c)
          THEN <<Merged(c, message[c])>> \o (IF c \in NullCmd THEN inbox[c] ELSE <<>>)
          ELSE inbox[c]]
    /\ message' = <<>>
    /\ pc' = "pause"
    /\ UNCHANGED <<sendVars, simulatorVars, clockVars, losses>>

\* A packet that does not come in time, or a connection that ends.
ReceiveFails ==
    /\ pc \in {"reply", "answered"}
    /\ losses < MaxLosses
    /\ losses' = losses + 1
    /\ message' = <<>>
    /\ pc' = "lost"
    /\ UNCHANGED <<sendVars, receiveVars, simulatorVars, clockVars>>

Cleanup ==
    /\ pc = "lost"
    /\ toSend' = Empty
    /\ partial' = Empty
    /\ inbox' = Empty
    /\ assembled' = Empty
    /\ replies' = Empty
    /\ pc' = "unlinked"
    /\ UNCHANGED <<calls, message, executed, clockVars, losses>>

CommThread ==
    Connect \/ StartPass \/ SendMessage \/ SendFails \/ ReceiveReply \/ ReceiveFails \/ Cleanup

-----------------------------------------------------------------------------
(* The simulator.                                                          *)

\* The replies, with those to the commands that the message completes.
Due(size, split) ==
    [c \in Cmd |->
        IF Completes(message, c)
        THEN Append(replies[c], Entry(Datum(message[c].data[1][1], size), split))
        ELSE replies[c]]

Answer(size, split) ==
    /\ pc = "reply"
    /\ assembled' = [c \in Cmd |->
          IF c \notin DOMAIN message THEN assembled[c]
          ELSE IF Completes(message, c) THEN <<>> ELSE Placed(assembled[c], message[c])]
    /\ executed' = [c \in Cmd |->
          IF Completes(message, c) THEN Placed(assembled[c], message[c]) ELSE executed[c]]
    /\ message' = Chunks(Due(size, split))
    /\ replies' = Rest(Due(size, split))
    /\ pc' = "answered"
    /\ UNCHANGED <<sendVars, receiveVars, clockVars, losses>>

-----------------------------------------------------------------------------
Next ==
    \/ Tick
    \/ \E c \in Cmd, size \in Sizes, split \in Splits : ExecSplit(c, size, split)
    \/ CommThread
    \/ \E size \in Sizes, split \in Splits : Answer(size, split)

Spec == Init /\ [][Next]_vars

\* The comm thread goes on, time passes, the program does not hold up a message for ever,
\* and the simulator answers or is given up.
FairSpec ==
    /\ Spec
    /\ WF_vars(Tick)
    /\ WF_vars(CommThread)
    /\ WF_vars(\E size \in Sizes, split \in Splits : Answer(size, split))

-----------------------------------------------------------------------------
\* A message goes no sooner than the delay that the program asked for after the one before
\* it was due, although the clock wraps and the difference is wrong by a millisecond then.
\* Two messages as they go may be closer by what the first was held up, as long as a pause
\* of the program: the delay is counted from a time that is taken before the locks (1862).
MessagesAreSpaced == [][pc = "held" /\ pc' # "held" => gap >= MinDelay]_vars

-----------------------------------------------------------------------------
Linked == pc \notin {"lost", "unlinked"}

\* The data of a command that are on their way: the one whose last chunk is in the
\* message, and those that are queued.
OnTheirWay(c, chunks, queue) ==
    (IF Completes(chunks, c) THEN <<chunks[c].whole>> ELSE <<>>)
      \o [i \in DOMAIN queue[c] |-> queue[c][i].data]

SomeData == {Datum(n, size) : n \in 1 .. MaxCalls, size \in Sizes}

\* The simulator executes what the calls gave, whole and in order.
CommandsCarried ==
    [c \in Cmd |-> OnTheirWay(c, IF pc = "reply" THEN message ELSE <<>>, toSend)]

Requests ==
    INSTANCE DataTransfer WITH
        Data <- SomeData,
        linked <- Linked,
        carried <- CommandsCarried,
        arrived <- executed
CommandsArriveWhole == Requests!Spec

\* The inbox has for each command the newest complete reply, as the simulator gave it, and no
\* other: what counts as arrived is the last entry, so that an older one would be seen.
\* A command of class simx_cmdnull is not covered: the chunks of its reply are not put
\* together, and what comes of them has cells that nothing was written to.
Keyed == Cmd \ NullCmd

RepliesCarried ==
    [c \in Keyed |-> OnTheirWay(c, IF pc = "answered" THEN message ELSE <<>>, replies)]

RepliesArrived ==
    [c \in Keyed |-> IF inbox[c] = <<>> THEN Nothing ELSE inbox[c][Len(inbox[c])]]

Replies ==
    INSTANCE DataTransfer WITH
        Cmd <- Keyed,
        Data <- SomeData,
        linked <- Linked,
        carried <- RepliesCarried,
        arrived <- RepliesArrived
RepliesArriveWhole == Replies!Spec
=============================================================================
