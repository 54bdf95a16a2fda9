------------------------------ MODULE ApiInbox ------------------------------
(***************************************************************************)
(* What the API functions (ApiFunctions) do to the outbox and the inbox of *)
(* a client (remoteApi/extApi.c: the _exec_* and _removeCommandReply_*     *)
(* functions, and the part of _communicationThread that places a reply     *)
(* into the input buffer), command by command and in the order the buffers *)
(* hold them.                                                              *)
(*                                                                         *)
(* RemoteApiExchange has the interleavings of the two threads inside a     *)
(* call and the connections that break.  Here one exchange of messages is  *)
(* one step; it falls between any two critical sections of a call, except  *)
(* where the comm thread waits for the answer to be fetched.               *)
(***************************************************************************)
EXTENDS ApiFunctions, SequencesExt, Integers

CONSTANTS
    Programs,      \* sets of calls; a program makes calls out of one of them
    TmpFiles,      \* the names simxLoadModel, simxLoadUI and simxLoadScene transfer files by
    MaxExchanges,  \* bound: messages exchanged
    MaxQueued      \* bound: length of an outbox to which commands are appended for good

Command == CmdNull \cup Cmd4Bytes \cup Cmd8Bytes \cup Cmd1String \cup Cmd4Bytes2Strings
Second == {"0", "1"}  \* values that the simulator adds to the one passed by simxGetUIEventButton
Key == Seq(STRING \cup Second)

\* The commands of which the inbox is to hold one reply: a new one is recognised, and two
\* of them are never in a message.  Not so for commands without data, for those appended for
\* good, and for get_ui_event_button, whose replies are told apart by a value no function
\* looks them up by.
Replaced(cmd) ==
    cmd \notin CmdNull \cup {"add_statusbar_message", "call_script_function",
                             "aux_console_print", "copy_paste_objects",
                             "append_string_signal", "get_ui_event_button"}

\* How many values a function passes with a command.
KeySize(cmd) == IF cmd = "get_ui_event_button" THEN 1 ELSE DataSize(cmd)

\* The replies that simx_opmode_remove does not find: it is given the path that the file has
\* at the client, and they are stored under the name it has at the simulator.
Loads == {"load_model", "load_ui", "load_scene"}
TmpKey == {<<name>> : name \in TmpFiles}
Missed(cmd, key) == cmd = "transfer_file" \/ (cmd \in Loads /\ key \in TmpKey)

\* A function of ApiFunctions passes the argument that its command is identified by; it
\* leaves two of a command in the outbox only if the inbox may hold two replies to it; and
\* what it removes is named by a whole argument, which is its own if the inbox is to hold
\* one reply to it and no file is sent.
WellFormed(f) ==
    /\ f.cmd \in Command
    /\ f.key \in Key /\ Len(f.key) = KeySize(f.cmd)
    /\ f.queue \in {"keep", "update", "move", "append"}
    /\ f.queue = "append" => ~Replaced(f.cmd)
    /\ f.taken \in {"no", "event", "buffer", "locked"}
    /\ f.taken = "locked" <=> f.cmd = "read_string_stream"
    /\ f.removes[2] \in Key
    /\ Replaced(f.removes[1]) => Len(f.removes[2]) >= DataSize(f.removes[1])
    /\ Replaced(f.cmd) => Missed(f.cmd, f.key) \/ f.removes = <<f.cmd, f.key>>

\* The calls that the programs make, and their steps.
ProgramCall == UNION Programs
ProgramStep == UNION {Range(call) : call \in ProgramCall}

HandlesTmp(s) == s.f.cmd \in Loads \cup {"transfer_file", "erase_file"} /\ s.f.key \in TmpKey

\* What simxLoadModel, simxLoadUI and simxLoadScene do with a file of the client.
LoadsFromClient(call) ==
    LET path == call[1].f.removes[2][1]
    IN \E load \in Loads, name \in TmpFiles, mode \in Mode :
           call = LoadFromClient(load, path, name, mode)

\* The program calls the functions of ApiFunctions, and leaves the temporary files to them.
ASSUME InboxAssumption ==
    /\ MaxExchanges \in Nat /\ MaxQueued \in Nat
    /\ TmpFiles \subseteq STRING
    /\ ProgramCall \subseteq Seq(ProgramStep) \ {<<>>}
    /\ \A s \in ProgramStep : s.mode \in Mode /\ WellFormed(s.f)
    /\ \A call \in ProgramCall :
           (\E i \in DOMAIN call : HandlesTmp(call[i])) => LoadsFromClient(call)

VARIABLES
    calls,      \* the calls this program makes
    todo,       \* the steps left of the call
    pc,         \* where the call is in its first step left
    asked,      \* the exchanges made when the step queued its command
    failed,     \* returnValue # 0
    outbox,     \* _messageToSend: commands [cmd, key, mode]
    inbox,      \* _messageReceived: replies, in the order they are found
    stored,     \* the streaming commands the simulator keeps
    files,      \* the transferred files at the simulator
    now,        \* the exchanges made
    latest,     \* history: the last reply of a command, if it was not taken or discontinued
                \* since, and whether simx_opmode_remove was called for it
    owed,       \* history: data received of each stream and not yet handed to the program
    misloaded   \* history: a file was to be loaded that was not there

callVars == <<calls, todo, pc, asked, failed>>
simVars == <<stored, files, now, misloaded>>
vars == <<callVars, outbox, inbox, simVars, latest, owed>>

step == Head(todo)

QueuedCommand == [cmd : Command, key : Key, mode : Mode \ {"buffer", "remove"}]
Reply(last) == [cmd : Command, key : Key, discontinued : BOOLEAN, ok : BOOLEAN,
                event : BOOLEAN, items : Seq(Nat), at : 1 .. last]

\* The streams that the programs read, and the files that they transfer.
Stream == {s.f.key : s \in {s \in ProgramStep : s.f.cmd = "read_string_stream"}}
Sent == {s.f.key : s \in {s \in ProgramStep : s.f.cmd = "transfer_file"}}

Init ==
    /\ calls \in Programs
    /\ todo = <<>>
    /\ pc = "idle"
    /\ asked = 0
    /\ failed = FALSE
    /\ outbox = <<>>
    /\ inbox = <<>>
    /\ stored = {}
    /\ files = {}
    /\ now = 0
    /\ latest = {}
    /\ owed = [key \in Stream |-> <<>>]
    /\ misloaded = FALSE

-----------------------------------------------------------------------------
(* The buffers *)

\* _getCommandPointer_*: the first entry with that command and that argument, or 0.
CommandPointer(buffer, cmd, key) ==
    SelectInSeq(buffer, LAMBDA entry : entry.cmd = cmd /\ IsPrefix(key, entry.key))

\* _removeCommandReply_*
RemoveCommandReply(cmd, key) ==
    LET i == CommandPointer(inbox, cmd, key)
    IN inbox' = IF i = 0 THEN inbox ELSE RemoveAt(inbox, i)

\* What becomes of the last replies when the program takes one, and when it calls the
\* function that gave it in simx_opmode_remove.
Forget(replies, cmd, key) == {r \in replies : ~(r.cmd = cmd /\ IsPrefix(key, r.key))}

Erase(replies, cmd, key) ==
    {[cmd |-> r.cmd, key |-> r.key, at |-> r.at,
      erased |-> r.erased \/ (r.cmd = cmd /\ IsPrefix(key, r.key))] : r \in replies}

\* First critical section of _exec_*: the outbox with the command in it.
Queued(f, mode) ==
    LET i == CommandPointer(outbox, f.cmd, f.key)
        entry == [cmd |-> f.cmd, key |-> f.key, mode |-> mode]
    IN IF i = 0 \/ f.queue = "append" THEN Append(outbox, entry)
       ELSE IF f.queue = "keep" THEN outbox
       ELSE IF f.queue = "update" THEN [outbox EXCEPT ![i].mode = mode]
       ELSE Append(RemoveAt(outbox, i), entry)

-----------------------------------------------------------------------------
(* The program *)

\* What is left of a call whose first step has returned.
Left(failure) ==
    LET rest == Tail(todo)
        kept == {i \in 1 .. Len(rest) + 1 : i <= Len(rest) => ~rest[i].unlessFailed}
    IN IF step.decides /\ failure THEN SubSeq(rest, Min(kept), Len(rest)) ELSE rest

Advance(failure) ==
    /\ todo' = Left(failure)
    /\ IF todo' = <<>>
       THEN pc' = "idle" /\ failed' = FALSE
       ELSE pc' = "next" /\ failed' = failure
    /\ asked' = 0

\* MaxQueued bounds only the calls that append a command for good.
Begin(call) ==
    /\ pc = "idle"
    /\ \A i \in DOMAIN call :
           call[i].f.queue = "append" /\ call[i].mode \notin {"buffer", "remove"}
               => Len(outbox) < MaxQueued
    /\ todo' = call
    /\ pc' = "next"
    /\ UNCHANGED <<calls, asked, failed, outbox, inbox, simVars, latest, owed>>

\* simx_opmode_remove: the code removes what the function names, and the program has asked
\* for the reply to the function's own command to be erased.
RemoveReply ==
    /\ pc = "next"
    /\ step.mode = "remove"
    /\ latest' = Erase(latest, step.f.cmd, step.f.key)
    /\ LET entry == step.f.removes
       IN /\ RemoveCommandReply(entry[1], entry[2])
          /\ owed' = IF entry[1] = "read_string_stream" THEN [owed EXCEPT ![entry[2]] = <<>>]
                     ELSE owed
    /\ Advance(FALSE)
    /\ UNCHANGED <<calls, outbox, simVars>>

\* simxReadStringStream does not wait for a reply, simxTransferFile may not read its file.
ReturnAtOnce ==
    /\ pc = "next"
    /\ \/ step.f.taken = "locked" /\ step.mode = "blocking"
       \/ step.f.cmd = "transfer_file" /\ step.mode # "remove"
    /\ Advance(TRUE)
    /\ UNCHANGED <<calls, outbox, inbox, simVars, latest, owed>>

Exec ==
    /\ pc = "next"
    /\ step.mode # "remove"
    /\ ~(step.f.taken = "locked" /\ step.mode = "blocking")
    /\ outbox' = IF step.mode = "buffer" THEN outbox ELSE Queued(step.f, step.mode)
    /\ asked' = now
    /\ pc' = "fetch"
    /\ UNCHANGED <<calls, todo, failed, inbox, simVars, latest, owed>>

\* A blocking call that was answered keeps the comm thread from sending again.
Answered == pc = "fetch" /\ step.mode = "blocking" /\ now > asked

\* Bug: simxReadStringStream does not hold the lock from the lookup to the removal.
Removal_NotLocked(f, mode, ok, event) ==
    IF \/ mode = "blocking"
       \/ ok /\ mode = "buffer" /\ f.taken = "buffer"
       \/ ok /\ mode = "buffer" /\ f.taken = "event" /\ event
       \/ ok /\ f.taken = "locked"
    THEN "later" ELSE "no"

\* Whether a reply that was looked up is removed: at once, in a critical section of its own,
\* or not at all.
Removal(f, mode, ok, event) ==
    IF \/ mode = "blocking"
       \/ ok /\ mode = "buffer" /\ f.taken = "buffer"
       \/ ok /\ mode = "buffer" /\ f.taken = "event" /\ event
    THEN "later"
    ELSE IF ok /\ f.taken = "locked" THEN "now" ELSE "no"

\* Second critical section of _exec_*: look the reply up, after the wait of a blocking call
\* ended in an answer or a timeout; an answer may still have come after the timeout.
Fetch(timeout) ==
    /\ pc = "fetch"
    /\ timeout \in IF step.mode # "blocking" THEN {FALSE}
                   ELSE IF now = asked THEN {TRUE} ELSE BOOLEAN
    /\ LET f == step.f
           i == CommandPointer(inbox, f.cmd, f.key)
           ok == i # 0 /\ inbox[i].ok /\ ~timeout
           removal == Removal(f, step.mode, ok, i # 0 /\ inbox[i].event)
       IN /\ IF removal = "now"
             THEN /\ RemoveCommandReply(f.cmd, f.key)
                  /\ latest' = Forget(latest, f.cmd, f.key)
             ELSE UNCHANGED <<inbox, latest>>
          /\ owed' = IF ok /\ f.taken = "locked"
                     THEN [owed EXCEPT ![f.key] = SubSeq(@, Len(inbox[i].items) + 1, Len(@))]
                     ELSE owed
          /\ IF removal = "later"
             THEN pc' = "take" /\ failed' = ~ok /\ UNCHANGED <<todo, asked>>
             ELSE \/ Advance(~ok)
                  \/ /\ step.polls /\ ~ok
                     /\ pc' = "next"
                     /\ UNCHANGED <<todo, asked, failed>>
    /\ UNCHANGED <<calls, outbox, simVars>>

\* Third critical section: the reply that was read is removed.
Take ==
    /\ pc = "take"
    /\ RemoveCommandReply(step.f.cmd, step.f.key)
    /\ latest' = Forget(latest, step.f.cmd, step.f.key)
    /\ Advance(failed)
    /\ UNCHANGED <<calls, outbox, simVars, owed>>

-----------------------------------------------------------------------------
(* The simulator: it executes the commands of a message in their order, then those *)
(* it keeps; each has a reply.                                                     *)

\* What a message makes it execute.
Executed ==
    outbox \o SetToSeq({c \in stored : CommandPointer(outbox, c.cmd, c.key) = 0})

\* The files there once it has executed the first k commands, where it fails to execute
\* command number bad.
FilesAfter(k, bad) ==
    LET Does(i, cmd, key) == i # bad /\ Executed[i].cmd = cmd /\ Executed[i].key = key
        ErasedAfter(i, key) == \E j \in i + 1 .. k : Does(j, "erase_file", key)
    IN {key \in files : ~ErasedAfter(0, key)}
           \cup {key \in Sent : \E i \in 1 .. k :
                    Does(i, "transfer_file", key) /\ ~ErasedAfter(i, key)}

\* A temporary file that is to be loaded is not there.
Missing(i, bad) ==
    /\ Executed[i].cmd \in Loads
    /\ Executed[i].key \in TmpKey
    /\ Executed[i].key \notin FilesAfter(i - 1, bad)

\* Bug: the value that the simulator adds is left out.
Completed_KeyOnly(cmd, key, second) == key

\* The data of a reply starts with DataSize values: those of the command and, for
\* get_ui_event_button, one more.
Completed(cmd, key, second) == IF Len(key) < DataSize(cmd) THEN Append(key, second) ELSE key

ReplyTo(i, bad, event, second) ==
    LET c == Executed[i]
        ok == i # bad /\ ~Missing(i, bad)
    IN [cmd |-> c.cmd, key |-> Completed(c.cmd, c.key, second), discontinued |-> c.mode = "discontinue",
        ok |-> ok, event |-> event,
        items |-> IF ok /\ c.cmd = "read_string_stream" THEN <<now + 1>> ELSE <<>>,
        at |-> now + 1]

\* A streaming command is kept until it is discontinued; an event or a signal ends it.
Keeps(i, bad, event) ==
    LET c == Executed[i]
    IN ~ \/ c.mode = "discontinue"
         \/ c.cmd = "get_ui_event_button" /\ event /\ i # bad
         \/ c.cmd = "get_and_clear_string_signal" /\ i # bad

-----------------------------------------------------------------------------
(* _communicationThread: place the replies into the input buffer *)

\* _getSameCommandPointer: replies of commands only identified by their code are never the
\* same; the others are when their command data is.
Same(a, b) == a.cmd = b.cmd /\ a.cmd \notin CmdNull /\ a.key = b.key

\* _appendCommandToBufferAndTakeIntoAccountPreviouslyReceivedData
Joined(reply, old) ==
    IF reply.cmd = "read_string_stream" THEN [reply EXCEPT !.items = old.items \o @] ELSE reply

\* Bug: the reply of a discontinued command takes nothing out of the inbox.
Place_KeepsDiscontinued(buffers, reply) ==
    LET i == SelectInSeq(buffers.old, LAMBDA old : Same(reply, old))
    IN IF reply.discontinued THEN buffers
       ELSE [new |-> Append(buffers.new, IF i = 0 THEN reply ELSE Joined(reply, buffers.old[i])),
             old |-> IF i = 0 THEN buffers.old ELSE RemoveAt(buffers.old, i)]

\* One command of the reply goes to the new input buffer, unless it was discontinued, and
\* the version of it in the old one is unmarked.
Place(buffers, reply) ==
    LET i == SelectInSeq(buffers.old, LAMBDA old : Same(reply, old))
    IN [new |-> IF reply.discontinued THEN buffers.new
                ELSE Append(buffers.new,
                            IF i = 0 THEN reply ELSE Joined(reply, buffers.old[i])),
        old |-> IF i = 0 THEN buffers.old ELSE RemoveAt(buffers.old, i)]

\* The two buffers once the first k replies are placed.
Buffers(replies) ==
    LET placed[k \in 0 .. Len(replies)] ==
            IF k = 0 THEN [new |-> <<>>, old |-> inbox] ELSE Place(placed[k - 1], replies[k])
    IN placed

\* Bug: what was left of the old input buffer comes first.
Merged_OldFirst(replies) ==
    LET buffers == Buffers(replies)[Len(replies)]
    IN buffers.old \o buffers.new

\* The new input buffer: the replies, then what was left of the old one.
Merged(replies) ==
    LET buffers == Buffers(replies)[Len(replies)]
    IN buffers.new \o buffers.old

LatestAfter(replies) ==
    {r \in latest : \A i \in DOMAIN replies : ~Same(replies[i], r)}
        \cup {[cmd |-> r.cmd, key |-> r.key, at |-> r.at, erased |-> FALSE] :
                 r \in {q \in Range(replies) : ~q.discontinued}}

\* A message has one reply for each stream, if any.
OwedAfter(replies) ==
    [key \in Stream |->
        LET own == {r \in Range(replies) : r.cmd = "read_string_stream" /\ r.key = key}
        IN IF own = {} THEN owed[key]
           ELSE IF \E r \in own : r.discontinued THEN <<>>
           ELSE owed[key] \o (CHOOSE r \in own : TRUE).items]

Exchange(bad, event, second) ==
    /\ now < MaxExchanges
    /\ ~Answered
    /\ Executed # <<>>
    /\ LET replies == [i \in DOMAIN Executed |-> ReplyTo(i, bad, event, second)]
       IN /\ inbox' = Merged(replies)
          /\ latest' = LatestAfter(replies)
          /\ owed' = OwedAfter(replies)
    /\ files' = FilesAfter(Len(Executed), bad)
    /\ stored' = {[cmd |-> Executed[i].cmd, key |-> Executed[i].key, mode |-> "streaming"] :
                     i \in {j \in DOMAIN Executed :
                               /\ Keeps(j, bad, event)
                               /\ \/ Executed[j].mode = "streaming"
                                  \/ \E c \in stored : /\ c.cmd = Executed[j].cmd
                                                       /\ c.key = Executed[j].key}}
    /\ misloaded' = (misloaded \/ \E i \in DOMAIN outbox : Missing(i, bad))
    /\ now' = now + 1
    /\ outbox' = <<>>
    /\ UNCHANGED <<callVars>>

Next ==
    \/ \E call \in calls : Begin(call)
    \/ RemoveReply
    \/ ReturnAtOnce
    \/ Exec
    \/ \E timeout \in BOOLEAN : Fetch(timeout)
    \/ Take
    \/ \E bad \in 0 .. Len(Executed) :
           IF CommandPointer(Executed, "get_ui_event_button", <<>>) = 0
           THEN Exchange(bad, FALSE, "0")
           ELSE \E event \in BOOLEAN, second \in Second : Exchange(bad, event, second)

Spec == Init /\ [][Next]_vars

-----------------------------------------------------------------------------
(* Properties *)

Entry(buffer, f) == CommandPointer(buffer, f.cmd, f.key)

\* The outbox and the inbox hold commands of the header with the data its classes say: the
\* argument every function passes to _exec_* is the one its command is identified by.
TypeOK ==
    /\ calls \subseteq ProgramCall
    /\ todo \in Seq(ProgramStep)
    /\ pc \in {"idle", "next", "fetch", "take"}
    /\ pc = "idle" <=> todo = <<>>
    /\ asked \in 0 .. now
    /\ now \in 0 .. MaxExchanges
    /\ failed \in BOOLEAN
    /\ outbox \in Seq(QueuedCommand)
    /\ \A i \in DOMAIN outbox : Len(outbox[i].key) = KeySize(outbox[i].cmd)
    /\ inbox \in Seq(Reply(now))
    /\ \A i \in DOMAIN inbox : Len(inbox[i].key) = DataSize(inbox[i].cmd)
    /\ IsFiniteSet(stored)
    /\ stored \subseteq [cmd : Command, key : Key, mode : {"streaming"}]
    /\ \A c \in stored : Len(c.key) = KeySize(c.cmd)
    /\ files \subseteq Sent
    /\ owed \in [Stream -> Seq(Nat)]
    /\ misloaded \in BOOLEAN

\* The inbox holds, of a command that is replaced, the last reply the simulator sent, once,
\* and none that was taken or discontinued since.  A call in simx_opmode_remove "just erases
\* a similar command reply in the inbox" (v_repConst.h:1835): it does but for the replies of
\* simxTransferFile, and of the functions that load a file they have transferred, which stay
\* there although they were to be erased (extApi.c:2687, 2718).
HeldIsLatest ==
    /\ \A r \in Range(inbox) : Replaced(r.cmd) =>
           \E l \in latest : /\ l.cmd = r.cmd /\ l.key = r.key /\ l.at = r.at
                             /\ l.erased => Missed(r.cmd, r.key)
    /\ \A i, j \in DOMAIN inbox : Replaced(inbox[i].cmd) /\ Same(inbox[i], inbox[j]) => i = j

\* A blocking call that was answered finds the reply that answered it.
AnswerIsFound ==
    Answered /\ step.f.queue # "keep" =>
        LET i == Entry(inbox, step.f) IN i # 0 /\ inbox[i].at = now

\* simxReadStringStream hands the data of a stream out whole, in order and once: what is in
\* the inbox is what was received since the program last took or dropped it.
StreamIsWhole ==
    ~(pc = "take" /\ step.f.cmd = "read_string_stream") =>
        \A key \in Stream :
            LET i == CommandPointer(inbox, "read_string_stream", key)
            IN owed[key] = IF i = 0 THEN <<>> ELSE inbox[i].items

\* simxLoadModel, simxLoadUI and simxLoadScene have the simulator load a file while it is
\* there: after the transfer, and before the command to erase it.
LoadsWhatWasSent == ~misloaded

=============================================================================
