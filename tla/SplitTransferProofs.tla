------------------------ MODULE SplitTransferProofs ------------------------
(***************************************************************************)
(* That messages keep their distance, whatever the period of the clock,    *)
(* the delay, the time a pass has to wait and how long a message is held   *)
(* up; that a message is read whole *)
(* whose packets a simxShort can count; and that what arrives, of commands *)
(* and of replies, is what was given to be carried, whole and in order,    *)
(* step by step as DataTransfer has it, whatever the calls, the sizes, the *)
(* split amounts and the connections that are lost.                        *)
(***************************************************************************)
EXTENDS SplitTransfer, SequenceTheorems, TLAPS

\* The clock after a millisecond.
LEMMA NextTime ==
    ASSUME NEW t \in 0 .. Period - 1
    PROVE  (t + 1) % Period = IF t + 1 = Period THEN 0 ELSE t + 1
<1>1. CASE t + 1 = Period
  BY <1>1, ClockAssumption, SMT
<1>2. CASE t + 1 # Period
  BY <1>2, ClockAssumption, SMT
<1> QED
  BY <1>1, <1>2

\* How often the clock has wrapped since lastTime.  Up to the next pass it is lastTime that
\* the gap is counted from; a message that is held up has had its delay.
TimeInv ==
    /\ clock \in 0 .. Period - 1
    /\ lastTime \in 0 .. Period - 1
    /\ waited \in Nat
    /\ gap \in Nat
    /\ pc \in {"pause", "reply", "answered"} => gap = waited
    /\ pc = "held" => gap >= MinDelay
    /\ \E n \in Nat : lastTime + waited = n * Period + clock

LEMMA TimeInit == Init => TimeInv
<1> SUFFICES ASSUME Init PROVE TimeInv
  OBVIOUS
<1>1. lastTime + waited = 0 * Period + clock
  BY ClockAssumption DEF Init
<1> QED
  BY <1>1, ClockAssumption DEF Init, TimeInv

\* The clock never tells of more time than has passed.
LEMMA NeverAhead == ASSUME TimeInv PROVE TimeDiff(lastTime) <= waited
<1>1. PICK n \in Nat : lastTime + waited = n * Period + clock
  BY DEF TimeInv
<1>2. CASE clock < lastTime
  <2>1. n # 0
    BY <1>1, <1>2, ClockAssumption DEF TimeInv
  <2>2. n * Period >= Period
    BY <2>1, ClockAssumption
  <2> QED
    BY <1>1, <1>2, <2>2, ClockAssumption DEF TimeInv, TimeDiff
<1>3. CASE ~ (clock < lastTime)
  <2>1. n * Period >= 0
    BY ClockAssumption
  <2> QED
    BY <1>1, <1>3, <2>1, ClockAssumption DEF TimeInv, TimeDiff
<1> QED
  BY <1>2, <1>3

\* lastTime is taken again: the gap has begun anew or has reached the delay.
LEMMA TimeRestarts ==
    ASSUME TimeInv, Connect \/ StartPass
    PROVE  TimeInv'
<1>1. clock' = clock /\ lastTime' = clock /\ waited' = 0
  BY DEF Connect, StartPass
<1>2. lastTime' + waited' = 0 * Period + clock'
  BY <1>1, ClockAssumption DEF TimeInv
<1>3. CASE Connect
  BY <1>1, <1>2, <1>3 DEF Connect, TimeInv
<1>4. CASE StartPass
  <2>1. pc' = "held" /\ gap' = gap /\ gap = waited /\ TimeDiff(lastTime) >= MinDelay
    BY <1>4 DEF StartPass, TimeInv
  <2>2. TimeDiff(lastTime) \in Int /\ waited \in Nat /\ MinDelay \in Nat
    BY ClockAssumption DEF TimeDiff, TimeInv
  <2>3. gap' >= MinDelay
    BY <2>1, <2>2, NeverAhead
  <2> QED
    BY <1>1, <1>2, <2>1, <2>3 DEF TimeInv
<1> QED
  BY <1>3, <1>4

LEMMA TimePasses == TimeInv /\ Tick => TimeInv'
<1> SUFFICES ASSUME TimeInv, Tick PROVE TimeInv'
  OBVIOUS
<1>1. PICK n \in Nat : lastTime + waited = n * Period + clock
  BY DEF TimeInv
<1>2. clock' = IF clock + 1 = Period THEN 0 ELSE clock + 1
  BY NextTime DEF Tick, TimeInv
<1>3. /\ clock' \in 0 .. Period - 1 /\ lastTime' \in 0 .. Period - 1
      /\ waited' \in Nat /\ gap' \in Nat
  BY <1>2, ClockAssumption DEF Tick, TimeInv
<1>4. /\ pc' \in {"pause", "reply", "answered"} => gap' = waited'
      /\ pc' = "held" => gap' >= MinDelay
  BY ClockAssumption DEF Tick, TimeInv
<1>5. CASE clock + 1 = Period
  <2>1. lastTime' + waited' = (n + 1) * Period + clock'
    BY <1>1, <1>2, <1>5, ClockAssumption DEF Tick, TimeInv
  <2> QED
    BY <1>3, <1>4, <2>1 DEF TimeInv
<1>6. CASE clock + 1 # Period
  <2>1. lastTime' + waited' = n * Period + clock'
    BY <1>1, <1>2, <1>6, ClockAssumption DEF Tick, TimeInv
  <2> QED
    BY <1>3, <1>4, <2>1 DEF TimeInv
<1> QED
  BY <1>5, <1>6

LEMMA TimeNext == TimeInv /\ [Next]_vars => TimeInv'
<1> SUFFICES ASSUME TimeInv, [Next]_vars PROVE TimeInv'
  OBVIOUS
<1>1. CASE Tick
  BY <1>1, TimePasses
<1>2. CASE Connect \/ StartPass
  BY <1>2, TimeRestarts
<1>3. CASE SendMessage \/ SendFails
  BY <1>3 DEF SendMessage, SendFails, TakeBuffer, TimeInv
<1>4. CASE /\ UNCHANGED clockVars
           /\ \/ pc' \in {pc, "lost", "unlinked"}
              \/ {pc, pc'} \subseteq {"pause", "reply", "answered"}
  BY <1>4 DEF clockVars, TimeInv
<1> QED
  BY <1>1, <1>2, <1>3, <1>4
     DEF Next, CommThread, ExecSplit, ReceiveReply, ReceiveFails, Cleanup, Answer, vars

\* A message that leaves has waited for the delay since the one before it was due, however
\* often and wherever the clock has wrapped, and however long the program has held up either
\* of them (_communicationThread, extApi_getTimeDiffInMs).
THEOREM Spaced == Spec => MessagesAreSpaced
<1>1. TimeInv /\ [Next]_vars => [pc = "held" /\ pc' # "held" => gap >= MinDelay]_vars
  BY DEF TimeInv
<1> QED
  BY <1>1, TimeInit, TimeNext, PTL DEF Spec, MessagesAreSpaced

-----------------------------------------------------------------------------
Half == Shorts \div 2

LEMMA Wrapped ==
    ASSUME NEW s \in Nat \ {0}, NEW m \in -s .. s
    PROVE  m % s = IF m = s THEN 0 ELSE IF m < 0 THEN m + s ELSE m
<1>1. CASE m = s
  BY <1>1, SMT
<1>2. CASE m < 0
  <2>1. m = (-1) * s + (m + s) /\ m + s \in 0 .. s - 1
    BY <1>2, SMT
  <2> QED
    BY <1>2, <2>1, SMT
<1>3. CASE m # s /\ m >= 0
  BY <1>3, SMT
<1> QED
  BY <1>1, <1>2, <1>3

\* A number is itself in a simxShort, unless it is too large or too small by less than 2^16.
LEMMA ShortValue ==
    ASSUME ShortAssumption, NEW n \in -Shorts .. Half
    PROVE  Short(n) = IF n = Half THEN -Half ELSE IF n < -Half THEN n + Shorts ELSE n
<1>1. Half \in Nat \ {0} /\ Shorts = 2 * Half /\ Shorts \in Nat \ {0}
  BY ShortAssumption DEF Half
<1>2. n + Half \in -Shorts .. Shorts
  BY <1>1
<1>3. Short(n) = ((n + Half) % Shorts) - Half
  BY DEF Short, Half
<1>4. (n + Half) % Shorts
        = IF n + Half = Shorts THEN 0 ELSE IF n + Half < 0 THEN n + Half + Shorts ELSE n + Half
  BY <1>1, <1>2, Wrapped
<1> QED
  BY <1>1, <1>3, <1>4

\* A message of no more packets than a simxShort has non-negative values is read whole,
\* the one that makes the count negative included.
THEOREM ReadWhole ==
    ASSUME ShortAssumption, NEW chunks,
           PacketCount(MessageSize(chunks)) \in 1 .. Half
    PROVE  IsReadWhole(chunks)
<1> DEFINE count == PacketCount(MessageSize(chunks))
<1>1. Half \in Nat \ {0}
  BY ShortAssumption DEF Half
<1> SUFFICES ASSUME NEW i \in 1 .. count
             PROVE  PacketsLeft(count, i) = count - i
  BY <1>1 DEF IsReadWhole
<1>2. count \in 1 .. Half
  OBVIOUS
<1> HIDE DEF count
<1>3. CASE count = Half
  <2>1. Short(count) = -Half
    BY <1>1, <1>3, ShortValue
  <2>2. -Half - i \in -Shorts .. -Half - 1 /\ -Half - i + Shorts = count - i
    BY <1>1, <1>2, <1>3, ShortAssumption DEF Half
  <2> QED
    BY <1>1, <1>2, <1>3, <2>1, <2>2, ShortValue DEF PacketsLeft
<1>4. CASE count # Half
  BY <1>1, <1>2, <1>4, ShortValue DEF PacketsLeft
<1> QED
  BY <1>3, <1>4

-----------------------------------------------------------------------------
Cell == Nat \X Nat

\* What is queued has not been sent to its end, and only the first was begun.
Entries ==
    {e \in [data : SomeData, sent : Nat, split : Nat \ {0}] : e.sent < Len(e.data)}

QueueInv(queue) ==
    /\ queue \in [Cmd -> Seq(Entries)]
    /\ \A c \in Cmd : \A i \in 2 .. Len(queue[c]) : queue[c][i].sent = 0

\* A chunk is a part of its data.
Parts ==
    {k \in [whole : SomeData, offset : Nat, data : Seq(Cell)] :
        /\ Len(k.data) > 0
        /\ k.offset + Len(k.data) <= Len(k.whole)
        /\ \A i \in 1 .. Len(k.data) : k.data[i] = k.whole[k.offset + i]}

ChunksInv(chunks) ==
    DOMAIN chunks \subseteq Cmd /\ \A c \in DOMAIN chunks : chunks[c] \in Parts

\* The receiver has the first n cells.
Begins(old, data, n) ==
    n > 0 => Len(old) = Len(data) /\ \A i \in 1 .. n : old[i] = data[i]

\* Nothing of the command is in a message: the receiver has what was sent.
Even(first, old) == first # <<>> => Begins(old, first[1].data, first[1].sent)

\* With the chunk in a message it will have what was sent, unless something new is queued.
Ahead(k, first, old) ==
    /\ Begins(old, k.whole, k.offset)
    /\ first # <<>> => \/ first[1].sent = 0
                       \/ /\ ~ IsLast(k)
                          /\ first[1].data = k.whole
                          /\ first[1].sent = k.offset + Len(k.data)

UnderWay(C, queue, chunks, old) ==
    \A c \in C : IF c \in DOMAIN chunks THEN Ahead(chunks[c], queue[c], old[c])
                 ELSE Even(queue[c], old[c])

CommandInv ==
    /\ calls \in 0 .. MaxCalls
    /\ QueueInv(toSend)
    /\ \A c \in Cmd : Len(toSend[c]) <= 1
    /\ pc = "reply" => ChunksInv(message)
    /\ pc # "lost" => UnderWay(Cmd, toSend, IF pc = "reply" THEN message ELSE <<>>, assembled)

ReplyInv ==
    /\ QueueInv(replies)
    /\ pc = "answered" => ChunksInv(message)
    /\ pc # "lost" => UnderWay(Keyed, replies, IF pc = "answered" THEN message ELSE <<>>,
                               [c \in Cmd |-> Found(c)])

IInv ==
    /\ pc \in {"unlinked", "pause", "held", "reply", "answered", "lost"}
    /\ CommandInv
    /\ ReplyInv

-----------------------------------------------------------------------------
(* Data, entries and chunks *)

LEMMA DataType ==
    ASSUME SplitAssumption, NEW d \in SomeData
    PROVE  /\ d \in Seq(Cell) /\ Len(d) \in Nat \ {0} /\ d = [i \in 1 .. Len(d) |-> d[i]]
           /\ \A i \in 1 .. Len(d) : d[i][1] \in 1 .. MaxCalls
<1>1. PICK n \in 1 .. MaxCalls, size \in Sizes : d = [i \in 1 .. size |-> <<n, i>>]
  BY DEF SomeData, Datum
<1>2. size \in Nat \ {0} /\ n \in Nat /\ MaxCalls \in Nat
  BY <1>1, SplitAssumption
<1>3. d \in Seq(Cell) /\ Len(d) = size
  BY <1>1, <1>2 DEF Cell
<1> QED
  BY <1>1, <1>2, <1>3

LEMMA EntryType ==
    ASSUME SplitAssumption, NEW d \in SomeData, NEW split \in Splits
    PROVE  Entry(d, split) \in Entries /\ Entry(d, split).sent = 0 /\ Entry(d, split).data = d
BY SplitAssumption, DataType DEF Entry, Entries

\* A chunk is not empty and does not go beyond the end.
LEMMA ChunkSize ==
    ASSUME SplitAssumption, NEW e \in Entries
    PROVE  PureDataSize(e) \in 1 .. Len(e.data) - e.sent
<1>1. Len(e.data) \in Nat /\ e.sent \in Nat /\ e.split \in Nat \ {0} /\ e.sent < Len(e.data)
  BY DataType DEF Entries
<1> QED
  BY <1>1 DEF PureDataSize

LEMMA ChunkType ==
    ASSUME SplitAssumption, NEW e \in Entries
    PROVE  /\ ChunkOf(e) \in Parts
           /\ ChunkOf(e).whole = e.data
           /\ ChunkOf(e).offset = e.sent
           /\ Len(ChunkOf(e).data) = PureDataSize(e)
<1> DEFINE n == PureDataSize(e)
           s == SubSeq(e.data, e.sent + 1, e.sent + n)
<1>1. /\ e.data \in SomeData /\ e.data \in Seq(Cell) /\ Len(e.data) \in Nat
      /\ e.sent \in Nat /\ n \in Nat /\ n > 0 /\ e.sent + n <= Len(e.data)
  BY ChunkSize, DataType DEF Entries
<1> HIDE DEF n
<1>2. s \in Seq(Cell) /\ Len(s) = n /\ \A i \in 1 .. n : s[i] = e.data[e.sent + i]
  <2> DEFINE m == e.sent + 1
             l == e.sent + n
  <2>1. m \in 1 .. Len(e.data) + 1 /\ l \in m - 1 .. Len(e.data) /\ l - m + 1 = n
    BY <1>1
  <2>2. \A i \in 1 .. n : m + i - 1 = e.sent + i
    BY <1>1
  <2>3. m <= l
    BY <1>1
  <2> HIDE DEF m, l
  <2>4. /\ SubSeq(e.data, m, l) \in Seq(Cell)
        /\ Len(SubSeq(e.data, m, l)) = l - m + 1
        /\ \A i \in 1 .. l - m + 1 : SubSeq(e.data, m, l)[i] = e.data[m + i - 1]
    BY <1>1, <2>1, <2>3, SubSeqProperties
  <2>5. s = SubSeq(e.data, m, l)
    BY DEF m, l
  <2> QED
    BY <2>1, <2>2, <2>4, <2>5
<1>3. ChunkOf(e) = [whole |-> e.data, offset |-> e.sent, data |-> s]
  BY DEF ChunkOf, n
<1> HIDE DEF s
<1> QED
  BY <1>1, <1>2, <1>3 DEF Parts, n

\* What was begun is gone on with, and completed by the last chunk.
LEMMA PlacedIs ==
    ASSUME SplitAssumption, NEW k \in Parts, NEW old, Begins(old, k.whole, k.offset)
    PROVE  /\ Begins(Placed(old, k), k.whole, k.offset + Len(k.data))
           /\ IsLast(k) => Placed(old, k) = k.whole
<1>1. /\ k.whole \in Seq(Cell) /\ Len(k.whole) \in Nat /\ k.offset \in Nat /\ Len(k.data) \in Nat
      /\ k.whole = [i \in 1 .. Len(k.whole) |-> k.whole[i]]
      /\ k.offset + Len(k.data) <= Len(k.whole)
      /\ \A i \in 1 .. Len(k.data) : k.data[i] = k.whole[k.offset + i]
  BY DataType DEF Parts
<1>2. ASSUME NEW i \in 1 .. k.offset + Len(k.data) PROVE Placed(old, k)[i] = k.whole[i]
  <2>1. i \in 1 .. Len(k.whole)
    BY <1>1
  <2>2. CASE i \in k.offset + 1 .. k.offset + Len(k.data)
    <3>1. i - k.offset \in 1 .. Len(k.data) /\ k.offset + (i - k.offset) = i
      BY <1>1, <2>2
    <3> QED
      BY <1>1, <2>1, <2>2, <3>1 DEF Placed
  <2>3. CASE i \notin k.offset + 1 .. k.offset + Len(k.data)
    <3>1. i \in 1 .. k.offset /\ k.offset > 0
      BY <1>1, <2>3
    <3>2. Len(old) = Len(k.whole) /\ old[i] = k.whole[i]
      BY <3>1 DEF Begins
    <3> QED
      BY <2>1, <2>3, <3>2 DEF Placed
  <2> QED
    BY <2>2, <2>3
<1>3. Len(Placed(old, k)) = Len(k.whole)
  BY <1>1 DEF Placed
<1>4. IsLast(k) => Placed(old, k) = k.whole
  <2>1. SUFFICES ASSUME IsLast(k) PROVE Placed(old, k) = k.whole
    OBVIOUS
  <2>2. k.offset + Len(k.data) = Len(k.whole)
    BY <1>1, <2>1 DEF IsLast
  <2>3. Placed(old, k) = [i \in 1 .. Len(k.whole) |-> Placed(old, k)[i]]
    BY DEF Placed
  <2>4. \A i \in 1 .. Len(k.whole) : Placed(old, k)[i] = k.whole[i]
    BY <1>2, <2>2
  <2> QED
    BY <1>1, <2>3, <2>4
<1> QED
  BY <1>2, <1>3, <1>4 DEF Begins

-----------------------------------------------------------------------------
(* Queues and what is under way *)

LEMMA FirstEntry ==
    ASSUME NEW queue, QueueInv(queue), NEW c \in Cmd, queue[c] # <<>>
    PROVE  /\ queue[c] \in Seq(Entries) /\ Len(queue[c]) \in Nat \ {0} /\ queue[c][1] \in Entries
           /\ Tail(queue[c]) \in Seq(Entries) /\ Len(Tail(queue[c])) = Len(queue[c]) - 1
           /\ \A i \in 1 .. Len(queue[c]) - 1 :
                  Tail(queue[c])[i] = queue[c][i + 1] /\ Tail(queue[c])[i].sent = 0
<1>1. queue[c] \in Seq(Entries) /\ Len(queue[c]) \in Nat
  BY DEF QueueInv
<1>2. Len(queue[c]) > 0
  BY <1>1, EmptySeq
<1>3. /\ Tail(queue[c]) \in Seq(Entries) /\ Len(Tail(queue[c])) = Len(queue[c]) - 1
      /\ \A i \in 1 .. Len(queue[c]) - 1 : Tail(queue[c])[i] = queue[c][i + 1]
  BY <1>1, <1>2
<1>4. \A i \in 1 .. Len(queue[c]) - 1 : queue[c][i + 1].sent = 0
  BY <1>1 DEF QueueInv
<1> QED
  BY <1>1, <1>2, <1>3, <1>4

\* An entry that a chunk was sent of, but not the last one.
LEMMA AdvancedType ==
    ASSUME SplitAssumption, NEW e \in Entries, ~ IsLast(ChunkOf(e))
    PROVE  /\ Advanced(e) \in Entries
           /\ Advanced(e).data = e.data
           /\ Advanced(e).sent = e.sent + PureDataSize(e)
<1>1. Len(e.data) \in Nat /\ e.sent \in Nat /\ PureDataSize(e) \in 1 .. Len(e.data) - e.sent
  BY ChunkSize, DataType DEF Entries
<1>2. e.sent + PureDataSize(e) < Len(e.data)
  BY <1>1, ChunkType DEF IsLast
<1> QED
  BY <1>1, <1>2 DEF Advanced, Entries

LEMMA ChunksType ==
    ASSUME SplitAssumption, NEW queue, QueueInv(queue)
    PROVE  ChunksInv(Chunks(queue))
BY FirstEntry, ChunkType DEF ChunksInv, Chunks

LEMMA RestType ==
    ASSUME SplitAssumption, NEW queue, QueueInv(queue)
    PROVE  QueueInv(Rest(queue))
<1>1. ASSUME NEW c \in Cmd
      PROVE  /\ Rest(queue)[c] \in Seq(Entries)
             /\ \A i \in 2 .. Len(Rest(queue)[c]) : Rest(queue)[c][i].sent = 0
  <2>1. CASE queue[c] = <<>>
    BY <2>1 DEF Rest
  <2>2. CASE queue[c] # <<>> /\ IsLast(ChunkOf(queue[c][1]))
    <3>1. Rest(queue)[c] = Tail(queue[c])
      BY <2>2 DEF Rest
    <3> QED
      BY <2>2, <3>1, FirstEntry
  <2>3. CASE queue[c] # <<>> /\ ~ IsLast(ChunkOf(queue[c][1]))
    <3>1. Rest(queue)[c] = [queue[c] EXCEPT ![1] = Advanced(@)]
      BY <2>3 DEF Rest
    <3>2. queue[c] \in Seq(Entries) /\ Len(queue[c]) \in Nat \ {0} /\ Advanced(queue[c][1]) \in Entries
      BY <2>3, FirstEntry, AdvancedType
    <3>3. \A i \in 2 .. Len(queue[c]) : queue[c][i].sent = 0
      BY DEF QueueInv
    <3> QED
      BY <3>1, <3>2, <3>3
  <2> QED
    BY <2>1, <2>2, <2>3
<1> QED
  BY <1>1 DEF QueueInv, Rest

\* A queue does not become longer when its chunks leave.
LEMMA RestLength ==
    ASSUME SplitAssumption, NEW queue, QueueInv(queue), NEW c \in Cmd
    PROVE  Len(Rest(queue)[c]) <= Len(queue[c])
<1>1. CASE queue[c] = <<>>
  BY <1>1 DEF Rest
<1>2. CASE queue[c] # <<>> /\ IsLast(ChunkOf(queue[c][1]))
  <2>1. Rest(queue)[c] = Tail(queue[c])
    BY <1>2 DEF Rest
  <2> QED
    BY <1>2, <2>1, FirstEntry
<1>3. CASE queue[c] # <<>> /\ ~ IsLast(ChunkOf(queue[c][1]))
  <2>1. Rest(queue)[c] = [queue[c] EXCEPT ![1] = Advanced(@)]
    BY <1>3 DEF Rest
  <2>2. queue[c] \in Seq(Entries) /\ Len(queue[c]) \in Nat
    BY <1>3, FirstEntry
  <2>3. Len(Rest(queue)[c]) = Len(queue[c])
    BY <2>1, <2>2
  <2> QED
    BY <2>2, <2>3
<1> QED
  BY <1>1, <1>2, <1>3

-----------------------------------------------------------------------------
(* Chunks that leave, and chunks that arrive *)

LEMMA NoChunks ==
    ASSUME NEW C, NEW queue, NEW old
    PROVE  UnderWay(C, queue, <<>>, old) <=> \A c \in C : Even(queue[c], old[c])
BY DEF UnderWay

\* A message with a chunk of each command brings the receiver up to what was sent.
LEMMA ChunksLeave ==
    ASSUME SplitAssumption, NEW queue, QueueInv(queue), NEW C \in SUBSET Cmd, NEW old,
           UnderWay(C, queue, <<>>, old)
    PROVE  UnderWay(C, Rest(queue), Chunks(queue), old)
<1> SUFFICES ASSUME NEW c \in C
             PROVE  IF c \in DOMAIN Chunks(queue) THEN Ahead(Chunks(queue)[c], Rest(queue)[c], old[c])
                    ELSE Even(Rest(queue)[c], old[c])
  BY DEF UnderWay
<1>1. Even(queue[c], old[c])
  BY NoChunks
<1>2. CASE queue[c] = <<>>
  BY <1>2 DEF Chunks, Rest, Even
<1>3. CASE queue[c] # <<>>
  <2> DEFINE e == queue[c][1]
             k == ChunkOf(e)
  <2>1. c \in DOMAIN Chunks(queue) /\ Chunks(queue)[c] = k
    BY <1>3 DEF Chunks
  <2>2. e \in Entries
    BY <1>3, FirstEntry
  <2>3. k.whole = e.data /\ k.offset = e.sent /\ Len(k.data) = PureDataSize(e)
    BY <2>2, ChunkType
  <2>4. Begins(old[c], k.whole, k.offset)
    BY <1>1, <1>3, <2>3 DEF Even
  <2>5. CASE IsLast(k)
    <3>1. Rest(queue)[c] = Tail(queue[c])
      BY <1>3, <2>5 DEF Rest
    <3>2. Tail(queue[c]) # <<>> => Tail(queue[c])[1].sent = 0
      <4>1. SUFFICES ASSUME Tail(queue[c]) # <<>> PROVE Tail(queue[c])[1].sent = 0
        OBVIOUS
      <4>2. /\ Tail(queue[c]) \in Seq(Entries) /\ Len(Tail(queue[c])) = Len(queue[c]) - 1
            /\ Len(queue[c]) \in Nat
            /\ \A i \in 1 .. Len(queue[c]) - 1 : Tail(queue[c])[i].sent = 0
        BY <1>3, FirstEntry
      <4>3. Len(Tail(queue[c])) # 0
        BY <4>1, <4>2, EmptySeq
      <4> DEFINE n == Len(queue[c])
      <4>4. n \in Nat /\ n - 1 \in Nat /\ n - 1 # 0
        BY <4>2, <4>3, LenProperties
      <4> HIDE DEF n
      <4>5. 1 \in 1 .. n - 1
        BY <4>4
      <4> QED
        BY <4>2, <4>5 DEF n
    <3> QED
      BY <2>1, <2>4, <3>1, <3>2 DEF Ahead
  <2>6. CASE ~ IsLast(k)
    <3>1. Rest(queue)[c] = [queue[c] EXCEPT ![1] = Advanced(e)]
      BY <1>3, <2>6 DEF Rest
    <3>2. Rest(queue)[c][1] = Advanced(e)
      BY <1>3, <3>1, FirstEntry
    <3> QED
      BY <2>1, <2>2, <2>3, <2>4, <2>6, <3>2, AdvancedType DEF Ahead
  <2> QED
    BY <2>5, <2>6
<1> QED
  BY <1>2, <1>3

\* When the chunks were put together, nothing is under way.
LEMMA ChunksArrive ==
    ASSUME SplitAssumption, NEW queue, NEW chunks, ChunksInv(chunks), NEW C, NEW old,
           UnderWay(C, queue, chunks, old), NEW new,
           \A c \in C : c \notin DOMAIN chunks => new[c] = old[c],
           \A c \in C : c \in DOMAIN chunks /\ ~ IsLast(chunks[c])
                            => new[c] = Placed(old[c], chunks[c])
    PROVE  UnderWay(C, queue, <<>>, new)
<1> SUFFICES ASSUME NEW c \in C PROVE Even(queue[c], new[c])
  BY NoChunks
<1>1. CASE c \notin DOMAIN chunks
  BY <1>1 DEF UnderWay
<1>2. CASE c \in DOMAIN chunks
  <2> DEFINE k == chunks[c]
  <2>1. Ahead(k, queue[c], old[c]) /\ k \in Parts
    BY <1>2 DEF UnderWay, ChunksInv
  <2>2. CASE queue[c] # <<>> => queue[c][1].sent = 0
    BY <2>2 DEF Even, Begins
  <2>3. CASE /\ queue[c] # <<>> /\ ~ IsLast(k)
             /\ queue[c][1].data = k.whole /\ queue[c][1].sent = k.offset + Len(k.data)
    <3>1. Begins(Placed(old[c], k), k.whole, k.offset + Len(k.data))
      BY <2>1, PlacedIs DEF Ahead
    <3>2. new[c] = Placed(old[c], k)
      BY <1>2, <2>3
    <3> QED
      BY <2>3, <3>1, <3>2 DEF Even
  <2> QED
    BY <2>1, <2>2, <2>3 DEF Ahead
<1> QED
  BY <1>1, <1>2

\* The last chunk of a command completes it.
LEMMA Completed ==
    ASSUME SplitAssumption, NEW queue, NEW chunks, ChunksInv(chunks), NEW C, NEW old,
           UnderWay(C, queue, chunks, old), NEW c \in C, Completes(chunks, c)
    PROVE  Placed(old[c], chunks[c]) = chunks[c].whole /\ chunks[c].whole \in SomeData
<1>1. chunks[c] \in Parts /\ Ahead(chunks[c], queue[c], old[c]) /\ IsLast(chunks[c])
  BY DEF Completes, ChunksInv, UnderWay
<1>2. Begins(old[c], chunks[c].whole, chunks[c].offset)
  BY <1>1 DEF Ahead
<1> QED
  BY <1>1, <1>2, PlacedIs DEF Parts

-----------------------------------------------------------------------------
(* What is given *)

\* In place of what is queued.
LEMMA EntryPut ==
    ASSUME NEW queue, QueueInv(queue), NEW c \in Cmd, NEW e \in Entries, e.sent = 0,
           NEW C \in SUBSET Cmd, NEW chunks, NEW old
    PROVE  /\ QueueInv([queue EXCEPT ![c] = <<e>>])
           /\ UnderWay(C, queue, chunks, old) => UnderWay(C, [queue EXCEPT ![c] = <<e>>], chunks, old)
<1> DEFINE new == [queue EXCEPT ![c] = <<e>>]
<1>1. /\ new \in [Cmd -> Seq(Entries)] /\ new[c] = <<e>>
      /\ \A d \in Cmd : d # c => new[d] = queue[d]
  BY DEF QueueInv
<1> HIDE DEF new
<1>2. QueueInv(new)
  <2> SUFFICES ASSUME NEW d \in Cmd, NEW i \in 2 .. Len(new[d]) PROVE new[d][i].sent = 0
    BY <1>1 DEF QueueInv
  <2>1. CASE d = c
    <3>1. Len(<<e>>) = 1
      OBVIOUS
    <3> QED
      BY <1>1, <2>1, <3>1
  <2>2. CASE d # c
    BY <1>1, <2>2 DEF QueueInv
  <2> QED
    BY <2>1, <2>2
<1>3. new[c] # <<>> /\ new[c][1].sent = 0
  BY <1>1
<1>4. ASSUME UnderWay(C, queue, chunks, old) PROVE UnderWay(C, new, chunks, old)
  <2> SUFFICES ASSUME NEW d \in C
               PROVE  IF d \in DOMAIN chunks THEN Ahead(chunks[d], new[d], old[d])
                      ELSE Even(new[d], old[d])
    BY DEF UnderWay
  <2>1. CASE d = c
    BY <1>3, <1>4, <2>1 DEF UnderWay, Ahead, Even, Begins
  <2>2. CASE d # c
    BY <1>1, <1>4, <2>2 DEF UnderWay
  <2> QED
    BY <2>1, <2>2
<1> QED
  BY <1>2, <1>4 DEF new

\* Behind what is queued.
LEMMA EntriesAppended ==
    ASSUME NEW queue, QueueInv(queue), NEW new, NEW C \in SUBSET Cmd, NEW chunks, NEW old,
           new = [c \in Cmd |-> new[c]],
           \A c \in Cmd : \/ new[c] = queue[c]
                          \/ \E e \in Entries : e.sent = 0 /\ new[c] = Append(queue[c], e)
    PROVE  /\ QueueInv(new)
           /\ UnderWay(C, queue, <<>>, old) => UnderWay(C, new, <<>>, old)
<1>1. ASSUME NEW c \in Cmd
      PROVE  /\ new[c] \in Seq(Entries)
             /\ \A i \in 2 .. Len(new[c]) : new[c][i].sent = 0
             /\ Even(queue[c], old[c]) => Even(new[c], old[c])
  <2>1. CASE new[c] = queue[c]
    BY <2>1 DEF QueueInv
  <2>2. ASSUME NEW e \in Entries, e.sent = 0, new[c] = Append(queue[c], e)
        PROVE  /\ new[c] \in Seq(Entries)
               /\ \A i \in 2 .. Len(new[c]) : new[c][i].sent = 0
               /\ Even(queue[c], old[c]) => Even(new[c], old[c])
    <3>1. /\ queue[c] \in Seq(Entries) /\ Len(queue[c]) \in Nat
          /\ \A i \in 2 .. Len(queue[c]) : queue[c][i].sent = 0
      BY DEF QueueInv
    <3>2. /\ new[c] \in Seq(Entries) /\ Len(new[c]) = Len(queue[c]) + 1
          /\ \A i \in 1 .. Len(queue[c]) : new[c][i] = queue[c][i]
          /\ new[c][Len(queue[c]) + 1] = e
      BY <2>2, <3>1, AppendProperties
    <3>3. \A i \in 2 .. Len(new[c]) : new[c][i].sent = 0
      BY <2>2, <3>1, <3>2
    <3>4. CASE queue[c] = <<>>
      <4>1. new[c][1] = e
        BY <3>2, <3>4
      <4> QED
        BY <2>2, <3>2, <3>3, <4>1 DEF Even, Begins
    <3>5. CASE queue[c] # <<>>
      <4>1. Len(queue[c]) # 0
        BY <3>1, <3>5, EmptySeq
      <4>2. new[c][1] = queue[c][1]
        BY <3>1, <3>2, <4>1
      <4> QED
        BY <3>2, <3>3, <3>5, <4>2 DEF Even
    <3> QED
      BY <3>4, <3>5
  <2> QED
    BY <2>1, <2>2
<1> QED
  BY <1>1, NoChunks DEF QueueInv

-----------------------------------------------------------------------------
(* The invariant *)

LEMMA NothingQueued ==
    ASSUME NEW C \in SUBSET Cmd, NEW old
    PROVE  QueueInv(Empty) /\ UnderWay(C, Empty, <<>>, old)
<1>1. QueueInv(Empty)
  BY EmptySeq DEF QueueInv, Empty
<1>2. UnderWay(C, Empty, <<>>, old)
  BY NoChunks DEF Even, Empty
<1> QED
  BY <1>1, <1>2

LEMMA EmptyShort == \A c \in Cmd : Len(Empty[c]) <= 1
BY EmptySeq DEF Empty

LEMMA TransferInit == ASSUME SplitAssumption, Init PROVE IInv
<1>1. CommandInv
  BY NothingQueued, SplitAssumption, EmptyShort DEF Init, CommandInv
<1>2. ReplyInv
  BY NothingQueued DEF Init, ReplyInv, Keyed
<1> QED
  BY <1>1, <1>2 DEF Init, IInv

\* The data of a call.
LEMMA DatumType ==
    ASSUME NEW n \in 1 .. MaxCalls, NEW size \in Sizes
    PROVE  Datum(n, size) \in SomeData
BY DEF SomeData

LEMMA CommandExec ==
    ASSUME SplitAssumption, IInv, NEW c \in Cmd, NEW size \in Sizes, NEW split \in Splits,
           ExecSplit(c, size, split)
    PROVE  CommandInv'
<1>1. /\ calls' \in 0 .. MaxCalls /\ calls + 1 \in 1 .. MaxCalls
      /\ UNCHANGED <<pc, message, assembled>>
  BY SplitAssumption DEF ExecSplit, IInv, CommandInv, simulatorVars
<1>2. CASE UNCHANGED toSend
  BY <1>1, <1>2 DEF IInv, CommandInv
<1>3. CASE toSend' = [toSend EXCEPT ![c] = <<Entry(Datum(calls + 1, size), split)>>]
  <2> DEFINE e == Entry(Datum(calls + 1, size), split)
  <2>1. e \in Entries /\ e.sent = 0
    BY <1>1, DatumType, EntryType
  <2> HIDE DEF e
  <2>2. toSend' = [toSend EXCEPT ![c] = <<e>>]
    BY <1>3 DEF e
  <2>3. QueueInv(toSend')
    BY <2>1, <2>2, EntryPut DEF IInv, CommandInv
  <2>5. \A d \in Cmd : Len(toSend'[d]) <= 1
    BY <2>2 DEF IInv, CommandInv, QueueInv
  <2>4. ASSUME pc # "lost"
        PROVE  UnderWay(Cmd, toSend', IF pc = "reply" THEN message ELSE <<>>, assembled)
    BY <2>1, <2>2, <2>4, EntryPut DEF IInv, CommandInv
  <2> QED
    BY <1>1, <2>3, <2>4, <2>5 DEF IInv, CommandInv
<1> QED
  BY <1>2, <1>3 DEF ExecSplit

LEMMA CommandAnswer ==
    ASSUME SplitAssumption, IInv, NEW size, NEW split, Answer(size, split)
    PROVE  CommandInv'
<1>1. /\ pc = "reply" /\ pc' = "answered" /\ UNCHANGED <<calls, toSend>>
      /\ ChunksInv(message) /\ UnderWay(Cmd, toSend, message, assembled)
  BY DEF Answer, sendVars, IInv, CommandInv
<1>2. \A c \in Cmd : c \notin DOMAIN message => assembled'[c] = assembled[c]
  BY DEF Answer
<1>3. \A c \in Cmd : c \in DOMAIN message /\ ~ IsLast(message[c])
                        => assembled'[c] = Placed(assembled[c], message[c])
  BY DEF Answer, Completes
<1>4. UnderWay(Cmd, toSend, <<>>, assembled')
  BY <1>1, <1>2, <1>3, ChunksArrive
<1> QED
  BY <1>1, <1>4 DEF IInv, CommandInv

LEMMA RestShort ==
    ASSUME SplitAssumption, NEW queue, QueueInv(queue), \A c \in Cmd : Len(queue[c]) <= 1
    PROVE  \A c \in Cmd : Len(Rest(queue)[c]) <= 1
<1> SUFFICES ASSUME NEW c \in Cmd PROVE Len(Rest(queue)[c]) <= 1
  OBVIOUS
<1>1. Len(Rest(queue)[c]) \in Nat /\ Len(queue[c]) \in Nat
  BY RestType DEF QueueInv
<1> QED
  BY <1>1, RestLength

LEMMA CommandStep ==
    ASSUME SplitAssumption, IInv, [Next]_vars
    PROVE  CommandInv'
<1>1. CASE \E c \in Cmd, size \in Sizes, split \in Splits : ExecSplit(c, size, split)
  BY <1>1, CommandExec
<1>2. CASE SendMessage
  <2>1. /\ pc = "held" /\ pc' = "reply" /\ UNCHANGED <<calls, assembled>>
        /\ toSend' = Rest(toSend) /\ message' = Chunks(toSend)
    BY <1>2 DEF SendMessage, TakeBuffer, simulatorVars
  <2>2. QueueInv(toSend) /\ UnderWay(Cmd, toSend, <<>>, assembled)
    BY <2>1 DEF IInv, CommandInv
  <2>3. QueueInv(toSend') /\ ChunksInv(message')
    BY <2>1, <2>2, RestType, ChunksType
  <2>4. UnderWay(Cmd, toSend', message', assembled)
    BY <2>1, <2>2, ChunksLeave
  <2>5. \A c \in Cmd : Len(toSend'[c]) <= 1
    BY <2>1, <2>2, RestShort DEF IInv, CommandInv
  <2> QED
    BY <2>1, <2>3, <2>4, <2>5 DEF IInv, CommandInv
<1>3. CASE SendFails
  BY <1>3, RestType, RestShort DEF SendFails, TakeBuffer, IInv, CommandInv
<1>4. CASE Cleanup
  BY <1>4, NothingQueued, EmptyShort DEF Cleanup, IInv, CommandInv
<1>5. CASE \E size \in Sizes, split \in Splits : Answer(size, split)
  BY <1>5, CommandAnswer
<1>6. CASE Tick \/ Connect \/ StartPass \/ ReceiveReply \/ ReceiveFails \/ UNCHANGED vars
  <2>1. /\ UNCHANGED <<calls, toSend, assembled>>
        /\ \/ UNCHANGED <<pc, message>>
           \/ pc' = "lost"
           \/ pc \in {"unlinked", "pause", "answered"} /\ pc' \in {"pause", "held"}
    BY <1>6 DEF Tick, Connect, StartPass, ReceiveReply, ReceiveFails, vars, sendVars, simulatorVars
  <2> QED
    BY <2>1 DEF IInv, CommandInv
<1> QED
  BY <1>1, <1>2, <1>3, <1>4, <1>5, <1>6 DEF Next, CommThread

-----------------------------------------------------------------------------
\* The replies to the commands that a message completes.
LEMMA DueType ==
    ASSUME SplitAssumption, IInv, pc = "reply", NEW size \in Sizes, NEW split \in Splits,
           NEW C \in SUBSET Cmd, NEW old, UnderWay(C, replies, <<>>, old)
    PROVE  /\ QueueInv(Due(size, split))
           /\ UnderWay(C, Due(size, split), <<>>, old)
           /\ \A c \in Cmd : \/ Due(size, split)[c] = replies[c]
                             \/ \E e \in Entries : /\ e.sent = 0
                                                   /\ Due(size, split)[c] = Append(replies[c], e)
<1>1. ChunksInv(message) /\ QueueInv(replies)
  BY DEF IInv, CommandInv, ReplyInv
<1>2. ASSUME NEW c \in Cmd
      PROVE  \/ Due(size, split)[c] = replies[c]
             \/ \E e \in Entries : e.sent = 0 /\ Due(size, split)[c] = Append(replies[c], e)
  <2>1. CASE Completes(message, c)
    <3>1. message[c] \in Parts
      BY <1>1, <2>1 DEF Completes, ChunksInv
    <3>2. /\ message[c].whole \in SomeData /\ message[c].offset \in Nat
          /\ 1 \in 1 .. Len(message[c].data)
          /\ message[c].data[1] = message[c].whole[message[c].offset + 1]
          /\ message[c].offset + 1 \in 1 .. Len(message[c].whole)
      BY <3>1, DataType DEF Parts
    <3>3. message[c].data[1][1] \in 1 .. MaxCalls
      BY <3>2, DataType
    <3> DEFINE e == Entry(Datum(message[c].data[1][1], size), split)
    <3>4. e \in Entries /\ e.sent = 0
      BY <3>3, DatumType, EntryType
    <3> HIDE DEF e
    <3>5. Due(size, split)[c] = Append(replies[c], e)
      BY <2>1 DEF Due, e
    <3> QED
      BY <3>4, <3>5
  <2>2. CASE ~ Completes(message, c)
    BY <2>2 DEF Due
  <2> QED
    BY <2>1, <2>2
<1>3. Due(size, split) = [c \in Cmd |-> Due(size, split)[c]]
  BY DEF Due
<1> HIDE DEF Due
<1> QED
  BY <1>1, <1>2, <1>3, EntriesAppended

Received == [c \in Cmd |-> Found(c)]

LEMMA ReplyAnswer ==
    ASSUME SplitAssumption, IInv, NEW size \in Sizes, NEW split \in Splits, Answer(size, split)
    PROVE  ReplyInv'
<1>1. /\ pc = "reply" /\ pc' = "answered" /\ UNCHANGED partial
      /\ message' = Chunks(Due(size, split)) /\ replies' = Rest(Due(size, split))
      /\ UnderWay(Keyed, replies, <<>>, Received)
  BY DEF Answer, receiveVars, IInv, ReplyInv, Received
<1>2. Keyed \in SUBSET Cmd
  BY DEF Keyed
<1>3. QueueInv(Due(size, split)) /\ UnderWay(Keyed, Due(size, split), <<>>, Received)
  BY <1>1, <1>2, DueType
<1>4. QueueInv(replies') /\ ChunksInv(message')
  BY <1>1, <1>3, RestType, ChunksType
<1>5. UnderWay(Keyed, replies', message', Received)
  BY <1>1, <1>2, <1>3, ChunksLeave
<1>6. Received' = Received
  BY <1>1 DEF Received, Found
<1> QED
  BY <1>1, <1>4, <1>5, <1>6 DEF ReplyInv, Received

LEMMA ReplyReceive ==
    ASSUME SplitAssumption, IInv, ReceiveReply
    PROVE  ReplyInv'
<1>1. /\ pc = "answered" /\ pc' = "pause" /\ UNCHANGED replies
      /\ ChunksInv(message) /\ QueueInv(replies) /\ UnderWay(Keyed, replies, message, Received)
  BY DEF ReceiveReply, simulatorVars, IInv, ReplyInv, Received
<1>2. ASSUME NEW c \in Keyed, c \notin DOMAIN message PROVE Received'[c] = Received[c]
  BY <1>2 DEF ReceiveReply, Received, Found, Keyed
<1>3. ASSUME NEW c \in Keyed, c \in DOMAIN message, ~ IsLast(message[c])
      PROVE  Received'[c] = Placed(Received[c], message[c])
  <2>1. message[c] \in Parts
    BY <1>1, <1>3 DEF ChunksInv
  <2>2. Len(message[c].data) # Len(message[c].whole)
    BY <1>3, <2>1, DataType DEF Parts, IsLast
  <2>3. partial'[c] = <<Merged(c, message[c])>>
    BY <1>3, <2>2 DEF ReceiveReply, Begun, Keyed
  <2>4. Received'[c] = Merged(c, message[c])
    BY <2>3 DEF Received, Found, Keyed
  <2> QED
    BY <2>4 DEF Received, Merged, Keyed
<1>4. UnderWay(Keyed, replies, <<>>, Received')
  BY <1>1, <1>2, <1>3, ChunksArrive
<1> QED
  BY <1>1, <1>4 DEF ReplyInv, Received

LEMMA ReplyStep ==
    ASSUME SplitAssumption, IInv, [Next]_vars
    PROVE  ReplyInv'
<1>1. CASE \E size \in Sizes, split \in Splits : Answer(size, split)
  BY <1>1, ReplyAnswer
<1>2. CASE ReceiveReply
  BY <1>2, ReplyReceive
<1>3. CASE Cleanup
  BY <1>3, NothingQueued DEF Cleanup, ReplyInv, Keyed
<1>4. CASE \/ Tick \/ Connect \/ StartPass \/ SendMessage \/ SendFails \/ ReceiveFails
           \/ UNCHANGED vars
           \/ \E c \in Cmd, size \in Sizes, split \in Splits : ExecSplit(c, size, split)
  <2>1. /\ UNCHANGED <<partial, replies>>
        /\ \/ UNCHANGED <<pc, message>>
           \/ pc' = "lost"
           \/ pc \in {"unlinked", "pause", "held"} /\ pc' \in {"pause", "held", "reply"}
    BY <1>4 DEF Tick, Connect, StartPass, SendMessage, SendFails, TakeBuffer, ReceiveFails, ExecSplit, vars,
                receiveVars, simulatorVars
  <2>2. Received' = Received
    BY <2>1 DEF Received, Found
  <2> QED
    BY <2>1, <2>2 DEF IInv, ReplyInv, Received
<1> QED
  BY <1>1, <1>2, <1>3, <1>4 DEF Next, CommThread

LEMMA TransferStep ==
    ASSUME SplitAssumption, IInv, [Next]_vars
    PROVE  IInv'
<1>1. pc' \in {"unlinked", "pause", "held", "reply", "answered", "lost"}
  BY DEF IInv, Next, CommThread, vars, Tick, ExecSplit, Connect, StartPass, SendMessage, SendFails, ReceiveReply,
         ReceiveFails, Cleanup, Answer
<1> QED
  BY <1>1, CommandStep, ReplyStep DEF IInv

-----------------------------------------------------------------------------
(* What is on its way *)

Given(queue, c) == [i \in DOMAIN queue[c] |-> queue[c][i].data]

LEMMA GivenType ==
    ASSUME NEW queue, QueueInv(queue), NEW c \in Cmd
    PROVE  /\ Given(queue, c) \in Seq(SomeData)
           /\ Len(Given(queue, c)) = Len(queue[c]) /\ Len(queue[c]) \in Nat
           /\ \A i \in 1 .. Len(queue[c]) : Given(queue, c)[i] = queue[c][i].data
<1>1. queue[c] \in Seq(Entries)
  BY DEF QueueInv
<1>2. /\ DOMAIN queue[c] = 1 .. Len(queue[c]) /\ Len(queue[c]) \in Nat
      /\ \A i \in 1 .. Len(queue[c]) : queue[c][i] \in Entries
  BY <1>1
<1>3. \A i \in 1 .. Len(queue[c]) : queue[c][i].data \in SomeData
  BY <1>2 DEF Entries
<1> QED
  BY <1>2, <1>3 DEF Given

\* The datum that the message completes goes before those that are queued.
LEMMA Way ==
    ASSUME NEW queue, QueueInv(queue), NEW chunks, ChunksInv(chunks), NEW c \in Cmd
    PROVE  /\ OnTheirWay(c, <<>>, queue) = Given(queue, c)
           /\ ~ Completes(chunks, c) => OnTheirWay(c, chunks, queue) = Given(queue, c)
           /\ Completes(chunks, c) =>
                 /\ OnTheirWay(c, chunks, queue) = <<chunks[c].whole>> \o Given(queue, c)
                 /\ OnTheirWay(c, chunks, queue) # <<>>
                 /\ Head(OnTheirWay(c, chunks, queue)) = chunks[c].whole
                 /\ Tail(OnTheirWay(c, chunks, queue)) = Given(queue, c)
           /\ OnTheirWay(c, chunks, queue) \in Seq(SomeData)
<1> DEFINE s == Given(queue, c)
           d == chunks[c].whole
<1>1. s \in Seq(SomeData) /\ <<>> \o s = s
  BY GivenType, ConcatEmptySeq
<1>2. OnTheirWay(c, chunks, queue) = (IF Completes(chunks, c) THEN <<d>> ELSE <<>>) \o s
  BY DEF OnTheirWay, Given
<1>3. OnTheirWay(c, <<>>, queue) = <<>> \o s
  BY DEF OnTheirWay, Given, Completes
<1>4. Completes(chunks, c) => d \in SomeData
  BY DEF Completes, ChunksInv, Parts
<1> HIDE DEF s, d
<1>5. ASSUME d \in SomeData
      PROVE  /\ <<d>> \o s \in Seq(SomeData) /\ <<d>> \o s # <<>>
             /\ Head(<<d>> \o s) = d /\ Tail(<<d>> \o s) = s
  <2>1. <<d>> \in Seq(SomeData) /\ Len(<<d>>) = 1 /\ <<d>>[1] = d
    BY <1>5
  <2>2. /\ <<d>> \o s \in Seq(SomeData) /\ Len(<<d>> \o s) = 1 + Len(s)
        /\ \A i \in 1 .. 1 + Len(s) : (<<d>> \o s)[i] = IF i <= 1 THEN <<d>>[i] ELSE s[i - 1]
    BY <1>1, <2>1, ConcatProperties
  <2>3. Len(s) \in Nat
    BY <1>1
  <2>4. <<d>> \o s # <<>> /\ Head(<<d>> \o s) = d
    BY <2>1, <2>2, <2>3
  <2>5. Tail(<<d>> \o s) = s
    BY <1>1, <2>1, <2>2, <2>3
  <2> QED
    BY <2>2, <2>4, <2>5
<1> QED
  BY <1>1, <1>2, <1>3, <1>4, <1>5 DEF s, d

LEMMA WayOfQueue ==
    ASSUME NEW queue, QueueInv(queue), NEW c \in Cmd
    PROVE  OnTheirWay(c, <<>>, queue) = Given(queue, c)
<1>1. ChunksInv(<<>>)
  BY DEF ChunksInv
<1> QED
  BY <1>1, Way

LEMMA WayOfNothing ==
    ASSUME NEW c \in Cmd
    PROVE  OnTheirWay(c, <<>>, Empty) = <<>>
<1>1. QueueInv(Empty) /\ Len(Empty[c]) = 0
  BY NothingQueued, EmptySeq DEF Empty
<1>2. Given(Empty, c) \in Seq(SomeData) /\ Len(Given(Empty, c)) = 0
  BY <1>1, GivenType
<1>3. Given(Empty, c) = <<>>
  BY <1>2, EmptySeq
<1> QED
  BY <1>1, <1>3, WayOfQueue

\* A message takes nothing away from what is on its way.
LEMMA WayGoesOn ==
    ASSUME SplitAssumption, NEW queue, QueueInv(queue), NEW c \in Cmd
    PROVE  OnTheirWay(c, Chunks(queue), Rest(queue)) = OnTheirWay(c, <<>>, queue)
<1>1. QueueInv(Rest(queue)) /\ ChunksInv(Chunks(queue))
  BY RestType, ChunksType
<1>2. OnTheirWay(c, <<>>, queue) = Given(queue, c)
  BY <1>1, Way
<1>3. /\ Given(queue, c) \in Seq(SomeData) /\ Len(Given(queue, c)) = Len(queue[c])
      /\ \A i \in 1 .. Len(queue[c]) : Given(queue, c)[i] = queue[c][i].data
      /\ Given(Rest(queue), c) \in Seq(SomeData)
      /\ Len(Given(Rest(queue), c)) = Len(Rest(queue)[c])
      /\ \A i \in 1 .. Len(Rest(queue)[c]) : Given(Rest(queue), c)[i] = Rest(queue)[c][i].data
  BY <1>1, GivenType
<1>4. CASE queue[c] = <<>>
  <2>1. ~ Completes(Chunks(queue), c) /\ Rest(queue)[c] = queue[c]
    BY <1>4 DEF Completes, Chunks, Rest
  <2>2. Given(Rest(queue), c) = Given(queue, c)
    BY <2>1 DEF Given
  <2> QED
    BY <1>1, <1>2, <2>1, <2>2, Way
<1>5. CASE queue[c] # <<>> /\ IsLast(ChunkOf(queue[c][1]))
  <2>1. /\ Completes(Chunks(queue), c) /\ Rest(queue)[c] = Tail(queue[c])
        /\ Chunks(queue)[c].whole = queue[c][1].data
    BY <1>5, FirstEntry, ChunkType DEF Completes, Chunks, Rest
  <2>2. OnTheirWay(c, Chunks(queue), Rest(queue)) = <<queue[c][1].data>> \o Given(Rest(queue), c)
    BY <1>1, <2>1, Way
  <2> DEFINE s == Given(queue, c)
             r == Given(Rest(queue), c)
             d == queue[c][1].data
  <2>3. /\ Len(s) \in Nat \ {0} /\ Len(r) = Len(s) - 1 /\ s[1] = d
        /\ \A i \in 1 .. Len(s) - 1 : r[i] = s[i + 1]
        /\ d \in SomeData
    <3>1. /\ Len(queue[c]) \in Nat \ {0} /\ Len(Rest(queue)[c]) = Len(queue[c]) - 1
          /\ \A i \in 1 .. Len(queue[c]) - 1 : Rest(queue)[c][i] = queue[c][i + 1]
          /\ queue[c][1] \in Entries
      BY <1>5, <2>1, FirstEntry
    <3>2. 1 \in 1 .. Len(queue[c])
      BY <3>1
    <3>3. \A i \in 1 .. Len(queue[c]) - 1 : i + 1 \in 1 .. Len(queue[c]) /\ i \in 1 .. Len(Rest(queue)[c])
      BY <3>1
    <3> QED
      BY <1>3, <3>1, <3>2, <3>3 DEF Entries
  <2>4. s \in Seq(SomeData) /\ r \in Seq(SomeData)
    BY <1>3
  <2> HIDE DEF s, r, d
  <2>5. <<d>> \o r = s
    <3>1. <<d>> \in Seq(SomeData) /\ Len(<<d>>) = 1 /\ <<d>>[1] = d
      BY <2>3
    <3>2. /\ <<d>> \o r \in Seq(SomeData) /\ Len(<<d>> \o r) = 1 + Len(r)
          /\ \A i \in 1 .. 1 + Len(r) : (<<d>> \o r)[i] = IF i <= 1 THEN <<d>>[i] ELSE r[i - 1]
      BY <2>4, <3>1, ConcatProperties
    <3>3. Len(<<d>> \o r) = Len(s)
      BY <2>3, <3>2
    <3>4. ASSUME NEW i \in 1 .. Len(s) PROVE (<<d>> \o r)[i] = s[i]
      <4>1. CASE i = 1
        BY <2>3, <3>1, <3>2, <4>1
      <4>2. CASE i # 1
        <5>1. i - 1 \in 1 .. Len(s) - 1 /\ (i - 1) + 1 = i /\ i \in 1 .. 1 + Len(r) /\ ~(i <= 1)
          BY <2>3, <4>2
        <5> QED
          BY <2>3, <3>2, <5>1
      <4> QED
        BY <4>1, <4>2
    <3> QED
      BY <2>4, <3>2, <3>3, <3>4, SeqEqual
  <2> QED
    BY <1>2, <2>2, <2>5 DEF s, r, d
<1>6. CASE queue[c] # <<>> /\ ~ IsLast(ChunkOf(queue[c][1]))
  <2>1. /\ ~ Completes(Chunks(queue), c)
        /\ Rest(queue)[c] = [queue[c] EXCEPT ![1] = Advanced(queue[c][1])]
    BY <1>6 DEF Completes, Chunks, Rest
  <2>2. queue[c] \in Seq(Entries) /\ Len(queue[c]) \in Nat \ {0} /\ queue[c][1] \in Entries
    BY <1>6, FirstEntry
  <2>3. Advanced(queue[c][1]).data = queue[c][1].data
    BY <1>6, <2>2, AdvancedType
  <2>4. Given(Rest(queue), c) = Given(queue, c)
    BY <2>1, <2>2, <2>3 DEF Given
  <2> QED
    BY <1>1, <1>2, <2>1, <2>4, Way
<1> QED
  BY <1>4, <1>5, <1>6

-----------------------------------------------------------------------------
(* Every step is a step of the abstract transfer *)

\* A broken link may lose everything, the datum in the message, or nothing.
LEMMA Losses ==
    ASSUME NEW s \in Seq(SomeData)
    PROVE  /\ <<>> \in Requests!Suffixes(s) /\ s \in Requests!Suffixes(s)
           /\ s # <<>> => Tail(s) \in Requests!Suffixes(s)
           /\ <<>> \in Replies!Suffixes(s) /\ s \in Replies!Suffixes(s)
           /\ s # <<>> => Tail(s) \in Replies!Suffixes(s)
<1> DEFINE S == {SubSeq(s, l, Len(s)) : l \in 1 .. Len(s)} \cup {<<>>}
<1>1. Len(s) \in Nat
  OBVIOUS
<1>2. s # <<>> => s \in S
  <2>1. SUFFICES ASSUME s # <<>> PROVE s \in S
    OBVIOUS
  <2>2. 1 \in 1 .. Len(s)
    BY <2>1, EmptySeq
  <2>3. SubSeq(s, 1, Len(s)) = s
    BY SubSeqFull
  <2> QED
    BY <2>2, <2>3
<1>3. s # <<>> => Tail(s) \in S
  <2>1. SUFFICES ASSUME s # <<>> PROVE Tail(s) \in S
    OBVIOUS
  <2> DEFINE n == Len(s)
  <2>2. n \in Nat \ {0} /\ Tail(s) = SubSeq(s, 2, n)
    BY <2>1, EmptySeq, TailIsSubSeq
  <2> HIDE DEF n
  <2>3. CASE n = 1
    <3>1. SubSeq(s, 2, n) = <<>>
      BY <2>3, SubSeqEmpty
    <3> QED
      BY <2>2, <3>1
  <2>4. CASE n # 1
    <3>1. 2 \in 1 .. n
      BY <2>2, <2>4
    <3> QED
      BY <2>2, <3>1 DEF n
  <2> QED
    BY <2>3, <2>4
<1> QED
  BY <1>2, <1>3 DEF Requests!Suffixes, Replies!Suffixes

CommandsStep == [Requests!Next]_<<Linked, CommandsCarried, executed>>

LEMMA CommandsBreak ==
    ASSUME ~ Linked', \A c \in Cmd : CommandsCarried'[c] \in Requests!Suffixes(CommandsCarried[c]),
           UNCHANGED executed
    PROVE  CommandsStep
<1>1. Linked' = FALSE
  BY DEF Linked
<1>2. Requests!Break
  BY <1>1 DEF Requests!Break
<1> QED
  BY <1>2 DEF CommandsStep, Requests!Next

\* What is carried, command by command.
LEMMA CommandsOf ==
    ASSUME IInv, NEW c \in Cmd
    PROVE  /\ pc # "reply" => CommandsCarried[c] = OnTheirWay(c, <<>>, toSend)
           /\ pc # "reply" => CommandsCarried[c] = Given(toSend, c)
           /\ pc = "reply" => CommandsCarried[c] = OnTheirWay(c, message, toSend)
           /\ CommandsCarried[c] \in Seq(SomeData)
<1>1. QueueInv(toSend) /\ (pc = "reply" => ChunksInv(message))
  BY DEF IInv, CommandInv
<1>2. ChunksInv(<<>>)
  BY DEF ChunksInv
<1> QED
  BY <1>1, <1>2, Way DEF CommandsCarried

LEMMA FrontOfAppend ==
    ASSUME NEW S, NEW s \in Seq(S), NEW x \in S
    PROVE  Append(s, x) # <<>> /\ SubSeq(Append(s, x), 1, Len(Append(s, x)) - 1) = s
<1> DEFINE n == Len(s)
           t == Append(s, x)
<1>1. /\ n \in Nat /\ t \in Seq(S) /\ Len(t) = n + 1 /\ t # <<>>
      /\ \A i \in 1 .. n : t[i] = s[i]
  BY AppendProperties
<1> HIDE DEF n, t
<1>2. Len(t) - 1 = n
  BY <1>1
<1>3. \A i \in 1 .. n : t[i] \in S
  BY <1>1 DEF n
<1>4. /\ SubSeq(t, 1, n) \in Seq(S)
      /\ Len(SubSeq(t, 1, n)) = IF 1 <= n THEN n - 1 + 1 ELSE 0
      /\ \A i \in 1 .. n - 1 + 1 : SubSeq(t, 1, n)[i] = t[1 + i - 1]
  BY <1>1, <1>3, SubSeqProperties
<1>5. Len(SubSeq(t, 1, n)) = n /\ \A i \in 1 .. n : SubSeq(t, 1, n)[i] = s[i]
  BY <1>1, <1>4
<1>6. SubSeq(t, 1, n) = s
  BY <1>4, <1>5, SeqEqual DEF n
<1> QED
  BY <1>1, <1>2, <1>6 DEF t

LEMMA CommandsExec ==
    ASSUME SplitAssumption, IInv, NEW c \in Cmd, NEW size \in Sizes, NEW split \in Splits,
           ExecSplit(c, size, split)
    PROVE  CommandsStep
<1>1. UNCHANGED <<pc, message, executed>> /\ calls + 1 \in 1 .. MaxCalls
  BY SplitAssumption DEF ExecSplit, simulatorVars, IInv, CommandInv
<1>2. Linked' = Linked
  BY <1>1 DEF Linked
<1>3. CASE UNCHANGED toSend
  <2>1. CommandsCarried' = CommandsCarried
    BY <1>1, <1>3 DEF CommandsCarried, OnTheirWay, Completes, IsLast
  <2> QED
    BY <1>1, <1>2, <2>1 DEF CommandsStep
<1>4. CASE toSend' = [toSend EXCEPT ![c] = <<Entry(Datum(calls + 1, size), split)>>]
  <2> DEFINE d == Datum(calls + 1, size)
             first == IF Completes(IF pc = "reply" THEN message ELSE <<>>, c)
                      THEN <<message[c].whole>> ELSE <<>>
  <2>1. d \in SomeData
    BY <1>1, DatumType
  <2>2. QueueInv(toSend) /\ Len(toSend[c]) <= 1
    BY DEF IInv, CommandInv
  <2>3. toSend'[c] = <<Entry(d, split)>> /\ Entry(d, split).data = d
    BY <1>4, <2>1, <2>2, EntryType DEF QueueInv
  <2>4. CommandsCarried[c] = first \o Given(toSend, c)
    BY DEF CommandsCarried, OnTheirWay, Given, Completes
  <2>5. CommandsCarried'[c] = first \o <<d>>
    <3>1. [i \in DOMAIN toSend'[c] |-> toSend'[c][i].data] = <<d>>
      BY <2>3
    <3>2. CommandsCarried'[c] = OnTheirWay(c, IF pc = "reply" THEN message ELSE <<>>, toSend')
      BY <1>1 DEF CommandsCarried
    <3>3. OnTheirWay(c, IF pc = "reply" THEN message ELSE <<>>, toSend')
            = first \o [i \in DOMAIN toSend'[c] |-> toSend'[c][i].data]
      BY DEF OnTheirWay, Completes
    <3> QED
      BY <3>1, <3>2, <3>3
  <2>6. \A b \in Cmd : b # c => CommandsCarried'[b] = CommandsCarried[b]
    BY <1>1, <1>4, <2>2 DEF CommandsCarried, OnTheirWay, Completes, QueueInv
  <2>7. first \in Seq(SomeData)
    BY DEF IInv, CommandInv, Completes, ChunksInv, Parts
  <2>8. CommandsCarried'[c] \in Requests!Given(CommandsCarried[c])
    <3>1. CASE toSend[c] = <<>>
      <4>1. Given(toSend, c) = <<>>
        BY <3>1 DEF Given
      <4>2. CommandsCarried[c] = first
        BY <2>4, <2>7, <4>1, ConcatEmptySeq
      <4>3. CommandsCarried'[c] = Append(first, d)
        BY <2>1, <2>5, <2>7, AppendIsConcat
      <4> QED
        BY <2>1, <4>2, <4>3 DEF Requests!Given
    <3>2. CASE toSend[c] # <<>>
      <4> DEFINE n == Len(toSend[c])
      <4>1. n \in Nat /\ n # 0 /\ n <= 1
        BY <2>2, <3>2, FirstEntry
      <4> HIDE DEF n
      <4>2. n = 1
        BY <4>1
      <4>3. Given(toSend, c) = <<Given(toSend, c)[1]>> /\ Given(toSend, c)[1] \in SomeData
        BY <2>2, <4>2, GivenType DEF n
      <4> DEFINE x == Given(toSend, c)[1]
                 s == first \o <<x>>
      <4>4. s = CommandsCarried[c]
        BY <2>4, <4>3
      <4> HIDE DEF x
      <4>5. s = Append(first, x) /\ x \in SomeData
        BY <2>7, <4>3, AppendIsConcat DEF x
      <4> HIDE DEF s, first
      <4>6. s # <<>> /\ SubSeq(s, 1, Len(s) - 1) = first
        BY <2>7, <4>5, FrontOfAppend
      <4>7. CommandsCarried'[c] = Append(first, d)
        BY <2>1, <2>5, <2>7, AppendIsConcat
      <4> HIDE DEF d
      <4> QED
        BY <2>1, <4>4, <4>6, <4>7 DEF Requests!Given, Requests!Front
    <3> QED
      BY <3>1, <3>2
  <2> HIDE DEF d, first
  <2>9. Requests!Give({c})
    BY <1>1, <1>2, <2>6, <2>8 DEF Requests!Give
  <2> QED
    BY <2>9 DEF CommandsStep, Requests!Next
<1> QED
  BY <1>3, <1>4 DEF ExecSplit

\* The simulator executes the commands that the message completes.
LEMMA CommandsAnswer ==
    ASSUME SplitAssumption, IInv, NEW size, NEW split, Answer(size, split)
    PROVE  CommandsStep
<1> DEFINE C == {c \in Cmd : Completes(message, c)}
<1>1. /\ pc = "reply" /\ pc' = "answered" /\ UNCHANGED toSend
      /\ ChunksInv(message) /\ QueueInv(toSend) /\ UnderWay(Cmd, toSend, message, assembled)
  BY DEF Answer, sendVars, IInv, CommandInv
<1>2. Linked' = Linked
  BY <1>1 DEF Linked
<1>3. \A c \in Cmd : /\ CommandsCarried[c] = OnTheirWay(c, message, toSend)
                     /\ CommandsCarried'[c] = OnTheirWay(c, <<>>, toSend)
  BY <1>1 DEF CommandsCarried
<1>4. C \subseteq Cmd
  OBVIOUS
<1>5. ASSUME NEW c \in C
      PROVE  /\ CommandsCarried[c] # <<>>
             /\ CommandsCarried'[c] = Tail(CommandsCarried[c])
             /\ executed'[c] = Head(CommandsCarried[c])
  <2>1. executed'[c] = Placed(assembled[c], message[c])
    BY DEF Answer
  <2>2. Placed(assembled[c], message[c]) = message[c].whole
    BY <1>1, Completed
  <2>3. /\ OnTheirWay(c, message, toSend) # <<>>
        /\ Head(OnTheirWay(c, message, toSend)) = message[c].whole
        /\ Tail(OnTheirWay(c, message, toSend)) = Given(toSend, c)
    BY <1>1, Way
  <2>4. OnTheirWay(c, <<>>, toSend) = Given(toSend, c)
    BY <1>1, WayOfQueue
  <2> HIDE DEF C
  <2> QED
    BY <1>3, <2>1, <2>2, <2>3, <2>4, <1>4
<1>6. ASSUME NEW c \in Cmd \ C
      PROVE  CommandsCarried'[c] = CommandsCarried[c] /\ executed'[c] = executed[c]
  <2>1. executed'[c] = executed[c]
    BY DEF Answer
  <2> QED
    BY <1>1, <1>3, <2>1, Way
<1>7. /\ CommandsCarried' = [c \in Cmd |-> CommandsCarried'[c]]
      /\ executed' = [c \in Cmd |-> executed'[c]]
  BY DEF CommandsCarried, Answer
<1> HIDE DEF C
<1>8. Requests!Arrive(C)
  <2>1. CommandsCarried' = [c \in Cmd |-> IF c \in C THEN Tail(CommandsCarried[c]) ELSE CommandsCarried[c]]
    BY <1>5, <1>6, <1>7
  <2>2. executed' = [c \in Cmd |-> IF c \in C THEN Head(CommandsCarried[c]) ELSE executed[c]]
    BY <1>5, <1>6, <1>7
  <2> QED
    BY <1>2, <1>5, <2>1, <2>2 DEF Requests!Arrive
<1> QED
  BY <1>4, <1>8 DEF CommandsStep, Requests!Next

\* What a lost message leaves of what was on its way.
LEMMA CommandsLost ==
    ASSUME SplitAssumption, IInv, SendFails \/ ReceiveFails \/ Cleanup
    PROVE  CommandsStep
<1>1. UNCHANGED executed /\ ~ Linked'
  BY DEF SendFails, TakeBuffer, ReceiveFails, Cleanup, simulatorVars, Linked
<1>2. pc' # "reply" /\ \A c \in Cmd : CommandsCarried'[c] = OnTheirWay(c, <<>>, toSend')
  BY DEF SendFails, ReceiveFails, Cleanup, CommandsCarried
<1> SUFFICES ASSUME NEW c \in Cmd
             PROVE  CommandsCarried'[c] \in Requests!Suffixes(CommandsCarried[c])
  BY <1>1, CommandsBreak
<1>3. CommandsCarried[c] \in Seq(SomeData) /\ QueueInv(toSend)
  BY CommandsOf DEF IInv, CommandInv
<1>4. CASE SendFails
  <2>1. toSend' = Rest(toSend) /\ CommandsCarried[c] = OnTheirWay(c, Chunks(toSend), Rest(toSend))
    BY <1>3, <1>4, WayGoesOn, CommandsOf DEF SendFails, TakeBuffer
  <2>2. QueueInv(Rest(toSend)) /\ ChunksInv(Chunks(toSend))
    BY <1>3, RestType, ChunksType
  <2>3. CommandsCarried'[c] = Given(Rest(toSend), c)
    BY <1>2, <2>1, <2>2, Way
  <2>4. \/ CommandsCarried'[c] = CommandsCarried[c]
        \/ CommandsCarried[c] # <<>> /\ CommandsCarried'[c] = Tail(CommandsCarried[c])
    BY <2>1, <2>2, <2>3, Way
  <2> QED
    BY <1>3, <2>4, Losses
<1>5. CASE ReceiveFails
  <2>1. toSend' = toSend
    BY <1>5 DEF ReceiveFails, sendVars
  <2>2. CommandsCarried'[c] = Given(toSend, c) /\ (pc = "reply" => ChunksInv(message))
    BY <1>2, <1>3, <2>1, WayOfQueue DEF IInv, CommandInv
  <2>3. \/ CommandsCarried'[c] = CommandsCarried[c]
        \/ CommandsCarried[c] # <<>> /\ CommandsCarried'[c] = Tail(CommandsCarried[c])
    BY <1>3, <2>2, Way, CommandsOf
  <2> QED
    BY <1>3, <2>3, Losses
<1>6. CASE Cleanup
  <2>1. toSend' = Empty
    BY <1>6 DEF Cleanup
  <2>2. CommandsCarried'[c] = <<>>
    BY <1>2, <2>1, WayOfNothing
  <2> QED
    BY <1>3, <2>2, Losses
<1> QED
  BY <1>4, <1>5, <1>6

LEMMA CommandsMap ==
    ASSUME SplitAssumption, IInv, [Next]_vars
    PROVE  CommandsStep
<1>1. CASE \E c \in Cmd, size \in Sizes, split \in Splits : ExecSplit(c, size, split)
  BY <1>1, CommandsExec
<1>2. CASE \E size \in Sizes, split \in Splits : Answer(size, split)
  BY <1>2, CommandsAnswer
<1>3. CASE SendFails \/ ReceiveFails \/ Cleanup
  BY <1>3, CommandsLost
<1>4. CASE SendMessage
  <2>1. /\ pc = "held" /\ pc' = "reply" /\ UNCHANGED executed /\ QueueInv(toSend)
        /\ toSend' = Rest(toSend) /\ message' = Chunks(toSend)
    BY <1>4 DEF SendMessage, TakeBuffer, simulatorVars, IInv, CommandInv
  <2>2. Linked' = Linked
    BY <2>1 DEF Linked
  <2>3. CommandsCarried' = CommandsCarried
    BY <2>1, WayGoesOn DEF CommandsCarried
  <2> QED
    BY <2>1, <2>2, <2>3 DEF CommandsStep
<1>5. CASE Connect
  <2>1. /\ pc' = "pause" /\ pc = "unlinked" /\ UNCHANGED <<toSend, executed>>
    BY <1>5 DEF Connect, sendVars, simulatorVars
  <2>2. Linked' = TRUE
    BY <2>1 DEF Linked
  <2>3. CommandsCarried' = CommandsCarried
    BY <2>1 DEF CommandsCarried
  <2>4. Requests!Link
    BY <2>1, <2>2, <2>3 DEF Requests!Link
  <2> QED
    BY <2>4 DEF CommandsStep, Requests!Next
<1>6. CASE Tick \/ StartPass \/ ReceiveReply \/ UNCHANGED vars
  <2>1. /\ UNCHANGED <<toSend, executed>>
        /\ \/ UNCHANGED <<pc, message>>
           \/ <<pc, pc'>> \in {<<"pause", "held">>, <<"answered", "pause">>}
    BY <1>6 DEF Tick, StartPass, ReceiveReply, sendVars, simulatorVars, vars
  <2>2. Linked' = Linked
    BY <2>1 DEF Linked
  <2>3. CommandsCarried' = CommandsCarried
    BY <2>1 DEF CommandsCarried
  <2> QED
    BY <2>1, <2>2, <2>3 DEF CommandsStep
<1> QED
  BY <1>1, <1>2, <1>3, <1>4, <1>5, <1>6 DEF Next, CommThread

-----------------------------------------------------------------------------
RepliesStep == [Replies!Next]_<<Linked, RepliesCarried, RepliesArrived>>

\* What is carried, reply by reply.
LEMMA RepliesOf ==
    ASSUME IInv, NEW c \in Keyed
    PROVE  /\ pc # "answered" => RepliesCarried[c] = Given(replies, c)
           /\ pc = "answered" => RepliesCarried[c] = OnTheirWay(c, message, replies)
           /\ RepliesCarried[c] \in Seq(SomeData)
<1>1. QueueInv(replies) /\ (pc = "answered" => ChunksInv(message)) /\ c \in Cmd
  BY DEF IInv, ReplyInv, Keyed
<1>2. RepliesCarried[c] = OnTheirWay(c, IF pc = "answered" THEN message ELSE <<>>, replies)
  BY DEF RepliesCarried
<1>3. CASE pc = "answered"
  BY <1>1, <1>2, <1>3, Way
<1>4. CASE pc # "answered"
  BY <1>1, <1>2, <1>4, WayOfQueue, GivenType
<1> QED
  BY <1>3, <1>4

\* The simulator gives a reply to each command that the message completes, and a message
\* to carry the first chunks.
LEMMA RepliesAnswer ==
    ASSUME SplitAssumption, IInv, NEW size \in Sizes, NEW split \in Splits, Answer(size, split)
    PROVE  RepliesStep
<1> DEFINE C == {c \in Keyed : RepliesCarried'[c] # RepliesCarried[c]}
           due == Due(size, split)
<1>1. /\ pc = "reply" /\ pc' = "answered" /\ message' = Chunks(due) /\ replies' = Rest(due)
      /\ QueueInv(replies) /\ UNCHANGED inbox
      /\ UnderWay(Keyed, replies, <<>>, Received)
  BY DEF Answer, receiveVars, IInv, ReplyInv, Received
<1>2. Linked' = Linked /\ RepliesArrived' = RepliesArrived
  BY <1>1 DEF Linked, RepliesArrived
<1>3. /\ QueueInv(due)
      /\ \A c \in Cmd : \/ due[c] = replies[c]
                        \/ \E e \in Entries : e.sent = 0 /\ due[c] = Append(replies[c], e)
  BY <1>1, DueType DEF Keyed
<1> HIDE DEF due
<1>4. ASSUME NEW c \in Keyed
      PROVE  \/ RepliesCarried'[c] = RepliesCarried[c]
             \/ RepliesCarried'[c] \in Replies!Given(RepliesCarried[c])
  <2>1. c \in Cmd
    BY DEF Keyed
  <2>2. RepliesCarried[c] = Given(replies, c)
    BY <1>1, RepliesOf
  <2>3. RepliesCarried'[c] = Given(due, c)
    <3>1. RepliesCarried'[c] = OnTheirWay(c, Chunks(due), Rest(due))
      BY <1>1 DEF RepliesCarried
    <3> QED
      BY <1>3, <2>1, <3>1, WayGoesOn, WayOfQueue
  <2>4. CASE due[c] = replies[c]
    <3>1. Given(due, c) = Given(replies, c)
      BY <2>4 DEF Given
    <3> QED
      BY <2>2, <2>3, <3>1
  <2>5. ASSUME NEW e \in Entries, due[c] = Append(replies[c], e)
        PROVE  RepliesCarried'[c] \in Replies!Given(RepliesCarried[c])
    <3> DEFINE s == Given(replies, c)
               t == Given(due, c)
    <3>1. /\ s \in Seq(SomeData) /\ Len(s) = Len(replies[c]) /\ Len(s) \in Nat
          /\ \A i \in 1 .. Len(s) : s[i] = replies[c][i].data
          /\ t \in Seq(SomeData) /\ Len(t) = Len(due[c])
          /\ \A i \in 1 .. Len(t) : t[i] = due[c][i].data
      BY <1>1, <1>3, <2>1, GivenType
    <3>2. replies[c] \in Seq(Entries) /\ e.data \in SomeData
      BY <1>1, <2>1 DEF QueueInv, Entries
    <3>3. /\ Len(due[c]) = Len(replies[c]) + 1
          /\ \A i \in 1 .. Len(replies[c]) : due[c][i] = replies[c][i]
          /\ due[c][Len(replies[c]) + 1] = e
      BY <2>5, <3>2, AppendProperties
    <3> HIDE DEF s, t
    <3>4. /\ Append(s, e.data) \in Seq(SomeData) /\ Len(Append(s, e.data)) = Len(s) + 1
          /\ \A i \in 1 .. Len(s) : Append(s, e.data)[i] = s[i]
          /\ Append(s, e.data)[Len(s) + 1] = e.data
      <4> DEFINE x == e.data
      <4>1. s \in Seq(SomeData) /\ x \in SomeData
        BY <3>1, <3>2
      <4> HIDE DEF x
      <4>2. /\ Append(s, x) \in Seq(SomeData) /\ Len(Append(s, x)) = Len(s) + 1
            /\ \A i \in 1 .. Len(s) : Append(s, x)[i] = s[i]
            /\ Append(s, x)[Len(s) + 1] = x
        BY <4>1, AppendProperties
      <4> QED
        BY <4>2 DEF x
    <3>5. Len(t) = Len(s) + 1 /\ \A i \in 1 .. Len(s) : t[i] = s[i]
      BY <3>1, <3>3
    <3>6. t[Len(s) + 1] = e.data
      BY <3>1, <3>3
    <3>7. t = Append(s, e.data)
      <4>1. \A i \in 1 .. Len(t) : t[i] = Append(s, e.data)[i]
        BY <3>1, <3>4, <3>5, <3>6
      <4> QED
        BY <3>1, <3>4, <3>5, <4>1, SeqEqual
    <3> QED
      BY <2>2, <2>3, <3>2, <3>7 DEF s, t, Replies!Given
  <2> QED
    BY <1>3, <2>1, <2>4, <2>5
<1>5. C \subseteq Keyed
  OBVIOUS
<1>6. \A c \in Keyed : c \notin C => RepliesCarried'[c] = RepliesCarried[c]
  OBVIOUS
<1>7. \A c \in C : RepliesCarried'[c] \in Replies!Given(RepliesCarried[c])
  BY <1>4
<1> HIDE DEF C
<1>8. Replies!Give(C)
  BY <1>2, <1>5, <1>6, <1>7 DEF Replies!Give
<1> QED
  BY <1>5, <1>8 DEF RepliesStep, Replies!Next

\* The inbox has the replies that the message completes.
LEMMA RepliesReceive ==
    ASSUME SplitAssumption, IInv, ReceiveReply
    PROVE  RepliesStep
<1> DEFINE C == {c \in Keyed : Completes(message, c)}
<1>1. /\ pc = "answered" /\ pc' = "pause" /\ UNCHANGED replies
      /\ ChunksInv(message) /\ QueueInv(replies) /\ UnderWay(Keyed, replies, message, Received)
  BY DEF ReceiveReply, simulatorVars, IInv, ReplyInv, Received
<1>2. Linked' = Linked
  BY <1>1 DEF Linked
<1>3. \A c \in Keyed : /\ RepliesCarried[c] = OnTheirWay(c, message, replies)
                       /\ RepliesCarried'[c] = OnTheirWay(c, <<>>, replies)
  BY <1>1 DEF RepliesCarried
<1>4. C \subseteq Keyed /\ Keyed \subseteq Cmd
  BY DEF Keyed
<1>5. ASSUME NEW c \in C
      PROVE  /\ RepliesCarried[c] # <<>>
             /\ RepliesCarried'[c] = Tail(RepliesCarried[c])
             /\ RepliesArrived'[c] = Head(RepliesCarried[c])
  <2>1. c \in Keyed /\ c \in Cmd /\ c \notin NullCmd /\ Completes(message, c)
    BY DEF Keyed
  <2>2. Received[c] = Found(c)
    BY <2>1 DEF Received
  <2>3. inbox'[c] = <<Placed(Received[c], message[c])>>
    <3>1. inbox'[c] = <<Merged(c, message[c])>> \o <<>>
      BY <2>1 DEF ReceiveReply
    <3> QED
      BY <2>2, <3>1 DEF Merged
  <2>4. Placed(Received[c], message[c]) = message[c].whole
    BY <1>1, <2>1, Completed
  <2>5. RepliesArrived'[c] = message[c].whole
    BY <2>1, <2>3, <2>4 DEF RepliesArrived
  <2>6. /\ OnTheirWay(c, message, replies) # <<>>
        /\ Head(OnTheirWay(c, message, replies)) = message[c].whole
        /\ Tail(OnTheirWay(c, message, replies)) = Given(replies, c)
    BY <1>1, <2>1, Way
  <2>7. OnTheirWay(c, <<>>, replies) = Given(replies, c)
    BY <1>1, <2>1, WayOfQueue
  <2> QED
    BY <1>3, <2>1, <2>5, <2>6, <2>7
<1>6. ASSUME NEW c \in Keyed \ C
      PROVE  RepliesCarried'[c] = RepliesCarried[c] /\ RepliesArrived'[c] = RepliesArrived[c]
  <2>1. ~ Completes(message, c) /\ c \in Cmd
    BY DEF Keyed
  <2>2. inbox'[c] = inbox[c]
    BY <2>1 DEF ReceiveReply
  <2>3. RepliesArrived'[c] = RepliesArrived[c]
    BY <2>2 DEF RepliesArrived
  <2> QED
    BY <1>1, <1>3, <2>1, <2>3, Way
<1>7. /\ RepliesCarried' = [c \in Keyed |-> RepliesCarried'[c]]
      /\ RepliesArrived' = [c \in Keyed |-> RepliesArrived'[c]]
  BY DEF RepliesCarried, RepliesArrived
<1> HIDE DEF C
<1>8. Replies!Arrive(C)
  <2>1. RepliesCarried' = [c \in Keyed |-> IF c \in C THEN Tail(RepliesCarried[c]) ELSE RepliesCarried[c]]
    BY <1>5, <1>6, <1>7
  <2>2. RepliesArrived' = [c \in Keyed |-> IF c \in C THEN Head(RepliesCarried[c]) ELSE RepliesArrived[c]]
    BY <1>5, <1>6, <1>7
  <2> QED
    BY <1>2, <1>5, <2>1, <2>2 DEF Replies!Arrive
<1> QED
  BY <1>4, <1>8 DEF RepliesStep, Replies!Next

\* What a lost message leaves of the replies on their way.
LEMMA RepliesLost ==
    ASSUME SplitAssumption, IInv, SendFails \/ ReceiveFails \/ Cleanup
    PROVE  RepliesStep
<1>1. Linked' = FALSE /\ pc' # "answered"
  BY DEF SendFails, ReceiveFails, Cleanup, Linked
<1>2. RepliesArrived' \in {RepliesArrived, [c \in Keyed |-> Nothing]}
  <2>1. CASE SendFails \/ ReceiveFails
    <3>1. UNCHANGED inbox
      BY <2>1 DEF SendFails, TakeBuffer, ReceiveFails, receiveVars
    <3> QED
      BY <3>1 DEF RepliesArrived
  <2>2. CASE Cleanup
    BY <2>2 DEF Cleanup, RepliesArrived, Empty, Keyed
  <2> QED
    BY <2>1, <2>2
<1>3. ASSUME NEW c \in Keyed
      PROVE  RepliesCarried'[c] \in Replies!Suffixes(RepliesCarried[c])
  <2>1. RepliesCarried[c] \in Seq(SomeData) /\ QueueInv(replies) /\ c \in Cmd
    BY RepliesOf DEF IInv, ReplyInv, Keyed
  <2>2. RepliesCarried'[c] = OnTheirWay(c, <<>>, replies')
    BY <1>1 DEF RepliesCarried
  <2>3. CASE SendFails \/ ReceiveFails
    <3>1. replies' = replies
      BY <2>3 DEF SendFails, TakeBuffer, ReceiveFails, simulatorVars
    <3>2. RepliesCarried'[c] = Given(replies, c) /\ (pc = "answered" => ChunksInv(message))
      BY <2>1, <2>2, <3>1, WayOfQueue DEF IInv, ReplyInv
    <3>3. \/ RepliesCarried'[c] = RepliesCarried[c]
          \/ RepliesCarried[c] # <<>> /\ RepliesCarried'[c] = Tail(RepliesCarried[c])
      BY <2>1, <3>2, Way, RepliesOf
    <3> QED
      BY <2>1, <3>3, Losses
  <2>4. CASE Cleanup
    <3>1. replies' = Empty
      BY <2>4 DEF Cleanup
    <3>2. RepliesCarried'[c] = <<>>
      BY <2>1, <2>2, <3>1, WayOfNothing
    <3> QED
      BY <2>1, <3>2, Losses
  <2> QED
    BY <2>3, <2>4
<1>4. Replies!Break
  BY <1>1, <1>2, <1>3 DEF Replies!Break
<1> QED
  BY <1>4 DEF RepliesStep, Replies!Next

LEMMA RepliesMap ==
    ASSUME SplitAssumption, IInv, [Next]_vars
    PROVE  RepliesStep
<1>1. CASE \E size \in Sizes, split \in Splits : Answer(size, split)
  BY <1>1, RepliesAnswer
<1>2. CASE ReceiveReply
  BY <1>2, RepliesReceive
<1>3. CASE SendFails \/ ReceiveFails \/ Cleanup
  BY <1>3, RepliesLost
<1>4. CASE Connect
  <2>1. pc' = "pause" /\ pc = "unlinked" /\ UNCHANGED <<replies, inbox>>
    BY <1>4 DEF Connect, receiveVars, simulatorVars
  <2>2. Linked' = TRUE
    BY <2>1 DEF Linked
  <2>3. RepliesCarried' = RepliesCarried /\ RepliesArrived' = RepliesArrived
    BY <2>1 DEF RepliesCarried, RepliesArrived
  <2>4. Replies!Link
    BY <2>2, <2>3 DEF Replies!Link
  <2> QED
    BY <2>4 DEF RepliesStep, Replies!Next
<1>5. CASE \/ Tick \/ StartPass \/ SendMessage \/ UNCHANGED vars
           \/ \E c \in Cmd, size \in Sizes, split \in Splits : ExecSplit(c, size, split)
  <2>1. /\ UNCHANGED <<replies, inbox>>
        /\ \/ UNCHANGED <<pc, message>>
           \/ <<pc, pc'>> \in {<<"pause", "held">>, <<"held", "reply">>}
    BY <1>5 DEF Tick, StartPass, SendMessage, TakeBuffer, ExecSplit, receiveVars, simulatorVars, vars
  <2>2. Linked' = Linked
    BY <2>1 DEF Linked
  <2>3. RepliesCarried' = RepliesCarried /\ RepliesArrived' = RepliesArrived
    BY <2>1 DEF RepliesCarried, RepliesArrived
  <2> QED
    BY <2>2, <2>3 DEF RepliesStep
<1> QED
  BY <1>1, <1>2, <1>3, <1>4, <1>5 DEF Next, CommThread

-----------------------------------------------------------------------------
LEMMA TransferInvariance == ASSUME SplitAssumption PROVE Spec => []IInv
  BY TransferInit, TransferStep, PTL DEF Spec

\* The data of every command that the simulator executes are those of a call, whole, in the
\* order of the calls, and only a lost connection loses any: but for the promise that they
\* arrive, CommandsArriveWhole (_splitCommandsToSend and its chunks).
THEOREM CommandsWhole == Spec => Requests!Safety
<1>1. Init => Requests!Init
  <2> SUFFICES ASSUME Init PROVE Requests!Init
    OBVIOUS
  <2>1. Linked = FALSE /\ executed = [c \in Cmd |-> Nothing]
    BY DEF Init, Linked
  <2>2. pc = "unlinked" /\ toSend = Empty
    BY DEF Init
  <2>3. \A c \in Cmd : OnTheirWay(c, <<>>, Empty) = <<>>
    BY WayOfNothing
  <2>4. CommandsCarried = [c \in Cmd |-> <<>>]
    BY <2>2, <2>3 DEF CommandsCarried
  <2> QED
    BY <2>1, <2>4 DEF Requests!Init
<1>2. IInv /\ [Next]_vars => [Requests!Next]_<<Linked, CommandsCarried, executed>>
  BY CommandsMap, SplitAssumption DEF CommandsStep
<1>3. Spec => []IInv
  BY TransferInvariance, SplitAssumption
<1> QED
  BY <1>1, <1>2, <1>3, PTL DEF Spec, Requests!Safety

\* The inbox never holds, for a command that it is looked up by, anything but the newest of
\* the complete replies that the simulator gave: RepliesArriveWhole, but for the promise
\* that they arrive (_splitCommandsReceived, and how it goes over into _messageReceived).
THEOREM RepliesWhole == Spec => Replies!Safety
<1>1. Init => Replies!Init
  <2> SUFFICES ASSUME Init PROVE Replies!Init
    OBVIOUS
  <2>1. Linked = FALSE
    BY DEF Init, Linked
  <2>2. RepliesArrived = [c \in Keyed |-> Nothing]
    BY DEF Init, RepliesArrived, Empty, Keyed
  <2>3. pc = "unlinked" /\ replies = Empty
    BY DEF Init
  <2>4. \A c \in Keyed : OnTheirWay(c, <<>>, Empty) = <<>>
    BY WayOfNothing DEF Keyed
  <2>5. RepliesCarried = [c \in Keyed |-> <<>>]
    BY <2>3, <2>4 DEF RepliesCarried
  <2> QED
    BY <2>1, <2>2, <2>5 DEF Replies!Init
<1>2. IInv /\ [Next]_vars => [Replies!Next]_<<Linked, RepliesCarried, RepliesArrived>>
  BY RepliesMap, SplitAssumption DEF RepliesStep
<1>3. Spec => []IInv
  BY TransferInvariance, SplitAssumption
<1> QED
  BY <1>1, <1>2, <1>3, PTL DEF Spec, Replies!Safety
=============================================================================
