--------------------------- MODULE ApiInboxProofs ---------------------------
(***************************************************************************)
(* Proofs about ApiInbox: for any programs of calls that pass each command *)
(* the argument it is identified by, and any number of messages.           *)
(*                                                                         *)
(* The invariant follows a command: it is in the outbox once (Single) and  *)
(* until it is answered (AskedInv), its reply is in the inbox under the    *)
(* same data, once and the last one (HeldIsLatest).  A message is placed   *)
(* reply by reply, so what it does to the inbox is an induction over its   *)
(* replies (BuffersInduction, MergedFacts).  A file that is loaded is      *)
(* followed through the call (TodoInv, Sending, FileThere) and through the *)
(* outbox (LoadInv), past the one command that erases it (ErasedOnce).     *)
(***************************************************************************)
EXTENDS ApiInbox, SequenceTheorems, FiniteSetTheorems, TLAPS

-----------------------------------------------------------------------------
(* The inductive invariant *)

\* A buffer has one entry of a command that is replaced.
Single(buffer) ==
    \A i, j \in DOMAIN buffer :
        /\ Replaced(buffer[i].cmd)
        /\ buffer[i].cmd = buffer[j].cmd
        /\ buffer[i].key = buffer[j].key
        => i = j

\* simxReadStringStream takes its data at once.
StreamPlace ==
    /\ pc = "fetch" => ~(step.f.taken = "locked" /\ step.mode = "blocking")
    /\ pc = "take" => step.f.taken # "locked"

\* The command of a blocking call is in the outbox until it is answered.
AskedInv ==
    pc = "fetch" /\ step.mode = "blocking" /\ now = asked /\ step.f.queue # "keep" =>
        \E i \in DOMAIN outbox : outbox[i] = [cmd |-> step.f.cmd, key |-> step.f.key, mode |-> "blocking"]

\* A reply with data of a stream has all that is owed of it; where there is none, nothing is.
StreamEntry(entry, key) == entry.cmd = "read_string_stream" /\ entry.key = key
Whole(buffer, owes) ==
    \A key \in Stream :
        /\ \A i \in DOMAIN buffer : StreamEntry(buffer[i], key) => owes[key] = buffer[i].items
        /\ (\A i \in DOMAIN buffer : ~StreamEntry(buffer[i], key)) => owes[key] = <<>>

\* The simulator never keeps a command to erase a temporary file.
ErasesTmp(c) == c.cmd = "erase_file" /\ c.key \in TmpKey
ErasedOnce ==
    /\ \A i \in DOMAIN outbox : ErasesTmp(outbox[i]) => outbox[i].mode # "streaming"
    /\ \A c \in stored : ~ErasesTmp(c)

\* A temporary file waits for the commands in the outbox that load it.
LoadsTmp(c) == c.cmd \in Loads /\ c.key \in TmpKey
LoadInv ==
    \A i \in DOMAIN outbox : LoadsTmp(outbox[i]) =>
        /\ outbox[i].key \in files
        /\ \A j \in 1 .. i - 1 :
               ~(outbox[j].cmd = "erase_file" /\ outbox[j].key = outbox[i].key)

\* The call before the transfer of the file has returned, and after.
Sending(key) ==
    /\ pc = "fetch" /\ now = asked =>
           /\ outbox # <<>>
           /\ outbox[Len(outbox)] = [cmd |-> "transfer_file", key |-> key, mode |-> "blocking"]
    /\ pc = "fetch" /\ now > asked =>
           /\ outbox = <<>>
           /\ LET i == CommandPointer(inbox, "transfer_file", key)
              IN i # 0 /\ inbox[i].ok => key \in files
    /\ pc = "take" /\ ~failed => outbox = <<>> /\ key \in files
FileThere(key) == pc = "next" => outbox = <<>> /\ key \in files

\* A call that is yet to load a temporary file is waiting for its transfer, or the file is
\* there.
LoadsNothing(steps) == \A i \in DOMAIN steps : steps[i].mode = "remove" \/ ~LoadsTmp(steps[i].f)
PathOf(steps) == steps[Len(steps)].f.removes[2][1]
TodoInv ==
    \/ LoadsNothing(todo)
    \/ \E load \in Loads, name \in TmpFiles, mode \in Mode \ {"remove"} :
           LET call == LoadFromClient(load, PathOf(todo), name, mode)
           IN \/ todo = call /\ Sending(<<name>>)
              \/ todo = Tail(call) /\ FileThere(<<name>>)

IInv ==
    /\ TypeOK
    /\ Single(outbox)
    /\ HeldIsLatest
    /\ StreamPlace
    /\ AskedInv
    /\ AnswerIsFound
    /\ Whole(inbox, owed)
    /\ ErasedOnce
    /\ LoadInv
    /\ TodoInv
    /\ LoadsWhatWasSent

-----------------------------------------------------------------------------
(* Sequences and sets *)

\* Induction and recursion over the natural numbers, where the map plays no part.
Numbers == INSTANCE GridWorldProofs WITH MapSize <- 1, Wall <- {}

LEMMA LeastExists ==
    ASSUME NEW S \in SUBSET Nat, S # {}
    PROVE  \E x \in S : \A y \in S : x <= y
<1> SUFFICES ASSUME \A x \in S : \E y \in S : y < x PROVE FALSE
  OBVIOUS
<1> DEFINE Below == {n \in Nat : \A m \in 0 .. n : m \notin S}
<1>1. 0 \in Below
  OBVIOUS
<1>2. ASSUME NEW n \in Nat, n \in Below PROVE n + 1 \in Below
  <2>1. n + 1 \notin S
    <3> SUFFICES ASSUME n + 1 \in S PROVE FALSE
      OBVIOUS
    <3>1. PICK y \in S : y < n + 1
      OBVIOUS
    <3>2. y \in 0 .. n
      BY <3>1
    <3> QED
      BY <1>2, <3>2
  <2>2. ASSUME NEW m \in 0 .. n + 1 PROVE m \notin S
    <3>1. m \in 0 .. n \/ m = n + 1
      OBVIOUS
    <3> QED
      BY <1>2, <2>1, <3>1
  <2> QED
    BY <2>2
<1> HIDE DEF Below
<1>3. Nat \subseteq Below
  BY <1>1, <1>2, Numbers!Induction
<1>4. PICK x \in S : TRUE
  OBVIOUS
<1>5. x \in Below /\ x \in 0 .. x
  BY <1>3
<1> QED
  BY <1>5 DEF Below

LEMMA MinFacts ==
    ASSUME NEW S \in SUBSET Nat, S # {}
    PROVE  Min(S) \in S /\ \A y \in S : Min(S) <= y
  BY LeastExists DEF Min

\* _getCommandPointer_* finds the first entry that matches.
Matches(entry, cmd, key) == entry.cmd = cmd /\ IsPrefix(key, entry.key)

LEMMA Pointer ==
    ASSUME NEW buffer, NEW n \in Nat, Len(buffer) = n, NEW cmd, NEW key,
           NEW i, i = CommandPointer(buffer, cmd, key)
    PROVE  /\ i \in 0 .. n
           /\ i # 0 => Matches(buffer[i], cmd, key) /\ \A j \in 1 .. i - 1 : ~Matches(buffer[j], cmd, key)
           /\ i = 0 => \A j \in 1 .. n : ~Matches(buffer[j], cmd, key)
<1> DEFINE I == {j \in 1 .. n : Matches(buffer[j], cmd, key)}
<1>1. i = IF I # {} THEN Min(I) ELSE 0
  BY DEF CommandPointer, SelectInSeq, Matches
<1> HIDE DEF Matches
<1>2. I \in SUBSET Nat
  OBVIOUS
<1>3. CASE I = {}
  BY <1>1, <1>3
<1>4. CASE I # {}
  <2>1. i \in I /\ \A j \in I : i <= j
    BY <1>1, <1>2, <1>4, MinFacts
  <2>2. ASSUME NEW j \in 1 .. i - 1 PROVE ~Matches(buffer[j], cmd, key)
    BY <2>1
  <2> QED
    BY <2>1, <2>2
<1> QED
  BY <1>3, <1>4

\* The reply that a new one replaces, likewise.
SameReply(buffer, reply) == SelectInSeq(buffer, LAMBDA old : Same(reply, old))

LEMMA SamePlace ==
    ASSUME NEW buffer, NEW n \in Nat, Len(buffer) = n, NEW reply,
           NEW i, i = SameReply(buffer, reply)
    PROVE  /\ i \in 0 .. n
           /\ i # 0 => Same(reply, buffer[i])
           /\ i = 0 => \A j \in 1 .. n : ~Same(reply, buffer[j])
<1> DEFINE I == {j \in 1 .. n : Same(reply, buffer[j])}
<1>1. i = IF I # {} THEN Min(I) ELSE 0
  BY DEF SameReply, SelectInSeq
<1>2. I \in SUBSET Nat
  OBVIOUS
<1>3. I # {} => Min(I) \in I
  BY <1>2, MinFacts
<1> QED
  BY <1>1, <1>3

LEMMA RemoveAtFacts ==
    ASSUME NEW D, NEW s \in Seq(D), NEW i \in 1 .. Len(s)
    PROVE  /\ RemoveAt(s, i) \in Seq(D)
           /\ Len(RemoveAt(s, i)) = Len(s) - 1
           /\ \A j \in 1 .. Len(s) - 1 :
                  RemoveAt(s, i)[j] = IF j < i THEN s[j] ELSE s[j + 1]
<1> DEFINE a == SubSeq(s, 1, i - 1)
           b == SubSeq(s, i + 1, Len(s))
<1>1. a \in Seq(D) /\ Len(a) = i - 1 /\ \A j \in 1 .. i - 1 : a[j] = s[j]
  OBVIOUS
<1>2. b \in Seq(D) /\ Len(b) = Len(s) - i /\ \A j \in 1 .. Len(s) - i : b[j] = s[i + j]
  OBVIOUS
<1> HIDE DEF a, b
<1>3. /\ a \o b \in Seq(D) /\ Len(a \o b) = Len(s) - 1
      /\ \A j \in 1 .. Len(s) - 1 : (a \o b)[j] = IF j <= i - 1 THEN a[j] ELSE b[j - (i - 1)]
  <2>1. a \o b \in Seq(D)
    BY <1>1, <1>2, ConcatProperties
  <2>2. Len(a \o b) = Len(a) + Len(b)
    BY <1>1, <1>2, ConcatProperties
  <2>3. ASSUME NEW j \in 1 .. Len(s) - 1
        PROVE  (a \o b)[j] = IF j <= i - 1 THEN a[j] ELSE b[j - (i - 1)]
    <3>1. j \in 1 .. Len(a) + Len(b)
      BY <1>1, <1>2
    <3> QED
      BY <1>1, <1>2, <3>1, ConcatProperties
  <2>4. Len(a) + Len(b) = Len(s) - 1
    BY <1>1, <1>2
  <2> QED
    BY <2>1, <2>2, <2>3, <2>4
<1>4. ASSUME NEW j \in 1 .. Len(s) - 1 PROVE (a \o b)[j] = IF j < i THEN s[j] ELSE s[j + 1]
  <2>1. CASE j < i
    BY <1>1, <1>3, <2>1
  <2>2. CASE ~(j < i)
    <3>1. j - (i - 1) \in 1 .. Len(s) - i /\ i + (j - (i - 1)) = j + 1
      BY <2>2
    <3> QED
      BY <1>2, <1>3, <2>2, <3>1
  <2> QED
    BY <2>1, <2>2
<1> QED
  BY <1>3, <1>4 DEF RemoveAt, a, b

\* What is left keeps its order, and is all but the entry removed.
LEMMA RemovedFrom ==
    ASSUME NEW D, NEW s \in Seq(D), NEW i \in 1 .. Len(s), NEW t, t = RemoveAt(s, i)
    PROVE  /\ t \in Seq(D)
           /\ \A j \in DOMAIN t : \E k \in DOMAIN s : k # i /\ t[j] = s[k]
           /\ \A k \in DOMAIN s : k # i => \E j \in DOMAIN t : t[j] = s[k]
<1>1. /\ t \in Seq(D) /\ Len(t) = Len(s) - 1
      /\ \A j \in 1 .. Len(s) - 1 : t[j] = IF j < i THEN s[j] ELSE s[j + 1]
  BY RemoveAtFacts
<1>2. ASSUME NEW j \in DOMAIN t PROVE \E k \in DOMAIN s : k # i /\ t[j] = s[k]
  <2>1. j \in 1 .. Len(s) - 1
    BY <1>1
  <2>2. CASE j < i
    BY <1>1, <2>1, <2>2
  <2>3. CASE ~(j < i)
    <3>1. j + 1 \in DOMAIN s /\ j + 1 # i
      BY <2>1, <2>3
    <3> QED
      BY <1>1, <2>1, <2>3, <3>1
  <2> QED
    BY <2>2, <2>3
<1>3. ASSUME NEW k \in DOMAIN s, k # i PROVE \E j \in DOMAIN t : t[j] = s[k]
  <2>1. CASE k < i
    BY <1>1, <2>1
  <2>2. CASE k > i
    <3>1. k - 1 \in 1 .. Len(s) - 1 /\ ~(k - 1 < i) /\ (k - 1) + 1 = k
      BY <2>2
    <3> QED
      BY <1>1, <3>1
  <2> QED
    BY <1>3, <2>1, <2>2
<1> QED
  BY <1>1, <1>2, <1>3

\* A buffer keeps its one entry of each command when an entry is removed.
LEMMA SingleRemoved ==
    ASSUME NEW D, NEW s \in Seq(D), Single(s), NEW i \in 1 .. Len(s)
    PROVE  Single(RemoveAt(s, i))
<1> DEFINE t == RemoveAt(s, i)
           At(j) == IF j < i THEN j ELSE j + 1
<1>1. /\ t \in Seq(D) /\ Len(t) = Len(s) - 1
      /\ \A j \in 1 .. Len(s) - 1 : t[j] = IF j < i THEN s[j] ELSE s[j + 1]
  BY RemoveAtFacts
<1> HIDE DEF t
<1>2. \A j \in DOMAIN t : At(j) \in DOMAIN s /\ t[j] = s[At(j)]
  BY <1>1
<1>3. \A j, k \in DOMAIN t : At(j) = At(k) => j = k
  BY <1>1
<1> HIDE DEF At
<1>4. Single(t)
  BY <1>2, <1>3 DEF Single
<1> QED
  BY <1>4 DEF t

LEMMA PrefixFacts ==
    ASSUME NEW k \in Key, NEW l \in Key
    PROVE  /\ IsPrefix(k, k)
           /\ IsPrefix(k, l) => Len(k) <= Len(l)
           /\ IsPrefix(k, l) /\ Len(k) >= Len(l) => k = l
<1>1. SubSeq(k, 1, Len(k)) = k /\ SubSeq(l, 1, Len(l)) = l
  BY DEF Key
<1>2. Len(k) \in Nat /\ Len(l) \in Nat
  BY DEF Key
<1> QED
  BY <1>1, <1>2 DEF IsPrefix

LEMMA SetToSeqFacts ==
    ASSUME NEW S, IsFiniteSet(S)
    PROVE  /\ SetToSeq(S) \in Seq(S)
           /\ \A c \in S : \E i \in DOMAIN SetToSeq(S) : SetToSeq(S)[i] = c
           /\ \A i, j \in DOMAIN SetToSeq(S) : SetToSeq(S)[i] = SetToSeq(S)[j] => i = j
<1> DEFINE n == Cardinality(S)
           P(f) == f \in [1 .. n -> S] /\ IsInjective(f)
<1>1. n \in Nat /\ ExistsBijection(1 .. n, S)
  BY FS_CardinalityType
<1>2. PICK f : f \in Bijection(1 .. n, S)
  BY <1>1 DEF ExistsBijection
<1>3. P(f)
  BY <1>2 DEF Bijection, Injection, IsInjective
<1>4. P(SetToSeq(S))
  BY <1>3 DEF SetToSeq
<1>5. SetToSeq(S) \in Injection(1 .. n, S)
  BY <1>4 DEF Injection
<1>6. IsFiniteSet(1 .. n) /\ Cardinality(1 .. n) = n
  BY <1>1, FS_Interval
<1>7. SetToSeq(S) \in Surjection(1 .. n, S)
  BY <1>5, <1>6, FS_Injection
<1> QED
  BY <1>1, <1>4, <1>7 DEF IsInjective, Surjection

-----------------------------------------------------------------------------
(* Commands, steps and calls *)

LEMMA SizeFacts ==
    /\ \A cmd : DataSize(cmd) \in Nat /\ KeySize(cmd) \in Nat
    /\ \A cmd : cmd # "get_ui_event_button" => KeySize(cmd) = DataSize(cmd)
    /\ KeySize("get_ui_event_button") = 1 /\ DataSize("get_ui_event_button") = 2
<1>1. "get_ui_event_button" \in Cmd8Bytes /\ "get_ui_event_button" \notin CmdNull
  BY DEF Cmd8Bytes, CmdNull
<1> QED
  BY <1>1 DEF DataSize, KeySize

LEMMA ReplacedFacts ==
    /\ \A cmd : Replaced(cmd) => cmd \notin CmdNull /\ cmd # "get_ui_event_button"
    /\ \A cmd \in Loads \cup {"transfer_file", "erase_file", "read_string_stream"} :
           Replaced(cmd) /\ DataSize(cmd) = 1 /\ KeySize(cmd) = 1
<1>1. \A cmd \in Loads \cup {"transfer_file", "erase_file", "read_string_stream"} :
          /\ cmd \notin CmdNull \cup Cmd8Bytes \cup Cmd4Bytes2Strings
          /\ Replaced(cmd) /\ cmd # "get_ui_event_button"
  BY DEF Loads, CmdNull, Cmd8Bytes, Cmd4Bytes2Strings, Replaced
<1> QED
  BY <1>1 DEF Replaced, DataSize, KeySize

LEMMA StepType ==
    ASSUME TypeOK, pc # "idle"
    PROVE  /\ step \in ProgramStep /\ step.mode \in Mode /\ WellFormed(step.f)
           /\ todo # <<>> /\ Tail(todo) \in Seq(ProgramStep)
<1>1. todo \in Seq(ProgramStep) /\ todo # <<>>
  BY DEF TypeOK
<1>2. step \in ProgramStep /\ Tail(todo) \in Seq(ProgramStep)
  BY <1>1 DEF step
<1> QED
  BY <1>1, <1>2, InboxAssumption

\* A call that has failed goes on with a later step, or ends.
LEMMA LeftType ==
    ASSUME TypeOK, pc # "idle", NEW failure
    PROVE  Left(failure) \in Seq(ProgramStep)
<1> DEFINE rest == Tail(todo)
           kept == {i \in 1 .. Len(rest) + 1 : i <= Len(rest) => ~rest[i].unlessFailed}
<1>1. rest \in Seq(ProgramStep)
  BY StepType
<1> HIDE DEF rest
<1>2. Len(rest) + 1 \in kept /\ kept \in SUBSET Nat
  BY <1>1
<1>3. Min(kept) \in 1 .. Len(rest) + 1
  BY <1>2, MinFacts
<1>4. SubSeq(rest, Min(kept), Len(rest)) \in Seq(ProgramStep)
  <2>1. \A i \in Min(kept) .. Len(rest) : rest[i] \in ProgramStep
    BY <1>1, <1>3
  <2> QED
    BY <1>1, <1>3, <2>1, SubSeqProperties
<1> QED
  BY <1>1, <1>4 DEF Left, rest

LEMMA AdvanceType ==
    ASSUME TypeOK, pc # "idle", NEW failure \in BOOLEAN, Advance(failure)
    PROVE  /\ todo' \in Seq(ProgramStep)
           /\ pc' \in {"idle", "next"} /\ (pc' = "idle" <=> todo' = <<>>)
           /\ asked' = 0 /\ failed' \in BOOLEAN
  BY LeftType DEF Advance

LEMMA ReplyGrows == \A n \in Nat : \A r \in Reply(n) : r \in Reply(n + 1)
<1> SUFFICES ASSUME NEW n \in Nat, NEW r \in Reply(n) PROVE r \in Reply(n + 1)
  OBVIOUS
<1>1. \A m \in 1 .. n : m \in 1 .. n + 1
  OBVIOUS
<1> QED
  BY <1>1 DEF Reply

\* The outbox with a command in it: where it stands, and what else is there.
Enters(q, f, mode) ==
    LET entry == [cmd |-> f.cmd, key |-> f.key, mode |-> mode]
    IN /\ \A i \in DOMAIN q : q[i] = entry \/ \E k \in DOMAIN outbox : q[i] = outbox[k]
       /\ f.queue # "keep" => \E i \in DOMAIN q : q[i] = entry
       /\ f.queue = "move" => q # <<>> /\ q[Len(q)] = entry
       /\ Single(outbox) => Single(q)
       /\ \A i \in DOMAIN q :
              \/ q[i].cmd = f.cmd /\ q[i].key = f.key
              \/ \E k \in DOMAIN outbox :
                    /\ outbox[k] = q[i]
                    /\ \A j \in 1 .. i - 1 : \E l \in 1 .. k - 1 :
                          outbox[l].cmd = q[j].cmd /\ outbox[l].key = q[j].key

LEMMA QueuedFacts ==
    ASSUME TypeOK, NEW f, WellFormed(f), NEW mode \in Mode \ {"buffer", "remove"},
           NEW q, q = Queued(f, mode)
    PROVE  q \in Seq(QueuedCommand) /\ Enters(q, f, mode)
<1> DEFINE entry == [cmd |-> f.cmd, key |-> f.key, mode |-> mode]
           i == CommandPointer(outbox, f.cmd, f.key)
<1>0. /\ outbox \in Seq(QueuedCommand) /\ entry \in QueuedCommand
      /\ Len(outbox) \in Nat /\ DOMAIN outbox = 1 .. Len(outbox)
  BY DEF TypeOK, QueuedCommand, WellFormed
<1>1. /\ i \in 0 .. Len(outbox)
      /\ i # 0 => Matches(outbox[i], f.cmd, f.key)
      /\ i = 0 => \A j \in 1 .. Len(outbox) : ~Matches(outbox[j], f.cmd, f.key)
  BY <1>0, Pointer
<1>2. \A j \in DOMAIN outbox :
          Matches(outbox[j], f.cmd, f.key) <=> outbox[j].cmd = f.cmd /\ outbox[j].key = f.key
  <2> SUFFICES ASSUME NEW j \in DOMAIN outbox, outbox[j].cmd = f.cmd
               PROVE  IsPrefix(f.key, outbox[j].key) <=> outbox[j].key = f.key
    BY DEF Matches
  <2>1. outbox[j].key \in Key /\ f.key \in Key /\ Len(outbox[j].key) = Len(f.key)
    <3>1. outbox[j] \in QueuedCommand
      BY <1>0
    <3>2. outbox[j].key \in Key
      BY <3>1 DEF QueuedCommand
    <3> QED
      BY <3>2 DEF TypeOK, WellFormed
  <2>2. Len(f.key) \in Nat
    BY <2>1 DEF Key
  <2> QED
    BY <2>1, <2>2, PrefixFacts
<1>3. /\ i \in 0 .. Len(outbox)
      /\ i # 0 => outbox[i].cmd = f.cmd /\ outbox[i].key = f.key
      /\ i = 0 => \A j \in 1 .. Len(outbox) : ~(outbox[j].cmd = f.cmd /\ outbox[j].key = f.key)
  BY <1>0, <1>1, <1>2
<1> HIDE DEF i
<1>4. ASSUME NEW s \in Seq(QueuedCommand), q = Append(s, entry),
             NEW at, \A n \in DOMAIN s : at[n] \in DOMAIN outbox /\ s[n] = outbox[at[n]],
             \A n, m \in DOMAIN s : m < n => at[m] < at[n],
             Single(outbox) /\ Replaced(f.cmd) =>
                 \A n \in DOMAIN s : ~(s[n].cmd = f.cmd /\ s[n].key = f.key)
      PROVE  q \in Seq(QueuedCommand) /\ Enters(q, f, mode)
  <2>1. /\ q \in Seq(QueuedCommand) /\ Len(q) = Len(s) + 1 /\ q[Len(s) + 1] = entry
        /\ \A n \in 1 .. Len(s) : q[n] = s[n]
        /\ Len(s) \in Nat /\ DOMAIN s = 1 .. Len(s) /\ DOMAIN q = 1 .. Len(s) + 1
    BY <1>0, <1>4
  <2>2. \A n \in DOMAIN q : n = Len(s) + 1 \/ n \in DOMAIN s
    BY <2>1
  <2>3. \A n \in DOMAIN s : q[n] = outbox[at[n]] /\ at[n] \in DOMAIN outbox
    BY <1>4, <2>1
  <2>4. Single(outbox) => Single(q)
    <3> SUFFICES ASSUME Single(outbox), NEW n \in DOMAIN q, NEW m \in DOMAIN q,
                        Replaced(q[n].cmd), q[n].cmd = q[m].cmd, q[n].key = q[m].key
                 PROVE  n = m
      BY DEF Single
    <3>1. CASE n \in DOMAIN s /\ m \in DOMAIN s
      <4>1. at[n] = at[m]
        BY <2>3, <3>1 DEF Single
      <4>2. ~(n < m) /\ ~(m < n)
        BY <1>4, <3>1, <4>1, <1>0, <2>3
      <4> QED
        BY <2>1, <4>2
    <3>2. CASE n = Len(s) + 1 /\ m \in DOMAIN s
      BY <1>4, <2>1, <3>2
    <3>3. CASE m = Len(s) + 1 /\ n \in DOMAIN s
      BY <1>4, <2>1, <3>3
    <3> QED
      BY <2>2, <3>1, <3>2, <3>3
  <2>5. ASSUME NEW n \in DOMAIN q
        PROVE  \/ q[n].cmd = f.cmd /\ q[n].key = f.key
               \/ \E k \in DOMAIN outbox :
                     /\ outbox[k] = q[n]
                     /\ \A j \in 1 .. n - 1 : \E l \in 1 .. k - 1 :
                           outbox[l].cmd = q[j].cmd /\ outbox[l].key = q[j].key
    <3>1. CASE n = Len(s) + 1
      BY <2>1, <3>1
    <3>2. CASE n \in DOMAIN s
      <4>1. ASSUME NEW j \in 1 .. n - 1
            PROVE  at[j] \in 1 .. at[n] - 1 /\ outbox[at[j]] = q[j]
        <5>1. j \in DOMAIN s /\ j < n
          BY <2>1, <3>2
        <5> QED
          BY <1>0, <1>4, <2>3, <3>2, <5>1
      <4>2. at[n] \in DOMAIN outbox /\ outbox[at[n]] = q[n]
        BY <2>3, <3>2
      <4> QED
        BY <4>1, <4>2
    <3> QED
      BY <2>2, <3>1, <3>2
  <2>6. q[Len(q)] = entry /\ q # <<>> /\ Len(q) \in DOMAIN q
    BY <2>1
  <2> QED
    BY <2>1, <2>2, <2>3, <2>4, <2>5, <2>6 DEF Enters
<1>5. CASE i = 0 \/ f.queue = "append"
  <2>1. q = Append(outbox, entry)
    BY <1>5 DEF Queued, i
  <2>2. Replaced(f.cmd) => i = 0
    BY <1>5 DEF WellFormed
  <2>3. Replaced(f.cmd) => \A n \in DOMAIN outbox : ~(outbox[n].cmd = f.cmd /\ outbox[n].key = f.key)
    BY <1>0, <1>3, <2>2
  <2> DEFINE at == [n \in DOMAIN outbox |-> n]
  <2>4. /\ \A n \in DOMAIN outbox : at[n] \in DOMAIN outbox /\ outbox[n] = outbox[at[n]]
        /\ \A n, m \in DOMAIN outbox : m < n => at[m] < at[n]
    OBVIOUS
  <2> HIDE DEF at
  <2> QED
    BY <1>0, <1>4, <2>1, <2>3, <2>4
<1>6. CASE ~(i = 0 \/ f.queue = "append") /\ f.queue = "keep"
  <2>1. q = outbox
    BY <1>6 DEF Queued, i
  <2>2. ASSUME NEW n \in DOMAIN q
        PROVE  \E k \in DOMAIN outbox :
                     /\ outbox[k] = q[n]
                     /\ \A j \in 1 .. n - 1 : \E l \in 1 .. k - 1 :
                           outbox[l].cmd = q[j].cmd /\ outbox[l].key = q[j].key
    BY <2>1
  <2> QED
    BY <1>0, <1>6, <2>1, <2>2 DEF Enters
<1>7. CASE ~(i = 0 \/ f.queue = "append") /\ f.queue = "update"
  <2>1. q = [outbox EXCEPT ![i].mode = mode]
    BY <1>7 DEF Queued, i
  <2>2. i \in DOMAIN outbox /\ outbox[i] \in QueuedCommand
    BY <1>0, <1>3, <1>7
  <2>3. q[i] = entry
    BY <1>3, <1>7, <2>1, <2>2 DEF QueuedCommand
  <2>4. DOMAIN q = DOMAIN outbox /\ \A n \in DOMAIN outbox : n # i => q[n] = outbox[n]
    BY <1>0, <2>1
  <2>5. q \in Seq(QueuedCommand)
    BY <1>0, <2>2, <2>1, <2>3
  <2>6. \A n \in DOMAIN q : q[n].cmd = outbox[n].cmd /\ q[n].key = outbox[n].key
    BY <1>3, <1>7, <2>3, <2>4
  <2>7. ASSUME NEW n \in DOMAIN q
        PROVE  \/ q[n].cmd = f.cmd /\ q[n].key = f.key
               \/ \E k \in DOMAIN outbox :
                     /\ outbox[k] = q[n]
                     /\ \A j \in 1 .. n - 1 : \E l \in 1 .. k - 1 :
                           outbox[l].cmd = q[j].cmd /\ outbox[l].key = q[j].key
    <3>1. CASE n = i
      BY <2>3, <3>1
    <3>2. CASE n # i
      <4>1. q[n] = outbox[n] /\ n \in DOMAIN outbox
        BY <2>4, <3>2
      <4>2. \A j \in 1 .. n - 1 : j \in DOMAIN outbox
        BY <1>0, <4>1
      <4>3. \A j \in 1 .. n - 1 : outbox[j].cmd = q[j].cmd /\ outbox[j].key = q[j].key
        BY <2>4, <2>6, <4>2
      <4> QED
        BY <4>1, <4>3
    <3> QED
      BY <3>1, <3>2
  <2>8. Single(outbox) => Single(q)
    BY <2>4, <2>6 DEF Single
  <2> QED
    BY <1>7, <2>2, <2>3, <2>4, <2>5, <2>7, <2>8 DEF Enters
<1>8. CASE ~(i = 0 \/ f.queue = "append") /\ f.queue = "move"
  <2> DEFINE s == RemoveAt(outbox, i)
             at == [n \in DOMAIN s |-> IF n < i THEN n ELSE n + 1]
  <2>1. q = Append(s, entry)
    BY <1>8 DEF Queued, i
  <2>2. i \in 1 .. Len(outbox)
    BY <1>0, <1>3, <1>8
  <2>3. /\ s \in Seq(QueuedCommand) /\ Len(s) = Len(outbox) - 1
        /\ \A n \in 1 .. Len(outbox) - 1 : s[n] = IF n < i THEN outbox[n] ELSE outbox[n + 1]
    BY <1>0, <2>2, RemoveAtFacts
  <2> HIDE DEF s
  <2>4. DOMAIN s = 1 .. Len(outbox) - 1
    BY <2>3
  <2>5. \A n \in DOMAIN s : at[n] \in DOMAIN outbox /\ at[n] # i /\ s[n] = outbox[at[n]]
    BY <1>0, <2>2, <2>3, <2>4
  <2>6. \A n, m \in DOMAIN s : m < n => at[m] < at[n]
    BY <1>0, <2>2, <2>4
  <2> HIDE DEF at
  <2>7. ASSUME Single(outbox), Replaced(f.cmd), NEW n \in DOMAIN s
        PROVE  ~(s[n].cmd = f.cmd /\ s[n].key = f.key)
    BY <1>0, <1>3, <2>2, <2>5, <2>7 DEF Single
  <2> QED
    BY <1>4, <2>1, <2>3, <2>5, <2>6, <2>7
<1> QED
  BY <1>5, <1>6, <1>7, <1>8 DEF WellFormed

-----------------------------------------------------------------------------
(* The commands that a message makes the simulator execute, and their replies *)

LEMMA ExecutedFacts ==
    ASSUME TypeOK
    PROVE  /\ Executed \in Seq(QueuedCommand)
           /\ \A i \in DOMAIN Executed : Len(Executed[i].key) = KeySize(Executed[i].cmd)
           /\ \A i \in DOMAIN outbox : i \in DOMAIN Executed /\ Executed[i] = outbox[i]
           /\ \A i \in DOMAIN Executed : i > Len(outbox) => Executed[i] \in stored
           /\ Single(outbox) => Single(Executed)
<1> DEFINE kept == {c \in stored : CommandPointer(outbox, c.cmd, c.key) = 0}
           s == SetToSeq(kept)
           e == outbox \o s
<1>1. /\ outbox \in Seq(QueuedCommand) /\ Len(outbox) \in Nat /\ DOMAIN outbox = 1 .. Len(outbox)
      /\ stored \in SUBSET QueuedCommand
  <2>1. [cmd : Command, key : Key, mode : {"streaming"}] \subseteq QueuedCommand
    BY DEF QueuedCommand, Mode
  <2> QED
    BY <2>1 DEF TypeOK
<1>2. kept \subseteq stored /\ IsFiniteSet(kept)
  BY FS_Subset DEF TypeOK
<1> HIDE DEF kept
<1>3. /\ s \in Seq(kept)
      /\ \A i, j \in DOMAIN s : s[i] = s[j] => i = j
  BY <1>2, SetToSeqFacts
<1> HIDE DEF s
<1>4. s \in Seq(QueuedCommand) /\ Len(s) \in Nat /\ DOMAIN s = 1 .. Len(s)
  BY <1>1, <1>2, <1>3
<1>5. /\ e \in Seq(QueuedCommand)
      /\ Len(e) = Len(outbox) + Len(s)
      /\ \A i \in 1 .. Len(outbox) + Len(s) :
             e[i] = IF i <= Len(outbox) THEN outbox[i] ELSE s[i - Len(outbox)]
  BY <1>1, <1>4, ConcatProperties
<1>6. Executed = e
  BY DEF Executed, e, s, kept
<1> HIDE DEF e
<1>7. DOMAIN e = 1 .. Len(outbox) + Len(s)
  BY <1>1, <1>4, <1>5
<1>8. \A i \in DOMAIN outbox : i \in DOMAIN e /\ e[i] = outbox[i]
  BY <1>1, <1>4, <1>5, <1>7
<1>9. ASSUME NEW i \in DOMAIN e, i > Len(outbox)
      PROVE  i - Len(outbox) \in DOMAIN s /\ e[i] = s[i - Len(outbox)] /\ e[i] \in kept
  <2>1. i - Len(outbox) \in DOMAIN s /\ e[i] = s[i - Len(outbox)]
    BY <1>1, <1>4, <1>5, <1>7, <1>9
  <2> QED
    BY <1>3, <2>1
<1>10. ASSUME NEW i \in DOMAIN e PROVE Len(e[i].key) = KeySize(e[i].cmd)
  <2>1. CASE i <= Len(outbox)
    <3>1. i \in DOMAIN outbox /\ e[i] = outbox[i]
      BY <1>1, <1>7, <1>8, <2>1
    <3> QED
      BY <3>1 DEF TypeOK
  <2>2. CASE i > Len(outbox)
    BY <1>2, <1>9, <2>2 DEF TypeOK
  <2> QED
    BY <1>1, <1>7, <2>1, <2>2
<1>11. ASSUME Single(outbox), NEW i \in DOMAIN e, NEW j \in DOMAIN e,
              Replaced(e[i].cmd), e[i].cmd = e[j].cmd, e[i].key = e[j].key
       PROVE  i = j
  <2>1. ASSUME NEW m \in DOMAIN e, m <= Len(outbox), NEW n \in DOMAIN e, n > Len(outbox),
               e[m].cmd = e[n].cmd, e[m].key = e[n].key
        PROVE  FALSE
    <3>1. m \in DOMAIN outbox /\ e[m] = outbox[m] /\ e[m] \in QueuedCommand
      BY <1>1, <1>5, <1>7, <1>8, <2>1
    <3>2. e[n] \in kept /\ CommandPointer(outbox, e[n].cmd, e[n].key) = 0
      BY <1>9, <2>1 DEF kept
    <3>3. ~Matches(outbox[m], e[n].cmd, e[n].key)
      BY <1>1, <3>1, <3>2, Pointer
    <3>4. e[m].key \in Key
      BY <3>1 DEF QueuedCommand
    <3> QED
      BY <2>1, <3>1, <3>3, <3>4, PrefixFacts DEF Matches
  <2>2. CASE i <= Len(outbox) /\ j <= Len(outbox)
    <3>1. i \in DOMAIN outbox /\ e[i] = outbox[i] /\ j \in DOMAIN outbox /\ e[j] = outbox[j]
      BY <1>1, <1>7, <1>8, <2>2
    <3> QED
      BY <1>11, <3>1 DEF Single
  <2>3. CASE i > Len(outbox) /\ j > Len(outbox)
    <3>1. e[i] \in stored /\ e[j] \in stored
      BY <1>2, <1>9, <2>3
    <3>2. e[i] = e[j]
      BY <1>11, <3>1 DEF TypeOK
    <3>3. i - Len(outbox) = j - Len(outbox)
      BY <1>3, <1>9, <2>3, <3>2
    <3> QED
      BY <1>1, <1>7, <3>3
  <2> QED
    BY <1>1, <1>7, <1>11, <2>1, <2>2, <2>3
<1>12. Single(outbox) => Single(e)
  BY <1>11 DEF Single
<1> QED
  BY <1>2, <1>5, <1>6, <1>8, <1>9, <1>10, <1>12

Replies(bad, event, second) == [i \in DOMAIN Executed |-> ReplyTo(i, bad, event, second)]

LEMMA RepliesFacts ==
    ASSUME TypeOK, NEW bad, NEW event \in BOOLEAN, NEW second \in Second,
           NEW replies, replies = Replies(bad, event, second)
    PROVE  /\ replies \in Seq(Reply(now + 1)) /\ DOMAIN replies = DOMAIN Executed
           /\ \A i \in DOMAIN replies :
                 /\ replies[i] = ReplyTo(i, bad, event, second)
                 /\ replies[i].cmd = Executed[i].cmd /\ replies[i].at = now + 1
                 /\ Len(replies[i].key) = DataSize(replies[i].cmd)
                 /\ IsPrefix(Executed[i].key, replies[i].key)
                 /\ Replaced(Executed[i].cmd) => replies[i].key = Executed[i].key
           /\ Single(outbox) => Single(replies)
<1>1. /\ Executed \in Seq(QueuedCommand) /\ Len(Executed) \in Nat
      /\ DOMAIN Executed = 1 .. Len(Executed) /\ DOMAIN replies = DOMAIN Executed
      /\ \A i \in DOMAIN replies : replies[i] = ReplyTo(i, bad, event, second)
  BY ExecutedFacts DEF Replies
<1>2. ASSUME NEW i \in DOMAIN Executed
      PROVE  /\ ReplyTo(i, bad, event, second) \in Reply(now + 1)
             /\ ReplyTo(i, bad, event, second).cmd = Executed[i].cmd
             /\ ReplyTo(i, bad, event, second).at = now + 1
             /\ Len(ReplyTo(i, bad, event, second).key) = DataSize(Executed[i].cmd)
             /\ IsPrefix(Executed[i].key, ReplyTo(i, bad, event, second).key)
             /\ Replaced(Executed[i].cmd) => ReplyTo(i, bad, event, second).key = Executed[i].key
  <2> DEFINE c == Executed[i]
             key == Completed(c.cmd, c.key, second)
             r == ReplyTo(i, bad, event, second)
  <2>1. c \in QueuedCommand /\ c.cmd \in Command /\ c.key \in Key /\ Len(c.key) = KeySize(c.cmd)
    <3>1. c \in QueuedCommand /\ Len(c.key) = KeySize(c.cmd)
      BY <1>1, ExecutedFacts
    <3> QED
      BY <3>1 DEF QueuedCommand
  <2>2. key \in Key /\ Len(key) = DataSize(c.cmd) /\ IsPrefix(c.key, key)
        /\ (Replaced(c.cmd) => key = c.key)
    <3>1. CASE c.cmd # "get_ui_event_button"
      <4>1. key = c.key /\ Len(key) = DataSize(c.cmd)
        BY <2>1, <3>1, SizeFacts DEF Completed
      <4> QED
        BY <2>1, <4>1, PrefixFacts
    <3>2. CASE c.cmd = "get_ui_event_button"
      <4>1. Len(c.key) = 1 /\ DataSize(c.cmd) = 2
        BY <2>1, <3>2, SizeFacts
      <4>2. key = Append(c.key, second)
        BY <4>1 DEF Completed
      <4>3. key \in Key /\ Len(key) = 2 /\ key[1] = c.key[1]
        BY <2>1, <4>1, <4>2 DEF Key
      <4>4. SubSeq(c.key, 1, 1) = SubSeq(key, 1, 1)
        BY <2>1, <4>1, <4>3 DEF Key
      <4>5. IsPrefix(c.key, key)
        BY <4>1, <4>3, <4>4 DEF IsPrefix
      <4> QED
        BY <3>2, <4>1, <4>3, <4>5, ReplacedFacts
    <3> QED
      BY <3>1, <3>2
  <2> HIDE DEF key
  <2>3. r = [cmd |-> c.cmd, key |-> key, discontinued |-> c.mode = "discontinue",
             ok |-> i # bad /\ ~Missing(i, bad), event |-> event,
             items |-> IF i # bad /\ ~Missing(i, bad) /\ c.cmd = "read_string_stream"
                       THEN <<now + 1>> ELSE <<>>,
             at |-> now + 1]
    BY DEF ReplyTo, key
  <2>4. now + 1 \in 1 .. now + 1 /\ now + 1 \in Nat
    BY DEF TypeOK
  <2>5. (IF i # bad /\ ~Missing(i, bad) /\ c.cmd = "read_string_stream"
         THEN <<now + 1>> ELSE <<>>) \in Seq(Nat)
    BY <2>4
  <2>6. r \in Reply(now + 1)
    BY <2>1, <2>2, <2>3, <2>4, <2>5 DEF Reply
  <2> QED
    BY <2>2, <2>3, <2>6
<1>3. replies \in Seq(Reply(now + 1))
  <2>1. replies \in [1 .. Len(Executed) -> Reply(now + 1)]
    BY <1>1, <1>2 DEF Replies
  <2> QED
    BY <1>1, <2>1, SeqDef
<1>4. Single(outbox) => Single(replies)
  <2> SUFFICES ASSUME Single(outbox), NEW i \in DOMAIN replies, NEW j \in DOMAIN replies,
                      Replaced(replies[i].cmd), replies[i].cmd = replies[j].cmd,
                      replies[i].key = replies[j].key
               PROVE  i = j
    BY DEF Single
  <2>1. Single(Executed)
    BY ExecutedFacts
  <2> QED
    BY <1>1, <1>2, <2>1 DEF Single
<1> QED
  BY <1>1, <1>2, <1>3, <1>4

-----------------------------------------------------------------------------
(* Placing the replies into the input buffer *)

Buffer(n) == [new : Seq(Reply(n)), old : Seq(Reply(n))]

LEMMA JoinedType ==
    ASSUME NEW n \in Nat, NEW reply \in Reply(n), NEW old \in Reply(n)
    PROVE  /\ Joined(reply, old) \in Reply(n)
           /\ Joined(reply, old) = [reply EXCEPT !.items = Joined(reply, old).items]
           /\ Joined(reply, old).items = IF reply.cmd = "read_string_stream"
                                         THEN old.items \o reply.items ELSE reply.items
<1>1. reply.items \in Seq(Nat) /\ old.items \in Seq(Nat)
  BY DEF Reply
<1>2. old.items \o reply.items \in Seq(Nat)
  BY <1>1
<1>3. reply = [reply EXCEPT !.items = reply.items]
  BY DEF Reply
<1>4. CASE reply.cmd = "read_string_stream"
  <2>1. Joined(reply, old) = [reply EXCEPT !.items = old.items \o reply.items]
    BY <1>4 DEF Joined
  <2> QED
    BY <1>2, <1>4, <2>1 DEF Reply
<1>5. CASE reply.cmd # "read_string_stream"
  <2>1. Joined(reply, old) = reply
    BY <1>5 DEF Joined
  <2> QED
    BY <1>3, <1>5, <2>1
<1> QED
  BY <1>4, <1>5

\* What placing a reply does to the two buffers.
LEMMA PlaceFacts ==
    ASSUME NEW n \in Nat, NEW b \in Buffer(n), NEW r \in Reply(n), NEW p, p = Place(b, r)
    PROVE  /\ p \in Buffer(n)
           /\ \/ /\ p.old = b.old
                 /\ \A k \in DOMAIN b.old : ~Same(r, b.old[k])
                 /\ p.new = IF r.discontinued THEN b.new ELSE Append(b.new, r)
              \/ \E i \in DOMAIN b.old :
                    /\ Same(r, b.old[i])
                    /\ p.old = RemoveAt(b.old, i)
                    /\ p.new = IF r.discontinued THEN b.new
                               ELSE Append(b.new, Joined(r, b.old[i]))
<1> DEFINE i == SameReply(b.old, r)
<1>1. /\ b.new \in Seq(Reply(n)) /\ b.old \in Seq(Reply(n))
      /\ Len(b.old) \in Nat /\ DOMAIN b.old = 1 .. Len(b.old)
  BY DEF Buffer
<1>2. /\ i \in 0 .. Len(b.old)
      /\ i # 0 => Same(r, b.old[i])
      /\ i = 0 => \A k \in 1 .. Len(b.old) : ~Same(r, b.old[k])
  BY <1>1, SamePlace
<1>3. p = [new |-> IF r.discontinued THEN b.new
                   ELSE Append(b.new, IF i = 0 THEN r ELSE Joined(r, b.old[i])),
           old |-> IF i = 0 THEN b.old ELSE RemoveAt(b.old, i)]
  BY DEF Place, SameReply
<1> HIDE DEF i
<1>4. CASE i = 0
  <2>1. p.old = b.old /\ p.new = IF r.discontinued THEN b.new ELSE Append(b.new, r)
    BY <1>3, <1>4
  <2>2. p.new \in Seq(Reply(n))
    BY <1>1, <2>1
  <2> QED
    BY <1>1, <1>2, <1>3, <1>4, <2>1, <2>2 DEF Buffer
<1>5. CASE i # 0
  <2>1. i \in DOMAIN b.old /\ b.old[i] \in Reply(n)
    BY <1>1, <1>2, <1>5
  <2>2. /\ p.old = RemoveAt(b.old, i)
        /\ p.new = IF r.discontinued THEN b.new ELSE Append(b.new, Joined(r, b.old[i]))
    BY <1>3, <1>5
  <2>3. p.old \in Seq(Reply(n))
    BY <1>1, <2>1, <2>2, RemoveAtFacts
  <2>4. p.new \in Seq(Reply(n))
    BY <1>1, <2>1, <2>2, JoinedType
  <2> QED
    BY <1>2, <1>3, <1>5, <2>1, <2>2, <2>3, <2>4 DEF Buffer
<1> QED
  BY <1>4, <1>5

\* What holds of the buffers before the first reply and is kept by placing each holds of the
\* buffers that are merged.
LEMMA BuffersInduction ==
    ASSUME NEW n \in Nat, inbox \in Seq(Reply(n)), NEW replies \in Seq(Reply(n)), NEW S,
           <<0, [new |-> <<>>, old |-> inbox]>> \in S,
           \A k \in 1 .. Len(replies) : \A b \in Buffer(n) :
               <<k - 1, b>> \in S => <<k, Place(b, replies[k])>> \in S
    PROVE  \E b \in Buffer(n) : /\ <<Len(replies), b>> \in S
                                /\ Merged(replies) = b.new \o b.old
<1> DEFINE m == Len(replies)
           D == Buffer(n)
           base == [new |-> <<>>, old |-> inbox]
           Solution(r) == [k \in 0 .. m |-> IF k = 0 THEN base ELSE Place(r[k - 1], replies[k])]
           F == [d \in D \X (1 .. m) |-> Place(d[1], replies[d[2]])]
<1>1. m \in Nat /\ \A k \in 1 .. m : replies[k] \in Reply(n)
  OBVIOUS
<1>2. base \in D
  BY DEF Buffer
<1>3. ASSUME NEW d \in D, NEW k \in 1 .. m PROVE Place(d, replies[k]) \in D
  BY <1>1, PlaceFacts
<1>4. Numbers!Steps(F, D, m)
  <2> SUFFICES ASSUME NEW d \in D, NEW k \in 1 .. m PROVE F[<<d, k>>] \in D
    BY DEF Numbers!Steps
  <2>1. <<d, k>> \in D \X (1 .. m) /\ F[<<d, k>>] = Place(d, replies[k])
    OBVIOUS
  <2> QED
    BY <1>3, <2>1
<1>5. PICK f : Numbers!Iterates(f, F, D, base, m)
  <2> HIDE DEF F, D, m, base
  <2> QED
    BY <1>1, <1>2, <1>4, Numbers!Recursion
<1>6. f = Solution(f)
  <2>1. ASSUME NEW k \in 0 .. m, k # 0 PROVE f[k] = Place(f[k - 1], replies[k])
    <3>1. k \in 1 .. m /\ k - 1 \in 0 .. m
      BY <1>1, <2>1
    <3>2. <<f[k - 1], k>> \in D \X (1 .. m)
      BY <1>5, <3>1 DEF Numbers!Iterates
    <3>3. f[k] = F[<<f[k - 1], k>>]
      BY <1>5, <3>1 DEF Numbers!Iterates
    <3> QED
      BY <3>2, <3>3
  <2> HIDE DEF m, F, D, base
  <2> QED
    BY <1>1, <1>5, <2>1 DEF Numbers!Iterates
<1> DEFINE g == Buffers(replies)
<1>7. g = Solution(g)
  <2>1. g = CHOOSE r : r = Solution(r)
    BY DEF Buffers
  <2> HIDE DEF Solution
  <2> QED
    BY <1>6, <2>1
<1> HIDE DEF g
<1>8. \A k \in 0 .. m : g[k] = IF k = 0 THEN base ELSE Place(g[k - 1], replies[k])
  <2> HIDE DEF base, m
  <2> QED
    BY <1>7
<1> DEFINE T == {k \in Nat : k <= m => g[k] \in D /\ <<k, g[k]>> \in S}
<1>9. 0 \in T
  BY <1>1, <1>2, <1>8
<1>10. ASSUME NEW k \in Nat, k \in T PROVE k + 1 \in T
  <2> SUFFICES ASSUME k + 1 <= m PROVE g[k + 1] \in D /\ <<k + 1, g[k + 1]>> \in S
    OBVIOUS
  <2>1. k + 1 \in 1 .. m /\ k + 1 \in 0 .. m /\ (k + 1) - 1 = k /\ k <= m /\ k + 1 # 0
    BY <1>1
  <2>2. g[k] \in D /\ <<k, g[k]>> \in S
    BY <1>10, <2>1
  <2>3. g[k + 1] = Place(g[k], replies[k + 1])
    BY <1>8, <2>1
  <2> QED
    BY <1>3, <2>1, <2>2, <2>3
<1>11. m \in T
  <2> HIDE DEF T
  <2> QED
    BY <1>1, <1>9, <1>10, Numbers!Induction
<1>12. Merged(replies) = g[m].new \o g[m].old
  BY DEF Merged, g
<1>13. g[m] \in D /\ <<m, g[m]>> \in S
  BY <1>1, <1>11
<1> QED
  BY <1>12, <1>13

\* An entry of the new buffer is a reply that was not discontinued, with the data of the
\* stream that was still there, if any, before its own.
Fresh(entry, reply) ==
    /\ ~reply.discontinued
    /\ entry.cmd = reply.cmd /\ entry.key = reply.key
    /\ entry.ok = reply.ok /\ entry.at = reply.at
    /\ reply.cmd = "read_string_stream" =>
          \/ \E o \in DOMAIN inbox :
                Same(reply, inbox[o]) /\ entry.items = inbox[o].items \o reply.items
          \/ /\ \A o \in DOMAIN inbox : ~Same(reply, inbox[o])
             /\ entry.items = reply.items

\* The buffers b once the first k replies are placed.
NewHas(b, replies, k) ==
    /\ \A e \in DOMAIN b.new : \E j \in 1 .. k : Fresh(b.new[e], replies[j])
    /\ \A j \in 1 .. k : ~replies[j].discontinued =>
           \E e \in DOMAIN b.new : Fresh(b.new[e], replies[j])
    /\ Single(b.new)
OldHas(b, replies, k) ==
    /\ \A e \in DOMAIN b.old : \E o \in DOMAIN inbox : b.old[e] = inbox[o]
    /\ \A o \in DOMAIN inbox : (\A j \in 1 .. k : ~Same(replies[j], inbox[o])) =>
           \E e \in DOMAIN b.old : b.old[e] = inbox[o]
    /\ \A e \in DOMAIN b.old : Replaced(b.old[e].cmd) =>
           \A j \in 1 .. k : ~Same(replies[j], b.old[e])
    /\ Single(b.old)

LEMMA OldStep ==
    ASSUME NEW n \in Nat, inbox \in Seq(Reply(n)), NEW replies \in Seq(Reply(n)),
           NEW k \in 1 .. Len(replies), NEW b \in Buffer(n), OldHas(b, replies, k - 1),
           NEW p, p = Place(b, replies[k])
    PROVE  OldHas(p, replies, k)
<1> DEFINE r == replies[k]
<1>1. /\ r \in Reply(n) /\ b.old \in Seq(Reply(n)) /\ DOMAIN b.old = 1 .. Len(b.old)
      /\ k - 1 \in Nat /\ \A j \in 1 .. k : j \in 1 .. k - 1 \/ j = k
  BY DEF Buffer
<1>2. CASE /\ p.old = b.old
           /\ \A e \in DOMAIN b.old : ~Same(r, b.old[e])
  <2>1. \A o \in DOMAIN inbox : (\A j \in 1 .. k : ~Same(replies[j], inbox[o])) =>
            \E e \in DOMAIN p.old : p.old[e] = inbox[o]
    BY <1>1, <1>2 DEF OldHas
  <2>2. \A e \in DOMAIN p.old : Replaced(p.old[e].cmd) =>
            \A j \in 1 .. k : ~Same(replies[j], p.old[e])
    BY <1>1, <1>2 DEF OldHas
  <2> QED
    BY <1>2, <2>1, <2>2 DEF OldHas
<1>3. ASSUME NEW i \in DOMAIN b.old, Same(r, b.old[i]), p.old = RemoveAt(b.old, i)
      PROVE  OldHas(p, replies, k)
  <2>1. /\ \A e \in DOMAIN p.old : \E d \in DOMAIN b.old : d # i /\ p.old[e] = b.old[d]
        /\ \A d \in DOMAIN b.old : d # i => \E e \in DOMAIN p.old : p.old[e] = b.old[d]
    <3>1. i \in 1 .. Len(b.old)
      BY <1>1
    <3> DEFINE s == b.old
               t == p.old
    <3>2. s \in Seq(Reply(n)) /\ i \in 1 .. Len(s) /\ t = RemoveAt(s, i)
      BY <1>1, <1>3, <3>1
    <3> HIDE DEF s, t
    <3>3. /\ \A e \in DOMAIN t : \E d \in DOMAIN s : d # i /\ t[e] = s[d]
          /\ \A d \in DOMAIN s : d # i => \E e \in DOMAIN t : t[e] = s[d]
      BY <3>2, RemovedFrom
    <3> QED
      BY <3>3 DEF s, t
  <2>2. Single(p.old)
    BY <1>1, <1>3, SingleRemoved DEF OldHas
  <2>3. ASSUME NEW e \in DOMAIN p.old PROVE \E o \in DOMAIN inbox : p.old[e] = inbox[o]
    BY <2>1 DEF OldHas
  <2>4. ASSUME NEW o \in DOMAIN inbox, \A j \in 1 .. k : ~Same(replies[j], inbox[o])
        PROVE  \E e \in DOMAIN p.old : p.old[e] = inbox[o]
    <3>1. PICK d \in DOMAIN b.old : b.old[d] = inbox[o]
      BY <1>1, <2>4 DEF OldHas
    <3>2. d # i
      BY <1>3, <2>4, <3>1
    <3> QED
      BY <2>1, <3>1, <3>2
  <2>5. ASSUME NEW e \in DOMAIN p.old, Replaced(p.old[e].cmd), NEW j \in 1 .. k
        PROVE  ~Same(replies[j], p.old[e])
    <3>1. PICK d \in DOMAIN b.old : d # i /\ p.old[e] = b.old[d]
      BY <2>1
    <3>2. CASE j \in 1 .. k - 1
      BY <2>5, <3>1, <3>2 DEF OldHas
    <3>3. CASE j = k
      BY <1>3, <2>5, <3>1, <3>3 DEF OldHas, Single, Same
    <3> QED
      BY <1>1, <3>2, <3>3
  <2> QED
    BY <2>2, <2>3, <2>4, <2>5 DEF OldHas
<1> QED
  BY <1>1, <1>2, <1>3, PlaceFacts

LEMMA NewStep ==
    ASSUME NEW n \in Nat, inbox \in Seq(Reply(n)), NEW replies \in Seq(Reply(n)), Single(replies),
           NEW k \in 1 .. Len(replies), NEW b \in Buffer(n),
           NewHas(b, replies, k - 1), OldHas(b, replies, k - 1),
           NEW p, p = Place(b, replies[k])
    PROVE  NewHas(p, replies, k)
<1> DEFINE r == replies[k]
<1>1. /\ r \in Reply(n) /\ b.old \in Seq(Reply(n)) /\ b.new \in Seq(Reply(n))
      /\ k - 1 \in Nat /\ \A j \in 1 .. k : j \in 1 .. k - 1 \/ j = k
      /\ k \in 1 .. k /\ \A j \in 1 .. k - 1 : j \in 1 .. k
      /\ DOMAIN replies = 1 .. Len(replies)
  BY DEF Buffer
<1>2. ASSUME r.discontinued, p.new = b.new
      PROVE  NewHas(p, replies, k)
  BY <1>1, <1>2 DEF NewHas
<1>3. ASSUME ~r.discontinued, NEW e \in Reply(n), Fresh(e, r), p.new = Append(b.new, e)
      PROVE  NewHas(p, replies, k)
  <2>1. /\ Len(b.new) \in Nat /\ DOMAIN b.new = 1 .. Len(b.new)
        /\ DOMAIN p.new = 1 .. Len(b.new) + 1
        /\ p.new[Len(b.new) + 1] = e
        /\ \A i \in DOMAIN b.new : p.new[i] = b.new[i]
    BY <1>1, <1>3
  <2>2. \A i \in DOMAIN p.new : i \in DOMAIN b.new \/ i = Len(b.new) + 1
    BY <2>1
  <2>3. \A i \in DOMAIN p.new : \E j \in 1 .. k : Fresh(p.new[i], replies[j])
    BY <1>1, <1>3, <2>1, <2>2 DEF NewHas
  <2>4. ASSUME NEW j \in 1 .. k, ~replies[j].discontinued
        PROVE  \E i \in DOMAIN p.new : Fresh(p.new[i], replies[j])
    <3>1. CASE j \in 1 .. k - 1
      <4>1. PICK i \in DOMAIN b.new : Fresh(b.new[i], replies[j])
        BY <2>4, <3>1 DEF NewHas
      <4>2. i \in DOMAIN p.new /\ Fresh(p.new[i], replies[j])
        BY <2>1, <4>1
      <4> QED
        BY <4>2
    <3>2. CASE j = k
      <4>1. Len(b.new) + 1 \in DOMAIN p.new /\ Fresh(p.new[Len(b.new) + 1], replies[j])
        BY <1>3, <2>1, <3>2
      <4> QED
        BY <4>1
    <3> QED
      BY <1>1, <3>1, <3>2
  <2>5. ASSUME NEW i \in DOMAIN b.new, Replaced(e.cmd)
        PROVE  ~(b.new[i].cmd = e.cmd /\ b.new[i].key = e.key)
    <3>1. PICK j \in 1 .. k - 1 : Fresh(b.new[i], replies[j])
      BY DEF NewHas
    <3>2. j \in DOMAIN replies /\ k \in DOMAIN replies /\ j # k
      BY <1>1
    <3> QED
      BY <1>3, <2>5, <3>1, <3>2 DEF Fresh, Single
  <2>6. Single(p.new)
    <3> SUFFICES ASSUME NEW i \in DOMAIN p.new, NEW j \in DOMAIN p.new,
                        Replaced(p.new[i].cmd), p.new[i].cmd = p.new[j].cmd,
                        p.new[i].key = p.new[j].key
                 PROVE  i = j
      BY DEF Single
    <3>1. CASE i \in DOMAIN b.new /\ j \in DOMAIN b.new
      BY <2>1, <3>1 DEF NewHas, Single
    <3>2. CASE i \in DOMAIN b.new /\ j = Len(b.new) + 1
      <4>1. p.new[i] = b.new[i] /\ p.new[j] = e
        BY <2>1, <3>2
      <4> QED
        BY <2>5, <3>2, <4>1
    <3>3. CASE i = Len(b.new) + 1 /\ j \in DOMAIN b.new
      <4>1. p.new[j] = b.new[j] /\ p.new[i] = e
        BY <2>1, <3>3
      <4> QED
        BY <2>5, <3>3, <4>1
    <3> QED
      BY <2>2, <3>1, <3>2, <3>3
  <2> QED
    BY <2>3, <2>4, <2>6 DEF NewHas
<1>4. CASE /\ p.old = b.old
           /\ \A i \in DOMAIN b.old : ~Same(r, b.old[i])
           /\ p.new = IF r.discontinued THEN b.new ELSE Append(b.new, r)
  <2>1. ASSUME ~r.discontinued PROVE Fresh(r, r)
    <3>1. ASSUME r.cmd = "read_string_stream", NEW o \in DOMAIN inbox PROVE ~Same(r, inbox[o])
      <4> SUFFICES ASSUME Same(r, inbox[o]) PROVE FALSE
        OBVIOUS
      <4>1. Replaced(r.cmd)
        BY <3>1, ReplacedFacts
      <4>2. ASSUME NEW j \in 1 .. k - 1 PROVE ~Same(replies[j], inbox[o])
        <5>1. j \in DOMAIN replies /\ k \in DOMAIN replies /\ j # k
          BY <1>1
        <5> QED
          BY <4>1, <5>1 DEF Single, Same
      <4>3. \E i \in DOMAIN b.old : b.old[i] = inbox[o]
        BY <4>2 DEF OldHas
      <4> QED
        BY <1>4, <4>3
    <3> QED
      BY <2>1, <3>1 DEF Fresh
  <2> QED
    BY <1>1, <1>2, <1>3, <1>4, <2>1
<1>5. ASSUME NEW i \in DOMAIN b.old, Same(r, b.old[i]),
             p.new = IF r.discontinued THEN b.new ELSE Append(b.new, Joined(r, b.old[i]))
      PROVE  NewHas(p, replies, k)
  <2> DEFINE e == Joined(r, b.old[i])
  <2>1. b.old[i] \in Reply(n)
    BY <1>1
  <2>2. /\ e \in Reply(n) /\ e = [r EXCEPT !.items = e.items]
        /\ r.cmd = "read_string_stream" => e.items = b.old[i].items \o r.items
    <3>1. /\ e \in Reply(n) /\ e = [r EXCEPT !.items = e.items]
          /\ e.items = IF r.cmd = "read_string_stream"
                       THEN b.old[i].items \o r.items ELSE r.items
      <4> DEFINE old == b.old[i]
      <4>1. r \in Reply(n) /\ old \in Reply(n)
        BY <1>1, <2>1
      <4> HIDE DEF r, old
      <4>2. /\ Joined(r, old) \in Reply(n)
            /\ Joined(r, old) = [r EXCEPT !.items = Joined(r, old).items]
            /\ Joined(r, old).items = IF r.cmd = "read_string_stream"
                                      THEN old.items \o r.items ELSE r.items
        BY <4>1, JoinedType
      <4> QED
        BY <4>2 DEF old
    <3> QED
      BY <3>1
  <2> HIDE DEF e
  <2>3. e.cmd = r.cmd /\ e.key = r.key /\ e.ok = r.ok /\ e.at = r.at
    BY <1>1, <2>2 DEF Reply
  <2>4. PICK o \in DOMAIN inbox : b.old[i] = inbox[o]
    BY DEF OldHas
  <2>5. ~r.discontinued => Fresh(e, r)
    BY <1>5, <2>2, <2>3, <2>4 DEF Fresh
  <2> QED
    BY <1>2, <1>3, <1>5, <2>2, <2>5 DEF e
<1> QED
  BY <1>1, <1>4, <1>5, PlaceFacts

\* The new input buffer: the replies first, then what none of them replaced.
Merges(m, replies) ==
    \E h \in 0 .. Len(m) :
        /\ \A i \in 1 .. h : \E k \in DOMAIN replies : Fresh(m[i], replies[k])
        /\ \A k \in DOMAIN replies : ~replies[k].discontinued =>
               \E i \in 1 .. h : Fresh(m[i], replies[k])
        /\ \A i \in h + 1 .. Len(m) :
               /\ \E o \in DOMAIN inbox : m[i] = inbox[o]
               /\ Replaced(m[i].cmd) => \A k \in DOMAIN replies : ~Same(replies[k], m[i])
        /\ \A o \in DOMAIN inbox :
               (\A k \in DOMAIN replies : ~Same(replies[k], inbox[o])) =>
                   \E i \in h + 1 .. Len(m) : m[i] = inbox[o]

LEMMA MergedFacts ==
    ASSUME NEW n \in Nat, inbox \in Seq(Reply(n)), Single(inbox),
           NEW replies \in Seq(Reply(n)), Single(replies),
           NEW m, m = Merged(replies)
    PROVE  /\ m \in Seq(Reply(n))
           /\ Single(m)
           /\ Merges(m, replies)
<1> DEFINE S == {q \in Nat \X Buffer(n) : NewHas(q[2], replies, q[1]) /\ OldHas(q[2], replies, q[1])}
           base == [new |-> <<>>, old |-> inbox]
<1>0. Len(replies) \in Nat /\ DOMAIN replies = 1 .. Len(replies)
  OBVIOUS
<1>1. <<0, base>> \in S
  <2>1. base \in Buffer(n)
    BY DEF Buffer
  <2>2. NewHas(base, replies, 0) /\ OldHas(base, replies, 0)
    BY DEF NewHas, OldHas, Single
  <2> HIDE DEF base
  <2> QED
    BY <2>1, <2>2
<1>2. ASSUME NEW k \in 1 .. Len(replies), NEW b \in Buffer(n), <<k - 1, b>> \in S
      PROVE  <<k, Place(b, replies[k])>> \in S
  <2>1. NewHas(b, replies, k - 1) /\ OldHas(b, replies, k - 1)
    BY <1>2
  <2>2. replies[k] \in Reply(n) /\ k \in Nat
    OBVIOUS
  <2>3. Place(b, replies[k]) \in Buffer(n)
    BY <2>2, PlaceFacts
  <2>4. OldHas(Place(b, replies[k]), replies, k)
    BY <2>1, OldStep
  <2>5. NewHas(Place(b, replies[k]), replies, k)
    BY <2>1, NewStep
  <2> QED
    BY <2>2, <2>3, <2>4, <2>5
<1> HIDE DEF S
<1>3. PICK b \in Buffer(n) : <<Len(replies), b>> \in S /\ m = b.new \o b.old
  BY <1>1, <1>2, BuffersInduction
<1>4. NewHas(b, replies, Len(replies)) /\ OldHas(b, replies, Len(replies))
  BY <1>3 DEF S
<1>5. b.new \in Seq(Reply(n)) /\ b.old \in Seq(Reply(n))
  BY DEF Buffer
<1> DEFINE h == Len(b.new)
<1>6. /\ m \in Seq(Reply(n)) /\ Len(m) = h + Len(b.old)
      /\ \A i \in 1 .. h + Len(b.old) : m[i] = IF i <= h THEN b.new[i] ELSE b.old[i - h]
  <2>1. /\ b.new \o b.old \in Seq(Reply(n))
        /\ Len(b.new \o b.old) = Len(b.new) + Len(b.old)
        /\ \A i \in 1 .. Len(b.new) + Len(b.old) :
               (b.new \o b.old)[i] = IF i <= Len(b.new) THEN b.new[i] ELSE b.old[i - Len(b.new)]
    BY <1>5, ConcatProperties
  <2> QED
    BY <1>3, <2>1
<1>7. /\ h \in Nat /\ Len(b.old) \in Nat /\ DOMAIN b.new = 1 .. h /\ DOMAIN b.old = 1 .. Len(b.old)
      /\ DOMAIN m = 1 .. h + Len(b.old)
  BY <1>5, <1>6
<1> HIDE DEF h
<1>8. /\ \A i \in 1 .. h : m[i] = b.new[i] /\ i \in DOMAIN m
      /\ \A i \in h + 1 .. Len(m) : i - h \in DOMAIN b.old /\ m[i] = b.old[i - h]
      /\ \A i \in DOMAIN b.old : h + i \in h + 1 .. Len(m) /\ m[h + i] = b.old[i]
  BY <1>6, <1>7
<1>9. \A i \in DOMAIN m : i \in 1 .. h \/ i \in h + 1 .. Len(m)
  BY <1>6, <1>7
<1>10. h \in 0 .. Len(m)
  BY <1>6, <1>7
<1>11. \A i \in 1 .. h : \E k \in DOMAIN replies : Fresh(m[i], replies[k])
  BY <1>0, <1>4, <1>7, <1>8 DEF NewHas
<1>12. \A k \in DOMAIN replies : ~replies[k].discontinued => \E i \in 1 .. h : Fresh(m[i], replies[k])
  BY <1>0, <1>4, <1>7, <1>8 DEF NewHas
<1>13. \A i \in h + 1 .. Len(m) : \E o \in DOMAIN inbox : m[i] = inbox[o]
  BY <1>4, <1>8 DEF OldHas
<1>14. \A i \in h + 1 .. Len(m) : Replaced(m[i].cmd) =>
           \A k \in DOMAIN replies : ~Same(replies[k], m[i])
  BY <1>0, <1>4, <1>8 DEF OldHas
<1>15. ASSUME NEW o \in DOMAIN inbox, \A k \in DOMAIN replies : ~Same(replies[k], inbox[o])
       PROVE  \E i \in h + 1 .. Len(m) : m[i] = inbox[o]
  <2>1. PICK e \in DOMAIN b.old : b.old[e] = inbox[o]
    BY <1>0, <1>4, <1>15 DEF OldHas
  <2> QED
    BY <1>8, <2>1
<1>16. ASSUME NEW i \in DOMAIN m, NEW j \in DOMAIN m,
              Replaced(m[i].cmd), m[i].cmd = m[j].cmd, m[i].key = m[j].key
       PROVE  i = j
  <2>1. ASSUME NEW x \in 1 .. h, NEW y \in h + 1 .. Len(m),
               Replaced(m[x].cmd), m[x].cmd = m[y].cmd, m[x].key = m[y].key
        PROVE  FALSE
    <3>1. PICK k \in DOMAIN replies : Fresh(m[x], replies[k])
      BY <1>11
    <3>2. ~Same(replies[k], m[y])
      BY <1>14, <2>1
    <3> QED
      BY <2>1, <3>1, <3>2, ReplacedFacts DEF Fresh, Same
  <2>2. CASE i \in 1 .. h /\ j \in 1 .. h
    BY <1>4, <1>7, <1>8, <1>16, <2>2 DEF NewHas, Single
  <2>3. CASE i \in h + 1 .. Len(m) /\ j \in h + 1 .. Len(m)
    <3> DEFINE x == i - h
               y == j - h
    <3>0. x \in DOMAIN b.old /\ y \in DOMAIN b.old /\ m[i] = b.old[x] /\ m[j] = b.old[y]
      BY <1>8, <2>3
    <3> HIDE DEF x, y
    <3>1. x = y
      BY <1>4, <1>16, <3>0 DEF OldHas, Single
    <3> QED
      BY <1>7, <3>1 DEF x, y
  <2> QED
    BY <1>9, <1>16, <2>1, <2>2, <2>3
<1>17. Single(m)
  BY <1>16 DEF Single
<1> QED
  BY <1>6, <1>10, <1>11, <1>12, <1>13, <1>14, <1>15, <1>17 DEF Merges

-----------------------------------------------------------------------------
(* The steps of the system *)

ExchangeStep ==
    \E bad \in 0 .. Len(Executed), event \in BOOLEAN, second \in Second : Exchange(bad, event, second)

LEMMA NextCases ==
    ASSUME [Next]_vars
    PROVE  \/ \E call \in calls : Begin(call)
           \/ RemoveReply
           \/ ReturnAtOnce
           \/ Exec
           \/ \E timeout \in BOOLEAN : Fetch(timeout)
           \/ Take
           \/ ExchangeStep
           \/ UNCHANGED vars
<1>1. ASSUME NEW bad \in 0 .. Len(Executed),
             IF CommandPointer(Executed, "get_ui_event_button", <<>>) = 0
             THEN Exchange(bad, FALSE, "0")
             ELSE \E event \in BOOLEAN, second \in Second : Exchange(bad, event, second)
      PROVE  ExchangeStep
  <2>1. "0" \in Second
    BY DEF Second
  <2>2. CASE CommandPointer(Executed, "get_ui_event_button", <<>>) = 0
    <3>1. Exchange(bad, FALSE, "0") /\ FALSE \in BOOLEAN
      BY <1>1, <2>2
    <3> QED
      BY <2>1, <3>1 DEF ExchangeStep
  <2>3. CASE CommandPointer(Executed, "get_ui_event_button", <<>>) # 0
    <3>1. PICK event \in BOOLEAN, second \in Second : Exchange(bad, event, second)
      BY <1>1, <2>3
    <3> QED
      BY <2>1, <3>1 DEF ExchangeStep
  <2> QED
    BY <2>2, <2>3
<1> QED
  BY <1>1 DEF Next

LEMMA HeldIsSingle == HeldIsLatest => Single(inbox)
  BY ReplacedFacts DEF HeldIsLatest, Single, Same

\* A removal takes the first entry that matches, or nothing.
LEMMA RemovalFacts ==
    ASSUME TypeOK, NEW cmd, NEW key, RemoveCommandReply(cmd, key)
    PROVE  /\ inbox' \in Seq(Reply(now))
           /\ \A i \in DOMAIN inbox' : Len(inbox'[i].key) = DataSize(inbox'[i].cmd)
           /\ Single(inbox) => Single(inbox')
           /\ \/ inbox' = inbox /\ \A i \in DOMAIN inbox : ~Matches(inbox[i], cmd, key)
              \/ \E i \in DOMAIN inbox :
                    /\ Matches(inbox[i], cmd, key)
                    /\ \A j \in DOMAIN inbox' : \E k \in DOMAIN inbox : k # i /\ inbox'[j] = inbox[k]
                    /\ \A k \in DOMAIN inbox : k # i => \E j \in DOMAIN inbox' : inbox'[j] = inbox[k]
<1> DEFINE i == CommandPointer(inbox, cmd, key)
<1>1. /\ inbox \in Seq(Reply(now)) /\ Len(inbox) \in Nat /\ DOMAIN inbox = 1 .. Len(inbox)
      /\ \A j \in DOMAIN inbox : Len(inbox[j].key) = DataSize(inbox[j].cmd)
  BY DEF TypeOK
<1>2. /\ i \in 0 .. Len(inbox)
      /\ i # 0 => Matches(inbox[i], cmd, key)
      /\ i = 0 => \A j \in 1 .. Len(inbox) : ~Matches(inbox[j], cmd, key)
  BY <1>1, Pointer
<1>3. inbox' = IF i = 0 THEN inbox ELSE RemoveAt(inbox, i)
  BY DEF RemoveCommandReply
<1> HIDE DEF i
<1>4. CASE i = 0
  BY <1>1, <1>2, <1>3, <1>4
<1>5. CASE i # 0
  <2> DEFINE t == inbox'
  <2>1. i \in 1 .. Len(inbox) /\ t = RemoveAt(inbox, i) /\ i \in DOMAIN inbox
    BY <1>1, <1>2, <1>3, <1>5
  <2> HIDE DEF t
  <2>2. /\ t \in Seq(Reply(now))
        /\ \A j \in DOMAIN t : \E k \in DOMAIN inbox : k # i /\ t[j] = inbox[k]
        /\ \A k \in DOMAIN inbox : k # i => \E j \in DOMAIN t : t[j] = inbox[k]
    <3> DEFINE D == Reply(now)
    <3>1. inbox \in Seq(D)
      BY <1>1
    <3> HIDE DEF D
    <3>2. /\ t \in Seq(D)
          /\ \A j \in DOMAIN t : \E k \in DOMAIN inbox : k # i /\ t[j] = inbox[k]
          /\ \A k \in DOMAIN inbox : k # i => \E j \in DOMAIN t : t[j] = inbox[k]
      BY <2>1, <3>1, RemovedFrom
    <3> QED
      BY <3>2 DEF D
  <2>3. \A j \in DOMAIN t : Len(t[j].key) = DataSize(t[j].cmd)
    BY <1>1, <2>2
  <2>4. Single(inbox) => Single(t)
    BY <1>1, <2>1, SingleRemoved
  <2> QED
    BY <1>2, <1>5, <2>1, <2>2, <2>3, <2>4 DEF t
<1> QED
  BY <1>4, <1>5

\* An exchange merges the replies of what was executed into the inbox.
LEMMA ExchangeFacts ==
    ASSUME TypeOK, Single(outbox), HeldIsLatest, NEW bad, NEW event \in BOOLEAN,
           NEW second \in Second, Exchange(bad, event, second),
           NEW replies, replies = Replies(bad, event, second)
    PROVE  /\ replies \in Seq(Reply(now + 1)) /\ Single(replies)
           /\ inbox' = Merged(replies) /\ latest' = LatestAfter(replies)
           /\ owed' = OwedAfter(replies)
           /\ now' = now + 1 /\ now' \in 0 .. MaxExchanges
           /\ inbox' \in Seq(Reply(now'))
           /\ Single(inbox')
           /\ Merges(inbox', replies)
<1>1. now \in Nat /\ now + 1 \in Nat /\ now < MaxExchanges /\ MaxExchanges \in Nat
  BY InboxAssumption DEF TypeOK, Exchange
<1>2. replies \in Seq(Reply(now + 1)) /\ Single(replies)
  BY RepliesFacts
<1>3. inbox \in Seq(Reply(now + 1))
  <2>1. Reply(now) \subseteq Reply(now + 1)
    BY <1>1, ReplyGrows
  <2>2. inbox \in Seq(Reply(now))
    BY DEF TypeOK
  <2> QED
    BY <2>1, <2>2
<1>4. /\ inbox' = Merged(replies) /\ latest' = LatestAfter(replies)
      /\ owed' = OwedAfter(replies) /\ now' = now + 1
  BY DEF Exchange, Replies
<1>5. now' \in 0 .. MaxExchanges
  BY <1>1, <1>4
<1> DEFINE n == now + 1
           m == inbox'
<1>6. /\ n \in Nat /\ inbox \in Seq(Reply(n)) /\ Single(inbox) /\ replies \in Seq(Reply(n))
      /\ Single(replies) /\ m = Merged(replies)
  BY <1>1, <1>2, <1>3, <1>4, HeldIsSingle
<1> HIDE DEF n, m
<1>7. /\ m \in Seq(Reply(n))
      /\ Single(m)
      /\ Merges(m, replies)
  BY <1>6, MergedFacts
<1> QED
  BY <1>2, <1>4, <1>5, <1>7 DEF n, m

\* What an action leaves alone of the state that TypeOK is about.
LEMMA TypeStep ==
    ASSUME TypeOK, Single(outbox), HeldIsLatest, [Next]_vars
    PROVE  TypeOK'
<1>0. /\ inbox \in Seq(Reply(now)) /\ now \in 0 .. MaxExchanges /\ MaxExchanges \in Nat
      /\ asked \in 0 .. now /\ owed \in [Stream -> Seq(Nat)]
  BY InboxAssumption DEF TypeOK
<1>1. ASSUME NEW call \in calls, Begin(call) PROVE TypeOK'
  <2>1. call \in Seq(ProgramStep) /\ call # <<>>
    BY InboxAssumption DEF TypeOK
  <2> QED
    BY <1>1, <2>1 DEF TypeOK, Begin, simVars
<1>2. CASE RemoveReply
  <2>1. pc # "idle" /\ Advance(FALSE) /\ FALSE \in BOOLEAN
    BY <1>2 DEF RemoveReply
  <2>2. /\ todo' \in Seq(ProgramStep) /\ pc' \in {"idle", "next"} /\ (pc' = "idle" <=> todo' = <<>>)
        /\ asked' = 0 /\ failed' \in BOOLEAN
    BY <2>1, AdvanceType
  <2>3. RemoveCommandReply(step.f.removes[1], step.f.removes[2])
    BY <1>2 DEF RemoveReply
  <2>4. /\ inbox' \in Seq(Reply(now))
        /\ \A i \in DOMAIN inbox' : Len(inbox'[i].key) = DataSize(inbox'[i].cmd)
    BY <2>3, RemovalFacts
  <2>5. owed' \in [Stream -> Seq(Nat)]
    <3>1. <<>> \in Seq(Nat)
      OBVIOUS
    <3> QED
      BY <1>0, <1>2, <3>1 DEF RemoveReply
  <2>6. 0 \in 0 .. now
    BY <1>0
  <2> QED
    BY <1>2, <2>2, <2>4, <2>5, <2>6 DEF TypeOK, RemoveReply, simVars
<1>3. CASE ReturnAtOnce
  <2>1. pc # "idle" /\ Advance(TRUE) /\ TRUE \in BOOLEAN
    BY <1>3 DEF ReturnAtOnce
  <2>2. /\ todo' \in Seq(ProgramStep) /\ pc' \in {"idle", "next"} /\ (pc' = "idle" <=> todo' = <<>>)
        /\ asked' = 0 /\ failed' \in BOOLEAN
    BY <2>1, AdvanceType
  <2>3. 0 \in 0 .. now
    BY <1>0
  <2> QED
    BY <1>3, <2>2, <2>3 DEF TypeOK, ReturnAtOnce, simVars
<1>4. CASE Exec
  <2>1. /\ outbox' \in Seq(QueuedCommand)
        /\ \A i \in DOMAIN outbox' : Len(outbox'[i].key) = KeySize(outbox'[i].cmd)
    <3>1. CASE step.mode = "buffer"
      BY <1>4, <3>1 DEF Exec, TypeOK
    <3>2. CASE step.mode # "buffer"
      <4> DEFINE f == step.f
                 q == outbox'
      <4>1. /\ WellFormed(f) /\ step.mode \in Mode \ {"buffer", "remove"}
            /\ q = Queued(f, step.mode)
        BY <1>4, <3>2, StepType DEF Exec
      <4> HIDE DEF f, q
      <4>2. /\ q \in Seq(QueuedCommand)
            /\ \A i \in DOMAIN q : \/ q[i] = [cmd |-> f.cmd, key |-> f.key, mode |-> step.mode]
                                   \/ \E k \in DOMAIN outbox : q[i] = outbox[k]
        BY <4>1, QueuedFacts DEF Enters
      <4>3. Len(f.key) = KeySize(f.cmd)
        BY <4>1 DEF WellFormed
      <4>4. \A i \in DOMAIN q : Len(q[i].key) = KeySize(q[i].cmd)
        BY <4>2, <4>3 DEF TypeOK
      <4> QED
        BY <4>2, <4>4 DEF q
    <3> QED
      BY <3>1, <3>2
  <2>2. now \in 0 .. now
    BY <1>0
  <2> QED
    BY <1>4, <2>1, <2>2 DEF TypeOK, Exec, simVars
<1>5. ASSUME NEW timeout \in BOOLEAN, Fetch(timeout) PROVE TypeOK'
  <2> DEFINE f == step.f
             i == CommandPointer(inbox, f.cmd, f.key)
             ok == i # 0 /\ inbox[i].ok /\ ~timeout
             removal == Removal(f, step.mode, ok, i # 0 /\ inbox[i].event)
  <2>1. pc = "fetch"
    BY <1>5 DEF Fetch
  <2>2. /\ inbox' \in Seq(Reply(now))
        /\ \A j \in DOMAIN inbox' : Len(inbox'[j].key) = DataSize(inbox'[j].cmd)
    <3>1. CASE removal = "now"
      <4>1. RemoveCommandReply(f.cmd, f.key)
        BY <1>5, <3>1 DEF Fetch
      <4> QED
        BY <4>1, RemovalFacts
    <3>2. CASE removal # "now"
      BY <1>5, <3>2 DEF Fetch, TypeOK
    <3> QED
      BY <3>1, <3>2
  <2>3. owed' \in [Stream -> Seq(Nat)]
    <3>1. ASSUME ok, f.taken = "locked"
          PROVE  f.key \in Stream => SubSeq(owed[f.key], Len(inbox[i].items) + 1, Len(owed[f.key])) \in Seq(Nat)
      <4> DEFINE s == owed[f.key]
                 m == Len(inbox[i].items)
      <4> SUFFICES ASSUME f.key \in Stream PROVE SubSeq(s, m + 1, Len(s)) \in Seq(Nat)
        OBVIOUS
      <4>1. s \in Seq(Nat)
        BY <1>0
      <4>2. i \in DOMAIN inbox
        <5>1. Len(inbox) \in Nat /\ DOMAIN inbox = 1 .. Len(inbox)
          BY <1>0
        <5> QED
          BY <3>1, <5>1, Pointer
      <4>3. inbox[i].items \in Seq(Nat)
        <5>1. inbox[i] \in Reply(now)
          BY <1>0, <4>2
        <5> QED
          BY <5>1 DEF Reply
      <4>4. m \in Nat
        BY <4>3
      <4> HIDE DEF s, m
      <4>5. \A j \in m + 1 .. Len(s) : s[j] \in Nat
        BY <4>1, <4>4
      <4> QED
        BY <4>1, <4>4, <4>5, SubSeqProperties
    <3>2. owed' = IF ok /\ f.taken = "locked"
                  THEN [owed EXCEPT ![f.key] = SubSeq(@, Len(inbox[i].items) + 1, Len(@))]
                  ELSE owed
      BY <1>5 DEF Fetch
    <3> HIDE DEF ok, f, i
    <3>3. CASE ok /\ f.taken = "locked"
      <4>1. owed' = [owed EXCEPT ![f.key] = SubSeq(owed[f.key], Len(inbox[i].items) + 1, Len(owed[f.key]))]
        BY <3>2, <3>3
      <4> HIDE DEF f
      <4> DEFINE s == SubSeq(owed[f.key], Len(inbox[i].items) + 1, Len(owed[f.key]))
      <4>2. f.key \in Stream => s \in Seq(Nat)
        BY <3>1, <3>3
      <4>3. owed' = [owed EXCEPT ![f.key] = s]
        BY <4>1
      <4> HIDE DEF s
      <4> QED
        BY <1>0, <4>2, <4>3
    <3> QED
      BY <1>0, <3>2, <3>3
  <2>4. /\ todo' \in Seq(ProgramStep) /\ pc' \in {"idle", "next", "take"}
        /\ (pc' = "idle" <=> todo' = <<>>)
        /\ asked' \in 0 .. now /\ failed' \in BOOLEAN
    <3>0. (~ok) \in BOOLEAN
      <4> HIDE DEF ok
      <4> QED
        OBVIOUS
    <3>1. (~ok) \in BOOLEAN /\ pc # "idle" /\ 0 \in 0 .. now
      BY <1>0, <2>1, <3>0
    <3>2. CASE Advance(~ok)
      <4>1. /\ todo' \in Seq(ProgramStep) /\ pc' \in {"idle", "next"} /\ (pc' = "idle" <=> todo' = <<>>)
            /\ asked' = 0 /\ failed' \in BOOLEAN
        BY <3>1, <3>2, AdvanceType
      <4> QED
        BY <3>1, <4>1
    <3>3. CASE pc' = "take" /\ failed' = ~ok /\ UNCHANGED <<todo, asked>>
      BY <2>1, <3>1, <3>3 DEF TypeOK
    <3>4. CASE pc' = "next" /\ UNCHANGED <<todo, asked, failed>>
      BY <2>1, <3>4 DEF TypeOK
    <3> QED
      BY <1>5, <3>2, <3>3, <3>4 DEF Fetch
  <2> QED
    BY <1>5, <2>2, <2>3, <2>4 DEF TypeOK, Fetch, simVars
<1>6. CASE Take
  <2>1. pc # "idle" /\ Advance(failed) /\ failed \in BOOLEAN
    BY <1>6 DEF Take, TypeOK
  <2>2. /\ todo' \in Seq(ProgramStep) /\ pc' \in {"idle", "next"} /\ (pc' = "idle" <=> todo' = <<>>)
        /\ asked' = 0 /\ failed' \in BOOLEAN
    BY <2>1, AdvanceType
  <2>3. RemoveCommandReply(step.f.cmd, step.f.key)
    BY <1>6 DEF Take
  <2>4. /\ inbox' \in Seq(Reply(now))
        /\ \A i \in DOMAIN inbox' : Len(inbox'[i].key) = DataSize(inbox'[i].cmd)
    BY <2>3, RemovalFacts
  <2>5. 0 \in 0 .. now
    BY <1>0
  <2> QED
    BY <1>6, <2>2, <2>4, <2>5 DEF TypeOK, Take, simVars
<1>7. CASE ExchangeStep
  <2>1. PICK bad \in 0 .. Len(Executed), event \in BOOLEAN, second \in Second :
            Exchange(bad, event, second)
    BY <1>7 DEF ExchangeStep
  <2> DEFINE replies == Replies(bad, event, second)
  <2>2. /\ replies \in Seq(Reply(now + 1)) /\ DOMAIN replies = DOMAIN Executed
        /\ \A i \in DOMAIN replies : Len(replies[i].key) = DataSize(replies[i].cmd)
    BY RepliesFacts
  <2>3. /\ owed' = OwedAfter(replies) /\ now' = now + 1 /\ now' \in 0 .. MaxExchanges
        /\ inbox' \in Seq(Reply(now')) /\ Merges(inbox', replies)
    BY <2>1, ExchangeFacts
  <2> HIDE DEF replies
  <2>4. \A i \in DOMAIN inbox' : Len(inbox'[i].key) = DataSize(inbox'[i].cmd)
    <3>1. PICK h \in 0 .. Len(inbox') :
              /\ \A i \in 1 .. h : \E k \in DOMAIN replies : Fresh(inbox'[i], replies[k])
              /\ \A i \in h + 1 .. Len(inbox') : \E o \in DOMAIN inbox : inbox'[i] = inbox[o]
      BY <2>3 DEF Merges
    <3>2. \A i \in DOMAIN inbox' : i \in 1 .. h \/ i \in h + 1 .. Len(inbox')
      BY <2>3
    <3>3. \A i \in DOMAIN inbox : Len(inbox[i].key) = DataSize(inbox[i].cmd)
      BY DEF TypeOK
    <3> QED
      BY <2>2, <3>1, <3>2, <3>3 DEF Fresh
  <2>5. owed' \in [Stream -> Seq(Nat)]
    <3>1. ASSUME NEW key \in Stream
          PROVE  (LET own == {r \in Range(replies) : r.cmd = "read_string_stream" /\ r.key = key}
                  IN IF own = {} THEN owed[key]
                     ELSE IF \E r \in own : r.discontinued THEN <<>>
                     ELSE owed[key] \o (CHOOSE r \in own : TRUE).items) \in Seq(Nat)
      <4> DEFINE own == {r \in Range(replies) : r.cmd = "read_string_stream" /\ r.key = key}
                 c == CHOOSE r \in own : TRUE
      <4>1. owed[key] \in Seq(Nat) /\ <<>> \in Seq(Nat)
        BY <1>0
      <4>2. ASSUME own # {} PROVE c.items \in Seq(Nat)
        <5>1. PICK i \in DOMAIN replies : c = replies[i]
          BY <4>2 DEF Range
        <5>2. c \in Reply(now + 1)
          <6> HIDE DEF c
          <6> QED
            BY <2>2, <5>1
        <5> QED
          BY <5>2 DEF Reply
      <4> HIDE DEF own, c
      <4>3. own # {} => owed[key] \o c.items \in Seq(Nat)
        BY <4>1, <4>2
      <4> QED
        BY <4>1, <4>3 DEF own, c
    <3> QED
      BY <2>3, <3>1 DEF OwedAfter
  <2>6. files' \subseteq Sent
    BY <2>1 DEF Exchange, FilesAfter, TypeOK
  <2>7. /\ IsFiniteSet(stored')
        /\ stored' \subseteq [cmd : Command, key : Key, mode : {"streaming"}]
        /\ \A c \in stored' : Len(c.key) = KeySize(c.cmd)
    <3> DEFINE I == {j \in DOMAIN Executed :
                               /\ Keeps(j, bad, event)
                               /\ \/ Executed[j].mode = "streaming"
                                  \/ \E c \in stored : /\ c.cmd = Executed[j].cmd
                                                       /\ c.key = Executed[j].key}
               At(i) == [cmd |-> Executed[i].cmd, key |-> Executed[i].key, mode |-> "streaming"]
               f == [i \in I |-> At(i)]
    <3>1. stored' = {At(i) : i \in I}
      BY <2>1 DEF Exchange
    <3>2. /\ Executed \in Seq(QueuedCommand) /\ Len(Executed) \in Nat
          /\ DOMAIN Executed = 1 .. Len(Executed)
          /\ \A i \in DOMAIN Executed : Len(Executed[i].key) = KeySize(Executed[i].cmd)
      BY ExecutedFacts
    <3>3. I \subseteq 1 .. Len(Executed)
      BY <3>2
    <3> HIDE DEF I
    <3>4. IsFiniteSet(I)
      <4>1. IsFiniteSet(1 .. Len(Executed))
        BY <3>2, FS_Interval
      <4> QED
        BY <3>3, <4>1, FS_Subset
    <3>5. IsFiniteSet(stored')
      <4>1. f \in Surjection(I, stored')
        BY <3>1 DEF Surjection
      <4> HIDE DEF f
      <4> QED
        BY <3>4, <4>1, FS_Surjection
    <3>6. \A i \in I : Executed[i] \in QueuedCommand
      BY <3>2, <3>3
    <3> QED
      BY <3>1, <3>2, <3>3, <3>5, <3>6 DEF QueuedCommand
  <2>8. misloaded' \in BOOLEAN
    BY <2>1 DEF Exchange
  <2>9. outbox' = <<>> /\ <<>> \in Seq(QueuedCommand) /\ DOMAIN <<>> = {}
    BY <2>1 DEF Exchange
  <2>10. asked' \in 0 .. now'
    BY <1>0, <2>1, <2>3 DEF Exchange, callVars
  <2> QED
    BY <2>1, <2>3, <2>4, <2>5, <2>6, <2>7, <2>8, <2>9, <2>10 DEF TypeOK, Exchange, callVars
<1>8. CASE UNCHANGED vars
  BY <1>8 DEF TypeOK, vars, callVars, simVars
<1> QED
  BY <1>1, <1>2, <1>3, <1>4, <1>5, <1>6, <1>7, <1>8, NextCases

\* A command that is replaced is in the outbox once.
LEMMA SingleStep ==
    ASSUME TypeOK, Single(outbox), [Next]_vars
    PROVE  Single(outbox)'
<1>1. CASE Exec
  <2>1. CASE step.mode = "buffer"
    BY <1>1, <2>1 DEF Exec, Single
  <2>2. CASE step.mode # "buffer"
    <3> DEFINE f == step.f
               q == outbox'
    <3>1. /\ WellFormed(f) /\ step.mode \in Mode \ {"buffer", "remove"}
          /\ q = Queued(f, step.mode)
      BY <1>1, <2>2, StepType DEF Exec
    <3> HIDE DEF f, q
    <3>2. Single(q)
      BY <3>1, QueuedFacts DEF Enters
    <3> QED
      BY <3>2 DEF q, Single
  <2> QED
    BY <2>1, <2>2
<1>2. CASE ExchangeStep
  <2>1. outbox' = <<>>
    BY <1>2 DEF ExchangeStep, Exchange
  <2> QED
    BY <2>1 DEF Single
<1>3. CASE UNCHANGED outbox
  BY <1>3 DEF Single
<1> QED
  BY <1>1, <1>2, <1>3, NextCases
     DEF Begin, RemoveReply, ReturnAtOnce, Fetch, Take, vars

\* The step names what it removes by a whole argument.
LEMMA RemovalKey ==
    ASSUME TypeOK, pc # "idle"
    PROVE  /\ step.f.removes[2] \in Key
           /\ Replaced(step.f.removes[1]) => Len(step.f.removes[2]) >= DataSize(step.f.removes[1])
           /\ step.f.key \in Key
           /\ Replaced(step.f.cmd) => Len(step.f.key) >= DataSize(step.f.cmd)
<1>1. WellFormed(step.f)
  BY StepType
<1>2. Replaced(step.f.cmd) => KeySize(step.f.cmd) = DataSize(step.f.cmd)
  BY ReplacedFacts, SizeFacts
<1>3. DataSize(step.f.cmd) \in Nat
  BY SizeFacts
<1> QED
  BY <1>1, <1>2, <1>3 DEF WellFormed

\* Which entries match a whole argument.
LEMMA WholeKey ==
    ASSUME TypeOK, NEW cmd, NEW key \in Key, Replaced(cmd) => Len(key) >= DataSize(cmd),
           NEW k \in DOMAIN inbox, Replaced(cmd), Matches(inbox[k], cmd, key)
    PROVE  inbox[k].cmd = cmd /\ inbox[k].key = key
<1>1. /\ inbox[k].cmd = cmd /\ IsPrefix(key, inbox[k].key)
      /\ Len(inbox[k].key) = DataSize(cmd)
  BY DEF Matches, TypeOK
<1>2. inbox[k].key \in Key
  <2>1. inbox[k] \in Reply(now)
    BY DEF TypeOK
  <2> QED
    BY <2>1 DEF Reply
<1> QED
  BY <1>1, <1>2, PrefixFacts

\* What is left of the inbox when a reply is removed that is named by its whole argument.
LEMMA RemovedIsNamed ==
    ASSUME TypeOK, HeldIsLatest, NEW cmd, NEW key \in Key,
           Replaced(cmd) => Len(key) >= DataSize(cmd), RemoveCommandReply(cmd, key)
    PROVE  /\ Single(inbox')
           /\ \A j \in DOMAIN inbox' : \E k \in DOMAIN inbox :
                  /\ inbox'[j] = inbox[k]
                  /\ Replaced(inbox[k].cmd) => ~Matches(inbox[k], cmd, key)
<1>1. /\ Single(inbox')
      /\ \/ inbox' = inbox /\ \A i \in DOMAIN inbox : ~Matches(inbox[i], cmd, key)
         \/ \E i \in DOMAIN inbox :
               /\ Matches(inbox[i], cmd, key)
               /\ \A j \in DOMAIN inbox' : \E k \in DOMAIN inbox : k # i /\ inbox'[j] = inbox[k]
  BY RemovalFacts, HeldIsSingle
<1>2. CASE inbox' = inbox /\ \A i \in DOMAIN inbox : ~Matches(inbox[i], cmd, key)
  BY <1>1, <1>2
<1>3. ASSUME NEW i \in DOMAIN inbox, Matches(inbox[i], cmd, key),
             NEW k \in DOMAIN inbox, k # i, Replaced(inbox[k].cmd)
      PROVE  ~Matches(inbox[k], cmd, key)
  <2> SUFFICES ASSUME Matches(inbox[k], cmd, key) PROVE FALSE
    OBVIOUS
  <2>1. Replaced(cmd)
    BY <1>3 DEF Matches
  <2>2. /\ inbox[k].cmd = cmd /\ inbox[k].key = key
        /\ inbox[i].cmd = cmd /\ inbox[i].key = key
    BY <1>3, <2>1, WholeKey
  <2>3. Single(inbox)
    BY HeldIsSingle
  <2> QED
    BY <1>3, <2>1, <2>2, <2>3 DEF Single
<1> QED
  BY <1>1, <1>2, <1>3

\* A reply of a replaced command that is held is the last one that came.
LEMMA HeldHas ==
    ASSUME HeldIsLatest, NEW k \in DOMAIN inbox, Replaced(inbox[k].cmd)
    PROVE  \E l \in latest : /\ l.cmd = inbox[k].cmd /\ l.key = inbox[k].key
                             /\ l.at = inbox[k].at
                             /\ l.erased => Missed(inbox[k].cmd, inbox[k].key)
<1>1. inbox[k] \in Range(inbox)
  BY DEF Range
<1> QED
  BY <1>1, Zenon DEF HeldIsLatest

\* What the program takes is forgotten, and only that.
LEMMA HeldTaken ==
    ASSUME TypeOK, HeldIsLatest, NEW cmd, NEW key \in Key,
           Replaced(cmd) => Len(key) >= DataSize(cmd),
           RemoveCommandReply(cmd, key), latest' = Forget(latest, cmd, key)
    PROVE  HeldIsLatest'
<1>1. ASSUME NEW j \in DOMAIN inbox', Replaced(inbox'[j].cmd)
      PROVE  \E l \in latest' : /\ l.cmd = inbox'[j].cmd /\ l.key = inbox'[j].key
                                /\ l.at = inbox'[j].at
                                /\ l.erased => Missed(inbox'[j].cmd, inbox'[j].key)
  <2>1. PICK k \in DOMAIN inbox : inbox'[j] = inbox[k] /\ ~Matches(inbox[k], cmd, key)
    BY <1>1, RemovedIsNamed
  <2>2. PICK l \in latest : /\ l.cmd = inbox[k].cmd /\ l.key = inbox[k].key /\ l.at = inbox[k].at
                            /\ l.erased => Missed(inbox[k].cmd, inbox[k].key)
    BY <1>1, <2>1, HeldHas
  <2>3. l \in latest'
    BY <2>1, <2>2 DEF Forget, Matches
  <2> QED
    BY <2>1, <2>2, <2>3
<1> QED
  BY <1>1, RemovedIsNamed DEF HeldIsLatest, Single, Same, Range

\* What is erased is gone, unless it is missed.
LEMMA HeldErased ==
    ASSUME TypeOK, HeldIsLatest, RemoveReply
    PROVE  HeldIsLatest'
<1> DEFINE f == step.f
<1>1. /\ pc # "idle" /\ RemoveCommandReply(f.removes[1], f.removes[2])
      /\ latest' = Erase(latest, f.cmd, f.key)
  BY DEF RemoveReply
<1>2. /\ f.removes[2] \in Key
      /\ Replaced(f.removes[1]) => Len(f.removes[2]) >= DataSize(f.removes[1])
      /\ f.key \in Key
      /\ Replaced(f.cmd) => Len(f.key) >= DataSize(f.cmd)
  BY <1>1, RemovalKey
<1>3. Replaced(f.cmd) => Missed(f.cmd, f.key) \/ f.removes = <<f.cmd, f.key>>
  BY <1>1, StepType DEF WellFormed
<1> HIDE DEF f
<1>4. /\ Single(inbox')
      /\ \A j \in DOMAIN inbox' : \E k \in DOMAIN inbox :
             /\ inbox'[j] = inbox[k]
             /\ Replaced(inbox[k].cmd) => ~Matches(inbox[k], f.removes[1], f.removes[2])
  BY <1>1, <1>2, RemovedIsNamed
<1>5. ASSUME NEW j \in DOMAIN inbox', Replaced(inbox'[j].cmd)
      PROVE  \E l \in latest' : /\ l.cmd = inbox'[j].cmd /\ l.key = inbox'[j].key
                                /\ l.at = inbox'[j].at
                                /\ l.erased => Missed(inbox'[j].cmd, inbox'[j].key)
  <2>1. PICK k \in DOMAIN inbox :
            inbox'[j] = inbox[k] /\ ~Matches(inbox[k], f.removes[1], f.removes[2])
    BY <1>4, <1>5
  <2>2. PICK l \in latest : /\ l.cmd = inbox[k].cmd /\ l.key = inbox[k].key /\ l.at = inbox[k].at
                            /\ l.erased => Missed(inbox[k].cmd, inbox[k].key)
    BY <1>5, <2>1, HeldHas
  <2> DEFINE m == [cmd |-> l.cmd, key |-> l.key, at |-> l.at,
                   erased |-> l.erased \/ (l.cmd = f.cmd /\ IsPrefix(f.key, l.key))]
  <2>3. m \in latest'
    BY <1>1 DEF Erase
  <2>4. ASSUME Matches(inbox[k], f.cmd, f.key) PROVE Missed(inbox[k].cmd, inbox[k].key)
    <3>1. Replaced(f.cmd)
      BY <1>5, <2>1, <2>4 DEF Matches
    <3>2. inbox[k].cmd = f.cmd /\ inbox[k].key = f.key
      BY <1>2, <2>4, <3>1, WholeKey
    <3>3. f.removes # <<f.cmd, f.key>>
      BY <2>1, <2>4
    <3> QED
      BY <1>3, <3>1, <3>2, <3>3
  <2>5. m.erased => Missed(inbox[k].cmd, inbox[k].key)
    BY <2>2, <2>4 DEF Matches
  <2>6. m.cmd = inbox[k].cmd /\ m.key = inbox[k].key /\ m.at = inbox[k].at
    BY <2>2
  <2> HIDE DEF m
  <2> QED
    BY <2>1, <2>3, <2>5, <2>6
<1> QED
  BY <1>4, <1>5 DEF HeldIsLatest, Single, Same, Range

LEMMA HeldStep ==
    ASSUME TypeOK, Single(outbox), HeldIsLatest, [Next]_vars
    PROVE  HeldIsLatest'
<1>1. CASE RemoveReply
  BY <1>1, HeldErased
<1>2. ASSUME NEW timeout \in BOOLEAN, Fetch(timeout) PROVE HeldIsLatest'
  <2>1. CASE /\ RemoveCommandReply(step.f.cmd, step.f.key)
             /\ latest' = Forget(latest, step.f.cmd, step.f.key)
    <3>1. pc # "idle"
      BY <1>2 DEF Fetch
    <3> QED
      BY <2>1, <3>1, RemovalKey, HeldTaken
  <2>2. CASE UNCHANGED <<inbox, latest>>
    BY <2>2 DEF HeldIsLatest
  <2> QED
    BY <1>2, <2>1, <2>2 DEF Fetch
<1>3. CASE Take
  <2>1. /\ pc # "idle" /\ RemoveCommandReply(step.f.cmd, step.f.key)
        /\ latest' = Forget(latest, step.f.cmd, step.f.key)
    BY <1>3 DEF Take
  <2> QED
    BY <2>1, RemovalKey, HeldTaken
<1>4. CASE ExchangeStep
  <2>1. PICK bad \in 0 .. Len(Executed), event \in BOOLEAN, second \in Second :
            Exchange(bad, event, second)
    BY <1>4 DEF ExchangeStep
  <2> DEFINE replies == Replies(bad, event, second)
  <2>2. /\ replies \in Seq(Reply(now + 1)) /\ latest' = LatestAfter(replies)
        /\ inbox' \in Seq(Reply(now')) /\ Single(inbox') /\ Merges(inbox', replies)
    BY <2>1, ExchangeFacts
  <2> HIDE DEF replies
  <2>3. PICK h \in 0 .. Len(inbox') :
            /\ \A i \in 1 .. h : \E k \in DOMAIN replies : Fresh(inbox'[i], replies[k])
            /\ \A i \in h + 1 .. Len(inbox') :
                   /\ \E o \in DOMAIN inbox : inbox'[i] = inbox[o]
                   /\ Replaced(inbox'[i].cmd) =>
                          \A k \in DOMAIN replies : ~Same(replies[k], inbox'[i])
    BY <2>2 DEF Merges
  <2>4. ASSUME NEW i \in DOMAIN inbox', Replaced(inbox'[i].cmd)
        PROVE  \E l \in latest' : /\ l.cmd = inbox'[i].cmd /\ l.key = inbox'[i].key
                                  /\ l.at = inbox'[i].at
                                  /\ l.erased => Missed(inbox'[i].cmd, inbox'[i].key)
    <3>1. CASE i \in 1 .. h
      <4>1. PICK k \in DOMAIN replies : Fresh(inbox'[i], replies[k])
        BY <2>3, <3>1
      <4> DEFINE r == replies[k]
                 l == [cmd |-> r.cmd, key |-> r.key, at |-> r.at, erased |-> FALSE]
      <4>2. l \in latest'
        BY <2>2, <4>1 DEF LatestAfter, Range, Fresh
      <4> QED
        BY <4>1, <4>2 DEF Fresh
    <3>2. CASE i \in h + 1 .. Len(inbox')
      <4>1. PICK o \in DOMAIN inbox : inbox'[i] = inbox[o]
        BY <2>3, <3>2
      <4>2. PICK l \in latest : /\ l.cmd = inbox[o].cmd /\ l.key = inbox[o].key
                                /\ l.at = inbox[o].at
                                /\ l.erased => Missed(inbox[o].cmd, inbox[o].key)
        BY <2>4, <4>1, HeldHas
      <4>3. \A k \in DOMAIN replies : ~Same(replies[k], l)
        BY <2>3, <2>4, <3>2, <4>1, <4>2 DEF Same
      <4>4. l \in latest'
        BY <2>2, <4>3 DEF LatestAfter
      <4> QED
        BY <4>1, <4>2, <4>4
    <3>3. i \in 1 .. h \/ i \in h + 1 .. Len(inbox')
      BY <2>2
    <3> QED
      BY <3>1, <3>2, <3>3
  <2> QED
    BY <2>2, <2>4 DEF HeldIsLatest, Single, Same, Range
<1>5. CASE UNCHANGED <<inbox, latest>>
  BY <1>5 DEF HeldIsLatest
<1> QED
  BY <1>1, <1>2, <1>3, <1>4, <1>5, NextCases DEF Begin, ReturnAtOnce, Exec, vars

LEMMA StreamPlaceStep ==
    ASSUME TypeOK, StreamPlace, [Next]_vars
    PROVE  StreamPlace'
<1>1. ASSUME NEW call \in calls, Begin(call) PROVE StreamPlace'
  BY <1>1 DEF Begin, StreamPlace
<1>2. ASSUME NEW failure, Advance(failure) PROVE StreamPlace'
  BY <1>2 DEF Advance, StreamPlace
<1>3. CASE Exec
  BY <1>3 DEF Exec, StreamPlace, step
<1>4. ASSUME NEW timeout \in BOOLEAN, Fetch(timeout) PROVE StreamPlace'
  <2> DEFINE f == step.f
             i == CommandPointer(inbox, f.cmd, f.key)
             ok == i # 0 /\ inbox[i].ok /\ ~timeout
             event == i # 0 /\ inbox[i].event
             removal == Removal(f, step.mode, ok, event)
  <2>1. pc = "fetch"
    BY <1>4 DEF Fetch
  <2>2. CASE Advance(~ok)
    BY <1>2, <2>2
  <2>3. CASE removal = "later" /\ pc' = "take" /\ failed' = ~ok /\ UNCHANGED <<todo, asked>>
    <3> HIDE DEF ok, event
    <3>1. f.taken # "locked"
      BY <2>1, <2>3 DEF Removal, StreamPlace
    <3> QED
      BY <2>3, <3>1 DEF StreamPlace, step
  <2>4. CASE pc' = "next"
    BY <2>4 DEF StreamPlace
  <2> QED
    BY <1>4, <2>2, <2>3, <2>4 DEF Fetch
<1>5. CASE UNCHANGED <<pc, todo>>
  BY <1>5 DEF StreamPlace, step
<1> QED
  BY <1>1, <1>2, <1>3, <1>4, <1>5, NextCases
     DEF RemoveReply, ReturnAtOnce, Take, ExchangeStep, Exchange, vars, callVars

LEMMA AskedStep ==
    ASSUME TypeOK, AskedInv, [Next]_vars
    PROVE  AskedInv'
<1>1. ASSUME NEW call \in calls, Begin(call) PROVE AskedInv'
  BY <1>1 DEF Begin, AskedInv
<1>2. ASSUME NEW failure, Advance(failure) PROVE AskedInv'
  BY <1>2 DEF Advance, AskedInv
<1>3. CASE Exec
  <2> SUFFICES ASSUME step.mode = "blocking", step.f.queue # "keep"
               PROVE  \E i \in DOMAIN outbox' :
                         outbox'[i] = [cmd |-> step.f.cmd, key |-> step.f.key, mode |-> "blocking"]
    BY <1>3 DEF AskedInv, Exec, step
  <2> DEFINE f == step.f
             mode == step.mode
             q == outbox'
  <2>1. WellFormed(f) /\ mode \in Mode \ {"buffer", "remove"} /\ q = Queued(f, mode)
    BY <1>3, StepType DEF Exec, Mode
  <2>2. f.queue # "keep" /\ mode = "blocking"
    OBVIOUS
  <2> HIDE DEF f, mode, q
  <2>3. Enters(q, f, mode)
    BY <2>1, QueuedFacts
  <2>4. \E i \in DOMAIN q : q[i] = [cmd |-> f.cmd, key |-> f.key, mode |-> mode]
    BY <2>2, <2>3 DEF Enters
  <2> QED
    BY <2>2, <2>4 DEF f, q
<1>4. CASE ExchangeStep
  <2>1. now' = now + 1 /\ asked' = asked /\ asked \in 0 .. now /\ now \in Nat
    BY <1>4 DEF ExchangeStep, Exchange, callVars, TypeOK
  <2>2. now' # asked'
    BY <2>1
  <2> QED
    BY <2>2 DEF AskedInv
<1>5. CASE pc' \in {"next", "take"}
  BY <1>5 DEF AskedInv
<1>6. CASE UNCHANGED <<pc, todo, now, asked, outbox>>
  BY <1>6 DEF AskedInv, step
<1>7. ASSUME NEW timeout \in BOOLEAN, Fetch(timeout) PROVE AskedInv'
  BY <1>2, <1>5, <1>7 DEF Fetch
<1> QED
  BY <1>1, <1>2, <1>3, <1>4, <1>5, <1>6, <1>7, NextCases
     DEF RemoveReply, ReturnAtOnce, Take, vars, callVars, simVars

\* The answer of a blocking call is the first reply that its command is looked up by.
LEMMA AnswerStep ==
    ASSUME TypeOK, Single(outbox), HeldIsLatest, AskedInv, AnswerIsFound, [Next]_vars
    PROVE  AnswerIsFound'
<1>1. CASE ExchangeStep
  <2> SUFFICES ASSUME Answered', step.f.queue # "keep"
               PROVE  LET i == CommandPointer(inbox', step.f.cmd, step.f.key)
                      IN i # 0 /\ inbox'[i].at = now'
    BY <1>1 DEF ExchangeStep, Exchange, callVars, AnswerIsFound, Entry, step
  <2>1. PICK bad \in 0 .. Len(Executed), event \in BOOLEAN, second \in Second :
            Exchange(bad, event, second)
    BY <1>1 DEF ExchangeStep
  <2> DEFINE replies == Replies(bad, event, second)
             f == step.f
             m == inbox'
             i == CommandPointer(m, f.cmd, f.key)
  <2>2. /\ m \in Seq(Reply(now')) /\ now' = now + 1 /\ Merges(m, replies)
    BY <2>1, ExchangeFacts
  <2>3. /\ DOMAIN replies = DOMAIN Executed
        /\ \A k \in DOMAIN replies :
              /\ replies[k] = ReplyTo(k, bad, event, second)
              /\ replies[k].cmd = Executed[k].cmd /\ replies[k].at = now + 1
              /\ IsPrefix(Executed[k].key, replies[k].key)
    BY RepliesFacts
  <2> HIDE DEF replies
  <2>4. pc = "fetch" /\ step.mode = "blocking" /\ now = asked
    <3>1. pc = "fetch" /\ step.mode = "blocking"
      BY <2>1 DEF Exchange, callVars, Answered, step
    <3>2. ~(now > asked) /\ asked \in 0 .. now /\ now \in Nat
      BY <2>1, <3>1 DEF Exchange, Answered, TypeOK
    <3> QED
      BY <3>1, <3>2
  <2>5. PICK o \in DOMAIN outbox :
            outbox[o] = [cmd |-> f.cmd, key |-> f.key, mode |-> "blocking"]
    BY <2>4 DEF AskedInv
  <2>6. o \in DOMAIN Executed /\ Executed[o] = outbox[o]
    BY ExecutedFacts
  <2>7. /\ ~replies[o].discontinued
        /\ replies[o].cmd = f.cmd /\ IsPrefix(f.key, replies[o].key)
    <3>1. o \in DOMAIN replies /\ Executed[o] = [cmd |-> f.cmd, key |-> f.key, mode |-> "blocking"]
      BY <2>3, <2>5, <2>6
    <3>2. /\ replies[o] = ReplyTo(o, bad, event, second)
          /\ replies[o].cmd = Executed[o].cmd /\ IsPrefix(Executed[o].key, replies[o].key)
      BY <2>3, <3>1
    <3>3. replies[o].discontinued = (Executed[o].mode = "discontinue")
      BY <3>2 DEF ReplyTo
    <3>4. /\ Executed[o].cmd = f.cmd /\ Executed[o].key = f.key
          /\ Executed[o].mode = "blocking"
      <4> HIDE DEF f
      <4> QED
        BY <3>1
    <3>5. ~replies[o].discontinued
      BY <3>3, <3>4
    <3> QED
      BY <3>2, <3>4, <3>5
  <2>8. PICK h \in 0 .. Len(m) :
            /\ \A x \in 1 .. h : \E k \in DOMAIN replies : Fresh(m[x], replies[k])
            /\ \E x \in 1 .. h : Fresh(m[x], replies[o])
    BY <2>2, <2>3, <2>6, <2>7 DEF Merges
  <2>9. PICK e \in 1 .. h : Fresh(m[e], replies[o])
    BY <2>8
  <2>10. Matches(m[e], f.cmd, f.key)
    BY <2>7, <2>9 DEF Fresh, Matches
  <2>11. Len(m) \in Nat /\ e \in 1 .. Len(m)
    BY <2>2, <2>8
  <2>12. /\ i \in 0 .. Len(m)
         /\ i # 0 => \A j \in 1 .. i - 1 : ~Matches(m[j], f.cmd, f.key)
         /\ i = 0 => \A j \in 1 .. Len(m) : ~Matches(m[j], f.cmd, f.key)
    <3> HIDE DEF m, f
    <3> QED
      BY <2>11, Pointer
  <2> HIDE DEF i
  <2>13. i \in 1 .. e
    BY <2>10, <2>11, <2>12
  <2>14. i \in 1 .. h
    BY <2>11, <2>13
  <2>15. m[i].at = now + 1
    BY <2>3, <2>8, <2>14 DEF Fresh
  <2>16. i # 0
    BY <2>13
  <2> QED
    BY <2>2, <2>15, <2>16 DEF i
<1>2. CASE Exec
  <2>1. now' = asked' /\ now \in Nat /\ now' = now
    BY <1>2 DEF Exec, simVars, TypeOK
  <2> QED
    BY <2>1 DEF AnswerIsFound, Answered
<1>3. CASE pc' # "fetch"
  BY <1>3 DEF AnswerIsFound, Answered
<1>4. CASE UNCHANGED vars
  BY <1>4 DEF AnswerIsFound, Answered, Entry, step, vars, callVars, simVars
<1> QED
  BY <1>1, <1>2, <1>3, <1>4, NextCases
     DEF Begin, RemoveReply, ReturnAtOnce, Fetch, Take, Advance

-----------------------------------------------------------------------------
(* The data of the streams *)

LEMMA StreamKeys ==
    ASSUME TypeOK
    PROVE  /\ \A key \in Stream : key \in Key /\ Len(key) = 1
           /\ \A i \in DOMAIN inbox : inbox[i].cmd = "read_string_stream" =>
                  inbox[i].key \in Key /\ Len(inbox[i].key) = 1
<1>1. ASSUME NEW key \in Stream PROVE key \in Key /\ Len(key) = 1
  <2>1. PICK s \in ProgramStep : s.f.cmd = "read_string_stream" /\ s.f.key = key
    BY DEF Stream
  <2> QED
    BY <2>1, InboxAssumption, ReplacedFacts DEF WellFormed
<1>2. ASSUME NEW i \in DOMAIN inbox, inbox[i].cmd = "read_string_stream"
      PROVE  inbox[i].key \in Key /\ Len(inbox[i].key) = 1
  <2>1. inbox[i] \in Reply(now) /\ Len(inbox[i].key) = DataSize(inbox[i].cmd)
    BY DEF TypeOK
  <2> QED
    BY <1>2, <2>1, ReplacedFacts DEF Reply
<1> QED
  BY <1>1, <1>2

\* The reply with the data of a stream is the one that is found.
LEMMA StreamFound ==
    ASSUME TypeOK, Single(inbox), Whole(inbox, owed)
    PROVE  StreamIsWhole
<1> SUFFICES ASSUME NEW key \in Stream,
                    NEW i, i = CommandPointer(inbox, "read_string_stream", key)
             PROVE  owed[key] = IF i = 0 THEN <<>> ELSE inbox[i].items
  BY DEF StreamIsWhole
<1>1. Len(inbox) \in Nat /\ DOMAIN inbox = 1 .. Len(inbox)
  BY DEF TypeOK
<1>2. /\ i \in 0 .. Len(inbox)
      /\ i # 0 => Matches(inbox[i], "read_string_stream", key)
      /\ i = 0 => \A j \in 1 .. Len(inbox) : ~Matches(inbox[j], "read_string_stream", key)
  BY <1>1, Pointer
<1>3. \A j \in DOMAIN inbox :
          Matches(inbox[j], "read_string_stream", key) <=> StreamEntry(inbox[j], key)
  BY StreamKeys, PrefixFacts DEF Matches, StreamEntry
<1>4. CASE i = 0
  BY <1>1, <1>2, <1>3, <1>4 DEF Whole
<1>5. CASE i # 0
  <2>1. i \in DOMAIN inbox
    BY <1>1, <1>2, <1>5
  <2> QED
    BY <1>2, <1>3, <1>5, <2>1 DEF Whole
<1> QED
  BY <1>4, <1>5

\* Removing the reply of another command, or one that no data is owed of any more.
LEMMA WholeRemoved ==
    ASSUME TypeOK, Single(inbox), Whole(inbox, owed), NEW cmd, NEW key \in Key,
           Replaced(cmd) => Len(key) >= DataSize(cmd),
           RemoveCommandReply(cmd, key),
           cmd = "read_string_stream" => owed' = [owed EXCEPT ![key] = <<>>],
           cmd # "read_string_stream" => owed' = owed
    PROVE  Whole(inbox, owed)'
<1>1. \/ inbox' = inbox /\ \A i \in DOMAIN inbox : ~Matches(inbox[i], cmd, key)
      \/ \E i \in DOMAIN inbox :
            /\ Matches(inbox[i], cmd, key)
            /\ \A j \in DOMAIN inbox' : \E k \in DOMAIN inbox : k # i /\ inbox'[j] = inbox[k]
            /\ \A k \in DOMAIN inbox : k # i => \E j \in DOMAIN inbox' : inbox'[j] = inbox[k]
  BY RemovalFacts
<1>2. Replaced("read_string_stream") /\ owed \in [Stream -> Seq(Nat)]
  BY ReplacedFacts DEF TypeOK
<1> SUFFICES ASSUME NEW stream \in Stream
             PROVE  /\ \A i \in DOMAIN inbox' : StreamEntry(inbox'[i], stream) => owed'[stream] = inbox'[i].items
                    /\ (\A i \in DOMAIN inbox' : ~StreamEntry(inbox'[i], stream)) => owed'[stream] = <<>>
  BY DEF Whole
<1>3. CASE cmd = "read_string_stream" /\ key = stream
  <2>1. owed'[stream] = <<>>
    BY <1>2, <1>3
  <2>2. ASSUME NEW j \in DOMAIN inbox' PROVE ~StreamEntry(inbox'[j], stream)
    <3>1. \A k \in DOMAIN inbox : StreamEntry(inbox[k], stream) => Matches(inbox[k], cmd, key)
      BY <1>3, PrefixFacts DEF StreamEntry, Matches
    <3>2. CASE inbox' = inbox /\ \A i \in DOMAIN inbox : ~Matches(inbox[i], cmd, key)
      BY <3>1, <3>2
    <3>3. ASSUME NEW i \in DOMAIN inbox, Matches(inbox[i], cmd, key),
                 NEW k \in DOMAIN inbox, k # i, inbox'[j] = inbox[k]
          PROVE  ~StreamEntry(inbox'[j], stream)
      <4>1. inbox[i].cmd = cmd /\ inbox[i].key = key
        BY <1>2, <1>3, <3>3, WholeKey
      <4> QED
        BY <1>2, <1>3, <3>3, <4>1 DEF StreamEntry, Single
    <3> QED
      BY <1>1, <3>2, <3>3
  <2> QED
    BY <2>1, <2>2
<1>4. CASE ~(cmd = "read_string_stream" /\ key = stream)
  <2>1. owed'[stream] = owed[stream]
    BY <1>2, <1>4
  <2>2. ASSUME NEW i \in DOMAIN inbox, Matches(inbox[i], cmd, key) PROVE ~StreamEntry(inbox[i], stream)
    <3>1. CASE cmd # "read_string_stream"
      BY <2>2, <3>1 DEF Matches, StreamEntry
    <3>2. CASE cmd = "read_string_stream"
      <4>1. inbox[i].key = key
        BY <1>2, <2>2, <3>2, WholeKey
      <4> QED
        BY <1>4, <3>2, <4>1 DEF StreamEntry
    <3> QED
      BY <3>1, <3>2
  <2>3. \A j \in DOMAIN inbox' : \E k \in DOMAIN inbox : inbox'[j] = inbox[k]
    BY <1>1
  <2>4. \A k \in DOMAIN inbox : StreamEntry(inbox[k], stream) => \E j \in DOMAIN inbox' : inbox'[j] = inbox[k]
    BY <1>1, <2>2
  <2> QED
    BY <2>1, <2>3, <2>4 DEF Whole
<1> QED
  BY <1>3, <1>4

\* What is received of a stream comes after what was already owed of it.
LEMMA WholeMerged ==
    ASSUME TypeOK, Single(inbox), Whole(inbox, owed), NEW n \in Nat,
           NEW replies \in Seq(Reply(n)), Single(replies), inbox' \in Seq(Reply(n)),
           Merges(inbox', replies), owed' = OwedAfter(replies)
    PROVE  Whole(inbox, owed)'
<1> DEFINE m == inbox'
<1>1. PICK h \in 0 .. Len(m) :
          /\ \A i \in 1 .. h : \E k \in DOMAIN replies : Fresh(m[i], replies[k])
          /\ \A k \in DOMAIN replies : ~replies[k].discontinued =>
                 \E i \in 1 .. h : Fresh(m[i], replies[k])
          /\ \A i \in h + 1 .. Len(m) :
                 /\ \E o \in DOMAIN inbox : m[i] = inbox[o]
                 /\ Replaced(m[i].cmd) => \A k \in DOMAIN replies : ~Same(replies[k], m[i])
          /\ \A o \in DOMAIN inbox :
                 (\A k \in DOMAIN replies : ~Same(replies[k], inbox[o])) =>
                     \E i \in h + 1 .. Len(m) : m[i] = inbox[o]
  BY DEF Merges
<1>2. /\ Len(m) \in Nat /\ DOMAIN m = 1 .. Len(m)
      /\ \A i \in DOMAIN m : i \in 1 .. h \/ i \in h + 1 .. Len(m)
      /\ \A i \in 1 .. h : i \in DOMAIN m
      /\ \A i \in h + 1 .. Len(m) : i \in DOMAIN m
  OBVIOUS
<1>3. Replaced("read_string_stream") /\ "read_string_stream" \notin CmdNull
  BY ReplacedFacts
<1> HIDE DEF m
<1> SUFFICES ASSUME NEW key \in Stream
             PROVE  /\ \A i \in DOMAIN m : StreamEntry(m[i], key) => owed'[key] = m[i].items
                    /\ (\A i \in DOMAIN m : ~StreamEntry(m[i], key)) => owed'[key] = <<>>
  BY DEF Whole, m
<1> DEFINE own == {r \in Range(replies) : r.cmd = "read_string_stream" /\ r.key = key}
<1>4. owed'[key] = IF own = {} THEN owed[key]
                   ELSE IF \E r \in own : r.discontinued THEN <<>>
                   ELSE owed[key] \o (CHOOSE r \in own : TRUE).items
  BY DEF OwedAfter
<1>5. \A k \in DOMAIN replies : StreamEntry(replies[k], key) <=> replies[k] \in own
  BY DEF StreamEntry, Range
<1>6. \A r \in own : \E k \in DOMAIN replies : r = replies[k]
  BY DEF Range
<1> HIDE DEF own
<1>7. CASE own = {}
  <2>1. \A k \in DOMAIN replies : ~StreamEntry(replies[k], key)
    BY <1>5, <1>7
  <2>2. \A i \in 1 .. h : ~StreamEntry(m[i], key)
    <3> SUFFICES ASSUME NEW i \in 1 .. h, StreamEntry(m[i], key) PROVE FALSE
      OBVIOUS
    <3>1. PICK k \in DOMAIN replies : Fresh(m[i], replies[k])
      BY <1>1
    <3> QED
      BY <2>1, <3>1 DEF Fresh, StreamEntry
  <2>3. \A o \in DOMAIN inbox : StreamEntry(inbox[o], key) => \E i \in DOMAIN m : m[i] = inbox[o]
    BY <1>1, <1>2, <2>1 DEF Same, StreamEntry
  <2>4. \A i \in DOMAIN m : StreamEntry(m[i], key) => \E o \in DOMAIN inbox : m[i] = inbox[o]
    BY <1>1, <1>2, <2>2
  <2>5. owed'[key] = owed[key]
    BY <1>4, <1>7
  <2> QED
    BY <2>3, <2>4, <2>5 DEF Whole
<1>8. CASE own # {}
  <2>1. PICK k \in DOMAIN replies : replies[k] \in own /\ StreamEntry(replies[k], key)
    BY <1>5, <1>6, <1>8
  <2> DEFINE r == replies[k]
  <2>2. \A j \in DOMAIN replies : StreamEntry(replies[j], key) => j = k
    BY <1>3, <2>1 DEF StreamEntry, Single
  <2>3. own = {r}
    BY <1>5, <1>6, <2>1, <2>2
  <2>4. owed'[key] = IF r.discontinued THEN <<>> ELSE owed[key] \o r.items
    BY <1>4, <2>3
  <2>5. \A i \in h + 1 .. Len(m) : ~StreamEntry(m[i], key)
    BY <1>1, <1>3, <2>1 DEF StreamEntry, Same
  <2>6. \A i \in DOMAIN m : StreamEntry(m[i], key) => Fresh(m[i], r)
    <3> SUFFICES ASSUME NEW i \in DOMAIN m, StreamEntry(m[i], key) PROVE Fresh(m[i], r)
      OBVIOUS
    <3>1. PICK j \in DOMAIN replies : Fresh(m[i], replies[j])
      BY <1>1, <1>2, <2>5
    <3>2. StreamEntry(replies[j], key)
      BY <3>1 DEF Fresh, StreamEntry
    <3> QED
      BY <2>2, <3>1, <3>2
  <2>7. CASE r.discontinued
    BY <2>4, <2>6, <2>7 DEF Fresh
  <2>8. CASE ~r.discontinued
    <3>1. \E i \in DOMAIN m : StreamEntry(m[i], key)
      <4>1. PICK i \in 1 .. h : Fresh(m[i], replies[k])
        BY <1>1, <2>8
      <4>2. StreamEntry(m[i], key) /\ i \in DOMAIN m
        BY <1>2, <2>1, <4>1 DEF Fresh, StreamEntry
      <4> QED
        BY <4>2
    <3>2. ASSUME NEW i \in DOMAIN m, Fresh(m[i], r) PROVE owed[key] \o r.items = m[i].items
      <4>1. CASE \E o \in DOMAIN inbox : Same(r, inbox[o]) /\ m[i].items = inbox[o].items \o r.items
        <5>1. PICK o \in DOMAIN inbox : Same(r, inbox[o]) /\ m[i].items = inbox[o].items \o r.items
          BY <4>1
        <5>2. StreamEntry(inbox[o], key)
          BY <2>1, <5>1 DEF StreamEntry, Same
        <5>3. owed[key] = inbox[o].items
          BY <5>2 DEF Whole
        <5> QED
          BY <5>1, <5>3
      <4>2. CASE (\A o \in DOMAIN inbox : ~Same(r, inbox[o])) /\ m[i].items = r.items
        <5>1. \A o \in DOMAIN inbox : ~StreamEntry(inbox[o], key)
          BY <1>3, <2>1, <4>2 DEF StreamEntry, Same
        <5>2. owed[key] = <<>>
          BY <5>1 DEF Whole
        <5>3. r.items \in Seq(Nat)
          <6>1. r \in Reply(n)
            OBVIOUS
          <6> QED
            BY <6>1 DEF Reply
        <5>4. <<>> \o r.items = r.items
          BY <5>3
        <5> QED
          BY <4>2, <5>2, <5>4
      <4> QED
        BY <2>1, <3>2, <4>1, <4>2 DEF Fresh, StreamEntry
    <3> QED
      BY <2>4, <2>6, <2>8, <3>1, <3>2
  <2> QED
    BY <2>7, <2>8
<1> QED
  BY <1>7, <1>8

LEMMA WholeStep ==
    ASSUME TypeOK, Single(outbox), HeldIsLatest, StreamPlace, Whole(inbox, owed), [Next]_vars
    PROVE  Whole(inbox, owed)'
<1>0. Single(inbox)
  BY HeldIsSingle
<1>1. CASE RemoveReply
  <2> DEFINE cmd == step.f.removes[1]
             key == step.f.removes[2]
  <2>1. /\ pc # "idle" /\ RemoveCommandReply(cmd, key)
        /\ owed' = IF cmd = "read_string_stream" THEN [owed EXCEPT ![key] = <<>>] ELSE owed
    BY <1>1 DEF RemoveReply
  <2>2. key \in Key /\ (Replaced(cmd) => Len(key) >= DataSize(cmd))
    BY <2>1, RemovalKey
  <2> HIDE DEF cmd, key
  <2> QED
    BY <1>0, <2>1, <2>2, WholeRemoved
<1>2. ASSUME NEW timeout \in BOOLEAN, Fetch(timeout) PROVE Whole(inbox, owed)'
  <2> DEFINE f == step.f
             i == CommandPointer(inbox, f.cmd, f.key)
             ok == i # 0 /\ inbox[i].ok /\ ~timeout
             event == i # 0 /\ inbox[i].event
             removal == Removal(f, step.mode, ok, event)
             s == owed[f.key]
  <2>1. pc = "fetch" /\ WellFormed(f) /\ step \in ProgramStep
    BY <1>2, StepType DEF Fetch
  <2>2. /\ IF removal = "now"
           THEN RemoveCommandReply(f.cmd, f.key) ELSE UNCHANGED inbox
        /\ owed' = IF ok /\ f.taken = "locked"
                   THEN [owed EXCEPT ![f.key] = SubSeq(s, Len(inbox[i].items) + 1, Len(s))]
                   ELSE owed
    BY <1>2 DEF Fetch
  <2>3. removal = "now" <=> ok /\ f.taken = "locked"
    <3>1. ~(f.taken = "locked" /\ step.mode = "blocking")
      BY <2>1 DEF StreamPlace
    <3> HIDE DEF ok, event, f
    <3> QED
      BY <3>1 DEF Removal
  <2>4. CASE ok /\ f.taken = "locked"
    <3>1. f.cmd = "read_string_stream" /\ f.key \in Stream
      BY <2>1, <2>4 DEF WellFormed, Stream
    <3>2. s = inbox[i].items /\ s \in Seq(Nat)
      <4>1. s = inbox[i].items
        <5>1. StreamIsWhole /\ pc # "take"
          BY <1>0, <2>1, StreamFound
        <5>2. owed[f.key] = IF i = 0 THEN <<>> ELSE inbox[i].items
          BY <3>1, <5>1 DEF StreamIsWhole
        <5> QED
          BY <2>4, <5>2
      <4> QED
        BY <3>1, <4>1 DEF TypeOK
    <3>3. SubSeq(s, Len(inbox[i].items) + 1, Len(s)) = <<>>
      <4> HIDE DEF s, i
      <4>1. inbox[i].items = s
        BY <3>2
      <4>2. SubSeq(s, Len(s) + 1, Len(s)) = <<>>
        BY <3>2
      <4> QED
        BY <4>1, <4>2
    <3>4. owed' = [owed EXCEPT ![f.key] = <<>>]
      BY <2>2, <2>4, <3>3
    <3>5. f.key \in Key /\ (Replaced(f.cmd) => Len(f.key) >= DataSize(f.cmd))
      BY <2>1, RemovalKey
    <3>6. RemoveCommandReply(f.cmd, f.key)
      BY <2>2, <2>3, <2>4
    <3> HIDE DEF f
    <3> QED
      BY <1>0, <3>1, <3>4, <3>5, <3>6, WholeRemoved
  <2>5. CASE ~(ok /\ f.taken = "locked")
    <3>1. owed' = owed /\ inbox' = inbox
      BY <2>2, <2>3, <2>5
    <3> QED
      BY <3>1 DEF Whole
  <2> QED
    BY <2>4, <2>5
<1>3. CASE Take
  <2> DEFINE cmd == step.f.cmd
             key == step.f.key
  <2>1. pc = "take" /\ RemoveCommandReply(cmd, key) /\ owed' = owed
    BY <1>3 DEF Take
  <2>2. cmd # "read_string_stream"
    BY <2>1, StepType DEF WellFormed, StreamPlace
  <2>3. key \in Key /\ (Replaced(cmd) => Len(key) >= DataSize(cmd))
    BY <2>1, RemovalKey
  <2> HIDE DEF cmd, key
  <2> QED
    BY <1>0, <2>1, <2>2, <2>3, WholeRemoved
<1>4. CASE ExchangeStep
  <2>1. PICK bad \in 0 .. Len(Executed), event \in BOOLEAN, second \in Second :
            Exchange(bad, event, second)
    BY <1>4 DEF ExchangeStep
  <2> DEFINE replies == Replies(bad, event, second)
             n == now'
  <2>2. /\ replies \in Seq(Reply(now + 1)) /\ Single(replies) /\ owed' = OwedAfter(replies)
        /\ n = now + 1 /\ n \in 0 .. MaxExchanges /\ inbox' \in Seq(Reply(n))
        /\ Merges(inbox', replies)
    BY <2>1, ExchangeFacts
  <2> HIDE DEF replies, n
  <2>3. n \in Nat /\ replies \in Seq(Reply(n))
    BY <2>2, InboxAssumption
  <2> QED
    BY <1>0, <2>2, <2>3, WholeMerged
<1>5. CASE UNCHANGED <<inbox, owed>>
  BY <1>5 DEF Whole
<1> QED
  BY <1>1, <1>2, <1>3, <1>4, <1>5, NextCases DEF Begin, ReturnAtOnce, Exec, vars

-----------------------------------------------------------------------------
(* The files that are loaded *)

LEMMA FileKept ==
    ASSUME NEW key \in files, NEW k, NEW bad,
           \A j \in 1 .. k : ~(Executed[j].cmd = "erase_file" /\ Executed[j].key = key)
    PROVE  key \in FilesAfter(k, bad)
  BY DEF FilesAfter

LEMMA FileSent ==
    ASSUME NEW key \in Sent, NEW k \in Nat, NEW i \in 1 .. k, NEW bad, i # bad,
           Executed[i].cmd = "transfer_file", Executed[i].key = key,
           \A j \in i + 1 .. k : ~(Executed[j].cmd = "erase_file" /\ Executed[j].key = key)
    PROVE  key \in FilesAfter(k, bad)
  BY DEF FilesAfter

\* The steps that load a file of the client.
Transfers(call, load, name, mode) ==
    /\ call \in Seq({call[1], call[2], call[3], call[4]}) /\ Len(call) = 3 + 1
    /\ call[1].f.cmd = "transfer_file" /\ call[1].f.key = <<name>> /\ call[1].f.queue = "move"
    /\ call[1].f.taken = "no"
    /\ call[1].mode = "blocking" /\ call[1].decides /\ ~call[1].polls
    /\ call[2].f.cmd = load /\ call[2].f.key = <<name>> /\ call[2].f.taken = "no"
    /\ call[2].mode = mode /\ ~call[2].decides /\ ~call[2].polls /\ call[2].unlessFailed
    /\ call[3].f.cmd = "erase_file" /\ call[3].mode = "oneshot" /\ call[3].unlessFailed
    /\ call[4].f = call[1].f /\ call[4].mode = "remove" /\ ~call[4].unlessFailed

LEMMA TransferStep ==
    ASSUME NEW load, NEW path, NEW name, NEW mode, mode # "remove",
           NEW call, call = LoadFromClient(load, path, name, mode)
    PROVE  Transfers(call, load, name, mode)
<1> DEFINE a == Decides(Step(simxTransferFile(path, name), "blocking"))
           b == UnlessFailed(Step(exec_string(load, <<name>>), mode))
           c == UnlessFailed(Step(simxEraseFile(name), "oneshot"))
           d == Step(simxTransferFile(path, name), "remove")
<1>1. call = <<a, b, c, d>>
  BY DEF LoadFromClient
<1>2. /\ a.f.cmd = "transfer_file" /\ a.f.key = <<name>> /\ a.f.queue = "move"
      /\ a.f.taken = "no" /\ a.mode = "blocking" /\ a.decides /\ ~a.polls
  BY DEF Decides, Step, simxTransferFile, Removes, exec_string_buffer, Move, Function
<1>3. /\ b.f.cmd = load /\ b.f.key = <<name>> /\ b.f.taken = "no"
      /\ b.mode = mode /\ ~b.decides /\ ~b.polls /\ b.unlessFailed
  BY DEF UnlessFailed, Step, exec_string, Update, Function
<1>4. c.f.cmd = "erase_file" /\ c.mode = "oneshot" /\ c.unlessFailed
  BY DEF UnlessFailed, Step, simxEraseFile, exec_string, Update, Function
<1>5. d.f = a.f /\ d.mode = "remove" /\ ~d.unlessFailed
  BY DEF Decides, Step
<1> HIDE DEF a, b, c, d
<1>6. /\ call[1] = a /\ call[2] = b /\ call[3] = c /\ call[4] = d /\ Len(call) = 3 + 1
      /\ call \in Seq({a, b, c, d})
  BY <1>1
<1> QED
  BY <1>2, <1>3, <1>4, <1>5, <1>6 DEF Transfers

\* The step that is left when simx_opmode_remove is used.
LEMMA RemoveStep ==
    ASSUME NEW load, NEW path, NEW name, NEW call, call = LoadFromClient(load, path, name, "remove")
    PROVE  DOMAIN call = {1} /\ call[1].mode = "remove" /\ call[1].f.cmd = load
<1> DEFINE s == Step(Removes(exec_string(load, <<name>>), load, <<path>>), "remove")
<1>1. call = <<s>>
  BY DEF LoadFromClient
<1>2. s.mode = "remove" /\ s.f.cmd = load
  BY DEF Step, Removes, exec_string, Update, Function
<1> HIDE DEF s
<1> QED
  BY <1>1, <1>2

\* Only these functions erase a temporary file, and once.
LEMMA TmpErasedOnce ==
    ASSUME NEW s \in ProgramStep, ErasesTmp(s.f)
    PROVE  s.mode = "oneshot"
<1>1. PICK call \in ProgramCall : s \in Range(call)
  BY DEF ProgramStep
<1>2. PICK i \in DOMAIN call : call[i] = s
  BY <1>1 DEF Range
<1>3. HandlesTmp(call[i])
  BY <1>2 DEF HandlesTmp, ErasesTmp
<1>4. LoadsFromClient(call)
  BY <1>3, InboxAssumption
<1> DEFINE path == call[1].f.removes[2][1]
<1>5. PICK load \in Loads, name \in TmpFiles, mode \in Mode :
          call = LoadFromClient(load, path, name, mode)
  BY <1>4 DEF LoadsFromClient
<1> HIDE DEF path
<1>6. s.f.cmd = "erase_file" /\ load # "erase_file" /\ load # "transfer_file"
  BY DEF ErasesTmp, Loads
<1>7. CASE mode = "remove"
  BY <1>2, <1>5, <1>6, <1>7, RemoveStep
<1>8. CASE mode # "remove"
  <2>0. Transfers(call, load, name, mode)
    BY <1>5, <1>8, TransferStep
  <2>1. DOMAIN call = 1 .. 4 /\ call[1].f.cmd = "transfer_file" /\ call[2].f.cmd = load
        /\ call[3].mode = "oneshot" /\ call[4].f.cmd = "transfer_file"
    BY <2>0 DEF Transfers
  <2>2. i = 1 \/ i = 2 \/ i = 3 \/ i = 4
    BY <2>1
  <2> QED
    BY <1>2, <1>6, <2>1, <2>2
<1> QED
  BY <1>7, <1>8

LEMMA ErasedStep ==
    ASSUME TypeOK, ErasedOnce, [Next]_vars
    PROVE  ErasedOnce'
<1>1. CASE Exec
  <2>1. UNCHANGED stored
    BY <1>1 DEF Exec, simVars
  <2>2. CASE step.mode = "buffer"
    BY <1>1, <2>1, <2>2 DEF Exec, ErasedOnce
  <2>3. CASE step.mode # "buffer"
    <3> DEFINE f == step.f
               mode == step.mode
               q == outbox'
    <3>1. WellFormed(f) /\ mode \in Mode \ {"buffer", "remove"} /\ q = Queued(f, mode)
      BY <1>1, <2>3, StepType DEF Exec
    <3>2. ErasesTmp(f) => mode = "oneshot"
      <4>1. step \in ProgramStep
        BY <1>1, StepType DEF Exec
      <4> QED
        BY <4>1, TmpErasedOnce
    <3> HIDE DEF f, mode, q
    <3>3. Enters(q, f, mode)
      BY <3>1, QueuedFacts
    <3>4. ASSUME NEW i \in DOMAIN q, ErasesTmp(q[i]) PROVE q[i].mode # "streaming"
      <4>1. CASE q[i] = [cmd |-> f.cmd, key |-> f.key, mode |-> mode]
        <5>1. q[i].cmd = f.cmd /\ q[i].key = f.key /\ q[i].mode = mode
          BY <4>1
        <5> QED
          BY <3>2, <3>4, <5>1 DEF ErasesTmp
      <4>2. CASE \E k \in DOMAIN outbox : q[i] = outbox[k]
        BY <3>4, <4>2 DEF ErasedOnce
      <4> QED
        BY <3>3, <4>1, <4>2 DEF Enters
    <3> QED
      BY <2>1, <3>4 DEF ErasedOnce, q
  <2> QED
    BY <2>2, <2>3
<1>2. CASE ExchangeStep
  <2>1. PICK bad \in 0 .. Len(Executed), event \in BOOLEAN, second \in Second :
            Exchange(bad, event, second)
    BY <1>2 DEF ExchangeStep
  <2>2. outbox' = <<>>
    BY <2>1 DEF Exchange
  <2>3. ASSUME NEW c \in stored' PROVE ~ErasesTmp(c)
    <3>1. PICK j \in DOMAIN Executed :
              /\ c.cmd = Executed[j].cmd /\ c.key = Executed[j].key
              /\ \/ Executed[j].mode = "streaming"
                 \/ \E b \in stored : b.cmd = Executed[j].cmd /\ b.key = Executed[j].key
      BY <2>1 DEF Exchange
    <3>2. CASE \E b \in stored : b.cmd = Executed[j].cmd /\ b.key = Executed[j].key
      BY <3>1, <3>2 DEF ErasedOnce, ErasesTmp
    <3>3. CASE Executed[j].mode = "streaming"
      <4>1. Executed[j] \in stored \/ (j \in DOMAIN outbox /\ Executed[j] = outbox[j])
        <5>1. /\ Executed \in Seq(QueuedCommand) /\ outbox \in Seq(QueuedCommand)
              /\ j > Len(outbox) => Executed[j] \in stored
              /\ \A i \in DOMAIN outbox : Executed[i] = outbox[i]
          BY ExecutedFacts DEF TypeOK
        <5>2. j > Len(outbox) \/ j \in DOMAIN outbox
          BY <5>1
        <5> QED
          BY <5>1, <5>2
      <4> QED
        BY <3>1, <3>3, <4>1 DEF ErasedOnce, ErasesTmp
    <3> QED
      BY <3>1, <3>2, <3>3
  <2> QED
    BY <2>2, <2>3 DEF ErasedOnce
<1>3. CASE UNCHANGED <<outbox, stored>>
  BY <1>3 DEF ErasedOnce
<1> QED
  BY <1>1, <1>2, <1>3, NextCases
     DEF Begin, RemoveReply, ReturnAtOnce, Fetch, Take, vars, simVars

LEMMA NothingErased ==
    ASSUME TypeOK, ErasedOnce, NEW key \in TmpKey, NEW j \in DOMAIN Executed, j > Len(outbox)
    PROVE  ~(Executed[j].cmd = "erase_file" /\ Executed[j].key = key)
<1>1. Executed[j] \in stored
  BY ExecutedFacts
<1> QED
  BY <1>1 DEF ErasedOnce, ErasesTmp

\* Two ways in which a file is there after an exchange.
LEMMA FileStays ==
    ASSUME TypeOK, ErasedOnce, ExchangeStep, outbox = <<>>, NEW key \in TmpKey, key \in files
    PROVE  key \in files'
<1>1. PICK bad \in 0 .. Len(Executed), event \in BOOLEAN, second \in Second :
          Exchange(bad, event, second)
  BY DEF ExchangeStep
<1>2. DOMAIN Executed = 1 .. Len(Executed)
  BY ExecutedFacts
<1>3. \A j \in 1 .. Len(Executed) : ~(Executed[j].cmd = "erase_file" /\ Executed[j].key = key)
  <2>1. \A j \in 1 .. Len(Executed) : j > Len(outbox)
    OBVIOUS
  <2> QED
    BY <1>2, <2>1, NothingErased
<1>4. key \in FilesAfter(Len(Executed), bad)
  BY <1>3, FileKept
<1> QED
  BY <1>1, <1>4 DEF Exchange

LEMMA FileArrives ==
    ASSUME TypeOK, TypeOK', Single(outbox), HeldIsLatest, ErasedOnce, ExchangeStep,
           NEW key \in TmpKey, key \in Sent, Len(key) = 1,
           outbox # <<>>,
           outbox[Len(outbox)] = [cmd |-> "transfer_file", key |-> key, mode |-> "blocking"],
           NEW i, i = CommandPointer(inbox', "transfer_file", key), i # 0, inbox'[i].ok
    PROVE  key \in files'
<1>1. PICK bad \in 0 .. Len(Executed), event \in BOOLEAN, second \in Second :
          Exchange(bad, event, second)
  BY DEF ExchangeStep
<1> DEFINE replies == Replies(bad, event, second)
           m == inbox'
           n == Len(outbox)
<1>2. /\ m \in Seq(Reply(now')) /\ Merges(m, replies)
  BY <1>1, ExchangeFacts
<1>3. /\ DOMAIN replies = DOMAIN Executed
      /\ \A k \in DOMAIN replies :
            /\ replies[k] = ReplyTo(k, bad, event, second)
            /\ replies[k].cmd = Executed[k].cmd
            /\ Replaced(Executed[k].cmd) => replies[k].key = Executed[k].key
  BY RepliesFacts
<1> HIDE DEF replies
<1>4. /\ n \in DOMAIN Executed /\ Executed[n].cmd = "transfer_file" /\ Executed[n].key = key
      /\ Len(Executed) \in Nat /\ DOMAIN Executed = 1 .. Len(Executed)
      /\ Single(Executed) /\ n \in Nat
  <2>1. n \in DOMAIN outbox /\ n \in Nat
    BY DEF TypeOK
  <2>2. n \in DOMAIN Executed /\ Executed[n] = outbox[n] /\ Single(Executed) /\ Executed \in Seq(QueuedCommand)
    BY <2>1, ExecutedFacts
  <2>3. Executed[n].cmd = "transfer_file" /\ Executed[n].key = key
    BY <2>2
  <2> QED
    BY <2>1, <2>2, <2>3
<1> HIDE DEF n
<1>5. Replaced("transfer_file") /\ "transfer_file" \notin CmdNull /\ DataSize("transfer_file") = 1
  BY ReplacedFacts
<1>6. i \in 1 .. Len(m) /\ Matches(m[i], "transfer_file", key) /\ Len(m) \in Nat
  <2>1. Len(m) \in Nat
    BY <1>2
  <2> HIDE DEF m
  <2>2. i \in 0 .. Len(m) /\ (i # 0 => Matches(m[i], "transfer_file", key))
    BY <2>1, Pointer DEF m
  <2> QED
    BY <2>1, <2>2
<1>7. PICK h \in 0 .. Len(m) :
          /\ \A x \in 1 .. h : \E k \in DOMAIN replies : Fresh(m[x], replies[k])
          /\ \A x \in h + 1 .. Len(m) : Replaced(m[x].cmd) =>
                 \A k \in DOMAIN replies : ~Same(replies[k], m[x])
  BY <1>2 DEF Merges
<1>8. m[i].cmd = "transfer_file" /\ m[i].key = key
  <2>1. /\ m[i].cmd = "transfer_file" /\ IsPrefix(key, m[i].key)
        /\ Len(m[i].key) = 1 /\ m[i].key \in Key
    <3>1. m[i] \in Reply(now') /\ Len(m[i].key) = DataSize(m[i].cmd)
      BY <1>2, <1>6 DEF TypeOK
    <3> QED
      BY <1>5, <1>6, <3>1 DEF Matches, Reply
  <2>2. key \in Key
    <3>1. Executed[n] \in QueuedCommand
      BY <1>4, ExecutedFacts
    <3> QED
      BY <1>4, <3>1 DEF QueuedCommand
  <2> QED
    BY <2>1, <2>2, PrefixFacts
<1>9. i \in 1 .. h
  <2>1. i \in h + 1 .. Len(m) => ~Same(replies[n], m[i])
    BY <1>3, <1>4, <1>5, <1>7, <1>8
  <2>2. Same(replies[n], m[i])
    BY <1>3, <1>4, <1>5, <1>8 DEF Same
  <2> QED
    BY <1>6, <2>1, <2>2
<1>10. PICK k \in DOMAIN replies : Fresh(m[i], replies[k])
  BY <1>7, <1>9
<1>11. k = n
  <2>1. Executed[k].cmd = "transfer_file" /\ Executed[k].key = key
    BY <1>3, <1>5, <1>8, <1>10 DEF Fresh
  <2> QED
    BY <1>3, <1>4, <1>5, <2>1 DEF Single
<1>12. n # bad
  <2>1. replies[n].ok
    BY <1>10, <1>11 DEF Fresh
  <2>2. replies[n] = ReplyTo(n, bad, event, second)
    BY <1>3, <1>4
  <2>3. replies[n].ok = (n # bad /\ ~Missing(n, bad))
    BY <2>2 DEF ReplyTo
  <2> QED
    BY <2>1, <2>3
<1>13. \A j \in n + 1 .. Len(Executed) : ~(Executed[j].cmd = "erase_file" /\ Executed[j].key = key)
  <2>1. \A j \in n + 1 .. Len(Executed) : j \in DOMAIN Executed /\ j > Len(outbox)
    BY <1>4 DEF n
  <2> QED
    BY <2>1, NothingErased
<1>14. key \in FilesAfter(Len(Executed), bad)
  <2>1. n \in 1 .. Len(Executed)
    BY <1>4
  <2> QED
    BY <1>4, <1>12, <1>13, <2>1, FileSent
<1> QED
  BY <1>1, <1>14 DEF Exchange

\* A step that loads a temporary file follows its transfer.
LEMMA TodoLoad ==
    ASSUME TypeOK, TodoInv, pc = "next", step.mode # "remove", LoadsTmp(step.f)
    PROVE  outbox = <<>> /\ step.f.key \in files
<1>1. todo \in Seq(ProgramStep) /\ todo # <<>>
  BY DEF TypeOK
<1>2. 1 \in DOMAIN todo /\ step = todo[1]
  BY <1>1 DEF step
<1>3. ~LoadsNothing(todo)
  BY <1>2 DEF LoadsNothing
<1>4. PICK load \in Loads, name \in TmpFiles, mode \in Mode \ {"remove"} :
          LET call == LoadFromClient(load, PathOf(todo), name, mode)
          IN \/ todo = call /\ Sending(<<name>>)
             \/ todo = Tail(call) /\ FileThere(<<name>>)
  BY <1>3 DEF TodoInv
<1> DEFINE call == LoadFromClient(load, PathOf(todo), name, mode)
<1>5. Transfers(call, load, name, mode)
  BY TransferStep
<1>6. todo = call \/ (todo = Tail(call) /\ FileThere(<<name>>))
  BY <1>4
<1> HIDE DEF call
<1>7. CASE todo = call
  <2>1. step.f.cmd = "transfer_file"
    BY <1>2, <1>5, <1>7 DEF Transfers
  <2> QED
    BY <2>1 DEF LoadsTmp, Loads
<1>8. CASE todo = Tail(call) /\ FileThere(<<name>>)
  <2>1. step = call[2]
    BY <1>2, <1>5, <1>8 DEF Transfers
  <2>2. step.f.key = <<name>>
    BY <1>5, <2>1 DEF Transfers
  <2> QED
    BY <1>8, <2>2 DEF FileThere
<1> QED
  BY <1>6, <1>7, <1>8

LEMMA LoadStep ==
    ASSUME TypeOK, TodoInv, LoadInv, [Next]_vars
    PROVE  LoadInv'
<1>1. CASE Exec
  <2>1. UNCHANGED files
    BY <1>1 DEF Exec, simVars
  <2>2. CASE step.mode = "buffer"
    BY <1>1, <2>1, <2>2 DEF Exec, LoadInv
  <2>3. CASE step.mode # "buffer"
    <3> DEFINE f == step.f
               mode == step.mode
               q == outbox'
    <3>1. WellFormed(f) /\ mode \in Mode \ {"buffer", "remove"} /\ q = Queued(f, mode)
      BY <1>1, <2>3, StepType DEF Exec
    <3>2. LoadsTmp(f) => outbox = <<>> /\ f.key \in files
      BY <1>1, TodoLoad DEF Exec
    <3> HIDE DEF f, mode, q
    <3>3. Enters(q, f, mode) /\ q \in Seq(QueuedCommand)
      BY <3>1, QueuedFacts
    <3>4. ASSUME NEW i \in DOMAIN q, LoadsTmp(q[i])
          PROVE  /\ q[i].key \in files
                 /\ \A j \in 1 .. i - 1 : ~(q[j].cmd = "erase_file" /\ q[j].key = q[i].key)
      <4>1. CASE q[i].cmd = f.cmd /\ q[i].key = f.key
        <5>1. outbox = <<>> /\ f.key \in files /\ f.cmd \in Loads
          BY <3>2, <3>4, <4>1 DEF LoadsTmp
        <5>2. \A j \in DOMAIN q : q[j] = [cmd |-> f.cmd, key |-> f.key, mode |-> mode]
          BY <3>3, <5>1 DEF Enters
        <5>3. \A j \in 1 .. i - 1 : j \in DOMAIN q
          BY <3>3
        <5>4. \A j \in 1 .. i - 1 : q[j].cmd = f.cmd
          BY <5>2, <5>3
        <5>5. f.cmd # "erase_file"
          BY <5>1 DEF Loads
        <5> QED
          BY <4>1, <5>1, <5>4, <5>5
      <4>2. ASSUME NEW k \in DOMAIN outbox, outbox[k] = q[i],
                   \A j \in 1 .. i - 1 : \E l \in 1 .. k - 1 :
                       outbox[l].cmd = q[j].cmd /\ outbox[l].key = q[j].key
            PROVE  /\ q[i].key \in files
                   /\ \A j \in 1 .. i - 1 : ~(q[j].cmd = "erase_file" /\ q[j].key = q[i].key)
        <5>1. LoadsTmp(outbox[k])
          BY <3>4, <4>2
        <5>2. /\ outbox[k].key \in files
              /\ \A l \in 1 .. k - 1 : ~(outbox[l].cmd = "erase_file" /\ outbox[l].key = outbox[k].key)
          BY <5>1 DEF LoadInv
        <5> QED
          BY <4>2, <5>2
      <4> QED
        BY <3>3, <4>1, <4>2 DEF Enters
    <3> QED
      BY <2>1, <3>4 DEF LoadInv, q
  <2> QED
    BY <2>2, <2>3
<1>2. CASE ExchangeStep
  <2>1. outbox' = <<>>
    BY <1>2 DEF ExchangeStep, Exchange
  <2> QED
    BY <2>1 DEF LoadInv
<1>3. CASE UNCHANGED <<outbox, files>>
  BY <1>3 DEF LoadInv
<1> QED
  BY <1>1, <1>2, <1>3, NextCases
     DEF Begin, RemoveReply, ReturnAtOnce, Fetch, Take, vars, simVars

LEMMA LoadsStep ==
    ASSUME TypeOK, LoadInv, LoadsWhatWasSent, [Next]_vars
    PROVE  LoadsWhatWasSent'
<1>1. CASE ExchangeStep
  <2>1. PICK bad \in 0 .. Len(Executed), event \in BOOLEAN, second \in Second :
            Exchange(bad, event, second)
    BY <1>1 DEF ExchangeStep
  <2>2. ASSUME NEW i \in DOMAIN outbox PROVE ~Missing(i, bad)
    <3> SUFFICES ASSUME Missing(i, bad) PROVE FALSE
      OBVIOUS
    <3>1. /\ \A j \in DOMAIN outbox : Executed[j] = outbox[j]
          /\ outbox \in Seq(QueuedCommand)
      BY ExecutedFacts DEF TypeOK
    <3>2. LoadsTmp(outbox[i])
      BY <3>1 DEF Missing, LoadsTmp
    <3>3. \A j \in 1 .. i - 1 : j \in DOMAIN outbox
      BY <3>1
    <3>4. Executed[i].key \in FilesAfter(i - 1, bad)
      BY <3>1, <3>2, <3>3, FileKept DEF LoadInv
    <3> QED
      BY <3>4 DEF Missing
  <2> QED
    BY <2>1, <2>2 DEF Exchange, LoadsWhatWasSent
<1>2. CASE UNCHANGED misloaded
  BY <1>2 DEF LoadsWhatWasSent
<1> QED
  BY <1>1, <1>2, NextCases
     DEF Begin, RemoveReply, ReturnAtOnce, Exec, Fetch, Take, vars, simVars

LEMMA TailFacts ==
    ASSUME NEW D, NEW s \in Seq(D), NEW n \in Nat, Len(s) = n + 1
    PROVE  /\ Tail(s) \in Seq(D) /\ Len(Tail(s)) = n /\ Head(s) = s[1] /\ s[1] \in D
           /\ \A i \in 1 .. n : Tail(s)[i] = s[i + 1]
<1>1. s # <<>>
  OBVIOUS
<1> QED
  BY <1>1

LEMMA TypeNow ==
    ASSUME TypeOK
    PROVE  /\ now \in Nat /\ asked \in 0 .. now /\ failed \in BOOLEAN
           /\ todo \in Seq(ProgramStep)
  BY DEF TypeOK

\* What is left of a call is made of its later steps.
LEMMA LeftEntries ==
    ASSUME TypeOK, pc # "idle", NEW failure, NEW left, left = Left(failure),
           LoadsNothing(Tail(todo))
    PROVE  LoadsNothing(left)
<1> DEFINE rest == Tail(todo)
           kept == {i \in 1 .. Len(rest) + 1 : i <= Len(rest) => ~rest[i].unlessFailed}
           s == SubSeq(rest, Min(kept), Len(rest))
<1>1. rest \in Seq(ProgramStep) /\ LoadsNothing(rest)
  BY StepType
<1>2. left = rest \/ left = s
  BY DEF Left
<1> HIDE DEF rest
<1>3. Len(rest) + 1 \in kept /\ kept \in SUBSET Nat
  BY <1>1
<1>4. Min(kept) \in 1 .. Len(rest) + 1
  BY <1>3, MinFacts
<1> HIDE DEF kept
<1>5. ASSUME NEW j \in DOMAIN s PROVE \E i \in DOMAIN rest : s[j] = rest[i]
  <2>1. \A i \in Min(kept) .. Len(rest) : rest[i] \in ProgramStep
    BY <1>1, <1>4
  <2>2. Len(s) = IF Min(kept) <= Len(rest) THEN Len(rest) - Min(kept) + 1 ELSE 0
    BY <1>1, <1>4, <2>1, SubSeqProperties
  <2>3. s \in Seq(ProgramStep)
    BY <1>1, <1>4, <2>1, SubSeqProperties
  <2>4. j \in 1 .. Len(rest) - Min(kept) + 1
    BY <1>1, <1>4, <2>2, <2>3
  <2>5. s[j] = rest[Min(kept) + j - 1]
    BY <1>1, <1>4, <2>1, <2>4, SubSeqProperties
  <2>6. Min(kept) + j - 1 \in DOMAIN rest
    BY <1>1, <1>4, <2>4
  <2> QED
    BY <2>5, <2>6
<1> HIDE DEF s
<1>6. LoadsNothing(s)
  BY <1>1, <1>5 DEF LoadsNothing
<1> QED
  BY <1>1, <1>2, <1>6

\* A call whose transfer failed does not load the file, one whose transfer did not goes on.
LEMMA LeftOfTransfer ==
    ASSUME TypeOK, pc # "idle", NEW failure, NEW load, NEW name, NEW mode,
           Transfers(todo, load, name, mode)
    PROVE  /\ failure => LoadsNothing(Left(failure))
           /\ ~failure => Left(failure) = Tail(todo)
<1> DEFINE rest == Tail(todo)
           kept == {i \in 1 .. Len(rest) + 1 : i <= Len(rest) => ~rest[i].unlessFailed}
           m == Min(kept)
           s == SubSeq(rest, m, Len(rest))
<1>0. todo \in Seq(ProgramStep) /\ Len(todo) = 3 + 1 /\ 3 \in Nat
  BY TypeNow DEF Transfers
<1>1. /\ step = todo[1] /\ rest \in Seq(ProgramStep) /\ Len(rest) = 3
      /\ \A i \in 1 .. 3 : rest[i] = todo[i + 1]
  BY <1>0, TailFacts DEF step
<1>2. /\ rest \in Seq(ProgramStep) /\ Len(rest) = 3
      /\ rest[1] = todo[2] /\ rest[2] = todo[3] /\ rest[3] = todo[4]
  <2>1. 1 + 1 = 2 /\ 2 + 1 = 3 /\ 3 + 1 = 4 /\ 1 \in 1 .. 3 /\ 2 \in 1 .. 3 /\ 3 \in 1 .. 3
    OBVIOUS
  <2> HIDE DEF rest
  <2>2. rest[1] = todo[2] /\ rest[2] = todo[3] /\ rest[3] = todo[4]
    BY <1>1, <2>1
  <2> QED
    BY <1>1, <2>2
<1>3. step.decides
  BY <1>1 DEF Transfers
<1>4. Left(failure) = IF failure THEN s ELSE rest
  BY <1>3 DEF Left
<1>5. ASSUME failure PROVE LoadsNothing(s)
  <2> HIDE DEF rest
  <2>1. rest[1].unlessFailed /\ rest[2].unlessFailed /\ ~rest[3].unlessFailed
    BY <1>2 DEF Transfers
  <2>2. kept \subseteq {3, 4} /\ 3 \in kept
    BY <1>2, <2>1
  <2>3. m \in {3, 4}
    <3>1. kept \in SUBSET Nat /\ kept # {}
      BY <2>2
    <3> HIDE DEF kept
    <3>2. m \in kept
      BY <3>1, MinFacts
    <3> QED
      BY <2>2, <3>2
  <2> HIDE DEF m
  <2>4. \A i \in m .. Len(rest) : rest[i] \in ProgramStep
    <3>1. \A i \in m .. Len(rest) : i \in 1 .. Len(rest)
      BY <1>2, <2>3
    <3> QED
      BY <1>2, <3>1
  <2>5. /\ s \in Seq(ProgramStep)
        /\ Len(s) = IF m <= Len(rest) THEN Len(rest) - m + 1 ELSE 0
        /\ \A j \in 1 .. Len(rest) - m + 1 : s[j] = rest[m + j - 1]
    BY <1>2, <2>3, <2>4, SubSeqProperties
  <2> HIDE DEF s
  <2>6. ASSUME NEW j \in DOMAIN s PROVE s[j] = rest[3]
    <3>1. m + j - 1 = 3 /\ j \in 1 .. Len(rest) - m + 1
      BY <1>2, <2>3, <2>5
    <3> QED
      BY <1>2, <2>5, <3>1
  <2>7. rest[3].mode = "remove"
    BY <1>2 DEF Transfers
  <2> QED
    BY <2>6, <2>7 DEF LoadsNothing
<1> QED
  BY <1>4, <1>5

LEMMA BeginTodo ==
    ASSUME TypeOK, NEW call \in calls, Begin(call)
    PROVE  TodoInv'
<1>1. call \in ProgramCall /\ todo' = call /\ pc' = "next"
  BY DEF Begin, TypeOK
<1>2. CASE \E i \in DOMAIN call : HandlesTmp(call[i])
  <2> DEFINE path == call[1].f.removes[2][1]
  <2>1. PICK load \in Loads, name \in TmpFiles, mode \in Mode :
            call = LoadFromClient(load, path, name, mode)
    BY <1>1, <1>2, InboxAssumption DEF LoadsFromClient
  <2> HIDE DEF path
  <2>2. CASE mode = "remove"
    <3>1. DOMAIN call = {1} /\ call[1].mode = "remove"
      BY <2>1, <2>2, RemoveStep
    <3> QED
      BY <1>1, <3>1 DEF TodoInv, LoadsNothing
  <2>3. CASE mode # "remove"
    <3>1. Transfers(call, load, name, mode)
      BY <2>1, <2>3, TransferStep
    <3>2. path = PathOf(call)
      <4>1. Len(call) = 4 /\ call[4].f = call[1].f
        BY <3>1 DEF Transfers
      <4> QED
        BY <4>1 DEF path, PathOf
    <3>3. todo' = LoadFromClient(load, PathOf(todo'), name, mode)
      BY <1>1, <2>1, <3>2
    <3>4. Sending(<<name>>)'
      BY <1>1 DEF Sending
    <3> QED
      BY <2>3, <3>3, <3>4 DEF TodoInv
  <2> QED
    BY <2>2, <2>3
<1>3. CASE ~ \E i \in DOMAIN call : HandlesTmp(call[i])
  <2>1. LoadsNothing(call)
    BY <1>3 DEF LoadsNothing, LoadsTmp, HandlesTmp
  <2> QED
    BY <1>1, <2>1 DEF TodoInv
<1> QED
  BY <1>2, <1>3

\* A call that loads nothing any more.
LEMMA NothingTodo ==
    ASSUME TypeOK, LoadsNothing(todo), [Next]_vars, pc # "idle"
    PROVE  TodoInv'
<1>1. LoadsNothing(Tail(todo))
  <2>1. todo \in Seq(ProgramStep) /\ todo # <<>>
    BY DEF TypeOK
  <2> DEFINE rest == Tail(todo)
  <2>2. \A i \in DOMAIN rest : i + 1 \in DOMAIN todo /\ rest[i] = todo[i + 1]
    BY <2>1
  <2> HIDE DEF rest
  <2>3. LoadsNothing(rest)
    BY <2>2 DEF LoadsNothing
  <2> QED
    BY <2>3 DEF rest
<1>2. ASSUME NEW failure, Advance(failure) PROVE LoadsNothing(todo')
  BY <1>1, <1>2, LeftEntries DEF Advance
<1>3. LoadsNothing(todo')
  BY <1>2, NextCases
     DEF Begin, RemoveReply, ReturnAtOnce, Exec, Fetch, Take, ExchangeStep, Exchange, callVars, vars
<1> QED
  BY <1>3 DEF TodoInv

\* A call whose file is still to be transferred.
LEMMA SendingStep ==
    ASSUME TypeOK, TypeOK', Single(outbox), HeldIsLatest, ErasedOnce, [Next]_vars, pc # "idle",
           NEW load \in Loads, NEW path, path = PathOf(todo),
           NEW name \in TmpFiles, NEW mode \in Mode \ {"remove"},
           todo = LoadFromClient(load, path, name, mode), Sending(<<name>>)
    PROVE  TodoInv'
<1> DEFINE key == <<name>>
<1>1. /\ Transfers(todo, load, name, mode) /\ key \in TmpKey
      /\ todo \in Seq(ProgramStep) /\ Len(todo) = 3 + 1 /\ 3 \in Nat
  <2>1. Transfers(todo, load, name, mode)
    BY TransferStep
  <2> QED
    BY <2>1, TypeNow DEF TmpKey, Transfers
<1>2. /\ step = todo[1] /\ step \in ProgramStep
      /\ step.f.cmd = "transfer_file" /\ step.f.key = key /\ step.f.queue = "move"
      /\ step.f.taken = "no" /\ step.mode = "blocking" /\ ~step.polls
  <2>1. step = todo[1] /\ step \in ProgramStep
    BY <1>1, TailFacts DEF step
  <2> HIDE DEF key
  <2> QED
    BY <1>1, <2>1 DEF Transfers, key
<1> HIDE DEF key
<1>3. ASSUME UNCHANGED todo, Sending(key)' PROVE TodoInv'
  BY <1>3 DEF TodoInv, key
<1>4. ASSUME Advance(TRUE) PROVE TodoInv'
  <2>1. LoadsNothing(Left(TRUE))
    BY <1>1, LeftOfTransfer
  <2> QED
    BY <1>4, <2>1 DEF Advance, TodoInv
<1>5. CASE Exec
  <2> DEFINE f == step.f
             q == outbox'
             m == step.mode
  <2>1. WellFormed(f) /\ m \in Mode \ {"buffer", "remove"} /\ q = Queued(f, m)
    BY <1>2, <1>5, StepType DEF Exec, Mode
  <2>2. f.cmd = "transfer_file" /\ f.key = key /\ f.queue = "move" /\ m = "blocking"
    BY <1>2
  <2> HIDE DEF f, q, m
  <2>3. Enters(q, f, m)
    BY <2>1, QueuedFacts
  <2>4. q # <<>> /\ q[Len(q)] = [cmd |-> "transfer_file", key |-> key, mode |-> "blocking"]
    BY <2>2, <2>3 DEF Enters
  <2>5. now' = asked' /\ now' \in Nat /\ pc' = "fetch"
    BY <1>5, TypeNow DEF Exec, simVars
  <2>6. ~(now' > asked')
    BY <2>5
  <2>7. Sending(key)'
    BY <2>4, <2>5, <2>6 DEF Sending, q
  <2> QED
    BY <1>3, <1>5, <2>7 DEF Exec
<1>6. ASSUME NEW timeout \in BOOLEAN, Fetch(timeout) PROVE TodoInv'
  <2> DEFINE f == step.f
             i == CommandPointer(inbox, f.cmd, f.key)
             ok == i # 0 /\ inbox[i].ok /\ ~timeout
             event == i # 0 /\ inbox[i].event
             removal == Removal(f, step.mode, ok, event)
  <2>1. removal = "later"
    BY <1>2 DEF Removal
  <2>2. /\ pc = "fetch" /\ pc' = "take" /\ failed' = ~ok
        /\ UNCHANGED <<todo, asked, outbox, files>>
    BY <1>6, <2>1 DEF Fetch, simVars
  <2>3. ASSUME ~failed' PROVE outbox = <<>> /\ key \in files
    <3>1. i # 0 /\ inbox[i].ok /\ ~timeout
      BY <2>2, <2>3
    <3>2. now > asked
      <4>1. timeout \in IF now = asked THEN {TRUE} ELSE BOOLEAN
        BY <1>2, <1>6 DEF Fetch
      <4>2. now # asked
        BY <3>1, <4>1
      <4> QED
        BY <4>2, TypeNow
    <3>3. i = CommandPointer(inbox, "transfer_file", key)
      BY <1>2
    <3> HIDE DEF i
    <3> QED
      BY <2>2, <3>1, <3>2, <3>3 DEF Sending, key
  <2>4. Sending(key)'
    BY <2>2, <2>3 DEF Sending
  <2> QED
    BY <1>3, <2>2, <2>4
<1>7. CASE Take
  <2>1. pc = "take" /\ Advance(failed) /\ failed \in BOOLEAN /\ UNCHANGED <<outbox, files>>
    BY <1>7 DEF Take, TypeOK, simVars
  <2>2. CASE failed
    <3>1. LoadsNothing(Left(failed))
      BY <1>1, <2>2, LeftOfTransfer
    <3> QED
      BY <2>1, <3>1 DEF Advance, TodoInv
  <2>3. CASE ~failed
    <3>1. Left(failed) = Tail(todo)
      BY <1>1, <2>3, LeftOfTransfer
    <3>2. outbox' = <<>> /\ key \in files'
      BY <2>1, <2>3 DEF Sending, key
    <3>3. todo' = Tail(todo)
      BY <2>1, <3>1 DEF Advance
    <3>4. todo'[Len(todo')] = todo[Len(todo)]
      <4> DEFINE rest == Tail(todo)
      <4>1. Len(rest) = 3 /\ \A i \in 1 .. 3 : rest[i] = todo[i + 1]
        BY <1>1, TailFacts
      <4> HIDE DEF rest
      <4>2. 3 \in 1 .. 3
        OBVIOUS
      <4>3. rest[Len(rest)] = todo[Len(todo)]
        BY <1>1, <4>1, <4>2
      <4> QED
        BY <3>3, <4>3 DEF rest
    <3>5. todo' = Tail(LoadFromClient(load, PathOf(todo'), name, mode))
      BY <3>3, <3>4 DEF PathOf
    <3>6. FileThere(key)'
      BY <3>2 DEF FileThere
    <3> QED
      BY <3>5, <3>6 DEF TodoInv, key
  <2> QED
    BY <2>1, <2>2, <2>3
<1>8. CASE ExchangeStep
  <2>1. UNCHANGED <<todo, pc, asked, failed>> /\ outbox' = <<>> /\ now' = now + 1
    BY <1>8 DEF ExchangeStep, Exchange, callVars
  <2>2. ASSUME pc = "fetch", NEW i, i = CommandPointer(inbox', "transfer_file", key),
               i # 0, inbox'[i].ok
        PROVE  key \in files'
    <3>1. now = asked
      <4>1. ~Answered
        BY <1>8 DEF ExchangeStep, Exchange
      <4>2. ~(now > asked) /\ asked \in 0 .. now /\ now \in Nat
        BY <1>2, <2>2, <4>1, TypeNow DEF Answered
      <4> QED
        BY <4>2
    <3>2. /\ outbox # <<>>
          /\ outbox[Len(outbox)] = [cmd |-> "transfer_file", key |-> key, mode |-> "blocking"]
      BY <2>2, <3>1 DEF Sending, key
    <3>3. key \in Sent /\ Len(key) = 1
      BY <1>2 DEF Sent, key
    <3> QED
      BY <1>1, <1>8, <2>2, <3>2, <3>3, FileArrives
  <2>3. ASSUME pc = "take", ~failed PROVE key \in files'
    <3>1. outbox = <<>> /\ key \in files
      BY <2>3 DEF Sending, key
    <3> QED
      BY <1>1, <1>8, <3>1, FileStays
  <2>4. now' # asked'
    BY <2>1, TypeNow
  <2>5. Sending(key)'
    BY <2>1, <2>2, <2>3, <2>4 DEF Sending
  <2> QED
    BY <1>3, <2>1, <2>5
<1>9. CASE UNCHANGED vars
  BY <1>3, <1>9 DEF Sending, vars, callVars, simVars, key
<1>10. ~RemoveReply /\ \A call \in calls : ~Begin(call)
  BY <1>2 DEF RemoveReply, Begin
<1> QED
  BY <1>4, <1>5, <1>6, <1>7, <1>8, <1>9, <1>10, NextCases DEF ReturnAtOnce

\* A call whose file is there.
LEMMA FileThereStep ==
    ASSUME TypeOK, ErasedOnce, [Next]_vars, pc # "idle",
           NEW load \in Loads, NEW path, path = PathOf(todo),
           NEW name \in TmpFiles, NEW mode \in Mode \ {"remove"},
           todo = Tail(LoadFromClient(load, path, name, mode)), FileThere(<<name>>)
    PROVE  TodoInv'
<1> DEFINE key == <<name>>
           call == LoadFromClient(load, path, name, mode)
<1>1. Transfers(call, load, name, mode) /\ key \in TmpKey
  BY TransferStep DEF TmpKey
<1> HIDE DEF call
<1>2. /\ todo = Tail(call) /\ Len(todo) = 2 + 1 /\ 2 \in Nat
      /\ todo[1] = call[2] /\ todo[2] = call[3] /\ todo[3] = call[4]
  <2> DEFINE D == {call[1], call[2], call[3], call[4]}
             rest == Tail(call)
  <2>1. call \in Seq(D) /\ Len(call) = 3 + 1 /\ 3 \in Nat
    BY <1>1 DEF Transfers
  <2> HIDE DEF D
  <2>2. Len(rest) = 3 /\ \A i \in 1 .. 3 : rest[i] = call[i + 1]
    BY <2>1, TailFacts
  <2>3. todo = rest
    BY DEF call
  <2> HIDE DEF rest
  <2>4. 1 + 1 = 2 /\ 2 + 1 = 3 /\ 3 + 1 = 4 /\ 1 \in 1 .. 3 /\ 2 \in 1 .. 3 /\ 3 \in 1 .. 3
    OBVIOUS
  <2>5. rest[1] = call[2] /\ rest[2] = call[3] /\ rest[3] = call[4]
    BY <2>2, <2>4
  <2>6. todo = Tail(call)
    BY <2>3 DEF rest
  <2>7. Len(todo) = 2 + 1 /\ 2 \in Nat
    <3>1. 2 + 1 = 3 /\ 2 \in Nat
      OBVIOUS
    <3> QED
      BY <2>2, <2>3, <3>1
  <2>8. todo[1] = call[2] /\ todo[2] = call[3] /\ todo[3] = call[4]
    BY <2>3, <2>5
  <2> QED
    BY <2>6, <2>7, <2>8
<1>3. /\ step = todo[1] /\ step.mode # "remove" /\ ~step.decides /\ ~step.polls
      /\ step.f.taken = "no" /\ step.f.cmd # "transfer_file"
  <2>1. step = call[2]
    BY <1>2, TypeNow, TailFacts DEF step
  <2>2. /\ step.mode = mode /\ ~step.decides /\ ~step.polls
        /\ step.f.taken = "no" /\ step.f.cmd = load
    BY <1>1, <2>1 DEF Transfers
  <2>3. load # "transfer_file" /\ mode # "remove"
    BY DEF Loads
  <2> QED
    BY <1>2, <2>1, <2>2, <2>3
<1>4. LoadsNothing(Tail(todo))
  <2> DEFINE rest == Tail(todo)
  <2>1. rest \in Seq(ProgramStep) /\ Len(rest) = 2 /\ \A i \in 1 .. 2 : rest[i] = todo[i + 1]
    <3>1. todo \in Seq(ProgramStep) /\ Len(todo) = 2 + 1 /\ 2 \in Nat
      BY <1>2, TypeNow
    <3> QED
      BY <3>1, TailFacts
  <2>2. call[3].f.cmd = "erase_file" /\ call[4].mode = "remove"
    BY <1>1 DEF Transfers
  <2>3. "erase_file" \notin Loads
    BY DEF Loads
  <2> HIDE DEF rest
  <2>4. DOMAIN rest = 1 .. 2 /\ 1 + 1 = 2 /\ 2 + 1 = 3
    BY <2>1
  <2>5. \A i \in DOMAIN rest : \/ i = 1 /\ rest[i] = call[3]
                               \/ i = 2 /\ rest[i] = call[4]
    <3>1. \A i \in DOMAIN rest : i = 1 \/ i = 2
      BY <2>4
    <3>2. 1 \in 1 .. 2 /\ 2 \in 1 .. 2
      OBVIOUS
    <3>3. rest[1] = todo[2] /\ rest[2] = todo[3]
      BY <2>1, <2>4, <3>2
    <3>4. rest[1] = call[3] /\ rest[2] = call[4]
      BY <1>2, <3>3
    <3> QED
      BY <3>1, <3>4
  <2>6. LoadsNothing(rest)
    BY <2>2, <2>3, <2>5 DEF LoadsNothing, LoadsTmp
  <2> QED
    BY <2>6 DEF rest
<1>5. ASSUME NEW failure, Advance(failure) PROVE TodoInv'
  <2>1. LoadsNothing(todo')
    BY <1>4, <1>5, LeftEntries DEF Advance
  <2> QED
    BY <2>1 DEF TodoInv
<1>6. ASSUME UNCHANGED todo, FileThere(key)' PROVE TodoInv'
  BY <1>6 DEF TodoInv
<1>7. CASE Exec
  BY <1>6, <1>7 DEF Exec, FileThere
<1>8. ASSUME NEW timeout \in BOOLEAN, Fetch(timeout) PROVE TodoInv'
  BY <1>3, <1>5, <1>6, <1>8 DEF Fetch, FileThere
<1>9. CASE ExchangeStep
  <2>1. UNCHANGED <<todo, pc>> /\ outbox' = <<>>
    BY <1>9 DEF ExchangeStep, Exchange, callVars
  <2>2. ASSUME pc = "next" PROVE key \in files'
    BY <1>1, <1>9, <2>2, FileStays DEF FileThere
  <2>3. FileThere(key)'
    BY <2>1, <2>2 DEF FileThere
  <2> QED
    BY <1>6, <2>1, <2>3
<1>10. CASE UNCHANGED vars
  BY <1>6, <1>10 DEF FileThere, vars, callVars, simVars
<1>11. ~RemoveReply /\ ~ReturnAtOnce /\ \A c \in calls : ~Begin(c)
  BY <1>3 DEF RemoveReply, ReturnAtOnce, Begin
<1> QED
  BY <1>5, <1>7, <1>8, <1>9, <1>10, <1>11, NextCases DEF Take

LEMMA TodoStep ==
    ASSUME TypeOK, TypeOK', Single(outbox), HeldIsLatest, ErasedOnce, TodoInv, [Next]_vars
    PROVE  TodoInv'
<1>1. CASE pc = "idle"
  <2>1. LoadsNothing(todo)
    BY <1>1 DEF TypeOK, LoadsNothing
  <2>2. CASE \E call \in calls : Begin(call)
    BY <2>2, BeginTodo
  <2>3. CASE UNCHANGED todo
    BY <2>1, <2>3 DEF TodoInv, LoadsNothing
  <2> QED
    BY <1>1, <2>2, <2>3, NextCases
       DEF RemoveReply, ReturnAtOnce, Exec, Fetch, Take, ExchangeStep, Exchange, callVars, vars
<1>2. CASE pc # "idle" /\ LoadsNothing(todo)
  BY <1>2, NothingTodo
<1>3. ASSUME pc # "idle", NEW load \in Loads, NEW name \in TmpFiles, NEW mode \in Mode \ {"remove"},
             todo = LoadFromClient(load, PathOf(todo), name, mode), Sending(<<name>>)
      PROVE  TodoInv'
  BY <1>3, SendingStep
<1>4. ASSUME pc # "idle", NEW load \in Loads, NEW name \in TmpFiles, NEW mode \in Mode \ {"remove"},
             todo = Tail(LoadFromClient(load, PathOf(todo), name, mode)), FileThere(<<name>>)
      PROVE  TodoInv'
  BY <1>4, FileThereStep
<1> QED
  BY <1>1, <1>2, <1>3, <1>4 DEF TodoInv

-----------------------------------------------------------------------------
(* The theorems *)

LEMMA InvInit == Init => IInv
<1> SUFFICES ASSUME Init PROVE IInv
  OBVIOUS
<1>1. TypeOK
  <2>1. /\ IsFiniteSet({}) /\ 0 \in 0 .. MaxExchanges /\ 0 \in 0 .. 0 /\ <<>> \in Seq(Nat)
        /\ <<>> \in Seq(ProgramStep) /\ <<>> \in Seq(QueuedCommand) /\ <<>> \in Seq(Reply(0))
        /\ DOMAIN <<>> = {}
    BY InboxAssumption, FS_EmptySet
  <2>2. calls \subseteq ProgramCall
    BY DEF Init, ProgramCall
  <2> QED
    BY <2>1, <2>2 DEF Init, TypeOK
<1>2. Single(outbox) /\ HeldIsLatest /\ ErasedOnce /\ LoadInv
  BY DEF Init, Single, HeldIsLatest, Range, ErasedOnce, LoadInv
<1>3. StreamPlace /\ AskedInv /\ AnswerIsFound
  BY DEF Init, StreamPlace, AskedInv, AnswerIsFound, Answered
<1>4. Whole(inbox, owed)
  BY DEF Init, Whole
<1>5. TodoInv
  BY DEF Init, TodoInv, LoadsNothing
<1>6. LoadsWhatWasSent
  BY DEF Init, LoadsWhatWasSent
<1> QED
  BY <1>1, <1>2, <1>3, <1>4, <1>5, <1>6 DEF IInv

LEMMA InvStep == IInv /\ [Next]_vars => IInv'
<1> SUFFICES ASSUME IInv, [Next]_vars PROVE IInv'
  OBVIOUS
<1> USE DEF IInv
<1>1. TypeOK'
  BY TypeStep
<1>2. Single(outbox)'
  BY SingleStep
<1>3. HeldIsLatest'
  BY HeldStep
<1>4. StreamPlace'
  BY StreamPlaceStep
<1>5. AskedInv'
  BY AskedStep
<1>6. AnswerIsFound'
  BY AnswerStep
<1>7. Whole(inbox, owed)'
  BY WholeStep
<1>8. ErasedOnce'
  BY ErasedStep
<1>9. LoadInv'
  BY LoadStep
<1>10. TodoInv'
  BY <1>1, TodoStep
<1>11. LoadsWhatWasSent'
  BY LoadsStep
<1> QED
  BY <1>1, <1>2, <1>3, <1>4, <1>5, <1>6, <1>7, <1>8, <1>9, <1>10, <1>11

\* The invariant holds in every state, whatever the programs call and however many messages
\* are exchanged.
THEOREM Invariance == Spec => []IInv
  BY InvInit, InvStep, PTL DEF Spec

\* Every command and every reply carries the data its class says, and what the program has
\* left to do is made of its own steps: the argument that a function passes to _exec_* is the
\* one that its reply is looked up by.
THEOREM TypeCorrect == Spec => []TypeOK
<1>1. IInv => TypeOK
  BY DEF IInv
<1> QED
  BY <1>1, Invariance, PTL

\* The inbox never holds two replies to a command that is replaced, nor one older than the
\* last that came, nor one that was taken or discontinued, nor, but for those of transferred
\* files, one that its function was called in simx_opmode_remove for.
THEOREM HeldCorrect == Spec => []HeldIsLatest
<1>1. IInv => HeldIsLatest
  BY DEF IInv
<1> QED
  BY <1>1, Invariance, PTL

\* A blocking call that the comm thread reports an answer to finds that answer, and not an
\* older reply, when it looks in the inbox.
THEOREM AnswerCorrect == Spec => []AnswerIsFound
<1>1. IInv => AnswerIsFound
  BY DEF IInv
<1> QED
  BY <1>1, Invariance, PTL

\* simxReadStringStream loses, repeats and reorders nothing of a stream.
THEOREM StreamCorrect == Spec => []StreamIsWhole
<1>1. IInv => StreamIsWhole
  BY HeldIsSingle, StreamFound DEF IInv
<1> QED
  BY <1>1, Invariance, PTL

\* The simulator never loads a temporary file before it arrived, after it was erased or when
\* its transfer failed.
THEOREM LoadsCorrect == Spec => []LoadsWhatWasSent
<1>1. IInv => LoadsWhatWasSent
  BY DEF IInv
<1> QED
  BY <1>1, Invariance, PTL

=============================================================================
