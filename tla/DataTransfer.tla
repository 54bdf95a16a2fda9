---------------------------- MODULE DataTransfer ----------------------------
(***************************************************************************)
(* What a transfer in several chunks promises: what arrives is what was    *)
(* given to be carried, whole and in the order in which it was given.      *)
(* Only a link that breaks loses what is on its way.                       *)
(***************************************************************************)
EXTENDS Sequences, SequencesExt

CONSTANTS Cmd, Data, Nothing

VARIABLES
    linked,    \* the link is up
    carried,   \* for each command, what is on its way, the oldest first
    arrived    \* for each command, what has last arrived, or Nothing

Init ==
    /\ linked = FALSE
    /\ carried = [c \in Cmd |-> <<>>]
    /\ arrived = [c \in Cmd |-> Nothing]

\* A newer datum may take the place of the one given last.
Given(s) ==
    {Append(s, d) : d \in Data}
      \cup (IF s = <<>> THEN {} ELSE {Append(Front(s), d) : d \in Data})

Give(C) ==
    /\ \A c \in Cmd : carried'[c] \in IF c \in C THEN Given(carried[c]) ELSE {carried[c]}
    /\ UNCHANGED <<linked, arrived>>

Arrive(C) ==
    /\ \A c \in C : carried[c] # <<>>
    /\ carried' = [c \in Cmd |-> IF c \in C THEN Tail(carried[c]) ELSE carried[c]]
    /\ arrived' = [c \in Cmd |-> IF c \in C THEN Head(carried[c]) ELSE arrived[c]]
    /\ UNCHANGED linked

\* The receiver may let go of what has arrived over the link.
Break ==
    /\ linked' = FALSE
    /\ \A c \in Cmd : carried'[c] \in Suffixes(carried[c])
    /\ arrived' \in {arrived, [c \in Cmd |-> Nothing]}

Link ==
    /\ linked' = TRUE
    /\ UNCHANGED <<carried, arrived>>

Next ==
    \/ \E C \in SUBSET Cmd : Give(C) \/ Arrive(C)
    \/ Break \/ Link

Safety == Init /\ [][Next]_<<linked, carried, arrived>>

\* Nothing stays on its way for ever.
Delivers == \A c \in Cmd : []<>(carried[c] = <<>>)

Spec == Safety /\ Delivers
=============================================================================
