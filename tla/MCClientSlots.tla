--------------------------- MODULE MCClientSlots ---------------------------
(***************************************************************************)
(* A small instance of ClientSlots: two threads of a program, two slots,   *)
(* two addresses at different ports.                                       *)
(***************************************************************************)
EXTENDS ClientSlots

CONSTANTS a1, a2

TwoPorts == [a \in {a1, a2} |-> IF a = a1 THEN 1 ELSE 2]

\* Those of main.cpp, and their opposites.
SomeOptions == {<<TRUE, TRUE>>, <<FALSE, FALSE>>}
=============================================================================
