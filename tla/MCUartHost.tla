----------------------------- MODULE MCUartHost -----------------------------
(* Finite instance of UartHost with words of two bytes: writes of different
   words to two addresses, and their reads.  Nine messages are two whole
   sessions of two commands each, and the start of a third. *)
EXTENDS UartHost

A == <<0, 1>>
B == <<4, 1>>
MCCommands ==
  {[read |-> FALSE, address |-> a, word |-> w] : a \in {A, B}, w \in {<<1, 2>>}}
    \cup {[read |-> FALSE, address |-> A, word |-> <<3, 1>>]}
    \cup {[read |-> TRUE, address |-> a, word |-> <<0, 0>>] : a \in {A, B}}
MCCleared == <<9, 8>>
=============================================================================
