----------------------------- MODULE ByteStream -----------------------------
(***************************************************************************)
(* What a program may expect of uart_write: the bytes it writes come out   *)
(* on the serial line, in the order of the calls, each exactly once.       *)
(*                                                                         *)
(* The bytes of a run are numbered from 1.  There is no buffer, FIFO or    *)
(* interrupt.  Module UartDriver implements this specification.            *)
(***************************************************************************)
EXTENDS Naturals, Sequences

VARIABLES
  written, \* bytes uart_write has accepted
  line     \* bytes that have left the serial port

vars == <<written, line>>

Init == written = 0 /\ line = << >>

\* uart_write accepts the next byte.
Write == written' = written + 1 /\ UNCHANGED line

\* The oldest byte that is not on the line yet is sent.
Send ==
  /\ Len(line) < written
  /\ line' = Append(line, Len(line) + 1)
  /\ UNCHANGED written

Next == Write \/ Send

Spec == Init /\ [][Next]_vars
=============================================================================
