------------------------------- MODULE MCUart -------------------------------
(* Finite instance of UartDriver: a ring buffer of four bytes, a FIFO of three
   with the watermark one below it (8 and 7 in the SoC), and programs of up to
   three calls. *)
EXTENDS UartDriver

Now(n)  == [nbytes |-> n, late |-> FALSE]
Late(n) == [nbytes |-> n, late |-> TRUE]

\* Calls that overlap with the ISR, up to the end of the buffer: the index is
\* wrapped only while the interrupt is still off (WrapPrograms is what
\* happens otherwise).
Overlapping ==
  {p \in {<<Now(a), Now(b), Now(c)>> : a, b, c \in 0 .. 3} :
     p[1].nbytes + p[2].nbytes + p[3].nbytes < UART_BUFFER_SIZE}

\* A first call that fills the buffer and waits for space, and one more.
Filling == {<<Now(a), Now(b)>> : a \in 4 .. 6, b \in 0 .. 1} \cup {<<Now(7)>>}

\* Calls of any length up to the buffer's that do not overlap, at every index.
Separate == {<<Late(a), Late(b), Late(c)>> : a, b, c \in 1 .. 4}

MCPrograms == Overlapping \cup Filling \cup Separate

\* Two calls that overlap, the second one reaches the end of the buffer.
WrapPrograms == {<<Now(2), Now(3)>>}
=============================================================================
