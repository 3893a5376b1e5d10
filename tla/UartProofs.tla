----------------------------- MODULE UartProofs -----------------------------
(***************************************************************************)
(* What holds of the transmit path for every size of the ring buffer and   *)
(* of the FIFO, every watermark, every program, and either order of the    *)
(* byte and the index - also when the index is read between its increment  *)
(* and its wrap.                                                           *)
(***************************************************************************)
EXTENDS UartDriver, Integers, TLAPS

-----------------------------------------------------------------------------
\* Remainders and the indices of a ring

\* A remainder is determined by any way to write the number.
LEMMA ModUnique ==
  ASSUME NEW M \in Nat \ {0}, NEW q \in Int, NEW r \in 0 .. M - 1
  PROVE  (M * q + r) % M = r
  OBVIOUS

\* Quotient and remainder make up the number.
LEMMA ModSplit ==
  ASSUME NEW M \in Nat \ {0}, NEW a \in Int
  PROVE  /\ a \div M \in Int
         /\ a % M \in 0 .. M - 1
         /\ a = M * (a \div M) + (a % M)
  OBVIOUS

\* A multiple of the modulus does not matter ...
LEMMA ModShift ==
  ASSUME NEW M \in Nat \ {0}, NEW q \in Int, NEW a \in Int
  PROVE  (M * q + a) % M = a % M
<1> DEFINE d == a \div M
           e == a % M
<1>1. d \in Int /\ e \in 0 .. M - 1 /\ a = M * d + e
  BY ModSplit
<1> HIDE DEF d, e
<1>2. (M * (q + d) + e) % M = e
  <2>1. q + d \in Int  BY <1>1
  <2> QED  BY <1>1, <2>1, ModUnique
<1>3. M * q + a = M * (q + d) + e
  BY <1>1
<1>4. (M * q + a) % M = e
  BY <1>2, <1>3
<1> QED  BY <1>4 DEF e

\* ... nor does reducing one summand.
LEMMA ModAdd ==
  ASSUME NEW M \in Nat \ {0}, NEW a \in Int, NEW b \in Int
  PROVE  ((a % M) + b) % M = (a + b) % M
<1> DEFINE d == a \div M
           e == a % M
<1>1. d \in Int /\ e \in 0 .. M - 1 /\ a = M * d + e
  BY ModSplit
<1> HIDE DEF d, e
<1>2. (M * d + (e + b)) % M = (e + b) % M
  <2>1. e + b \in Int  BY <1>1
  <2> QED  BY <1>1, <2>1, ModShift
<1>3. a + b = M * d + (e + b)
  BY <1>1
<1>4. (a + b) % M = (e + b) % M
  BY <1>2, <1>3
<1> QED  BY <1>4 DEF e

\* The remainder of a number at most one modulus away from 0 .. M - 1.
LEMMA ModNear ==
  ASSUME NEW M \in Nat \ {0}, NEW x \in Int
  PROVE  /\ x \in 0 .. M - 1 => x % M = x
         /\ x \in -M .. -1 => x % M = x + M
         /\ x \in M .. 2 * M - 1 => x % M = x - M
         /\ x % M \in 0 .. M - 1
  OBVIOUS

LEMMA ModSmall ==
  ASSUME NEW M \in Nat \ {0}, NEW x \in 0 .. M - 1
  PROVE  x % M = x
  OBVIOUS

\* A pointer that moves by one stays a pointer; it wraps at the end.
LEMMA PointerStep ==
  ASSUME NEW M \in Nat \ {0}, NEW p \in 0 .. M - 1
  PROVE  (p + 1) % M = IF p = M - 1 THEN 0 ELSE p + 1
<1> DEFINE x == p + 1
<1>1. x \in Int /\ (p = M - 1 => x = M) /\ (p # M - 1 => x \in 0 .. M - 1)
  OBVIOUS
<1>2. M \in M .. 2 * M - 1
  OBVIOUS
<1>3. /\ x \in 0 .. M - 1 => x % M = x
      /\ x \in M .. 2 * M - 1 => x % M = x - M
  BY <1>1, ModNear
<1> HIDE DEF x
<1>4. x % M = IF p = M - 1 THEN 0 ELSE x
  BY <1>1, <1>2, <1>3
<1> QED  BY <1>4 DEF x

\* A pointer without its extra bit is the index it stands for.
LEMMA PointerIndex ==
  ASSUME NEW D \in Nat \ {0}, NEW p \in 0 .. 2 * D - 1
  PROVE  p % D \in 0 .. D - 1 /\ p % D = IF p < D THEN p ELSE p - D
<1>1. p \in Int /\ (p < D => p \in 0 .. D - 1) /\ (~(p < D) => p \in D .. 2 * D - 1)
  OBVIOUS
<1>2. /\ p \in 0 .. D - 1 => p % D = p
      /\ p \in D .. 2 * D - 1 => p % D = p - D
      /\ p % D \in 0 .. D - 1
  BY <1>1, ModNear
<1> QED  BY <1>1, <1>2

-----------------------------------------------------------------------------
\* Types

\* Where the ring index has a value that is no slot yet, and where a byte has
\* been given a slot that it is still to be stored in; within the loop there
\* is a byte left.
EndInRange ==
  /\ end = UART_BUFFER_SIZE => at \in {"pushed", "wrap"}
  /\ at = "pushed" => (end = UART_BUFFER_SIZE => ~ByteFirst)
  /\ at = "pushed" /\ ~ByteFirst => end > 0
Counted ==
  /\ at \in {"indices", "wraps", "push", "pushed", "wrap", "wrapbyte", "next"} => count > 0
  /\ waiting => count > 0 /\ at \in {"indices", "wraps", "enable", "enabled"}

Types == TypeOK /\ EndInRange /\ Counted

USE SizesAssumption, ProgramsAssumption

LEMMA InitTypes == Init => Types
BY DEF Init, Types, TypeOK, EndInRange, Counted, Slots, Bytes

\* The program's steps.
LEMMA WriteTypes == Types /\ Write => Types'
<1> SUFFICES ASSUME Types, Write PROVE Types'
  OBVIOUS
<1> USE DEF Types, EndInRange, Counted, At, Goto, Slots, startVars, endVars, uartVars, plicVars
<1>1. CASE Begin
  <2>1. Head(calls) \in Call /\ Tail(calls) \in Seq(Call)
    BY <1>1 DEF Begin, TypeOK
  <2>2. Head(calls).nbytes \in Nat
    BY <2>1 DEF Call
  <2> QED  BY <1>1, <2>1, <2>2 DEF Begin, TypeOK, Bytes
<1>2. CASE Loop
  BY <1>2 DEF Loop, TypeOK, Bytes
<1>3. CASE ReadIndices
  BY <1>3 DEF ReadIndices, TypeOK, Bytes
<1>4. CASE ReadWraps
  BY <1>4 DEF ReadWraps, TypeOK, Bytes
<1>5. CASE StoreByte
  BY <1>5 DEF StoreByte, TypeOK, Bytes
<1>6. CASE AdvanceEnd
  <2>1. Bytes \subseteq Bytes'
    BY <1>6 DEF AdvanceEnd, TypeOK, Bytes
  <2>2. txBuffer' \in [Slots -> Bytes'] /\ txfifo' \in Seq(Bytes') /\ line' \in Seq(Bytes')
    BY <1>6, <2>1 DEF AdvanceEnd, TypeOK
  <2> QED  BY <1>6, <2>1, <2>2 DEF AdvanceEnd, TypeOK
<1>7. CASE WrapEnd
  BY <1>7 DEF WrapEnd, TypeOK, Bytes
<1>8. CASE ToggleEndWrap
  BY <1>8 DEF ToggleEndWrap, TypeOK, Bytes
<1>9. CASE NextByte
  BY <1>9 DEF NextByte, TypeOK, Bytes
<1>10. CASE EnableShadow
  BY <1>10 DEF EnableShadow, TypeOK, Bytes
<1>11. CASE EnableWrite
  <2>1. at' \in {"indices", "idle"}
    BY <1>11 DEF EnableWrite
  <2>2. mintEnableReg' \in BOOLEAN /\ Bytes' = Bytes
    BY <1>11 DEF EnableWrite, Bytes
  <2> QED  BY <1>11, <2>1, <2>2 DEF EnableWrite, TypeOK
<1> QED
  BY <1>1, <1>2, <1>3, <1>4, <1>5, <1>6, <1>7, <1>8, <1>9, <1>10, <1>11 DEF Write

\* The ISR's, and the transmitter's.
LEMMA IsrTypes == Types /\ Isr => Types'
<1> SUFFICES ASSUME Types, Isr PROVE Types'
  OBVIOUS
<1> USE DEF Types, EndInRange, Counted, InIsr, Slots, startVars, endVars, plicVars, writeVars
<1>1. CASE TakeInterrupt
  BY <1>1 DEF TakeInterrupt, TypeOK, Bytes
<1>2. CASE CheckBuffer
  BY <1>2 DEF CheckBuffer, TypeOK, Bytes
<1>3. CASE ReadStatus
  BY <1>3 DEF ReadStatus, TypeOK, Bytes
<1>4. CASE SendByte
  <2>1. (start + 1) % UART_BUFFER_SIZE \in Slots
    BY DEF TypeOK
  <2>2. txfifo \in Seq(Bytes) /\ Len(txfifo) <= FIFO_DEPTH /\ txBuffer[start] \in Bytes
    BY DEF TypeOK
  <2>3. txfifo' = txfifo \/ (Len(txfifo) # FIFO_DEPTH /\ txfifo' = Append(txfifo, txBuffer[start]))
    BY <1>4 DEF SendByte, FifoFull
  <2>4. txfifo' \in Seq(Bytes) /\ Len(txfifo') <= FIFO_DEPTH
    BY <2>2, <2>3
  <2>5. Bytes' = Bytes
    BY <1>4 DEF SendByte, Bytes
  <2> QED  BY <1>4, <2>1, <2>4, <2>5 DEF SendByte, TypeOK
<1>5. CASE DisableInterrupt
  BY <1>5 DEF DisableInterrupt, TypeOK, Bytes
<1> QED  BY <1>1, <1>2, <1>3, <1>4, <1>5 DEF Isr

LEMMA TransmitTypes == Types /\ Transmit => Types'
<1> USE DEF Types, EndInRange, Counted, SoftwareRests, TypeOK, Slots, Bytes, startVars,
            endVars, plicVars, writeVars
<1>1. Types /\ Pop => Types'
  BY DEF Pop
<1>2. Types /\ Shift => Types'
  BY DEF Shift
<1> QED  BY <1>1, <1>2 DEF Transmit

LEMMA NextTypes == Types /\ [Next]_vars => Types'
<1>1. Types /\ UNCHANGED vars => Types'
  BY DEF Types, TypeOK, EndInRange, Counted, Slots, Bytes, vars, startVars, endVars, plicVars,
         writeVars, uartVars
<1> QED  BY <1>1, WriteTypes, IsrTypes, TransmitTypes DEF Next

\* The variables keep their types; the ring index leaves its array only by one,
\* and only until it is wrapped.
THEOREM UartTypes == Spec => []TypeOK
<1>1. Types => TypeOK
  BY DEF Types
<1> QED  BY <1>1, InitTypes, NextTypes, PTL DEF Spec

-----------------------------------------------------------------------------
\* No wake-up is lost

\* What BufferedIsEnabled needs while the ISR runs: the interrupt is on until
\* the ISR has found the buffer empty, and the buffer is empty until it has
\* turned the interrupt off, since uart_write does not run.
Wakeup ==
  /\ at = "idle" /\ ~BufferEmpty => mintEnableReg
  /\ isr \in {"check", "status", "send"} => mintEnableReg
  /\ isr = "disable" => BufferEmpty

LEMMA NextWakeup == Types /\ Wakeup /\ [Next]_vars => Wakeup'
<1> SUFFICES ASSUME Types, Wakeup, [Next]_vars PROVE Wakeup'
  OBVIOUS
<1> USE DEF Wakeup, BufferEmpty, startVars, endVars, plicVars
<1>1. CASE Write
  <2> USE DEF At, Goto
  <2>1. CASE EnableWrite
    BY <2>1 DEF EnableWrite
  <2>2. isr' = "off" /\ isr = "off"
    BY <1>1 DEF Write, Begin, Loop, ReadIndices, ReadWraps, StoreByte, AdvanceEnd, WrapEnd,
                ToggleEndWrap, NextByte, EnableShadow, EnableWrite
  <2>3. ASSUME ~EnableWrite PROVE at' # "idle"
    BY <1>1, <2>3 DEF Write, Begin, Loop, ReadIndices, ReadWraps, StoreByte, AdvanceEnd,
                      WrapEnd, ToggleEndWrap, NextByte, EnableShadow
  <2> QED  BY <2>1, <2>2, <2>3
<1>2. CASE Isr
  <2> USE DEF InIsr, writeVars
  <2>1. CASE TakeInterrupt
    BY <1>2, <2>1 DEF TakeInterrupt, ExternalInterrupt
  <2>2. CASE CheckBuffer
    BY <1>2, <2>2 DEF CheckBuffer
  <2>3. CASE ReadStatus
    BY <1>2, <2>3 DEF ReadStatus
  <2>4. CASE SendByte
    BY <1>2, <2>4 DEF SendByte
  <2>5. CASE DisableInterrupt
    BY <1>2, <2>5 DEF DisableInterrupt
  <2> QED  BY <1>2, <2>1, <2>2, <2>3, <2>4, <2>5 DEF Isr
<1>3. CASE Transmit
  BY <1>3 DEF Transmit, Pop, Shift, SoftwareRests, writeVars
<1>4. CASE UNCHANGED vars
  BY <1>4 DEF vars, writeVars
<1> QED  BY <1>1, <1>2, <1>3, <1>4 DEF Next

\* Between two calls of uart_write and outside the ISR, bytes left in the ring buffer
\* have an interrupt that will fetch them, whenever the ISR took the buffer for empty
\* before.  While one of the two is under way the interrupt may be off.
THEOREM NoLostWakeup == Spec => []BufferedIsEnabled
<1>1. Init => Wakeup
  BY DEF Init, Wakeup, BufferEmpty
<1>2. Wakeup => BufferedIsEnabled
  BY DEF Wakeup, BufferedIsEnabled
<1> QED  BY <1>1, <1>2, InitTypes, NextTypes, NextWakeup, PTL DEF Spec

-----------------------------------------------------------------------------
\* The ring buffer.  Byte n + 1 has slot Slot(n); the wrap byte of an index that
\* has passed n bytes tells whether the number of its laps is odd.

Slot(n) == n % UART_BUFFER_SIZE
Odd(n)  == n % (2 * UART_BUFFER_SIZE) >= UART_BUFFER_SIZE

\* The position on two laps, on one, and on which of them.
LEMMA TwoLaps ==
  ASSUME NEW n \in Nat
  PROVE  /\ n % (2 * UART_BUFFER_SIZE) \in 0 .. 2 * UART_BUFFER_SIZE - 1
         /\ Slot(n) \in Slots
         /\ n % (2 * UART_BUFFER_SIZE) = IF Odd(n) THEN Slot(n) + UART_BUFFER_SIZE ELSE Slot(n)
<1> DEFINE N == UART_BUFFER_SIZE
           d == n \div (2 * N)
           p == n % (2 * N)
           e == 2 * d
<1>1. N \in Nat \ {0} /\ 2 * N \in Nat \ {0} /\ n \in Int
  BY DEF N
<1>2. d \in Int /\ p \in 0 .. 2 * N - 1 /\ n = (2 * N) * d + p
  BY <1>1, ModSplit
<1> HIDE DEF N, d, p
<1>3. e \in Int /\ (2 * N) * d = N * e
  BY <1>1, <1>2
<1> HIDE DEF e
<1>4. n % N = p % N
  <2>1. n = N * e + p
    BY <1>2, <1>3
  <2>2. (N * e + p) % N = p % N
    <3>1. N \in Nat \ {0} /\ e \in Int /\ p \in Int
      BY <1>1, <1>2, <1>3
    <3> QED  BY ONLY <3>1, ModShift
  <2> QED  BY <2>1, <2>2
<1>5. p % N \in 0 .. N - 1 /\ p % N = IF p < N THEN p ELSE p - N
  BY <1>1, <1>2, PointerIndex
<1>6. (n % N) \in 0 .. N - 1 /\ p = IF p >= N THEN (n % N) + N ELSE (n % N)
  BY <1>1, <1>2, <1>4, <1>5
<1> QED  BY <1>2, <1>6 DEF N, p, Slot, Odd, Slots

\* u more bytes.
LEMMA Further ==
  ASSUME NEW n \in Nat, NEW u \in 0 .. UART_BUFFER_SIZE
  PROVE  (n + u) % (2 * UART_BUFFER_SIZE) =
           IF (n % (2 * UART_BUFFER_SIZE)) + u < 2 * UART_BUFFER_SIZE
             THEN (n % (2 * UART_BUFFER_SIZE)) + u
             ELSE (n % (2 * UART_BUFFER_SIZE)) + u - 2 * UART_BUFFER_SIZE
<1> DEFINE M == 2 * UART_BUFFER_SIZE
           p == n % M
           y == p + u
<1>1. M \in Nat \ {0} /\ p \in 0 .. M - 1
  BY TwoLaps
<1>2. (p + u) % M = (n + u) % M
  <2>1. M \in Nat \ {0} /\ n \in Int /\ u \in Int
    OBVIOUS
  <2> HIDE DEF M
  <2>2. ((n % M) + u) % M = (n + u) % M
    BY ONLY <2>1, ModAdd
  <2> QED  BY <2>2
<1>3. y \in Int /\ (y < M => y \in 0 .. M - 1) /\ (~(y < M) => y \in M .. 2 * M - 1)
  BY <1>1
<1> HIDE DEF M, y
<1>4. (y \in 0 .. M - 1 => y % M = y) /\ (y \in M .. 2 * M - 1 => y % M = y - M)
  BY <1>1, <1>3, ModNear
<1> QED  BY <1>2, <1>3, <1>4 DEF M, y

\* The next byte.
LEMMA NextSlot ==
  ASSUME NEW n \in Nat
  PROVE  /\ Slot(n + 1) = IF Slot(n) = UART_BUFFER_SIZE - 1 THEN 0 ELSE Slot(n) + 1
         /\ Odd(n + 1) <=> (IF Slot(n) = UART_BUFFER_SIZE - 1 THEN ~Odd(n) ELSE Odd(n))
<1> DEFINE N == UART_BUFFER_SIZE
           p == n % (2 * N)
           q == (n + 1) % (2 * N)
<1>1. q = IF p + 1 < 2 * N THEN p + 1 ELSE p + 1 - 2 * N
  BY Further, 1 \in 0 .. UART_BUFFER_SIZE
<1>2. /\ p \in 0 .. 2 * N - 1 /\ Slot(n) \in 0 .. N - 1
      /\ p = IF p >= N THEN Slot(n) + N ELSE Slot(n)
  BY TwoLaps DEF Odd, Slots
<1>3. n + 1 \in Nat
  OBVIOUS
<1>4. /\ q \in 0 .. 2 * N - 1 /\ Slot(n + 1) \in 0 .. N - 1
      /\ q = IF q >= N THEN Slot(n + 1) + N ELSE Slot(n + 1)
  BY <1>3, TwoLaps DEF Odd, Slots
<1>5. N \in Nat \ {0}
  OBVIOUS
<1>6. /\ Slot(n + 1) = IF Slot(n) = N - 1 THEN 0 ELSE Slot(n) + 1
      /\ q >= N <=> (IF Slot(n) = N - 1 THEN ~(p >= N) ELSE p >= N)
  <2> HIDE DEF N, p, q
  <2> QED  BY <1>1, <1>2, <1>4, <1>5
<1> QED  BY <1>6 DEF Odd

\* Bytes no more than the size of the buffer apart share a slot only if they are
\* none or all of it apart, and the wrap bytes tell which.
LEMMA SameSlot ==
  ASSUME NEW m \in Nat, NEW n \in Nat, m <= n, n <= m + UART_BUFFER_SIZE
  PROVE  /\ Slot(m) = Slot(n) <=> n = m \/ n = m + UART_BUFFER_SIZE
         /\ Slot(m) = Slot(n) => ((Odd(m) <=> Odd(n)) <=> n = m)
<1> DEFINE N == UART_BUFFER_SIZE
           u == n - m
           p == m % (2 * N)
           q == n % (2 * N)
<1>1. u \in 0 .. N /\ m + u = n /\ N \in Nat \ {0}
  OBVIOUS
<1>2. q = IF p + u < 2 * N THEN p + u ELSE p + u - 2 * N
  <2> HIDE DEF u
  <2>1. (m + u) % (2 * N) = IF p + u < 2 * N THEN p + u ELSE p + u - 2 * N
    BY <1>1, Further
  <2> QED  BY <1>1, <2>1
<1>3. /\ p \in 0 .. 2 * N - 1 /\ Slot(m) \in 0 .. N - 1
      /\ p = IF p >= N THEN Slot(m) + N ELSE Slot(m)
  BY TwoLaps DEF Odd, Slots
<1>4. /\ q \in 0 .. 2 * N - 1 /\ Slot(n) \in 0 .. N - 1
      /\ q = IF q >= N THEN Slot(n) + N ELSE Slot(n)
  BY TwoLaps DEF Odd, Slots
<1>5. /\ Slot(m) = Slot(n) <=> u = 0 \/ u = N
      /\ Slot(m) = Slot(n) => (((p >= N) <=> (q >= N)) <=> u = 0)
  <2> HIDE DEF N, p, q, u
  <2> QED  BY <1>1, <1>2, <1>3, <1>4
<1> QED  BY <1>5 DEF Odd

-----------------------------------------------------------------------------
\* The byte stream

\* The ring index is out of its array, or behind its wrap byte.
Wrapping == end = UART_BUFFER_SIZE \/ at = "wrapbyte"

\* No interrupt comes in at that moment.
WrapMasked == isr = "off" /\ isr' # "off" => ~Wrapping

\* Bytes that have been taken out of the ring buffer.
Sending == IF buffer = 0 THEN 0 ELSE 1
Taken == Len(line) + Sending + Len(txfifo)

\* On the way to the line the bytes are in order.
InOrder ==
  /\ \A i \in 1 .. Len(line) : line[i] = i
  /\ buffer # 0 => buffer = Len(line) + 1
  /\ \A i \in 1 .. Len(txfifo) : txfifo[i] = Len(line) + Sending + i

\* The indices and wrap bytes tell the numbers of bytes modulo two laps, except
\* while the end is wrapped.
Start == start = Slot(Taken) /\ startWrap = Odd(Taken)
End ==
  /\ ~Wrapping => end = Slot(written) /\ endWrap = Odd(written)
  /\ Wrapping => Slot(written) = 0 /\ endWrap = ~Odd(written)
  /\ at = "wrapbyte" => end = 0

\* The buffer holds the bytes that have not been taken.
Held ==
  /\ \A k \in Nat : Taken <= k /\ k < written => txBuffer[Slot(k)] = k + 1
  /\ at = "pushed" => txBuffer[Slot(written)] = written + 1

\* How many these can be: there is space where a byte is pushed, although the
\* ISR ran between the two reads that decided it, and one where it is taken.
Room ==
  /\ Taken <= written /\ written <= Taken + UART_BUFFER_SIZE
  /\ at = "wraps" /\ ~equal => written < Taken + UART_BUFFER_SIZE
  /\ at \in {"push", "pushed"} => written < Taken + UART_BUFFER_SIZE
  /\ isr \in {"status", "send"} => Taken < written
  /\ isr = "send" => ~FifoFull
  /\ isr # "off" => ~Wrapping

Streaming == InOrder /\ Start /\ End /\ Held /\ Room

LEMMA InitStreaming == Init => Streaming
<1> SUFFICES ASSUME Init PROVE Streaming
  OBVIOUS
<1>1. Taken = 0 /\ Sending = 0
  BY DEF Init, Taken, Sending
<1>2. Slot(0) = 0 /\ ~Odd(0)
  <2> DEFINE M == 2 * UART_BUFFER_SIZE
  <2>1. UART_BUFFER_SIZE \in Nat \ {0} /\ M \in Nat \ {0}
    OBVIOUS
  <2>2. 0 \in 0 .. UART_BUFFER_SIZE - 1 /\ 0 \in 0 .. M - 1
    BY <2>1
  <2> HIDE DEF M
  <2>3. 0 % M = 0 /\ 0 % UART_BUFFER_SIZE = 0
    BY ONLY <2>1, <2>2, ModSmall
  <2> QED  BY <2>3 DEF Slot, Odd, M
<1>3. ~Wrapping
  BY DEF Init, Wrapping
<1>4. Odd(0) = FALSE
  BY <1>2 DEF Odd
<1>5. Start /\ End
  BY <1>1, <1>2, <1>3, <1>4 DEF Init, Start, End
<1>6. InOrder
  BY <1>1 DEF Init, InOrder
<1>7. Held /\ Room
  BY <1>1, <1>3 DEF Init, Held, Room
<1> QED  BY <1>5, <1>6, <1>7 DEF Streaming

\* The numbers are numbers.
LEMMA TakenTyped ==
  ASSUME TypeOK
  PROVE  Taken \in Nat /\ Sending \in {0, 1} /\ Len(line) \in Nat /\ Len(txfifo) \in Nat
BY DEF TypeOK, Taken, Sending

\* Empty and full, as the code sees them.
LEMMA Indices ==
  ASSUME TypeOK, Start, End, Room, ~Wrapping
  PROVE  /\ BufferEmpty <=> Taken = written
         /\ end = start <=> (Taken = written \/ written = Taken + UART_BUFFER_SIZE)
         /\ end = start /\ startWrap # endWrap <=> written = Taken + UART_BUFFER_SIZE
<1>1. Taken \in Nat /\ written \in Nat /\ Taken <= written
      /\ written <= Taken + UART_BUFFER_SIZE
  BY TakenTyped DEF TypeOK, Room
<1>2. start = Slot(Taken) /\ startWrap = Odd(Taken) /\ end = Slot(written)
      /\ endWrap = Odd(written)
  BY DEF Start, End
<1>3. /\ Slot(Taken) = Slot(written)
           <=> written = Taken \/ written = Taken + UART_BUFFER_SIZE
      /\ Slot(Taken) = Slot(written) => ((Odd(Taken) <=> Odd(written)) <=> written = Taken)
  BY <1>1, SameSlot
<1>4. Odd(Taken) \in BOOLEAN /\ Odd(written) \in BOOLEAN
  BY DEF Odd
<1>5. written = Taken + UART_BUFFER_SIZE => written # Taken
  BY <1>1
<1> HIDE DEF Wrapping
<1> QED  BY <1>1, <1>2, <1>3, <1>4, <1>5, Zenon DEF BufferEmpty

LEMMA WriteStreaming == ByteFirst /\ Types /\ Streaming /\ Write => Streaming'
<1> SUFFICES ASSUME ByteFirst, Types, Streaming, Write PROVE Streaming'
  OBVIOUS
<1> USE DEF At, Goto
<1>1. /\ isr = "off" /\ isr' = isr
      /\ UNCHANGED <<start, startWrap, txfifo, buffer, line>>
  BY DEF Write, Begin, Loop, ReadIndices, ReadWraps, StoreByte, AdvanceEnd, WrapEnd,
         ToggleEndWrap, NextByte, EnableShadow, EnableWrite, startVars, uartVars
<1>2. Taken' = Taken /\ Sending' = Sending
  BY <1>1 DEF Taken, Sending
<1>3. InOrder' /\ Start'
  BY <1>1, <1>2 DEF Streaming, InOrder, Start
<1>4. Taken \in Nat /\ written \in Nat /\ end \in 0 .. UART_BUFFER_SIZE /\ endWrap \in BOOLEAN
  BY TakenTyped DEF Types, TypeOK
<1>5. /\ Taken <= written /\ written <= Taken + UART_BUFFER_SIZE
      /\ at = "wraps" /\ ~equal => written < Taken + UART_BUFFER_SIZE
      /\ at \in {"push", "pushed"} => written < Taken + UART_BUFFER_SIZE
  BY DEF Streaming, Room
<1>6. end = UART_BUFFER_SIZE => at = "wrap"
  BY DEF Types, EndInRange
\* Steps that read, or change what only uart_write knows.
<1>7. ASSUME UNCHANGED <<txBuffer, end, endWrap, written>>, Wrapping' <=> Wrapping,
             at' \notin {"pushed", "wrapbyte"},
             at' = "wraps" /\ ~equal' => written < Taken + UART_BUFFER_SIZE,
             at' = "push" => written < Taken + UART_BUFFER_SIZE
      PROVE  End' /\ Held' /\ Room'
  <2>1. End'
    BY <1>7 DEF Streaming, End
  <2>2. Held'
    BY <1>2, <1>7 DEF Streaming, Held
  <2>3. Room'
    BY <1>1, <1>2, <1>5, <1>7 DEF Room
  <2> QED  BY <2>1, <2>2, <2>3
<1>8. CASE Begin \/ Loop \/ NextByte \/ EnableShadow \/ EnableWrite
  <2>1. /\ UNCHANGED <<txBuffer, end, endWrap, written>>
        /\ at' \in {"loop", "indices", "enable", "enabled", "idle"}
        /\ at \in {"idle", "loop", "next", "enable", "enabled"}
    BY <1>8 DEF Begin, Loop, NextByte, EnableShadow, EnableWrite, endVars
  <2> QED  BY <1>3, <1>7, <2>1 DEF Wrapping, Streaming
<1>9. CASE ReadIndices
  <2>1. UNCHANGED <<txBuffer, end, endWrap, written>> /\ at = "indices" /\ at' = "wraps"
        /\ equal' = (end = start)
    BY <1>9 DEF ReadIndices, endVars
  <2>2. ~Wrapping /\ ~Wrapping'
    BY <1>6, <2>1 DEF Wrapping
  <2>3. end = start <=> (Taken = written \/ written = Taken + UART_BUFFER_SIZE)
    BY <2>2, Indices DEF Types, Streaming
  <2>4. ~equal' => written < Taken + UART_BUFFER_SIZE
    <3>1. ~equal' => ~(end = start)
      BY <2>1
    <3>2. ~(end = start) => written < Taken + UART_BUFFER_SIZE
      BY <1>4, <1>5, <2>3
    <3> QED  BY <3>1, <3>2
  <2> QED  BY <1>3, <1>7, <2>1, <2>2, <2>4 DEF Streaming
<1>10. CASE ReadWraps
  <2> DEFINE full == equal /\ startWrap # endWrap
  <2>1. /\ UNCHANGED <<txBuffer, end, endWrap, written>> /\ at = "wraps"
        /\ at' \in {"push", "indices", "enable"} /\ (at' = "push" => ~full)
    BY <1>10 DEF ReadWraps, endVars
  <2>2. ~Wrapping /\ ~Wrapping'
    BY <1>6, <2>1 DEF Wrapping
  <2>3. end = start /\ startWrap # endWrap <=> written = Taken + UART_BUFFER_SIZE
    BY <2>2, Indices DEF Types, Streaming
  <2>4. ~full => written < Taken + UART_BUFFER_SIZE
    BY <1>4, <1>5, <2>1, <2>3
  <2> QED  BY <1>3, <1>7, <2>1, <2>2, <2>4 DEF Streaming
<1>11. CASE StoreByte
  <2>1. /\ at = "push" /\ at' = "pushed" /\ UNCHANGED <<end, endWrap, written>>
        /\ txBuffer' = [txBuffer EXCEPT ![end] = written + 1]
    BY <1>11 DEF StoreByte, endVars
  <2>2. ~Wrapping /\ ~Wrapping'
    BY <1>6, <2>1 DEF Wrapping
  <2>3. end = Slot(written) /\ endWrap = Odd(written)
    BY <2>2 DEF Streaming, End
  <2>4. End'
    BY <2>1, <2>2, <2>3 DEF End
  <2>5. Slot(written) \in Slots /\ txBuffer \in [Slots -> Bytes]
    BY <1>4, TwoLaps DEF Types, TypeOK
  <2>6. txBuffer'[Slot(written)] = written + 1
    BY <2>1, <2>3, <2>5
  <2>7. ASSUME NEW k \in Nat, Taken <= k, k < written
        PROVE  txBuffer'[Slot(k)] = k + 1
    <3>1. Slot(k) # Slot(written)
      <4>1. k <= written /\ written <= k + UART_BUFFER_SIZE
            /\ ~(written = k \/ written = k + UART_BUFFER_SIZE)
        BY <1>4, <1>5, <2>1, <2>7
      <4> QED  BY <1>4, <4>1, SameSlot
    <3>2. txBuffer[Slot(k)] = k + 1 /\ Slot(k) \in Slots
      BY <2>7, TwoLaps DEF Streaming, Held
    <3> QED  BY <2>1, <2>3, <2>5, <3>1, <3>2
  <2>8. Held'
    BY <1>2, <2>1, <2>6, <2>7 DEF Held
  <2>9. Room'
    BY <1>1, <1>2, <1>5, <2>1 DEF Room
  <2> QED  BY <1>3, <2>4, <2>8, <2>9 DEF Streaming
<1>12. CASE AdvanceEnd
  <2>1. /\ at = "pushed" /\ at' = "wrap" /\ UNCHANGED <<endWrap, txBuffer>>
        /\ end' = end + 1 /\ written' = written + 1
    BY <1>12 DEF AdvanceEnd
  <2>2. ~Wrapping /\ (Wrapping' <=> end + 1 = UART_BUFFER_SIZE)
    BY <1>6, <2>1 DEF Wrapping
  <2>3. end = Slot(written) /\ endWrap = Odd(written)
    BY <2>2 DEF Streaming, End
  <2>4. /\ Slot(written + 1) = IF end = UART_BUFFER_SIZE - 1 THEN 0 ELSE end + 1
        /\ Odd(written + 1) <=> (IF end = UART_BUFFER_SIZE - 1 THEN ~Odd(written) ELSE Odd(written))
    BY <1>4, <2>3, NextSlot
  <2>5. Odd(written) \in BOOLEAN /\ Odd(written + 1) \in BOOLEAN
    BY DEF Odd
  <2>6. end + 1 = UART_BUFFER_SIZE <=> end = UART_BUFFER_SIZE - 1
    BY <1>4
  <2>7. End'
    <3>1. CASE end + 1 = UART_BUFFER_SIZE
      <4>1. Slot(written + 1) = 0 /\ Odd(written) = ~Odd(written + 1)
        BY <2>4, <2>5, <2>6, <3>1, Zenon
      <4> QED  BY <2>1, <2>2, <2>3, <3>1, <4>1 DEF End
    <3>2. CASE end + 1 # UART_BUFFER_SIZE
      <4>1. Slot(written + 1) = end + 1 /\ Odd(written) = Odd(written + 1)
        BY <2>4, <2>5, <2>6, <3>2, Zenon
      <4> QED  BY <2>1, <2>2, <2>3, <3>2, <4>1 DEF End
    <3> QED  BY <3>1, <3>2
  <2>8. ASSUME NEW k \in Nat, Taken <= k, k < written + 1
        PROVE  txBuffer[Slot(k)] = k + 1
    <3>1. k = written \/ k < written
      BY <1>4, <2>8
    <3> QED  BY <2>1, <2>8, <3>1 DEF Streaming, Held
  <2>9. Held'
    BY <1>2, <2>1, <2>8 DEF Held
  <2>10. Room'
    BY <1>1, <1>2, <1>4, <1>5, <2>1 DEF Room
  <2> QED  BY <1>3, <2>7, <2>9, <2>10 DEF Streaming
<1>13. CASE WrapEnd
  <2>1. /\ at = "wrap" /\ UNCHANGED <<txBuffer, endWrap, written>>
        /\ end' = IF end = UART_BUFFER_SIZE THEN 0 ELSE end
        /\ at' = IF end = UART_BUFFER_SIZE THEN "wrapbyte" ELSE "next"
    BY <1>13 DEF WrapEnd
  <2>2. (Wrapping <=> end = UART_BUFFER_SIZE) /\ (Wrapping' <=> end = UART_BUFFER_SIZE)
    BY <2>1 DEF Wrapping
  <2>3. End'
    BY <2>1, <2>2 DEF Streaming, End
  <2>4. Held'
    BY <1>2, <2>1 DEF Streaming, Held
  <2>5. Room'
    BY <1>1, <1>2, <1>5, <2>1 DEF Room
  <2> QED  BY <1>3, <2>3, <2>4, <2>5 DEF Streaming
<1>14. CASE ToggleEndWrap
  <2>1. /\ at = "wrapbyte" /\ at' = "next" /\ UNCHANGED <<txBuffer, end, written>>
        /\ endWrap' = ~endWrap
    BY <1>14 DEF ToggleEndWrap
  <2>2. Wrapping /\ ~Wrapping' /\ end = 0
    BY <2>1 DEF Wrapping, Streaming, End
  <2>3. Slot(written) = 0 /\ endWrap = ~Odd(written) /\ Odd(written) \in BOOLEAN
    BY <2>2 DEF Streaming, End, Odd
  <2>4. endWrap' = Odd(written)
    BY <2>1, <2>3
  <2>5. End'
    BY <2>1, <2>2, <2>3, <2>4 DEF End
  <2>6. Held'
    BY <1>2, <2>1 DEF Streaming, Held
  <2>7. Room'
    BY <1>1, <1>2, <1>5, <2>1 DEF Room
  <2> QED  BY <1>3, <2>5, <2>6, <2>7 DEF Streaming
<1> QED  BY <1>8, <1>9, <1>10, <1>11, <1>12, <1>13, <1>14 DEF Write

\* The ISR takes bytes out of the ring buffer.
LEMMA IsrStreaming == Types /\ Streaming /\ Isr /\ WrapMasked => Streaming'
<1> SUFFICES ASSUME Types, Streaming, Isr, WrapMasked PROVE Streaming'
  OBVIOUS
<1>1. UNCHANGED <<txBuffer, end, endWrap, at, equal, written, buffer, line>>
  BY DEF Isr, TakeInterrupt, CheckBuffer, ReadStatus, SendByte, DisableInterrupt, InIsr,
         endVars, writeVars
<1>2. isr # "off" => ~Wrapping
  BY DEF Streaming, Room
<1>3. Wrapping' <=> Wrapping
  BY <1>1 DEF Wrapping
<1>4. isr' # "off" => ~Wrapping'
  BY <1>2, <1>3 DEF WrapMasked
<1>5. End' /\ Sending' = Sending
  BY <1>1, <1>3 DEF Streaming, End, Sending
<1>6. Taken \in Nat /\ written \in Nat
  BY TakenTyped DEF Types, TypeOK
\* Steps that only read.
<1>7. ASSUME UNCHANGED <<start, startWrap, txfifo>>,
             isr' \in {"status", "send"} => Taken < written,
             isr' = "send" => ~FifoFull
      PROVE  Streaming'
  <2>1. Taken' = Taken /\ FifoFull' = FifoFull
    BY <1>1, <1>5, <1>7 DEF Taken, FifoFull
  <2>2. InOrder' /\ Start' /\ Held'
    BY <1>1, <1>5, <1>7, <2>1 DEF Streaming, InOrder, Start, Held
  <2>3. Room'
    BY <1>1, <1>4, <1>7, <2>1 DEF Streaming, Room
  <2> QED  BY <1>5, <2>2, <2>3 DEF Streaming
<1>8. CASE TakeInterrupt \/ DisableInterrupt
  BY <1>7, <1>8 DEF TakeInterrupt, DisableInterrupt, startVars
<1>9. CASE CheckBuffer
  <2>1. UNCHANGED <<start, startWrap, txfifo>> /\ isr = "check"
        /\ isr' = IF BufferEmpty THEN "disable" ELSE "status"
    BY <1>9 DEF CheckBuffer, InIsr, startVars
  <2>2. BufferEmpty <=> Taken = written
    BY <1>2, <2>1, Indices DEF Types, Streaming
  <2>3. ~BufferEmpty => Taken < written
    BY <1>6, <2>2 DEF Streaming, Room
  <2> QED  BY <1>7, <2>1, <2>3
<1>10. CASE ReadStatus
  <2>1. UNCHANGED <<start, startWrap, txfifo>> /\ isr = "status"
        /\ isr' = IF FifoFull THEN "off" ELSE "send"
    BY <1>10 DEF ReadStatus, InIsr, startVars
  <2> QED  BY <1>7, <2>1 DEF Streaming, Room
<1>11. CASE SendByte
  <2>1. /\ isr = "send" /\ isr' = "check" /\ ~FifoFull /\ Taken < written
        /\ start' = (start + 1) % UART_BUFFER_SIZE
        /\ startWrap' = IF start + 1 = UART_BUFFER_SIZE THEN ~startWrap ELSE startWrap
    BY <1>11 DEF SendByte, InIsr, Streaming, Room
  <2>2. txfifo' = Append(txfifo, txBuffer[start])
    BY <1>11, <2>1 DEF SendByte
  <2>3. start = Slot(Taken) /\ startWrap = Odd(Taken) /\ start \in 0 .. UART_BUFFER_SIZE - 1
    BY DEF Streaming, Start, Types, TypeOK, Slots
  <2>4. txBuffer[start] = Taken + 1
    BY <1>6, <2>1, <2>3 DEF Streaming, Held
  <2>5. txfifo \in Seq(Bytes) /\ Len(txfifo) \in Nat /\ txBuffer[start] \in Bytes
    BY DEF Types, TypeOK
  <2>6. Len(txfifo') = Len(txfifo) + 1
        /\ \A i \in 1 .. Len(txfifo) + 1 :
             txfifo'[i] = IF i = Len(txfifo) + 1 THEN Taken + 1 ELSE txfifo[i]
    BY <2>2, <2>4, <2>5
  <2>7. Len(line) \in Nat /\ Sending \in {0, 1} /\ Taken = Len(line) + Sending + Len(txfifo)
    BY TakenTyped DEF Types, Taken
  <2>8. Taken' = Taken + 1
    BY <1>1, <1>5, <2>5, <2>6, <2>7 DEF Taken
  <2>9. InOrder'
    <3>1. ASSUME NEW i \in 1 .. Len(txfifo) + 1
          PROVE  txfifo'[i] = Len(line) + Sending + i
      <4>1. CASE i = Len(txfifo) + 1
        BY <2>6, <2>7, <4>1
      <4>2. CASE i # Len(txfifo) + 1
        <5>1. i \in 1 .. Len(txfifo)
          BY <2>5, <4>2
        <5>2. txfifo[i] = Len(line) + Sending + i
          BY <5>1 DEF Streaming, InOrder
        <5> QED  BY <2>6, <4>2, <5>2
      <4> QED  BY <4>1, <4>2
    <3> QED  BY <1>1, <1>5, <2>6, <3>1 DEF Streaming, InOrder
  <2>10. Start'
    <3>1. start' = IF start = UART_BUFFER_SIZE - 1 THEN 0 ELSE start + 1
      BY <2>1, <2>3, PointerStep
    <3>2. start + 1 = UART_BUFFER_SIZE <=> start = UART_BUFFER_SIZE - 1
      BY <2>3
    <3>3. /\ Slot(Taken + 1) = IF start = UART_BUFFER_SIZE - 1 THEN 0 ELSE start + 1
          /\ Odd(Taken + 1) <=> (IF start = UART_BUFFER_SIZE - 1 THEN ~Odd(Taken) ELSE Odd(Taken))
      BY <1>6, <2>3, NextSlot
    <3>4. Odd(Taken) \in BOOLEAN /\ Odd(Taken + 1) \in BOOLEAN
      BY DEF Odd
    <3>5. startWrap' = Odd(Taken + 1)
      BY <2>1, <2>3, <3>2, <3>3, <3>4, Zenon
    <3> QED  BY <2>8, <3>1, <3>3, <3>5 DEF Start
  <2>11. Held'
    BY <1>1, <1>6, <2>8 DEF Streaming, Held
  <2>12. Room'
    BY <1>1, <1>4, <1>6, <2>1, <2>8 DEF Streaming, Room
  <2> QED  BY <1>5, <2>9, <2>10, <2>11, <2>12 DEF Streaming
<1> QED  BY <1>8, <1>9, <1>10, <1>11 DEF Isr

\* The transmitter passes bytes on.
LEMMA TransmitStreaming == Types /\ Streaming /\ Transmit => Streaming'
<1> SUFFICES ASSUME Types, Streaming, Transmit PROVE Streaming'
  OBVIOUS
<1>1. UNCHANGED <<txBuffer, start, end, startWrap, endWrap, at, equal, written, isr>>
  BY DEF Transmit, Pop, Shift, SoftwareRests, startVars, endVars, writeVars
<1>2. /\ Len(line) \in Nat /\ Len(txfifo) \in Nat /\ Sending \in {0, 1}
      /\ line \in Seq(Bytes) /\ txfifo \in Seq(Bytes) /\ buffer \in Bytes
  BY TakenTyped DEF Types, TypeOK
<1>3. Taken' = Taken /\ InOrder' /\ Len(txfifo') <= Len(txfifo)
  <2>1. CASE Pop
    <3>1. buffer = 0 /\ txfifo # << >> /\ buffer' = Head(txfifo) /\ txfifo' = Tail(txfifo)
          /\ line' = line
      BY <2>1 DEF Pop
    <3>2. /\ Len(txfifo) > 0 /\ Len(txfifo') = Len(txfifo) - 1 /\ buffer' = txfifo[1]
          /\ \A i \in 1 .. Len(txfifo) - 1 : txfifo'[i] = txfifo[i + 1]
      BY <1>2, <3>1
    <3>3. Sending = 0 /\ txfifo[1] = Len(line) + 1
      BY <1>2, <3>1, <3>2 DEF Streaming, InOrder, Sending
    <3>4. Sending' = 1 /\ buffer' = Len(line) + 1
      BY <1>2, <3>2, <3>3 DEF Sending
    <3>5. Taken' = Taken
      BY <1>2, <3>1, <3>2, <3>3, <3>4 DEF Taken
    <3>6. ASSUME NEW i \in 1 .. Len(txfifo) - 1
          PROVE  txfifo'[i] = Len(line) + 1 + i
      <4>1. i + 1 \in 1 .. Len(txfifo)
        BY <1>2
      <4> QED  BY <1>2, <3>2, <3>3, <4>1 DEF Streaming, InOrder
    <3>7. InOrder'
      BY <3>1, <3>2, <3>4, <3>6 DEF Streaming, InOrder
    <3> QED  BY <1>2, <3>2, <3>5, <3>7
  <2>2. CASE Shift
    <3>1. buffer # 0 /\ line' = Append(line, buffer) /\ buffer' = 0 /\ txfifo' = txfifo
      BY <2>2 DEF Shift
    <3>2. Sending = 1 /\ Sending' = 0 /\ buffer = Len(line) + 1
      BY <3>1 DEF Streaming, InOrder, Sending
    <3>3. /\ Len(line') = Len(line) + 1
          /\ \A i \in 1 .. Len(line) + 1 : line'[i] = IF i = Len(line) + 1 THEN buffer ELSE line[i]
      BY <1>2, <3>1
    <3>4. Taken' = Taken
      BY <1>2, <3>1, <3>2, <3>3 DEF Taken
    <3>5. InOrder'
      BY <1>2, <3>1, <3>2, <3>3 DEF Streaming, InOrder
    <3> QED  BY <1>2, <3>1, <3>4, <3>5
  <2> QED  BY <2>1, <2>2 DEF Transmit
<1>4. Wrapping' <=> Wrapping
  BY <1>1 DEF Wrapping
<1>5. Start' /\ End' /\ Held'
  BY <1>1, <1>3, <1>4 DEF Streaming, Start, End, Held
<1>6. ~FifoFull => ~FifoFull'
  <2>1. Len(txfifo) <= FIFO_DEPTH /\ Len(txfifo') \in Nat
    BY NextTypes DEF Types, TypeOK, Next
  <2> QED  BY <1>2, <1>3, <2>1 DEF FifoFull
<1>7. Room'
  BY <1>1, <1>3, <1>4, <1>6 DEF Streaming, Room
<1> QED  BY <1>3, <1>5, <1>7 DEF Streaming

\* A step is Write of the byte stream when the index is advanced, Send when the
\* transmitter has shifted a byte out, and else a stutter.
LEMMA StreamStep ==
  ByteFirst /\ Types /\ Streaming /\ [Next]_vars => [Stream!Next]_(Stream!vars)
<1> SUFFICES ASSUME Types, Streaming, [Next]_vars PROVE [Stream!Next]_(Stream!vars)
  OBVIOUS
<1>1. CASE AdvanceEnd
  BY <1>1 DEF AdvanceEnd, At, uartVars, Stream!Next, Stream!Write
<1>2. CASE Shift
  <2>1. /\ buffer # 0 /\ line' = Append(line, buffer) /\ UNCHANGED written
    BY <1>2 DEF Shift, SoftwareRests, writeVars
  <2>2. buffer = Len(line) + 1 /\ Taken >= Len(line) + 1 /\ Taken <= written
    BY <2>1, TakenTyped DEF Types, Streaming, InOrder, Room, Taken, Sending
  <2>3. Len(line) < written
    BY <2>2, TakenTyped DEF Types, TypeOK
  <2> QED  BY <2>1, <2>2, <2>3 DEF Stream!Next, Stream!Send
<1>3. CASE Write /\ ~AdvanceEnd
  BY <1>3 DEF Write, Begin, Loop, ReadIndices, ReadWraps, StoreByte, WrapEnd, ToggleEndWrap,
              NextByte, EnableShadow, EnableWrite, At, uartVars, Stream!vars
<1>4. CASE Isr
  BY <1>4 DEF Isr, TakeInterrupt, CheckBuffer, ReadStatus, SendByte, DisableInterrupt, InIsr,
              writeVars, Stream!vars
<1>5. CASE Pop
  BY <1>5 DEF Pop, SoftwareRests, writeVars, Stream!vars
<1>6. CASE UNCHANGED vars
  BY <1>6 DEF vars, writeVars, uartVars, Stream!vars
<1> QED  BY <1>1, <1>2, <1>3, <1>4, <1>5, <1>6 DEF Next, Transmit

LEMMA NextStreaming ==
  ByteFirst /\ Types /\ Streaming /\ [Next]_vars /\ [WrapMasked]_vars => Streaming'
<1>1. Streaming /\ UNCHANGED vars => Streaming'
  BY DEF Streaming, InOrder, Start, End, Held, Room, Taken, Sending, Wrapping, FifoFull, vars,
         startVars, endVars, writeVars, uartVars
<1>2. \/ UNCHANGED vars
      \/ (Write \/ Isr \/ Transmit) /\ WrapMasked
      \/ ~[Next]_vars
      \/ ~[WrapMasked]_vars
  BY DEF Next
<1> QED  BY <1>1, <1>2, WriteStreaming, IsrStreaming, TransmitStreaming

\* What uart_write and its ISR do right once two things are given that the C code does
\* not see to (uart.c:200-204): a build that stores the byte before the index, and no
\* interrupt between the increment of the index and its wrap.  Then the line carries
\* what uart_write was given, each byte once and in order, whatever else interleaves.
\* Of the program as it is this says nothing: run UartWrap has the counterexample.
LEMMA ByteStreamIfMasked ==
  ASSUME ByteFirst
  PROVE  Spec /\ [][WrapMasked]_vars => ImplementsByteStream
<1>1. Init => Stream!Init
  BY DEF Init, Stream!Init
<1>2. Types /\ Streaming /\ [Next]_vars => [Stream!Next]_(Stream!vars)
  BY StreamStep
<1> QED
  BY <1>1, <1>2, InitTypes, InitStreaming, NextTypes, NextStreaming, PTL
     DEF Spec, ImplementsByteStream, Stream!Spec
=============================================================================
