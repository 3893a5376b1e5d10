----------------------------- MODULE UartDriver -----------------------------
(***************************************************************************)
(* The interrupt-driven transmit path of the UART: uart_write and the      *)
(* transmit ISR of sdk/bsp/drivers/uart/uart.c (UART_FAST_DRIVER), the     *)
(* interrupt enables of plic.c and the PLIC, and the transmit half of the  *)
(* UART (avalon_uart.sv, uart_fifo.sv, uart_tx.sv) after uart_init.        *)
(*                                                                         *)
(* A step of uart_write is one access to a variable it shares with the     *)
(* ISR, or to a device.  The ISR runs between two such steps, is not       *)
(* interrupted itself (trap entry clears MIE), and the transmitter goes on *)
(* at any moment.  The registers between the FIFO and the interrupt line   *)
(* (ip_txwm, mint, external_interrupt: three cycles) are taken as settled: *)
(* entry and exit of a trap alone take more than sixty.                    *)
(***************************************************************************)
EXTENDS Naturals, Sequences

CONSTANTS
  UART_BUFFER_SIZE,
  FIFO_DEPTH,  \* of the transmit FIFO
  TXCNT,       \* transmit watermark
  Programs,    \* sequences of calls [nbytes |-> n, late |-> b]; a late call comes
               \* when everything written before has been sent
  ByteFirst    \* how _tx_buffer[_tx_buffer_end++] = *buf is compiled: the byte is
               \* stored before the index (C leaves the order open)

Call == [nbytes : Nat, late : BOOLEAN]
ASSUME SizesAssumption ==
  /\ UART_BUFFER_SIZE \in Nat \ {0} /\ FIFO_DEPTH \in Nat \ {0}
  /\ TXCNT \in 1 .. FIFO_DEPTH
ASSUME ProgramsAssumption == Programs \subseteq Seq(Call) /\ ByteFirst \in BOOLEAN

VARIABLES
  txBuffer,             \* _tx_buffer
  start, end,           \* _tx_buffer_start, _tx_buffer_end
  startWrap, endWrap,   \* their wrap bytes, all zeros (FALSE) or ones (TRUE)
  calls,                \* calls the program has still to make
  at,                   \* where uart_write is
  count, waiting, equal,\* its count; it waits for space; a result it holds
  written,              \* bytes uart_write has put into the buffer
  isr,                  \* where the ISR is
  mintEnable,           \* plic.c, shadow of ...
  mintEnableReg,        \* ... the PLIC's enable bit of the transmit interrupt
  txfifo,               \* the UART's transmit FIFO
  buffer,               \* uart_tx: the byte being sent, 0 when it is idle
  line                  \* bytes that have left the serial port

writeVars == <<calls, at, count, waiting, equal, written>>
endVars   == <<end, endWrap>>
startVars == <<start, startWrap>>
plicVars  == <<mintEnable, mintEnableReg>>
uartVars  == <<txfifo, buffer, line>>
vars == <<txBuffer, startVars, endVars, writeVars, isr, plicVars, uartVars>>

Slots == 0 .. UART_BUFFER_SIZE - 1

-----------------------------------------------------------------------------
\* uart_write

\* uart_write is at the label and no ISR runs; what it does not touch.
At(label) == at = label /\ isr = "off" /\ UNCHANGED <<startVars, isr, uartVars>>
Goto(label) == at' = label

\* The transmission of all that was written is over.
Drained == at = "idle" /\ isr = "off" /\ ~mintEnableReg /\ txfifo = << >> /\ buffer = 0

Begin ==
  /\ At("idle") /\ calls # << >>
  /\ Head(calls).late => Drained
  /\ calls' = Tail(calls)
  /\ count' = Head(calls).nbytes
  /\ Goto("loop")
  /\ UNCHANGED <<txBuffer, endVars, waiting, equal, written, plicVars>>

Loop ==
  /\ At("loop")
  /\ Goto(IF count > 0 THEN "indices" ELSE "enable")
  /\ UNCHANGED <<txBuffer, endVars, calls, count, waiting, equal, written, plicVars>>

\* _tx_buffer_full reads the indices, then the wrap bytes.
ReadIndices ==
  /\ At("indices")
  /\ equal' = (end = start)
  /\ Goto("wraps")
  /\ UNCHANGED <<txBuffer, endVars, calls, count, waiting, written, plicVars>>

\* Mutant: does not enable the interrupt before it waits for space.
ReadWraps_NoEnable ==
  /\ At("wraps")
  /\ LET full == equal /\ startWrap # endWrap
     IN /\ Goto(IF full THEN "indices" ELSE "push")
        /\ waiting' = full
  /\ UNCHANGED <<txBuffer, endVars, calls, count, equal, written, plicVars>>

ReadWraps ==
  /\ At("wraps")
  /\ LET full == equal /\ startWrap # endWrap
     IN /\ Goto(IF ~full THEN "push" ELSE IF waiting THEN "indices" ELSE "enable")
        /\ waiting' = full
  /\ UNCHANGED <<txBuffer, endVars, calls, count, equal, written, plicVars>>

\* The byte and the index of the push, in the order of the compiled code.
StoreByte ==
  /\ At(IF ByteFirst THEN "push" ELSE "pushed")
  /\ txBuffer' = [txBuffer EXCEPT ![IF ByteFirst THEN end ELSE end - 1] =
                                    IF ByteFirst THEN written + 1 ELSE written]
  /\ Goto(IF ByteFirst THEN "pushed" ELSE "wrap")
  /\ UNCHANGED <<endVars, calls, count, waiting, equal, written, plicVars>>

AdvanceEnd ==
  /\ At(IF ByteFirst THEN "pushed" ELSE "push")
  /\ end' = end + 1
  /\ written' = written + 1
  /\ Goto(IF ByteFirst THEN "wrap" ELSE "pushed")
  /\ UNCHANGED <<txBuffer, endWrap, calls, count, waiting, equal, plicVars>>

\* Mutant: the end is wrapped one late.
WrapEnd_Late ==
  /\ At("wrap")
  /\ end' = IF end > UART_BUFFER_SIZE THEN 0 ELSE end
  /\ Goto(IF end > UART_BUFFER_SIZE THEN "wrapbyte" ELSE "next")
  /\ UNCHANGED <<txBuffer, endWrap, calls, count, waiting, equal, written, plicVars>>

WrapEnd ==
  /\ At("wrap")
  /\ end' = IF end = UART_BUFFER_SIZE THEN 0 ELSE end
  /\ Goto(IF end = UART_BUFFER_SIZE THEN "wrapbyte" ELSE "next")
  /\ UNCHANGED <<txBuffer, endWrap, calls, count, waiting, equal, written, plicVars>>

ToggleEndWrap ==
  /\ At("wrapbyte")
  /\ endWrap' = ~endWrap
  /\ Goto("next")
  /\ UNCHANGED <<txBuffer, end, calls, count, waiting, equal, written, plicVars>>

NextByte ==
  /\ At("next")
  /\ count' = count - 1
  /\ Goto("loop")
  /\ UNCHANGED <<txBuffer, endVars, calls, waiting, equal, written, plicVars>>

\* external_isr_enable: the shadow, then the register of the PLIC.  uart_write
\* does it before it waits for space, and at its end.
EnableShadow ==
  /\ At("enable")
  /\ mintEnable' = TRUE
  /\ Goto("enabled")
  /\ UNCHANGED <<txBuffer, endVars, calls, count, waiting, equal, written, mintEnableReg>>

\* Mutant: the write is lost.
EnableWrite_Skipped ==
  /\ At("enabled")
  /\ Goto(IF waiting THEN "indices" ELSE "idle")
  /\ UNCHANGED <<txBuffer, endVars, calls, count, waiting, equal, written, plicVars>>

EnableWrite ==
  /\ At("enabled")
  /\ mintEnableReg' = TRUE
  /\ Goto(IF waiting THEN "indices" ELSE "idle")
  /\ UNCHANGED <<txBuffer, endVars, calls, count, waiting, equal, written, mintEnable>>

Write ==
  \/ Begin \/ Loop \/ ReadIndices \/ ReadWraps \/ StoreByte \/ AdvanceEnd
  \/ WrapEnd \/ ToggleEndWrap \/ NextByte \/ EnableShadow \/ EnableWrite

-----------------------------------------------------------------------------
\* _uart_txwm_isr

\* The ISR is at the label; what it does not touch.
InIsr(label) == isr = label /\ UNCHANGED <<txBuffer, endVars, writeVars, buffer, line>>

\* avalon_uart.sv, txwm, through the PLIC: the FIFO is below the watermark.
ExternalInterrupt == mintEnableReg /\ Len(txfifo) < TXCNT

TakeInterrupt ==
  /\ InIsr("off") /\ ExternalInterrupt
  /\ isr' = "check"
  /\ UNCHANGED <<startVars, plicVars, txfifo>>

BufferEmpty == end = start /\ startWrap = endWrap

CheckBuffer ==
  /\ InIsr("check")
  /\ isr' = IF BufferEmpty THEN "disable" ELSE "status"
  /\ UNCHANGED <<startVars, plicVars, txfifo>>

FifoFull == Len(txfifo) = FIFO_DEPTH

\* Mutant: disables the interrupt when the FIFO is full.
ReadStatus_Disable ==
  /\ InIsr("status")
  /\ isr' = IF FifoFull THEN "disable" ELSE "send"
  /\ UNCHANGED <<startVars, plicVars, txfifo>>

\* Mutant: does not look at the status of the FIFO.
ReadStatus_Ignored ==
  /\ InIsr("status")
  /\ isr' = "send"
  /\ UNCHANGED <<startVars, plicVars, txfifo>>

\* A full FIFO ends the ISR; the next interrupt continues.
ReadStatus ==
  /\ InIsr("status")
  /\ isr' = IF FifoFull THEN "off" ELSE "send"
  /\ UNCHANGED <<startVars, plicVars, txfifo>>

\* A byte goes into the FIFO (a full one drops it) and the start is wrapped.
SendByte ==
  /\ InIsr("send")
  /\ txfifo' = IF FifoFull THEN txfifo ELSE Append(txfifo, txBuffer[start])
  /\ start' = (start + 1) % UART_BUFFER_SIZE
  /\ startWrap' = IF start + 1 = UART_BUFFER_SIZE THEN ~startWrap ELSE startWrap
  /\ isr' = "check"
  /\ UNCHANGED plicVars

DisableInterrupt ==
  /\ InIsr("disable")
  /\ mintEnable' = FALSE /\ mintEnableReg' = FALSE
  /\ isr' = "off"
  /\ UNCHANGED <<startVars, txfifo>>

Isr == TakeInterrupt \/ CheckBuffer \/ ReadStatus \/ SendByte \/ DisableInterrupt

-----------------------------------------------------------------------------
\* uart_tx: takes a byte when it is idle, and shifts it out.

SoftwareRests == UNCHANGED <<txBuffer, startVars, endVars, writeVars, isr, plicVars>>

Pop ==
  /\ buffer = 0 /\ txfifo # << >>
  /\ buffer' = Head(txfifo) /\ txfifo' = Tail(txfifo)
  /\ UNCHANGED line /\ SoftwareRests

Shift ==
  /\ buffer # 0
  /\ line' = Append(line, buffer) /\ buffer' = 0
  /\ UNCHANGED txfifo /\ SoftwareRests

Transmit == Pop \/ Shift

-----------------------------------------------------------------------------
Init ==
  /\ txBuffer = [s \in Slots |-> 0]
  /\ start = 0 /\ end = 0 /\ startWrap = FALSE /\ endWrap = FALSE
  /\ calls \in Programs /\ at = "idle" /\ count = 0 /\ waiting = FALSE /\ equal = FALSE
  /\ written = 0
  /\ isr = "off" /\ mintEnable = FALSE /\ mintEnableReg = FALSE
  /\ txfifo = << >> /\ buffer = 0 /\ line = << >>

Next == Write \/ Isr \/ Transmit

Spec == Init /\ [][Next]_vars

\* The processor executes, an interrupt that stays asserted is taken, and the
\* transmitter shifts.
Fairness == WF_vars(Write) /\ WF_vars(Isr) /\ WF_vars(Transmit)
FairSpec == Spec /\ Fairness

-----------------------------------------------------------------------------
\* Properties

Bytes == 0 .. written + 1

TypeOK ==
  /\ txBuffer \in [Slots -> Bytes]
  /\ start \in Slots /\ end \in 0 .. UART_BUFFER_SIZE
  /\ startWrap \in BOOLEAN /\ endWrap \in BOOLEAN
  /\ calls \in Seq(Call) /\ count \in Nat /\ written \in Nat
  /\ at \in {"idle", "loop", "indices", "wraps", "push", "pushed", "wrap", "wrapbyte",
             "next", "enable", "enabled"}
  /\ waiting \in BOOLEAN /\ equal \in BOOLEAN
  /\ isr \in {"off", "check", "status", "send", "disable"}
  /\ mintEnable \in BOOLEAN /\ mintEnableReg \in BOOLEAN
  /\ txfifo \in Seq(Bytes) /\ Len(txfifo) <= FIFO_DEPTH
  /\ buffer \in Bytes /\ line \in Seq(Bytes)

\* The serial line carries what uart_write was given, in order, each byte once,
\* however the calls, the ISR and the transmitter interleave: no byte is lost
\* in the ring buffer or the FIFO, sent twice, or sent before it was written.
Stream == INSTANCE ByteStream
ImplementsByteStream == Stream!Spec

\* No wake-up is lost: when uart_write has returned and the ISR is not running,
\* bytes in the ring buffer imply that its interrupt is enabled, although both
\* change the enables (and the shadow of them) and the ISR turns them off.
BufferedIsEnabled == at = "idle" /\ isr = "off" /\ ~BufferEmpty => mintEnableReg

\* Every call of uart_write returns, also one that has to wait for space in the
\* buffer, and all bytes of all calls reach the serial line.
EverythingSent == <>[](calls = << >> /\ at = "idle" /\ Len(line) = written)
=============================================================================
