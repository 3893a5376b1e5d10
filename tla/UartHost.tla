------------------------------ MODULE UartHost ------------------------------
(***************************************************************************)
(* Program download: the UART host (avalon_uart_host.sv with its UART      *)
(* receiver, transmitter and two FIFOs), the reset it holds the core in    *)
(* (veriRISCV_soc.sv), the memory behind the bus, and a PC that follows    *)
(* the protocol of UartDownload.py: a start key, commands, an end key, and *)
(* "reset the chip before a new download".                                 *)
(*                                                                         *)
(* A step Edge is one rising clock edge outside reset; Reset is a whole    *)
(* reset.  A message is 2 W bytes, an address and a word, low byte first   *)
(* (W = 4 in the hardware).  The bits of a byte on the line are time only: *)
(* the receiver delivers one byte every RxTime cycles at most, the         *)
(* transmitter takes TxTime cycles for one.                                *)
(***************************************************************************)
EXTENDS Integers, Sequences

CONSTANTS
  W,           \* bytes of an address and of a word
  Commands,    \* [read, address, word]: what the PC can ask for
  Cleared,     \* word at every address after power-up
  NoByte,      \* nothing begins on the line to the PC
  RxTime,      \* cycles of a byte from the PC
  TxTime,      \* cycles the transmitter is not ready for, per byte
  MaxWait,     \* bound: wait states of a bus access
  MaxMessages, \* bound: messages the PC sends
  MaxResets    \* bound: resets

Depth == 2     \* of cmd_fifo and read_fifo

Repeat(n, b) == [i \in 1 .. n |-> b]

\* Start and end keys, as the PC sends them.
WRITE_START_KEY == Repeat(W, 17) \o Repeat(W, 80)
READ_START_KEY  == Repeat(W, 34) \o Repeat(W, 80)
END_KEY         == Repeat(W, 238) \o Repeat(W, 80)
Keys == {WRITE_START_KEY, READ_START_KEY, END_KEY}

Message(c) == c.address \o c.word

ASSUME TimingAssumption ==
  /\ W \in Nat \ {0} /\ RxTime \in Nat /\ TxTime \in Nat /\ MaxWait \in Nat
  /\ RxTime >= 4                \* a byte is longer than the host's pipeline
  /\ MaxWait + 2 <= RxTime      \* an access is done before the next message
  /\ TxTime + 2 <= 2 * RxTime   \* an answer is out before the next one
ASSUME BoundsAssumption == MaxMessages \in Nat /\ MaxResets \in Nat

Byte == 0 .. 255
Word == [1 .. W -> Byte]   \* the low byte first
ASSUME CommandsAssumption ==
  /\ Commands \subseteq [read : BOOLEAN, address : Word, word : Word]
  /\ \A c \in Commands : Message(c) \notin Keys
  /\ Cleared \in Word

VARIABLES
  toSend,        \* PC: bytes of the message that are not sent yet
  rxWait,        \*   cycles until the byte on the line is received
  session,       \*   "none", "write" or "read", as the PC sees it
  sent,          \*   messages so far
  message,       \*   the last one begun
  rxValid, rxData,                      \* uart_rx
  cmd, dataCount, cmdCmpl, cmdType,     \* command assembly
  writing, reading,                     \* uart_host_writing, _reading
  cmdFifoPush, cmdFifo,
  waits,         \* wait states of the access on the bus so far
  readDataValid, busData,               \* avn_readdata
  readFifo, sendState, readData,
  txBusy,        \* uart_tx: cycles until tx_ready
  txd,           \* byte whose transmission began in the last step
  coreRst,       \* reset of the core
  memory,
  image,         \* history: the memory the PC's messages ask for, from power-up on
  cut,           \* history: addresses whose last write a reset has cut off
  arriving,      \* history: the last message sent to its end, if a command
  resets         \* history: resets so far

pcVars   == <<toSend, rxWait, session, sent, message>>
cmdVars  == <<rxValid, rxData, cmd, dataCount, cmdCmpl, cmdType, writing, reading, cmdFifoPush, cmdFifo>>
busVars  == <<waits, readDataValid, busData, memory>>
sendVars == <<readFifo, sendState, readData, txBusy, txd>>
vars == <<pcVars, cmdVars, busVars, sendVars, coreRst, image, cut, arriving, resets>>

Address == {c.address : c \in Commands}
CommandOf(t, m) == [read |-> t, address |-> SubSeq(m, 1, W), word |-> SubSeq(m, W + 1, 2 * W)]

-----------------------------------------------------------------------------
\* The PC

\* What the PC may send in its session.
Sessions == [none |-> {WRITE_START_KEY, READ_START_KEY},
             write |-> {Message(c) : c \in {x \in Commands : ~x.read}} \cup {END_KEY},
             read  |-> {Message(c) : c \in {x \in Commands : x.read}} \cup {END_KEY}]

SessionAfter(m) == CASE m = WRITE_START_KEY -> "write"
                     [] m = READ_START_KEY  -> "read"
                     [] m = END_KEY         -> "none"
                     [] OTHER               -> session

\* The next message begins, once the line is free.
BeginMessage ==
  /\ toSend = << >> /\ rxWait = 0
  /\ sent < MaxMessages
  /\ \E m \in Sessions[session] :
       /\ message' = m
       /\ toSend' = m
       /\ session' = SessionAfter(m)
       /\ IF session = "write" /\ m # END_KEY
          THEN /\ image' = [image EXCEPT ![SubSeq(m, 1, W)] = SubSeq(m, W + 1, 2 * W)]
               /\ cut' = cut \ {SubSeq(m, 1, W)}
          ELSE UNCHANGED <<image, cut>>
  /\ sent' = sent + 1
  /\ rxWait' = RxTime
  /\ UNCHANGED arriving

\* A byte is on the line, its stop bit ends, or nothing is sent.
Line ==
  /\ \/ rxWait # 1 /\ rxWait' = (IF rxWait = 0 THEN 0 ELSE rxWait - 1)
        /\ UNCHANGED <<toSend, arriving>>
     \/ /\ rxWait = 1
        /\ toSend' = Tail(toSend)
        /\ rxWait' = IF Len(toSend) > 1 THEN RxTime ELSE 0
        /\ arriving' = IF Len(toSend) > 1 THEN arriving
                       ELSE IF message \in Keys THEN << >>
                       ELSE <<CommandOf(session = "read", message)>>
  /\ UNCHANGED <<session, sent, message, image, cut>>

Received == rxWait = 1   \* cycle_cnt_cmpl in the STOP state of uart_rx

uart_rx ==
  /\ rxValid' = Received
  /\ rxData' = IF Received THEN Head(toSend) ELSE rxData

-----------------------------------------------------------------------------
\* From bytes to commands

data_count_fire == dataCount = 2 * W - 1
write_start_cmd == cmd = WRITE_START_KEY
read_start_cmd  == cmd = READ_START_KEY
end_cmd         == cmd = END_KEY

\* Mutant: the byte count is not cleared at the end of a message.
AssembleCommand_NoClear ==
  /\ dataCount' = (IF rxValid THEN dataCount + 1 ELSE dataCount)
  /\ cmd' = IF rxValid THEN Append(Tail(cmd), rxData) ELSE cmd
  /\ cmdCmpl' = (rxValid /\ data_count_fire)

\* The byte that arrived is shifted in from the high end.
AssembleCommand ==
  /\ dataCount' = IF ~rxValid THEN dataCount ELSE IF data_count_fire THEN 0 ELSE dataCount + 1
  /\ cmd' = IF rxValid THEN Append(Tail(cmd), rxData) ELSE cmd
  /\ cmdCmpl' = (rxValid /\ data_count_fire)

TrackSession ==
  /\ cmdType' = IF cmdCmpl /\ write_start_cmd THEN FALSE
                ELSE IF cmdCmpl /\ read_start_cmd THEN TRUE ELSE cmdType
  /\ writing' = IF cmdCmpl /\ (write_start_cmd \/ end_cmd) THEN write_start_cmd ELSE writing
  /\ reading' = IF cmdCmpl /\ (read_start_cmd \/ end_cmd) THEN read_start_cmd ELSE reading

PushCommand ==
  cmdFifoPush' = (cmdCmpl /\ Len(cmdFifo) < Depth /\ ~end_cmd /\ (writing \/ reading))

-----------------------------------------------------------------------------
\* The bus

avn_read  == cmdFifo # << >> /\ Head(cmdFifo).read
avn_write == cmdFifo # << >> /\ ~Head(cmdFifo).read

\* uart_fifo: the push is dropped when the FIFO is full, the pop when empty.
Fifo(q, push, din, pop) ==
  (IF pop /\ q # << >> THEN Tail(q) ELSE q)
    \o (IF push /\ Len(q) < Depth THEN <<din>> ELSE << >>)

\* An access waits, or it is performed and popped; reads answer a cycle later.
Access(pop) ==
  /\ pop => avn_read \/ avn_write
  /\ ~pop => waits < MaxWait \/ cmdFifo = << >>
  /\ waits' = IF pop \/ cmdFifo = << >> THEN 0 ELSE waits + 1
  /\ cmdFifo' = Fifo(cmdFifo, cmdFifoPush, CommandOf(cmdType, cmd), pop)
  /\ readDataValid' = (pop /\ avn_read)
  /\ busData' = IF pop /\ avn_read THEN memory[Head(cmdFifo).address] ELSE busData
  /\ memory' = IF pop /\ avn_write
               THEN [memory EXCEPT ![Head(cmdFifo).address] = Head(cmdFifo).word]
               ELSE memory

-----------------------------------------------------------------------------
\* The answer

tx_ready == txBusy = 0

\* send_state: IDLE, START, then DATA0, DATA1, ... up to DATA.
IDLE == 0
START == 1
DATA == W + 1
read_fifo_pop == sendState = IDLE /\ tx_ready /\ readFifo # << >>
tx_valid == sendState = START \/ (sendState \in START + 1 .. DATA - 1 /\ tx_ready)
tx_data  == readData[sendState]

\* Mutant: the sender goes on while the transmitter is busy.
Sender_NoReady ==
  /\ readFifo' = Fifo(readFifo, readDataValid, busData, read_fifo_pop)
  /\ readData' = IF read_fifo_pop THEN Head(readFifo) ELSE readData
  /\ sendState' =
       IF sendState = IDLE THEN (IF read_fifo_pop THEN START ELSE IDLE)
       ELSE IF sendState = DATA THEN IDLE ELSE sendState + 1

\* Mutant: the last state does not lead back to the first.
Sender_Stays ==
  /\ readFifo' = Fifo(readFifo, readDataValid, busData, read_fifo_pop)
  /\ readData' = IF read_fifo_pop THEN Head(readFifo) ELSE readData
  /\ sendState' =
       IF sendState = IDLE THEN (IF read_fifo_pop THEN START ELSE IDLE)
       ELSE IF sendState = DATA \/ (sendState > START /\ ~tx_ready) THEN sendState
       ELSE sendState + 1

Sender ==
  /\ readFifo' = Fifo(readFifo, readDataValid, busData, read_fifo_pop)
  /\ readData' = IF read_fifo_pop THEN Head(readFifo) ELSE readData
  /\ sendState' =
       IF sendState = IDLE THEN (IF read_fifo_pop THEN START ELSE IDLE)
       ELSE IF sendState > START /\ ~tx_ready THEN sendState
       ELSE IF sendState = DATA THEN IDLE ELSE sendState + 1

\* A byte is taken only while the transmitter is ready.
uart_tx ==
  LET req == tx_valid /\ tx_ready IN
  /\ txBusy' = IF req THEN TxTime ELSE IF txBusy > 0 THEN txBusy - 1 ELSE 0
  /\ txd' = IF req THEN tx_data ELSE NoByte

-----------------------------------------------------------------------------
\* Resets and the clock

\* Mutant: the core is held only while the memory is written.
Resets_WriteOnly(core_en) == coreRst' = (writing \/ ~core_en)

\* Mutant: once held, the core stays in reset.
Resets_Sticky(core_en) == coreRst' = (coreRst \/ reading \/ writing \/ ~core_en)

\* core_en is a switch of the board.
Resets(core_en) == coreRst' = (reading \/ writing \/ ~core_en)

Clock(core_en) ==
  /\ BeginMessage \/ Line
  /\ uart_rx
  /\ AssembleCommand /\ TrackSession /\ PushCommand
  /\ \E pop \in BOOLEAN : Access(pop)
  /\ Sender /\ uart_tx
  /\ Resets(core_en)
  /\ UNCHANGED resets

Edge == \E core_en \in BOOLEAN : Clock(core_en)

Zeros == Repeat(2 * W, 0)

\* After a reset: the registers with a reset value, and those that settle.
Init ==
  /\ toSend = << >> /\ rxWait = 0 /\ session = "none"
  /\ rxValid = FALSE /\ cmdCmpl = FALSE /\ dataCount = 0
  /\ writing = FALSE /\ reading = FALSE
  /\ cmdFifoPush = FALSE /\ cmdFifo = << >>
  /\ waits = 0 /\ readDataValid = FALSE
  /\ readFifo = << >> /\ sendState = IDLE /\ txBusy = 0 /\ txd = NoByte
  /\ coreRst = TRUE
  /\ sent = 0 /\ resets = 0
  /\ rxData = 0
  /\ cmd \in {Zeros, WRITE_START_KEY}   \* cmd and cmd_type have no reset
  /\ cmdType \in BOOLEAN
  /\ busData = Cleared /\ readData = Cleared
  /\ memory = [a \in Address |-> Cleared]
  /\ image = memory /\ cut = {}
  /\ message = END_KEY /\ arriving = << >>

\* The commands sent to their last byte: in the FIFO or on their way to it.
InPipe == (rxValid /\ data_count_fire) \/ cmdCmpl \/ cmdFifoPush
Todo == cmdFifo \o (IF InPipe THEN arriving ELSE << >>)

\* The addresses of the writes the PC has begun and the host has not performed.
UnderWay ==
  {Todo[i].address : i \in {j \in 1 .. Len(Todo) : ~Todo[j].read}}
    \cup (IF toSend # << >> /\ session = "write" /\ message \notin Keys
          THEN {SubSeq(message, 1, W)} ELSE {})

\* The PC gives up its download and the chip is reset: the writes under way are lost.
Reset ==
  /\ resets < MaxResets
  /\ resets' = resets + 1
  /\ toSend' = << >> /\ rxWait' = 0 /\ session' = "none"
  /\ rxValid' = FALSE /\ cmdCmpl' = FALSE /\ dataCount' = 0
  /\ writing' = FALSE /\ reading' = FALSE
  /\ cmdFifoPush' = FALSE /\ cmdFifo' = << >>
  /\ waits' = 0 /\ readDataValid' = FALSE
  /\ readFifo' = << >> /\ sendState' = IDLE /\ txBusy' = 0 /\ txd' = NoByte
  /\ coreRst' = TRUE
  /\ cut' = cut \cup UnderWay
  /\ UNCHANGED <<image, sent, message, arriving, rxData, cmd, cmdType, busData, readData, memory>>

Next == Edge \/ Reset

Spec == Init /\ [][Next]_vars

\* The clock runs, with the switch on again and again; the bus ends its wait states
\* (MaxWait); the PC owes nothing.
FairSpec == Spec /\ WF_vars(Clock(TRUE))

-----------------------------------------------------------------------------
\* Correctness

TypeOK ==
  /\ toSend \in Seq(Byte) /\ Len(toSend) <= 2 * W /\ rxWait \in 0 .. RxTime
  /\ session \in {"none", "write", "read"} /\ sent \in 0 .. MaxMessages
  /\ rxValid \in BOOLEAN /\ rxData \in Byte
  /\ cmd \in [1 .. 2 * W -> Byte] /\ dataCount \in 0 .. 2 * W - 1
  /\ {cmdCmpl, cmdType, writing, reading, cmdFifoPush, readDataValid, coreRst} \subseteq BOOLEAN
  /\ cmdFifo \in Seq(Commands) /\ Len(cmdFifo) <= Depth
  /\ waits \in 0 .. MaxWait
  /\ readFifo \in Seq(Word) /\ Len(readFifo) <= Depth
  /\ busData \in Word /\ readData \in Word
  /\ sendState \in IDLE .. DATA
  /\ txBusy \in 0 .. TxTime /\ txd \in Byte \cup {NoByte}
  /\ memory \in [Address -> Word] /\ image \in [Address -> Word]
  /\ cut \subseteq Address
  /\ arriving \in Seq(Commands) /\ Len(arriving) <= 1 /\ resets \in 0 .. MaxResets

\* While the core runs, the host has no access under way, and every word the PC has
\* ever asked for is in the memory, unless a new download has begun (the reset logic of
\* veriRISCV_soc.sv and the session flags).  Only the word whose write a reset cut off may
\* differ, until the PC writes it again.  It does not say that the image is whole:
\* after a reset in the middle of a download nothing holds the core, which then runs on
\* the words that were written.
LoadedWhenRunning ==
  ~coreRst =>
    /\ cmdFifo = << >> /\ ~cmdFifoPush
    /\ session = "write" \/ \A a \in Address \ cut : memory[a] = image[a]

\* "Ideally the FIFO should not be full when we push" (avalon_uart_host.sv:172):
\* whatever the wait states, a command and a word that was read find space,
\* since the accesses and the answers keep up with the line.
PushesFit ==
  /\ cmdFifoPush => Len(cmdFifo) < Depth
  /\ readDataValid => Len(readFifo) < Depth

\* The bytes the host has read and not sent: of the word being sent, of the
\* words in the FIFO, and of the word on the bus.
Unsent == IF sendState = IDLE THEN << >> ELSE SubSeq(readData, sendState, W)
Bytes(q) == (IF Len(q) > 0 THEN q[1] ELSE << >>) \o (IF Len(q) > 1 THEN q[2] ELSE << >>)
Owed == Unsent \o Bytes(readFifo) \o (IF readDataValid THEN busData ELSE << >>)

Loader == INSTANCE MemoryLoader WITH todo <- Todo, owed <- Owed

\* The host performs the commands in order, each once, and answers the reads
\* in order: no command or byte is lost, repeated or changed between the
\* line, the two FIFOs, the bus and the sender.
ImplementsLoader == Loader!Spec

\* After its end key the core leaves reset, if the switch allows it and unless the PC
\* begins again: no session flag is left set.
EndReleasesCore == (session = "none" /\ toSend = << >>) ~> (~coreRst \/ session # "none")
=============================================================================
