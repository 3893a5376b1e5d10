--------------------------- MODULE UartHostProofs ---------------------------
(***************************************************************************)
(* Theorems about the UART host: its types, what the core may rely on when *)
(* it leaves reset, that nothing is pushed into a full FIFO, and that the  *)
(* host performs the PC's commands, for words of any length, any commands  *)
(* and any timing within the assumptions of UartHost.                      *)
(***************************************************************************)
EXTENDS UartHost, SequenceTheorems, TLAPS

-----------------------------------------------------------------------------
\* The inductive invariant

\* Cycles of a whole message, and of a whole answer in the sender.
MessageTime == 2 * W * RxTime + 1
AnswerTime  == W * (TxTime + 1) + 2

\* The least number of cycles until a message is complete.
LineTime == IF toSend = << >> THEN MessageTime
            ELSE (Len(toSend) - 1) * RxTime + rxWait

\* The last byte of a message has arrived.
Last == rxValid /\ data_count_fire
Coming == toSend # << >> \/ Last

\* The bytes on the line, in the receiver and in cmd are those of the message.
Assembled ==
  /\ message \in [1 .. 2 * W -> Byte]
  /\ toSend = << >> <=> rxWait = 0
  /\ \A i \in 1 .. Len(toSend) : toSend[i] = message[2 * W - Len(toSend) + i]
  /\ IF toSend = << >> THEN dataCount = IF rxValid THEN 2 * W - 1 ELSE 0
     ELSE dataCount + (IF rxValid THEN 1 ELSE 0) = 2 * W - Len(toSend)
  /\ \A i \in 1 .. dataCount : cmd[2 * W - dataCount + i] = message[i]
  /\ rxValid => rxData = message[dataCount + 1]

\* The session the flags show, and will show when the message in cmd is through.
After(s, m) == CASE m = WRITE_START_KEY -> "write"
                 [] m = READ_START_KEY  -> "read"
                 [] m = END_KEY         -> "none"
                 [] OTHER               -> s
Shown   == IF writing THEN "write" ELSE IF reading THEN "read" ELSE "none"
Settled == IF cmdCmpl THEN After(Shown, cmd) ELSE Shown

SessionShown ==
  /\ ~(writing /\ reading) /\ (writing => ~cmdType) /\ (reading => cmdType)
  /\ IF Coming THEN message \in Sessions[Settled] /\ session = After(Settled, message)
     ELSE session = Settled

\* A command is nowhere but at one place between the receiver and the bus, and
\* the next message is not far while it is there.
Piped ==
  /\ Last => arriving = (IF message \in Keys THEN << >>
                         ELSE <<CommandOf(session = "read", message)>>)
  /\ cmdCmpl =>
       /\ LineTime >= MessageTime - 1 /\ ~rxValid /\ ~cmdFifoPush
       /\ cmd \in Sessions[Shown]
       /\ arriving = (IF cmd \in Keys THEN << >> ELSE <<CommandOf(cmdType, cmd)>>)
  /\ cmdFifoPush =>
       /\ LineTime >= MessageTime - 2 /\ ~rxValid
       /\ CommandOf(cmdType, cmd) \in Commands
       /\ arriving = <<CommandOf(cmdType, cmd)>>
  /\ Len(cmdFifo) <= 1
  /\ cmdFifo = << >> => waits = 0
  /\ cmdFifo # << >> =>
       /\ LineTime >= MessageTime - 3 - waits
       /\ ~Last /\ ~cmdCmpl /\ ~cmdFifoPush

\* The core is held as long as a command is on its way.
Held ==
  /\ cmdFifoPush \/ cmdFifo # << >> => coreRst /\ Shown # "none"
  /\ cmdCmpl /\ cmd \notin Keys => coreRst
  /\ Coming /\ Len(toSend) < 2 * W /\ message \notin Keys => coreRst

\* The memory once the commands on their way are performed and the message on the
\* line is complete: the one the PC wants, except where a reset has cut off a write.
Performed == IF Todo # << >> /\ ~Head(Todo).read
             THEN [memory EXCEPT ![Head(Todo).address] = Head(Todo).word]
             ELSE memory
Completed ==
  IF toSend # << >> /\ session = "write" /\ message \notin Keys
  THEN [Performed EXCEPT ![SubSeq(message, 1, W)] = SubSeq(message, W + 1, 2 * W)]
  ELSE Performed
ImageIs == \A a \in Address \ cut : image[a] = Completed[a]

\* Cycles the sender needs for the answers that are read or asked for.
Sending == IF sendState = IDLE THEN 0
           ELSE txBusy + 1 + (W + 1 - sendState) * (TxTime + 1)
Once(b) == IF b THEN AnswerTime ELSE 0
Asked == Todo # << >> /\ Head(Todo).read
Work == Sending + Once(readFifo # << >>) + Once(readDataValid) + Once(Asked)

\* The sender is done before the next answer but one.
KeepsUp ==
  /\ sendState <= START => txBusy = 0
  /\ Len(readFifo) <= 1
  /\ readDataValid => /\ LineTime >= MessageTime - 4 - MaxWait
                      /\ readFifo = << >> /\ cmdFifo = << >> /\ ~InPipe
  /\ Work < 2 * AnswerTime
  /\ Work = 0 \/ Work + MessageTime <= LineTime + AnswerTime + MaxWait + 5

HostInv ==
  TypeOK /\ Assembled /\ SessionShown /\ Piped /\ Held /\ ImageIs /\ KeepsUp

-----------------------------------------------------------------------------
\* The constants

LEMMA Constants ==
  /\ W \in Nat \ {0} /\ RxTime \in Nat /\ TxTime \in Nat /\ MaxWait \in Nat
  /\ RxTime >= 4 /\ MaxWait + 2 <= RxTime
  /\ MaxMessages \in Nat /\ MaxResets \in Nat
  /\ \A c \in Commands : /\ c \in [read : BOOLEAN, address : Word, word : Word]
                          /\ Message(c) \notin Keys
  /\ Cleared \in Word
BY TimingAssumption, BoundsAssumption, CommandsAssumption

\* A message takes at least two bytes, and no answer takes longer than it.
LEMMA Times ==
  /\ MessageTime \in Nat /\ AnswerTime \in Nat
  /\ MessageTime >= 2 * RxTime + 1
  /\ AnswerTime >= 3 /\ AnswerTime <= MessageTime
<1> USE DEF MessageTime, AnswerTime
<1>1. W \in Nat /\ W >= 1 /\ RxTime \in Nat /\ TxTime \in Nat /\ TxTime + 2 <= 2 * RxTime
  BY TimingAssumption
<1>2. W * RxTime \in Nat /\ W * TxTime \in Nat
  BY <1>1
<1>3. W * RxTime >= RxTime
  BY <1>1
<1>4. 2 * W * RxTime = 2 * (W * RxTime) /\ W * (TxTime + 1) = W * TxTime + W
  BY <1>1
<1>5. W * (TxTime + 2) <= W * (2 * RxTime)
  BY <1>1
<1>6. W * (TxTime + 2) = W * TxTime + 2 * W /\ W * (2 * RxTime) = 2 * (W * RxTime)
  BY <1>1
<1>7. W * TxTime >= 0
  BY <1>1
<1> QED  BY <1>1, <1>2, <1>3, <1>4, <1>5, <1>6, <1>7

\* A byte fewer on the line.
LEMMA ByteTime ==
  ASSUME NEW n \in Nat
  PROVE  /\ (n - 1) * RxTime \in Int
         /\ (n + 1 - 1) * RxTime = (n - 1) * RxTime + RxTime
         /\ n >= 2 => (n - 1) * RxTime >= RxTime
         /\ n < 2 * W => (n - 1) * RxTime + RxTime <= MessageTime - 1 - RxTime
<1>1. RxTime \in Nat /\ W \in Nat
  BY Constants
<1>2. n < 2 * W => n * RxTime <= (2 * W - 1) * RxTime
  BY <1>1
<1>3. (2 * W - 1) * RxTime = 2 * W * RxTime - RxTime /\ (n - 1) * RxTime = n * RxTime - RxTime
  BY <1>1
<1>4. n * RxTime \in Nat /\ 2 * W * RxTime \in Nat
  BY <1>1
<1>5. n >= 2 => (n - 1) * RxTime >= 1 * RxTime
  BY <1>1
<1> QED  BY <1>1, <1>2, <1>3, <1>4, <1>5 DEF MessageTime

-----------------------------------------------------------------------------
\* Messages

Bytes2W == [1 .. 2 * W -> Byte]

LEMMA FunctionIsSeq ==
  ASSUME NEW S, NEW n \in Nat, NEW f \in [1 .. n -> S]
  PROVE  f \in Seq(S) /\ Len(f) = n
<1>1. f \in Seq(S)
  BY SeqDef
<1> QED  BY <1>1, LenProperties

\* Two words make a message, and are found in it again.
LEMMA TwoWords ==
  ASSUME NEW u \in Word, NEW v \in Word
  PROVE  /\ u \o v \in Bytes2W
         /\ SubSeq(u \o v, 1, W) = u
         /\ SubSeq(u \o v, W + 1, 2 * W) = v
<1>1. W \in Nat \ {0}
  BY Constants
<1>2. /\ u \in Seq(Byte) /\ Len(u) = W /\ DOMAIN u = 1 .. W
      /\ v \in Seq(Byte) /\ Len(v) = W /\ DOMAIN v = 1 .. W
  BY <1>1, FunctionIsSeq DEF Word
<1>3. /\ u \o v \in Seq(Byte) /\ Len(u \o v) = 2 * W
      /\ \A i \in 1 .. 2 * W : (u \o v)[i] = IF i <= W THEN u[i] ELSE v[i - W]
  <2>1. /\ u \o v \in Seq(Byte) /\ Len(u \o v) = Len(u) + Len(v)
        /\ \A i \in 1 .. Len(u) + Len(v) :
             (u \o v)[i] = IF i <= Len(u) THEN u[i] ELSE v[i - Len(u)]
    <3>1. u \in Seq(Byte) /\ v \in Seq(Byte)
      BY <1>2
    <3> QED  BY <3>1, ConcatProperties, Zenon
  <2>2. W + W = 2 * W
    BY <1>1
  <2> QED  BY <2>1, <2>2, <1>2
<1>4. u \o v \in Bytes2W
  BY <1>1, <1>3, LenProperties DEF Bytes2W
<1>5. SubSeq(u \o v, 1, W) = SubSeq(u, 1, W)
  BY <1>1, <1>2, SubSeqOfConcat1
<1>6. SubSeq(u \o v, W + 1, 2 * W) = SubSeq(v, W + 1 - W, 2 * W - W)
  BY <1>1, <1>2, SubSeqOfConcat2
<1>7. W + 1 - W = 1 /\ 2 * W - W = W
  BY <1>1
<1>8. SubSeq(u, 1, W) = u /\ SubSeq(v, 1, W) = v
  BY <1>2, SubSeqFull
<1> QED  BY <1>4, <1>5, <1>6, <1>7, <1>8

LEMMA MessageOf ==
  ASSUME NEW c \in Commands
  PROVE  /\ Message(c) \in Bytes2W /\ Message(c) \notin Keys
         /\ SubSeq(Message(c), 1, W) = c.address
         /\ SubSeq(Message(c), W + 1, 2 * W) = c.word
         /\ CommandOf(c.read, Message(c)) = c
<1>1. c \in [read : BOOLEAN, address : Word, word : Word] /\ Message(c) \notin Keys
  BY Constants
<1>2. /\ Message(c) \in Bytes2W
      /\ SubSeq(Message(c), 1, W) = c.address
      /\ SubSeq(Message(c), W + 1, 2 * W) = c.word
  BY <1>1, TwoWords DEF Message
<1>3. CommandOf(c.read, Message(c)) = c
  BY <1>1, <1>2 DEF CommandOf
<1> QED  BY <1>1, <1>2, <1>3

LEMMA KeysDiffer ==
  /\ WRITE_START_KEY \in Bytes2W /\ READ_START_KEY \in Bytes2W /\ END_KEY \in Bytes2W
  /\ WRITE_START_KEY # READ_START_KEY
  /\ WRITE_START_KEY # END_KEY
  /\ READ_START_KEY # END_KEY
<1>1. W \in Nat \ {0} /\ 1 \in 1 .. W /\ 1 <= W
  BY Constants
<1>2. ASSUME NEW b \in Byte
      PROVE  Repeat(W, b) \in Word
  BY <1>1 DEF Repeat, Word
<1> DEFINE key(b) == Repeat(W, b) \o Repeat(W, 80)
<1>3. ASSUME NEW b \in Byte
      PROVE  key(b) \in Bytes2W /\ SubSeq(key(b), 1, W)[1] = b
  <2>1. 80 \in Byte
    BY DEF Byte
  <2>2. Repeat(W, b) \in Word /\ Repeat(W, 80) \in Word
    BY <1>2, <2>1
  <2>3. key(b) \in Bytes2W /\ SubSeq(key(b), 1, W) = Repeat(W, b)
    BY <2>2, TwoWords, Zenon
  <2>4. Repeat(W, b)[1] = b
    BY <1>1 DEF Repeat
  <2> QED  BY <2>3, <2>4
<1>4. 17 \in Byte /\ 34 \in Byte /\ 238 \in Byte
  BY DEF Byte
<1>5. WRITE_START_KEY = key(17) /\ READ_START_KEY = key(34) /\ END_KEY = key(238)
  BY DEF WRITE_START_KEY, READ_START_KEY, END_KEY
<1> HIDE DEF key
<1> QED  BY <1>3, <1>4, <1>5

SessionNames == {"none", "write", "read"}

\* What the PC sends in a session is a key that changes it or one of its commands.
LEMMA SessionMessage ==
  ASSUME NEW s \in SessionNames, NEW m \in Sessions[s]
  PROVE  /\ m \in Bytes2W
         /\ After(s, m) \in SessionNames
         /\ m \in Keys <=> (m = END_KEY \/ s = "none")
         /\ m \in Keys =>
              \/ s = "none" /\ m = WRITE_START_KEY /\ After(s, m) = "write"
              \/ s = "none" /\ m = READ_START_KEY /\ After(s, m) = "read"
              \/ s # "none" /\ m = END_KEY /\ After(s, m) = "none"
         /\ m \notin Keys =>
              /\ s # "none" /\ After(s, m) = s
              /\ CommandOf(s = "read", m) \in Commands
<1>1. CASE s = "none"
  BY <1>1, KeysDiffer DEF Sessions, After, SessionNames, Keys
<1>2. CASE s = "write"
  <2>1. m = END_KEY \/ \E c \in Commands : m = Message(c) /\ ~c.read
    BY <1>2 DEF Sessions
  <2>2. CASE m = END_KEY
    BY <1>2, <2>2, KeysDiffer DEF After, SessionNames, Keys
  <2>3. ASSUME NEW c \in Commands, m = Message(c), ~c.read
        PROVE  m \in Bytes2W /\ m \notin Keys /\ CommandOf(FALSE, m) \in Commands
    <3>1. c.read = FALSE
      BY <2>3, Constants
    <3> QED  BY <2>3, <3>1, MessageOf
  <2>4. m \notin Keys => After(s, m) = s /\ m # END_KEY
    BY DEF After, Keys
  <2> QED  BY <1>2, <2>1, <2>2, <2>3, <2>4 DEF SessionNames
<1>3. CASE s = "read"
  <2>1. m = END_KEY \/ \E c \in Commands : m = Message(c) /\ c.read
    BY <1>3 DEF Sessions
  <2>2. CASE m = END_KEY
    BY <1>3, <2>2, KeysDiffer DEF After, SessionNames, Keys
  <2>3. ASSUME NEW c \in Commands, m = Message(c), c.read
        PROVE  m \in Bytes2W /\ m \notin Keys /\ CommandOf(TRUE, m) \in Commands
    <3>1. c.read = TRUE
      BY <2>3, Constants
    <3> QED  BY <2>3, <3>1, MessageOf
  <2>4. m \notin Keys => After(s, m) = s /\ m # END_KEY
    BY DEF After, Keys
  <2> QED  BY <1>3, <2>1, <2>2, <2>3, <2>4 DEF SessionNames
<1> QED  BY <1>1, <1>2, <1>3 DEF SessionNames

-----------------------------------------------------------------------------
\* What one edge does to the line

LineIdle ==
  /\ toSend = << >> /\ toSend' = << >> /\ ~Received
  /\ UNCHANGED <<rxWait, session, sent, message, image, cut, arriving>>
LineBegins ==
  /\ toSend = << >> /\ ~Received
  /\ message' \in Sessions[session] /\ toSend' = message' /\ rxWait' = RxTime
  /\ session' = After(session, message') /\ sent' \in 0 .. MaxMessages
  /\ IF session = "write" /\ message' # END_KEY
     THEN /\ image' = [image EXCEPT ![SubSeq(message', 1, W)] = SubSeq(message', W + 1, 2 * W)]
          /\ cut' = cut \ {SubSeq(message', 1, W)}
     ELSE UNCHANGED <<image, cut>>
  /\ UNCHANGED arriving
LineWaits ==
  /\ toSend # << >> /\ ~Received /\ rxWait > 1 /\ rxWait' = rxWait - 1
  /\ UNCHANGED <<toSend, session, sent, message, image, cut, arriving>>
ByteEnds ==
  /\ Len(toSend) > 1 /\ Received /\ toSend' = Tail(toSend) /\ rxWait' = RxTime
  /\ UNCHANGED <<session, sent, message, image, cut, arriving>>
MessageEnds ==
  /\ Len(toSend) = 1 /\ Received /\ toSend' = << >> /\ rxWait' = 0
  /\ arriving' = IF message \in Keys THEN << >>
                 ELSE <<CommandOf(session = "read", message)>>
  /\ UNCHANGED <<session, sent, message, image, cut>>

LEMMA LineStep ==
  ASSUME TypeOK, Assembled, BeginMessage \/ Line
  PROVE  LineIdle \/ LineBegins \/ LineWaits \/ ByteEnds \/ MessageEnds
<1>1. /\ toSend \in Seq(Byte) /\ Len(toSend) \in Nat /\ rxWait \in Nat
      /\ (toSend = << >> <=> Len(toSend) = 0) /\ (toSend = << >> <=> rxWait = 0)
  <2>1. toSend \in Seq(Byte) /\ rxWait \in 0 .. RxTime
    BY DEF TypeOK
  <2>2. toSend = << >> <=> Len(toSend) = 0
    BY <2>1, EmptySeq, LenProperties
  <2> QED  BY <2>1, <2>2, LenProperties, Constants DEF Assembled
<1>2. CASE BeginMessage
  <2>1. sent \in 0 .. MaxMessages /\ MaxMessages \in Nat
    BY Constants DEF TypeOK
  <2>2. sent' \in 0 .. MaxMessages
    BY <1>2, <2>1 DEF BeginMessage
  <2> QED  BY <1>2, <2>2 DEF BeginMessage, LineBegins, Received, SessionAfter, After
<1>3. CASE Line
  <2>1. CASE rxWait = 0
    BY <1>1, <1>3, <2>1 DEF Line, LineIdle, Received
  <2>2. CASE rxWait > 1
    BY <1>1, <1>3, <2>2 DEF Line, LineWaits, Received
  <2>3. CASE rxWait = 1 /\ Len(toSend) > 1
    BY <1>1, <1>3, <2>3 DEF Line, ByteEnds, Received
  <2>4. CASE rxWait = 1 /\ ~(Len(toSend) > 1)
    <3>0. rxWait # 0
      BY <2>4
    <3>1. toSend # << >>
      BY <3>0, <1>1, Zenon
    <3>4. Len(toSend) # 0
      BY <3>1, <1>1, Zenon
    <3>5. Len(toSend) \in Nat /\ ~(Len(toSend) > 1)
      BY <1>1, <2>4, Zenon
    <3>6. Len(toSend) = 1
      BY <3>4, <3>5
    <3>2. Len(Tail(toSend)) = 0 /\ Tail(toSend) \in Seq(Byte)
      BY <1>1, <3>1, <3>6, HeadTailProperties
    <3>3. Tail(toSend) = << >>
      BY <3>2, EmptySeq
    <3> QED  BY <1>1, <1>3, <2>4, <3>1, <3>6, <3>3 DEF Line, MessageEnds, Received
  <2> QED  BY <1>1, <2>1, <2>2, <2>3, <2>4
<1> QED  BY <1>2, <1>3

\* Every cycle is one of the least number that is left.
LEMMA LineTimes ==
  ASSUME TypeOK, Assembled, session \in SessionNames,
         LineIdle \/ LineBegins \/ LineWaits \/ ByteEnds \/ MessageEnds
  PROVE  /\ LineTime \in Nat /\ LineTime' \in Nat
         /\ LineTime <= MessageTime
         /\ LineIdle => LineTime = MessageTime /\ LineTime' = MessageTime
         /\ LineBegins => LineTime = MessageTime /\ LineTime' = MessageTime - 1
         /\ LineWaits \/ ByteEnds => LineTime >= 2 /\ LineTime' = LineTime - 1
         /\ MessageEnds => LineTime = 1 /\ LineTime' = MessageTime
         /\ LineBegins => /\ message' \in Bytes2W /\ toSend' \in Seq(Byte)
                          /\ Len(toSend') = 2 * W /\ toSend' # << >>
         /\ ByteEnds => /\ toSend' \in Seq(Byte) /\ Len(toSend') = Len(toSend) - 1
                        /\ \A i \in 1 .. Len(toSend') : toSend'[i] = toSend[i + 1]
                        /\ toSend' # << >>
         /\ Received => Head(toSend) = toSend[1] /\ toSend # << >>
         /\ Received => LineTime <= MessageTime - RxTime
         /\ toSend # << >> /\ Len(toSend) < 2 * W => LineTime <= MessageTime - 1 - RxTime
<1>1. /\ toSend \in Seq(Byte) /\ Len(toSend) \in Nat /\ rxWait \in 0 .. RxTime
      /\ Len(toSend) <= 2 * W
      /\ (toSend = << >> <=> Len(toSend) = 0) /\ (toSend = << >> <=> rxWait = 0)
  <2>1. /\ toSend \in Seq(Byte) /\ rxWait \in 0 .. RxTime /\ Len(toSend) <= 2 * W
        /\ toSend = << >> <=> rxWait = 0
    BY DEF TypeOK, Assembled
  <2>2. toSend = << >> <=> Len(toSend) = 0
    BY <2>1, EmptySeq, LenProperties
  <2> QED  BY <2>1, <2>2, LenProperties
<1>2. RxTime \in Nat /\ RxTime >= 4 /\ W \in Nat /\ W >= 1
  BY Constants
<1>3. MessageTime \in Nat /\ MessageTime >= 2 * RxTime + 1 /\ MessageTime = 2 * W * RxTime + 1
  BY Times DEF MessageTime
<1> DEFINE rest == (Len(toSend) - 1) * RxTime
<1>4. /\ rest \in Int
      /\ Len(toSend) >= 2 => rest >= RxTime
      /\ Len(toSend) = 1 => rest = 0
      /\ Len(toSend) # 0 => rest >= 0
      /\ Len(toSend) < 2 * W => rest + RxTime <= MessageTime - 1 - RxTime
      /\ Len(toSend) = 2 * W => rest + RxTime = MessageTime - 1
      /\ (Len(toSend) - 1 - 1) * RxTime = rest - RxTime
  <2>1. /\ rest \in Int
        /\ Len(toSend) >= 2 => rest >= RxTime
        /\ Len(toSend) < 2 * W => rest + RxTime <= MessageTime - 1 - RxTime
    BY <1>1, ByteTime
  <2>2. Len(toSend) = 1 => rest = 0
    BY <1>2
  <2>3. (Len(toSend) - 1 - 1) * RxTime = rest - RxTime
    BY <1>1, <1>2
  <2>4. Len(toSend) = 2 * W => rest = 2 * W * RxTime - RxTime
    BY <1>2
  <2>5. 2 * W * RxTime \in Nat
    BY <1>2
  <2> QED  BY <1>1, <1>2, <1>3, <2>1, <2>2, <2>3, <2>4, <2>5
<1> HIDE DEF rest
<1>5. LineTime = IF toSend = << >> THEN MessageTime ELSE rest + rxWait
  BY DEF LineTime, rest
<1>6. LineTime \in Nat /\ LineTime <= MessageTime
  BY <1>1, <1>2, <1>3, <1>4, <1>5
<1>7. LineTime' = IF toSend' = << >> THEN MessageTime ELSE (Len(toSend') - 1) * RxTime + rxWait'
  BY DEF LineTime
<1>8. ASSUME LineBegins
      PROVE  /\ LineTime = MessageTime /\ LineTime' = MessageTime - 1
             /\ message' \in Bytes2W /\ toSend' \in Seq(Byte)
             /\ Len(toSend') = 2 * W /\ toSend' # << >>
  <2>1. message' \in Bytes2W /\ toSend' = message' /\ rxWait' = RxTime /\ toSend = << >>
    BY <1>8, SessionMessage DEF LineBegins
  <2>2. 2 * W \in Nat
    BY <1>2
  <2>3. toSend' \in Seq(Byte) /\ Len(toSend') = 2 * W
    BY <2>1, <2>2, FunctionIsSeq DEF Bytes2W
  <2>4. toSend' # << >>
    BY <2>3, <1>2, EmptySeq
  <2>5. (2 * W - 1) * RxTime + RxTime = 2 * W * RxTime
    BY <1>2
  <2>6. LineTime' = MessageTime - 1
    BY <2>1, <2>3, <2>4, <2>5, <1>7, <1>3, <1>2
  <2> QED  BY <1>5, <2>1, <2>3, <2>4, <2>6
<1>9. ASSUME ByteEnds
      PROVE  /\ LineTime >= 2 /\ LineTime' = LineTime - 1
             /\ toSend' \in Seq(Byte) /\ Len(toSend') = Len(toSend) - 1
             /\ \A i \in 1 .. Len(toSend') : toSend'[i] = toSend[i + 1]
             /\ toSend' # << >>
  <2>1. toSend # << >> /\ rxWait = 1 /\ rxWait' = RxTime /\ toSend' = Tail(toSend) /\ Len(toSend) > 1
    BY <1>9, <1>1 DEF ByteEnds, Received
  <2>2. /\ toSend' \in Seq(Byte) /\ Len(toSend') = Len(toSend) - 1
        /\ \A i \in 1 .. Len(toSend') : toSend'[i] = toSend[i + 1]
    BY <2>1, <1>1, HeadTailProperties
  <2>3. toSend' # << >>
    <3>1. Len(toSend') >= 1
      BY <2>1, <2>2, <1>1
    <3>2. Len(<< >>) = 0
      BY EmptySeq
    <3> QED  BY <3>1, <3>2
  <2>4. LineTime' = (Len(toSend) - 1 - 1) * RxTime + RxTime
    BY <2>1, <2>2, <2>3, <1>7
  <2>5. LineTime >= 2 /\ LineTime' = LineTime - 1
    BY <2>1, <2>4, <1>1, <1>2, <1>4, <1>5
  <2> QED  BY <2>2, <2>3, <2>5
<1>10. ASSUME LineWaits
       PROVE  LineTime >= 2 /\ LineTime' = LineTime - 1
  <2>1. LineTime' = rest + (rxWait - 1)
    BY <1>10, <1>7 DEF LineWaits, rest
  <2> QED  BY <2>1, <1>10, <1>1, <1>4, <1>5 DEF LineWaits
<1>11. ASSUME MessageEnds
       PROVE  LineTime = 1 /\ LineTime' = MessageTime
  BY <1>11, <1>1, <1>4, <1>5, <1>7 DEF MessageEnds, Received
<1>12. LineIdle => LineTime = MessageTime /\ LineTime' = MessageTime
  BY <1>5, <1>7 DEF LineIdle
<1>13. Received => Head(toSend) = toSend[1] /\ toSend # << >>
  BY <1>1 DEF Received
<1>14. LineTime' \in Nat
  <2>1. MessageTime - 1 \in Nat /\ (LineTime >= 2 => LineTime - 1 \in Nat)
    BY <1>2, <1>3, <1>6
  <2> QED  BY <2>1, <1>3, <1>8, <1>9, <1>10, <1>11, <1>12, Zenon
<1>15. Received => LineTime <= MessageTime - RxTime
  <2> SUFFICES ASSUME Received  PROVE LineTime <= MessageTime - RxTime
    OBVIOUS
  <2>1. toSend # << >> /\ rxWait = 1
    BY <1>1 DEF Received
  <2>2. LineTime = rest + 1 /\ rest + RxTime <= MessageTime - 1
    BY <2>1, <1>1, <1>2, <1>3, <1>4, <1>5
  <2> QED  BY <2>2, <1>2, <1>3, <1>4
<1>16. toSend # << >> /\ Len(toSend) < 2 * W => LineTime <= MessageTime - 1 - RxTime
  BY <1>1, <1>2, <1>3, <1>4, <1>5
<1> QED  BY <1>6, <1>8, <1>9, <1>10, <1>11, <1>12, <1>13, <1>14, <1>15, <1>16

-----------------------------------------------------------------------------
\* Assembly of the bytes

LEMMA ShiftIn ==
  ASSUME NEW f \in Bytes2W, NEW b \in Byte
  PROVE  /\ Append(Tail(f), b) \in Bytes2W
         /\ \A i \in 1 .. 2 * W - 1 : Append(Tail(f), b)[i] = f[i + 1]
         /\ Append(Tail(f), b)[2 * W] = b
<1>1. 2 * W \in Nat /\ 2 * W >= 2
  BY Constants
<1>2. f \in Seq(Byte) /\ Len(f) = 2 * W
  BY <1>1, FunctionIsSeq DEF Bytes2W
<1>3. f # << >>
  <2>1. Len(<< >>) = 0
    BY EmptySeq
  <2> QED  BY <2>1, <1>1, <1>2
<1>4. /\ Tail(f) \in Seq(Byte) /\ Len(Tail(f)) = 2 * W - 1
      /\ \A i \in 1 .. 2 * W - 1 : Tail(f)[i] = f[i + 1]
  BY <1>2, <1>3, HeadTailProperties
<1> DEFINE t == Tail(f)
<1> HIDE DEF t
<1>5. t \in Seq(Byte) /\ Len(t) = 2 * W - 1
  BY <1>4 DEF t
<1>6. /\ Append(t, b) \in Seq(Byte) /\ Len(Append(t, b)) = Len(t) + 1
      /\ \A i \in 1 .. Len(t) : Append(t, b)[i] = t[i]
      /\ Append(t, b)[Len(t) + 1] = b
  BY <1>5, AppendProperties
<1>7. /\ Len(Append(t, b)) = 2 * W
      /\ \A i \in 1 .. 2 * W - 1 : Append(t, b)[i] = t[i]
      /\ Append(t, b)[2 * W] = b
  BY <1>1, <1>5, <1>6
<1>8. Append(t, b) \in Bytes2W
  BY <1>6, <1>7, LenProperties DEF Bytes2W
<1> QED  BY <1>4, <1>7, <1>8 DEF t

LineMoves == LineIdle \/ LineBegins \/ LineWaits \/ ByteEnds \/ MessageEnds

LEMMA AssembledStep ==
  ASSUME TypeOK, Assembled, LineMoves, uart_rx, AssembleCommand
  PROVE  /\ Assembled'
         /\ cmd' \in Bytes2W /\ dataCount' \in 0 .. 2 * W - 1 /\ rxData' \in Byte
         /\ rxWait' \in 0 .. RxTime
         /\ toSend' \in Seq(Byte) /\ Len(toSend') <= 2 * W
         /\ Last => cmd' = message
         /\ Last' <=> MessageEnds
         /\ rxValid' <=> (ByteEnds \/ MessageEnds)
         /\ rxValid /\ ~Last => toSend # << >> /\ Len(toSend) < 2 * W
         /\ Last => toSend = << >>
<1> DEFINE L == 2 * W
<1>1. /\ L \in Nat /\ L >= 2 /\ RxTime \in Nat /\ RxTime >= 4
      /\ toSend \in Seq(Byte) /\ Len(toSend) \in Nat /\ Len(toSend) <= L
      /\ rxWait \in 0 .. RxTime
      /\ cmd \in Bytes2W /\ dataCount \in 0 .. L - 1 /\ rxData \in Byte /\ rxValid \in BOOLEAN
      /\ message \in Bytes2W
  BY Constants, LenProperties DEF TypeOK, Assembled, Bytes2W
<1>2. toSend = << >> <=> Len(toSend) = 0
  BY <1>1, EmptySeq, LenProperties
<1>3. session \in SessionNames
  BY DEF TypeOK, SessionNames
<1>4. /\ LineBegins => /\ message' \in Bytes2W /\ toSend' \in Seq(Byte)
                       /\ Len(toSend') = L /\ toSend' # << >>
      /\ ByteEnds => /\ toSend' \in Seq(Byte) /\ Len(toSend') = Len(toSend) - 1
                     /\ \A i \in 1 .. Len(toSend') : toSend'[i] = toSend[i + 1]
                     /\ toSend' # << >>
      /\ Received => Head(toSend) = toSend[1] /\ toSend # << >>
  BY <1>3, LineTimes DEF LineMoves
<1>5. Len(<< >>) = 0 /\ << >> \in Seq(Byte)
  BY EmptySeq
<1>6. /\ rxValid' = Received /\ rxData' = IF Received THEN Head(toSend) ELSE rxData
      /\ dataCount' = IF ~rxValid THEN dataCount ELSE IF dataCount = L - 1 THEN 0 ELSE dataCount + 1
      /\ cmd' = IF rxValid THEN Append(Tail(cmd), rxData) ELSE cmd
  BY DEF uart_rx, AssembleCommand, data_count_fire
<1>7. /\ (toSend = << >> => dataCount = IF rxValid THEN L - 1 ELSE 0)
      /\ (toSend # << >> => dataCount + (IF rxValid THEN 1 ELSE 0) = L - Len(toSend))
      /\ \A i \in 1 .. Len(toSend) : toSend[i] = message[L - Len(toSend) + i]
      /\ \A i \in 1 .. dataCount : cmd[L - dataCount + i] = message[i]
      /\ (rxValid => rxData = message[dataCount + 1])
      /\ (toSend = << >> <=> rxWait = 0)
  BY DEF Assembled
<1>8. cmd' \in Bytes2W /\ dataCount' \in 0 .. L - 1
  <2>1. Append(Tail(cmd), rxData) \in Bytes2W
    BY <1>1, ShiftIn
  <2> QED  BY <2>1, <1>1, <1>6
<1> HIDE DEF L
<1>9. dataCount' = IF toSend = << >> THEN 0 ELSE L - Len(toSend)
  <2>1. CASE toSend = << >>
    BY <2>1, <1>1, <1>6, <1>7
  <2>2. CASE toSend # << >>
    <3>1. Len(toSend) >= 1
      BY <2>2, <1>1, <1>2
    <3> QED  BY <2>2, <3>1, <1>1, <1>6, <1>7
  <2> QED  BY <2>1, <2>2
<1>10. \A i \in 1 .. dataCount' : cmd'[L - dataCount' + i] = message[i]
  <2>1. CASE toSend = << >>
    BY <2>1, <1>9
  <2>2. CASE toSend # << >> /\ ~rxValid
    BY <2>2, <1>6, <1>7
  <2>3. CASE toSend # << >> /\ rxValid
    <3>1. dataCount' = dataCount + 1 /\ dataCount + 1 <= L - 1 /\ dataCount \in Nat
      <4>1. Len(toSend) >= 1
        BY <2>3, <1>1, <1>2
      <4> QED  BY <4>1, <2>3, <1>9, <1>7, <1>1
    <3>2. ASSUME NEW i \in 1 .. dataCount'
          PROVE  cmd'[L - dataCount' + i] = message[i]
      <4>1. /\ \A j \in 1 .. L - 1 : cmd'[j] = cmd[j + 1]
            /\ cmd'[L] = rxData
        BY <2>3, <1>1, <1>6, ShiftIn DEF L
      <4>2. CASE i <= dataCount
        <5>1. L - dataCount' + i \in 1 .. L - 1 /\ L - dataCount' + i + 1 = L - dataCount + i /\ i \in 1 .. dataCount
          BY <3>1, <3>2, <4>2, <1>1
        <5> QED  BY <5>1, <4>1, <1>7
      <4>3. CASE i = dataCount + 1
        <5>1. L - dataCount' + i = L
          BY <3>1, <4>3, <1>1
        <5> QED  BY <5>1, <4>1, <4>3, <2>3, <1>7
      <4> QED  BY <3>1, <3>2, <4>2, <4>3
    <3> QED  BY <3>2
  <2> QED  BY <2>1, <2>2, <2>3, <1>1
<1>11. Last => cmd' = message /\ toSend = << >>
  <2> SUFFICES ASSUME Last  PROVE cmd' = message /\ toSend = << >>
    OBVIOUS
  <2>1. rxValid /\ dataCount = L - 1
    BY DEF Last, data_count_fire, L
  <2>2. toSend = << >>
    <3>1. toSend # << >> => Len(toSend) >= 1
      BY <1>1, <1>2
    <3> QED  BY <3>1, <2>1, <1>1, <1>7
  <2>3. /\ \A j \in 1 .. L - 1 : cmd'[j] = cmd[j + 1]
        /\ cmd'[L] = rxData
    BY <2>1, <1>1, <1>6, ShiftIn DEF L
  <2>4. ASSUME NEW j \in 1 .. L
        PROVE  cmd'[j] = message[j]
    <3>1. CASE j = L
      BY <3>1, <2>1, <2>3, <1>1, <1>7
    <3>2. CASE j # L
      <4>1. j \in 1 .. L - 1 /\ j \in 1 .. dataCount /\ L - dataCount + j = j + 1
        BY <2>1, <2>4, <3>2, <1>1
      <4> QED  BY <4>1, <2>3, <1>7
    <3> QED  BY <3>1, <3>2
  <2> QED  BY <2>2, <2>4, <1>1, <1>8 DEF Bytes2W, L
<1>12. Received => rxData' = message[dataCount' + 1] /\ rxData' \in Byte
  <2> SUFFICES ASSUME Received  PROVE rxData' = message[dataCount' + 1] /\ rxData' \in Byte
    OBVIOUS
  <2>1. toSend # << >> /\ rxData' = toSend[1] /\ Len(toSend) >= 1
    BY <1>1, <1>2, <1>4, <1>6
  <2>2. 1 \in 1 .. Len(toSend) /\ L - Len(toSend) + 1 = dataCount' + 1
    BY <2>1, <1>1, <1>9
  <2>3. toSend[1] \in Byte
    BY <1>1, <2>2, ElementOfSeq
  <2> QED  BY <2>1, <2>2, <2>3, <1>7
<1>13. rxValid /\ ~Last => toSend # << >> /\ Len(toSend) < L
  <2> SUFFICES ASSUME rxValid, ~Last  PROVE toSend # << >> /\ Len(toSend) < L
    OBVIOUS
  <2>1. dataCount # L - 1
    BY DEF Last, data_count_fire, L
  <2> QED  BY <2>1, <1>1, <1>7
<1>14. /\ rxWait' \in 0 .. RxTime /\ toSend' \in Seq(Byte) /\ Len(toSend') <= L
       /\ (toSend' = << >> <=> rxWait' = 0)
       /\ message' \in Bytes2W
       /\ \A i \in 1 .. Len(toSend') : toSend'[i] = message'[L - Len(toSend') + i]
       /\ (dataCount' # 0 => message' = message)
       /\ rxValid' = Received /\ (Received <=> ByteEnds \/ MessageEnds)
       /\ IF toSend' = << >> THEN dataCount' = IF rxValid' THEN L - 1 ELSE 0
          ELSE dataCount' + (IF rxValid' THEN 1 ELSE 0) = L - Len(toSend')
  <2>1. CASE LineIdle
    BY <2>1, <1>1, <1>2, <1>5, <1>6, <1>7, <1>9 DEF LineIdle, ByteEnds, MessageEnds
  <2>2. CASE LineBegins
    <3>1. toSend' = message' /\ rxWait' = RxTime /\ ~Received /\ toSend = << >>
      BY <2>2 DEF LineBegins
    <3>2. dataCount' = 0 /\ ~rxValid'
      BY <3>1, <1>9, <1>6
    <3> QED  BY <3>1, <3>2, <2>2, <1>1, <1>4, <1>6 DEF ByteEnds, MessageEnds
  <2>3. CASE LineWaits
    <3>1. toSend # << >> /\ toSend' = toSend /\ message' = message /\ ~Received /\ rxWait > 1 /\ rxWait' = rxWait - 1
      BY <2>3 DEF LineWaits
    <3>2. ~rxValid' /\ dataCount' = L - Len(toSend)
      BY <3>1, <1>9, <1>6
    <3> QED  BY <3>1, <3>2, <1>1, <1>6, <1>7 DEF ByteEnds, MessageEnds
  <2>4. CASE ByteEnds
    <3>1. message' = message /\ Received /\ rxWait' = RxTime
      BY <2>4 DEF ByteEnds
    <3>2. rxValid' /\ dataCount' = L - Len(toSend)
      BY <3>1, <1>4, <1>9, <1>6
    <3>3. \A i \in 1 .. Len(toSend') : toSend'[i] = message'[L - Len(toSend') + i]
      <4>1. ASSUME NEW i \in 1 .. Len(toSend')
            PROVE  toSend'[i] = message'[L - Len(toSend') + i]
        <5>1. toSend'[i] = toSend[i + 1] /\ Len(toSend') = Len(toSend) - 1
          BY <2>4, <1>4
        <5>2. i + 1 \in 1 .. Len(toSend) /\ L - Len(toSend) + (i + 1) = L - Len(toSend') + i
          BY <5>1, <1>1
        <5> QED  BY <5>1, <5>2, <3>1, <1>7
      <4> QED  BY <4>1
    <3> QED  BY <2>4, <3>1, <3>2, <3>3, <1>1, <1>4, <1>6
  <2>5. CASE MessageEnds
    <3>1. message' = message /\ Received /\ rxWait' = 0 /\ toSend' = << >> /\ Len(toSend) = 1
      BY <2>5 DEF MessageEnds
    <3>2. rxValid' /\ dataCount' = L - 1
      BY <3>1, <1>4, <1>9, <1>6
    <3> QED  BY <2>5, <3>1, <3>2, <1>1, <1>5, <1>6
  <2> QED  BY <2>1, <2>2, <2>3, <2>4, <2>5 DEF LineMoves
<1>15. Last' => MessageEnds
  <2> SUFFICES ASSUME Last'  PROVE MessageEnds
    OBVIOUS
  <2>1. rxValid' /\ dataCount' = L - 1
    BY DEF Last, data_count_fire, L
  <2>2. ByteEnds \/ MessageEnds
    BY <2>1, <1>14
  <2>3. ~ByteEnds
    <3> SUFFICES ASSUME ByteEnds  PROVE FALSE
      OBVIOUS
    <3>1. dataCount' = L - Len(toSend) /\ Len(toSend) > 1
      BY <1>4, <1>9 DEF ByteEnds
    <3> QED  BY <3>1, <2>1, <1>1
  <2> QED  BY <2>2, <2>3
<1>16. \A i \in 1 .. dataCount' : cmd'[L - dataCount' + i] = message'[i]
  <2>1. CASE dataCount' = 0
    BY <2>1
  <2>2. CASE dataCount' # 0
    BY <2>2, <1>10, <1>14
  <2> QED  BY <2>1, <2>2
<1>17. rxValid' => rxData' = message'[dataCount' + 1]
  <2> SUFFICES ASSUME rxValid'  PROVE rxData' = message'[dataCount' + 1]
    OBVIOUS
  <2>1. Received /\ message' = message
    BY <1>14 DEF ByteEnds, MessageEnds
  <2> QED  BY <2>1, <1>12
<1>18. Assembled'
  BY <1>14, <1>16, <1>17 DEF Assembled, Bytes2W, L
<1>19. rxData' \in Byte
  BY <1>1, <1>6, <1>12
<1>20. MessageEnds => Last'
  <2> SUFFICES ASSUME MessageEnds  PROVE Last'
    OBVIOUS
  <2>1. rxValid' /\ toSend' = << >>
    BY <1>14 DEF MessageEnds
  <2>2. dataCount' = L - 1
    BY <2>1, <1>14
  <2> QED  BY <2>1, <2>2 DEF Last, data_count_fire, L
<1> QED  BY <1>8, <1>11, <1>13, <1>14, <1>15, <1>18, <1>19, <1>20 DEF L

\* What the later lemmas use of an edge and the line.
LEMMA EdgeLine ==
  ASSUME HostInv, Edge
  PROVE  /\ LineMoves /\ Assembled'
         /\ LineTime \in Nat /\ LineTime' \in Nat /\ LineTime <= MessageTime
         /\ LineIdle => LineTime = MessageTime /\ LineTime' = MessageTime
         /\ LineBegins => LineTime = MessageTime /\ LineTime' = MessageTime - 1
         /\ LineWaits \/ ByteEnds => LineTime >= 2 /\ LineTime' = LineTime - 1
         /\ MessageEnds => LineTime = 1 /\ LineTime' = MessageTime
         /\ ByteEnds \/ MessageEnds => LineTime <= MessageTime - RxTime
         /\ toSend # << >> /\ Len(toSend) < 2 * W => LineTime <= MessageTime - 1 - RxTime
         /\ LineBegins => Len(toSend') = 2 * W /\ toSend' # << >>
         /\ ByteEnds => toSend' # << >>
         /\ Last' <=> MessageEnds
         /\ Last => toSend = << >> /\ cmd' = message
         /\ rxValid /\ ~Last => LineTime <= MessageTime - 1 - RxTime
         /\ rxValid' <=> ByteEnds \/ MessageEnds
         /\ ~rxValid => cmd' = cmd
         /\ cmdCmpl' = Last
         /\ cmd' \in Bytes2W /\ dataCount' \in 0 .. 2 * W - 1 /\ rxData' \in Byte
         /\ rxWait' \in 0 .. RxTime
         /\ toSend' \in Seq(Byte) /\ Len(toSend') <= 2 * W
<1>1. TypeOK /\ Assembled /\ (BeginMessage \/ Line) /\ uart_rx /\ AssembleCommand
  BY DEF HostInv, Edge, Clock
<1>2. LineMoves
  BY <1>1, LineStep DEF LineMoves
<1>3. session \in SessionNames
  BY <1>1 DEF TypeOK, SessionNames
<1>4. /\ LineTime \in Nat /\ LineTime' \in Nat /\ LineTime <= MessageTime
      /\ LineIdle => LineTime = MessageTime /\ LineTime' = MessageTime
      /\ LineBegins => LineTime = MessageTime /\ LineTime' = MessageTime - 1
      /\ LineWaits \/ ByteEnds => LineTime >= 2 /\ LineTime' = LineTime - 1
      /\ MessageEnds => LineTime = 1 /\ LineTime' = MessageTime
      /\ LineBegins => Len(toSend') = 2 * W /\ toSend' # << >>
      /\ ByteEnds => toSend' # << >>
      /\ Received => LineTime <= MessageTime - RxTime
      /\ toSend # << >> /\ Len(toSend) < 2 * W => LineTime <= MessageTime - 1 - RxTime
  BY <1>1, <1>2, <1>3, LineTimes, Zenon DEF LineMoves
<1>5. ByteEnds \/ MessageEnds => Received
  BY DEF ByteEnds, MessageEnds
<1>6. /\ Assembled'
      /\ cmd' \in Bytes2W /\ dataCount' \in 0 .. 2 * W - 1 /\ rxData' \in Byte
      /\ rxWait' \in 0 .. RxTime
      /\ toSend' \in Seq(Byte) /\ Len(toSend') <= 2 * W
      /\ Last => cmd' = message
      /\ Last' <=> MessageEnds
      /\ rxValid' <=> (ByteEnds \/ MessageEnds)
      /\ rxValid /\ ~Last => toSend # << >> /\ Len(toSend) < 2 * W
      /\ Last => toSend = << >>
  BY <1>1, <1>2, AssembledStep, Zenon
<1>7. (~rxValid => cmd' = cmd) /\ cmdCmpl' = Last
  BY <1>1 DEF AssembleCommand, Last
<1> QED  BY <1>2, <1>4, <1>5, <1>6, <1>7, Zenon

-----------------------------------------------------------------------------
\* The session flags

\* The flags follow the message that is complete in cmd.
LEMMA FlagsStep ==
  ASSUME TypeOK, SessionShown, cmdCmpl => cmd \in Sessions[Shown], TrackSession
  PROVE  /\ Shown' = Settled /\ Shown \in SessionNames /\ Settled \in SessionNames
         /\ {writing', reading', cmdType'} \subseteq BOOLEAN
         /\ ~(writing' /\ reading') /\ (writing' => ~cmdType') /\ (reading' => cmdType')
         /\ Shown' # "none" => cmdType' = (Shown' = "read")
         /\ Shown # "none" => cmdType = (Shown = "read")
         /\ Shown # "none" <=> writing \/ reading
         /\ cmdCmpl /\ cmd \notin Keys => cmdType' = cmdType /\ Shown' = Shown
<1>1. /\ {cmdCmpl, writing, reading, cmdType} \subseteq BOOLEAN
      /\ ~(writing /\ reading) /\ (writing => ~cmdType) /\ (reading => cmdType)
  BY DEF TypeOK, SessionShown
<1>2. /\ Shown \in SessionNames
      /\ Shown # "none" => cmdType = (Shown = "read")
      /\ Shown # "none" <=> writing \/ reading
  BY <1>1 DEF Shown, SessionNames
<1>3. CASE ~cmdCmpl
  <2>1. UNCHANGED <<writing, reading, cmdType>> /\ Settled = Shown
    BY <1>3 DEF TrackSession, Settled
  <2>2. Shown' = Shown
    BY <2>1 DEF Shown
  <2> QED  BY <1>1, <1>2, <1>3, <2>1, <2>2
<1>4. CASE cmdCmpl /\ cmd \in Keys
  <2>1. \/ Shown = "none" /\ cmd = WRITE_START_KEY /\ Settled = "write"
        \/ Shown = "none" /\ cmd = READ_START_KEY /\ Settled = "read"
        \/ Shown # "none" /\ cmd = END_KEY /\ Settled = "none"
    BY <1>2, <1>4, SessionMessage DEF Settled
  <2>2. CASE Shown = "none" /\ cmd = WRITE_START_KEY
    <3>1. ~writing /\ ~reading
      BY <2>2, <1>2
    <3>2. writing' = TRUE /\ reading' = FALSE /\ cmdType' = FALSE
      BY <3>1, <2>2, <1>1, <1>4, KeysDiffer
        DEF TrackSession, write_start_cmd, read_start_cmd, end_cmd
    <3>3. Shown' = "write"
      BY <3>2 DEF Shown
    <3> QED  BY <1>2, <1>4, <2>1, <2>2, <3>2, <3>3, KeysDiffer DEF SessionNames
  <2>3. CASE Shown = "none" /\ cmd = READ_START_KEY
    <3>1. ~writing /\ ~reading
      BY <2>3, <1>2
    <3>2. writing' = FALSE /\ reading' = TRUE /\ cmdType' = TRUE
      BY <3>1, <2>3, <1>1, <1>4, KeysDiffer
        DEF TrackSession, write_start_cmd, read_start_cmd, end_cmd
    <3>3. Shown' = "read"
      BY <3>2 DEF Shown
    <3> QED  BY <1>2, <1>4, <2>1, <2>3, <3>2, <3>3, KeysDiffer DEF SessionNames
  <2>4. CASE Shown # "none" /\ cmd = END_KEY
    <3>1. writing' = FALSE /\ reading' = FALSE /\ cmdType' = cmdType
      BY <2>4, <1>1, <1>4, KeysDiffer
        DEF TrackSession, write_start_cmd, read_start_cmd, end_cmd
    <3>2. Shown' = "none"
      BY <3>1 DEF Shown
    <3> QED  BY <1>1, <1>2, <1>4, <2>1, <2>4, <3>1, <3>2 DEF SessionNames
  <2> QED  BY <2>1, <2>2, <2>3, <2>4
<1>5. CASE cmdCmpl /\ cmd \notin Keys
  <2>1. Settled = Shown
    BY <1>2, <1>5, SessionMessage DEF Settled
  <2>2. UNCHANGED <<writing, reading, cmdType>>
    BY <1>1, <1>5 DEF TrackSession, write_start_cmd, read_start_cmd, end_cmd, Keys
  <2>3. Shown' = Shown
    BY <2>2 DEF Shown
  <2> QED  BY <1>1, <1>2, <1>5, <2>1, <2>2, <2>3
<1> QED  BY <1>3, <1>4, <1>5

LEMMA EdgeFlags ==
  ASSUME HostInv, Edge
  PROVE  /\ Shown' = Settled /\ Shown \in SessionNames /\ Settled \in SessionNames
         /\ {writing', reading', cmdType'} \subseteq BOOLEAN
         /\ ~(writing' /\ reading') /\ (writing' => ~cmdType') /\ (reading' => cmdType')
         /\ Shown' # "none" => cmdType' = (Shown' = "read")
         /\ Shown # "none" => cmdType = (Shown = "read")
         /\ Shown # "none" <=> writing \/ reading
         /\ cmdCmpl /\ cmd \notin Keys => cmdType' = cmdType /\ Shown' = Shown
<1>1. TypeOK /\ SessionShown /\ (cmdCmpl => cmd \in Sessions[Shown]) /\ TrackSession
  BY DEF HostInv, Edge, Clock, Piped
<1> QED  BY <1>1, FlagsStep, Zenon

\* No message is complete in cmd when the last byte of the next one is.
LEMMA PipeApart ==
  ASSUME HostInv
  PROVE  /\ Last => ~cmdCmpl /\ ~cmdFifoPush /\ cmdFifo = << >>
         /\ Last => Settled = Shown
         /\ cmdCmpl => ~cmdFifoPush /\ cmdFifo = << >>
         /\ cmdFifoPush => cmdFifo = << >>
<1>1. Piped
  BY DEF HostInv
<1>2. Last => rxValid
  BY DEF Last
<1>3. Last => ~cmdCmpl /\ ~cmdFifoPush
  BY <1>1, <1>2 DEF Piped
<1>4. /\ Last => cmdFifo = << >>
      /\ cmdCmpl => cmdFifo = << >> /\ ~cmdFifoPush
      /\ cmdFifoPush => cmdFifo = << >>
  BY <1>1 DEF Piped
<1> QED  BY <1>3, <1>4 DEF Settled

LEMMA SessionStep ==
  ASSUME HostInv, Edge
  PROVE  /\ SessionShown' /\ session' \in SessionNames
         /\ Last => message \in Sessions[Shown'] /\ session = After(Shown', message)
<1>1. SessionShown /\ session \in SessionNames
  BY DEF HostInv, TypeOK, SessionNames
<1>2. /\ LineMoves /\ cmdCmpl' = Last /\ (Last' <=> MessageEnds)
      /\ Last => toSend = << >> /\ cmd' = message
      /\ ByteEnds => toSend' # << >>
      /\ LineBegins => toSend' # << >>
  BY EdgeLine
<1>3. /\ Shown' = Settled /\ Shown \in SessionNames
      /\ ~(writing' /\ reading') /\ (writing' => ~cmdType') /\ (reading' => cmdType')
  BY EdgeFlags
<1>4. Settled' = IF Last THEN After(Settled, message) ELSE Settled
  BY <1>2, <1>3 DEF Settled
<1>5. IF Coming THEN message \in Sessions[Settled] /\ session = After(Settled, message)
      ELSE session = Settled
  BY <1>1 DEF SessionShown
<1>6. Last => message \in Sessions[Shown'] /\ session = After(Shown', message)
  BY <1>3, <1>5 DEF Coming
<1>7. toSend = << >> => session = Settled'
  <2>1. CASE Last
    BY <2>1, <1>4, <1>5 DEF Coming
  <2>2. CASE ~Last
    BY <2>2, <1>4, <1>5 DEF Coming
  <2> QED  BY <2>1, <2>2
<1>8. toSend # << >> =>
        /\ Settled' = Settled
        /\ message \in Sessions[Settled'] /\ session = After(Settled', message)
  BY <1>2, <1>4, <1>5 DEF Coming
<1>9. Coming' = (toSend' # << >> \/ MessageEnds)
  BY <1>2 DEF Coming
<1>10. /\ session' \in SessionNames
       /\ IF Coming' THEN message' \in Sessions[Settled'] /\ session' = After(Settled', message')
          ELSE session' = Settled'
  <2>1. CASE LineIdle
    <3>1. ~Coming' /\ session' = session /\ toSend = << >>
      BY <2>1, <1>9 DEF LineIdle, MessageEnds
    <3> QED  BY <3>1, <1>1, <1>7
  <2>2. CASE LineBegins
    <3>1. /\ Coming' /\ toSend = << >> /\ message' \in Sessions[session]
          /\ session' = After(session, message')
      BY <2>2, <1>2, <1>9 DEF LineBegins
    <3>2. session' \in SessionNames
      BY <3>1, <1>1, SessionMessage
    <3> QED  BY <3>1, <3>2, <1>7
  <2>3. CASE LineWaits \/ ByteEnds \/ MessageEnds
    <3>1. toSend # << >> /\ UNCHANGED <<session, message>>
      <4>1. CASE LineWaits
        BY <4>1 DEF LineWaits
      <4>2. CASE ByteEnds \/ MessageEnds
        <5>1. Received /\ UNCHANGED <<session, message>>
          BY <4>2 DEF ByteEnds, MessageEnds
        <5>2. rxWait # 0
          BY <5>1 DEF Received
        <5> QED  BY <5>1, <5>2 DEF HostInv, Assembled
      <4> QED  BY <2>3, <4>1, <4>2
    <3>2. Coming'
      BY <2>3, <3>1, <1>2, <1>9 DEF LineWaits
    <3> QED  BY <3>1, <3>2, <1>1, <1>8
  <2> QED  BY <2>1, <2>2, <2>3, <1>2 DEF LineMoves
<1>11. SessionShown'
  BY <1>3, <1>10 DEF SessionShown
<1> QED  BY <1>6, <1>10, <1>11

-----------------------------------------------------------------------------
\* The command FIFO and the bus

PipedCommand == CommandOf(cmdType, cmd)

BusIdle ==
  /\ cmdFifo = << >> /\ ~cmdFifoPush /\ cmdFifo' = << >> /\ waits' = 0
  /\ ~readDataValid' /\ UNCHANGED <<busData, memory>>
BusAccepts ==
  /\ cmdFifo = << >> /\ cmdFifoPush /\ cmdFifo' = <<PipedCommand>> /\ waits' = 0
  /\ ~readDataValid' /\ UNCHANGED <<busData, memory>>
BusWaits ==
  /\ cmdFifo # << >> /\ cmdFifo' = cmdFifo /\ waits < MaxWait /\ waits' = waits + 1
  /\ ~readDataValid' /\ UNCHANGED <<busData, memory>>
BusReads ==
  /\ cmdFifo # << >> /\ Head(cmdFifo).read /\ cmdFifo' = << >> /\ waits' = 0
  /\ readDataValid' = TRUE /\ busData' = memory[Head(cmdFifo).address] /\ UNCHANGED memory
BusWrites ==
  /\ cmdFifo # << >> /\ ~Head(cmdFifo).read /\ cmdFifo' = << >> /\ waits' = 0
  /\ ~readDataValid' /\ UNCHANGED busData
  /\ memory' = [memory EXCEPT ![Head(cmdFifo).address] = Head(cmdFifo).word]
BusMoves == BusIdle \/ BusAccepts \/ BusWaits \/ BusReads \/ BusWrites

\* A sequence of at most one element.
LEMMA Single ==
  ASSUME NEW S, NEW q \in Seq(S), Len(q) <= 1
  PROVE  q = << >> \/ (q # << >> /\ Len(q) = 1 /\ Tail(q) = << >> /\ q = <<Head(q)>> /\ Head(q) \in S)
<1>1. Len(q) \in Nat
  BY LenProperties
<1>2. CASE Len(q) = 0
  BY <1>2, EmptySeq
<1>3. CASE Len(q) = 1
  <2>1. Len(<< >>) = 0
    BY EmptySeq
  <2>2. q # << >>
    BY <2>1, <1>3
  <2>3. Tail(q) \in Seq(S) /\ Len(Tail(q)) = 0 /\ Head(q) = q[1] /\ Head(q) \in S
    BY <2>2, <1>3, HeadTailProperties
  <2>4. Tail(q) = << >>
    BY <2>3, EmptySeq
  <2>5. q = <<q[1]>>
    BY <1>3
  <2> QED  BY <1>3, <2>2, <2>3, <2>4, <2>5
<1>4. Len(q) = 0 \/ Len(q) = 1
  <2> DEFINE n == Len(q)
  <2>1. n \in Nat /\ n <= 1
    BY <1>1
  <2> HIDE DEF n
  <2>2. n = 0 \/ n = 1
    BY <2>1
  <2> QED  BY <2>2 DEF n
<1> QED  BY <1>2, <1>3, <1>4, Zenon

LEMMA BusStep ==
  ASSUME TypeOK, Len(cmdFifo) <= 1, cmdFifoPush => cmdFifo = << >>,
         cmdFifo = << >> => waits = 0, NEW pop \in BOOLEAN, Access(pop)
  PROVE  BusMoves
<1>1. /\ cmdFifo \in Seq(Commands) /\ cmdFifoPush \in BOOLEAN
      /\ \A c \in Commands : c.read \in BOOLEAN
  <2>1. \A c \in Commands : c.read \in BOOLEAN
    BY Constants
  <2> QED  BY <2>1 DEF TypeOK
<1>2. cmdFifo = << >> \/ (cmdFifo # << >> /\ Tail(cmdFifo) = << >> /\ Head(cmdFifo) \in Commands)
  BY <1>1, Single
<1>3. << >> \o << >> = << >> /\ cmdFifo \o << >> = cmdFifo /\ << >> \o <<PipedCommand>> = <<PipedCommand>>
  BY <1>1
<1>4. CASE cmdFifo = << >> /\ ~cmdFifoPush
  <2>1. pop = FALSE
    BY <1>4 DEF Access, avn_read, avn_write
  <2> QED  BY <2>1, <1>3, <1>4 DEF Access, Fifo, BusMoves, BusIdle
<1>5. CASE cmdFifo = << >> /\ cmdFifoPush
  <2>1. pop = FALSE
    BY <1>5 DEF Access, avn_read, avn_write
  <2>2. Len(cmdFifo) < Depth
    <3>1. Len(<< >>) = 0
      BY EmptySeq
    <3> QED  BY <3>1, <1>5 DEF Depth
  <2>3. cmdFifo' = << >> \o <<PipedCommand>>
    BY <2>1, <2>2, <1>5 DEF Access, Fifo, PipedCommand
  <2> QED  BY <2>1, <2>3, <1>3, <1>5 DEF Access, BusMoves, BusAccepts
<1>6. CASE cmdFifo # << >> /\ pop = FALSE
  <2>1. ~cmdFifoPush
    BY <1>6
  <2>2. cmdFifo' = cmdFifo \o << >>
    BY <2>1, <1>6 DEF Access, Fifo
  <2> QED  BY <2>1, <2>2, <1>3, <1>6 DEF Access, BusMoves, BusWaits
<1>7. CASE cmdFifo # << >> /\ pop = TRUE
  <2>1. ~cmdFifoPush
    BY <1>7
  <2>2. cmdFifo' = << >> \o << >>
    BY <2>1, <1>2, <1>7 DEF Access, Fifo
  <2>3. cmdFifo' = << >>
    BY <2>2, <1>3
  <2>4. CASE Head(cmdFifo).read
    BY <2>3, <2>4, <1>7 DEF Access, avn_read, avn_write, BusMoves, BusReads
  <2>5. CASE ~Head(cmdFifo).read
    BY <2>3, <2>5, <1>7 DEF Access, avn_read, avn_write, BusMoves, BusWrites
  <2> QED  BY <2>4, <2>5
<1> QED  BY <1>1, <1>4, <1>5, <1>6, <1>7

LEMMA EdgeBus ==
  ASSUME HostInv, Edge
  PROVE  BusMoves
<1>1. PICK pop \in BOOLEAN : Access(pop)
  BY DEF Edge, Clock
<1>2. TypeOK /\ Piped
  BY DEF HostInv
<1>3. Len(cmdFifo) <= 1 /\ (cmdFifoPush => cmdFifo = << >>) /\ (cmdFifo = << >> => waits = 0)
  BY <1>2 DEF Piped
<1> QED  BY <1>1, <1>2, <1>3, BusStep, Zenon

-----------------------------------------------------------------------------
\* The pipeline between the receiver and the bus

\* No message ends while one is on its way from the receiver to the answer.
LEMMA Margins ==
  ASSUME HostInv, Edge
  PROVE  /\ Last => /\ toSend = << >> /\ (LineIdle \/ LineBegins)
                    /\ LineTime = MessageTime /\ LineTime' >= MessageTime - 1
                    /\ ~MessageEnds /\ ~rxValid'
         /\ cmdCmpl => LineTime' >= MessageTime - 2 /\ ~MessageEnds /\ ~rxValid'
         /\ cmdFifoPush => LineTime' >= MessageTime - 3 /\ ~MessageEnds
         /\ cmdFifo # << >> =>
              LineTime' >= MessageTime - 4 - waits /\ waits \in 0 .. MaxWait /\ ~MessageEnds
         /\ readDataValid => LineTime' >= MessageTime - 5 - MaxWait /\ ~MessageEnds
         /\ ~MessageEnds => LineTime' >= LineTime - 1
         /\ MessageEnds => LineTime = 1 /\ LineTime' = MessageTime
         /\ LineTime \in Nat /\ LineTime' \in Nat /\ MessageTime \in Nat
         /\ MessageTime >= MaxWait + 7 /\ MaxWait \in Nat
<1>1. Piped /\ KeepsUp /\ waits \in 0 .. MaxWait
  BY DEF HostInv, TypeOK
<1>2. /\ LineMoves
      /\ LineTime \in Nat /\ LineTime' \in Nat /\ LineTime <= MessageTime
      /\ LineIdle => LineTime = MessageTime /\ LineTime' = MessageTime
      /\ LineBegins => LineTime = MessageTime /\ LineTime' = MessageTime - 1
      /\ LineWaits \/ ByteEnds => LineTime >= 2 /\ LineTime' = LineTime - 1
      /\ MessageEnds => LineTime = 1 /\ LineTime' = MessageTime
      /\ ByteEnds \/ MessageEnds => LineTime <= MessageTime - RxTime
      /\ rxValid' <=> ByteEnds \/ MessageEnds
      /\ Last => toSend = << >>
  BY EdgeLine
<1>3. /\ MessageTime \in Nat /\ MessageTime >= 2 * RxTime + 1
      /\ RxTime \in Nat /\ RxTime >= 4 /\ MaxWait \in Nat /\ MaxWait + 2 <= RxTime
  BY Times, Constants
<1>4. ~MessageEnds => LineTime' >= LineTime - 1
  BY <1>2, <1>3 DEF LineMoves
<1>5. MessageTime >= MaxWait + 7
  BY <1>3
<1>6. Last => LineIdle \/ LineBegins
  <2> SUFFICES ASSUME Last  PROVE LineIdle \/ LineBegins
    OBVIOUS
  <2>1. toSend = << >> /\ rxWait = 0
    BY <1>2 DEF HostInv, Assembled
  <2>2. ~Received
    BY <2>1 DEF Received
  <2> QED  BY <2>1, <2>2, <1>2 DEF LineMoves, LineWaits, ByteEnds, MessageEnds
<1>7. Last => LineTime = MessageTime /\ LineTime' >= MessageTime - 1
  BY <1>2, <1>3, <1>6
<1>8. Last => ~ByteEnds /\ ~MessageEnds
  BY <1>2, <1>3, <1>7
<1>9. /\ cmdCmpl => LineTime >= MessageTime - 1
      /\ cmdFifoPush => LineTime >= MessageTime - 2
      /\ cmdFifo # << >> => LineTime >= MessageTime - 3 - waits
      /\ readDataValid => LineTime >= MessageTime - 4 - MaxWait
  BY <1>1 DEF Piped, KeepsUp
<1>10. cmdCmpl => ~ByteEnds /\ ~MessageEnds
  BY <1>2, <1>3, <1>9
<1>11. /\ cmdFifoPush => ~MessageEnds
       /\ cmdFifo # << >> => ~MessageEnds
       /\ readDataValid => ~MessageEnds
  BY <1>1, <1>2, <1>3, <1>5, <1>9
<1>12. cmdCmpl => LineTime' >= MessageTime - 2
  BY <1>2, <1>3, <1>4, <1>9, <1>10
<1>13. cmdFifoPush => LineTime' >= MessageTime - 3
  BY <1>2, <1>3, <1>4, <1>9, <1>11
<1>14. cmdFifo # << >> => LineTime' >= MessageTime - 4 - waits
  BY <1>1, <1>2, <1>3, <1>4, <1>9, <1>11
<1>15. readDataValid => LineTime' >= MessageTime - 5 - MaxWait
  BY <1>2, <1>3, <1>4, <1>9, <1>11
<1> QED  BY <1>1, <1>2, <1>3, <1>4, <1>5, <1>6, <1>7, <1>8, <1>10, <1>11, <1>12, <1>13, <1>14, <1>15

\* What the edge does to a command in cmd.
LEMMA CommandStep ==
  ASSUME HostInv, Edge
  PROVE  /\ Last => /\ cmdCmpl' /\ cmd' = message /\ UNCHANGED arriving
                    /\ cmd' \in Sessions[Shown']
                    /\ arriving' = IF cmd' \in Keys THEN << >> ELSE <<CommandOf(cmdType', cmd')>>
         /\ cmdCmpl' => Last
         /\ cmdFifoPush' <=> cmdCmpl /\ cmd \notin Keys
         /\ cmdCmpl /\ cmd \in Keys => arriving = << >>
         /\ cmdFifoPush' => /\ PipedCommand' = PipedCommand /\ PipedCommand \in Commands
                            /\ arriving = <<PipedCommand>>
                            /\ Shown # "none" /\ Shown' = Shown
<1>1. /\ cmdCmpl' = Last /\ LineMoves
      /\ Last => toSend = << >> /\ cmd' = message
      /\ ~rxValid => cmd' = cmd
  BY EdgeLine
<1>2. Last => /\ ~MessageEnds /\ message \in Sessions[Shown'] /\ session = After(Shown', message)
  BY Margins, SessionStep
<1>3. /\ Shown' = Settled /\ Settled \in SessionNames /\ Shown \in SessionNames
      /\ Shown' # "none" => cmdType' = (Shown' = "read")
      /\ Shown # "none" => cmdType = (Shown = "read")
      /\ Shown # "none" <=> writing \/ reading
      /\ cmdCmpl /\ cmd \notin Keys => cmdType' = cmdType /\ Shown' = Shown
  BY EdgeFlags
<1>4. ~MessageEnds => UNCHANGED arriving
  BY <1>1 DEF LineMoves, LineIdle, LineBegins, LineWaits, ByteEnds
<1>5. /\ Last => arriving = (IF message \in Keys THEN << >>
                             ELSE <<CommandOf(session = "read", message)>>)
      /\ cmdCmpl => /\ ~rxValid /\ cmd \in Sessions[Shown]
                    /\ arriving = (IF cmd \in Keys THEN << >> ELSE <<CommandOf(cmdType, cmd)>>)
      /\ cmdCmpl => ~cmdFifoPush /\ cmdFifo = << >>
  BY PipeApart DEF HostInv, Piped
<1>6. ASSUME Last, message \notin Keys
      PROVE  cmdType' = (session = "read")
  <2>1. Shown' # "none" /\ After(Shown', message) = Shown'
    BY <1>2, <1>3, <1>6, SessionMessage
  <2> QED  BY <2>1, <1>2, <1>3, <1>6
<1>7. Last => arriving' = IF cmd' \in Keys THEN << >> ELSE <<CommandOf(cmdType', cmd')>>
  BY <1>1, <1>2, <1>4, <1>5, <1>6
<1>8. ASSUME cmdCmpl
      PROVE  /\ cmd \notin Keys <=> cmd # END_KEY /\ Shown # "none"
             /\ cmd \notin Keys => CommandOf(Shown = "read", cmd) \in Commands /\ Shown # "none"
  BY <1>3, <1>5, <1>8, SessionMessage
<1>9. cmdFifoPush' <=> cmdCmpl /\ cmd \notin Keys
  <2>1. cmdFifoPush' <=> (cmdCmpl /\ Len(cmdFifo) < Depth /\ ~end_cmd /\ (writing \/ reading))
    BY DEF Edge, Clock, PushCommand
  <2>2. cmdCmpl => Len(cmdFifo) < Depth
    <3>1. Len(<< >>) = 0 /\ 0 < 2
      BY EmptySeq
    <3> QED  BY <3>1, <1>5, Zenon DEF Depth
  <2>3. end_cmd <=> cmd = END_KEY
    BY DEF end_cmd
  <2> QED  BY <2>1, <2>2, <2>3, <1>3, <1>8, Zenon
<1>10. ASSUME cmdFifoPush'
       PROVE  /\ PipedCommand' = PipedCommand /\ PipedCommand \in Commands
              /\ arriving = <<PipedCommand>> /\ Shown # "none" /\ Shown' = Shown
  <2>1. cmdCmpl /\ cmd \notin Keys
    BY <1>9, <1>10
  <2>2. cmdType' = cmdType /\ cmd' = cmd /\ Shown' = Shown /\ Shown # "none"
    BY <2>1, <1>1, <1>3, <1>5, <1>8
  <2>3. CommandOf(cmdType, cmd) \in Commands
    BY <2>1, <2>2, <1>3, <1>8
  <2> QED  BY <2>1, <2>2, <2>3, <1>5 DEF PipedCommand, CommandOf
<1>11. Last => cmd' \in Sessions[Shown'] /\ UNCHANGED arriving
  BY <1>1, <1>2, <1>4
<1>12. cmdCmpl /\ cmd \in Keys => arriving = << >>
  BY <1>5
<1> QED  BY <1>1, <1>7, <1>9, <1>10, <1>11, <1>12

LEMMA PipedStep ==
  ASSUME HostInv, Edge
  PROVE  /\ Piped' /\ waits' \in 0 .. MaxWait
         /\ cmdFifo' \in Seq(Commands) /\ cmdFifoPush' \in BOOLEAN
<1>1. /\ Piped /\ cmdFifo \in Seq(Commands) /\ waits \in 0 .. MaxWait
      /\ cmdFifoPush => PipedCommand \in Commands
  BY DEF HostInv, TypeOK, Piped, PipedCommand
<1>2. /\ Last' <=> MessageEnds
      /\ cmdCmpl' = Last /\ (~rxValid => cmd' = cmd)
  BY EdgeLine
<1>3. CommandOf(cmdType', cmd') = PipedCommand'
  BY DEF PipedCommand, CommandOf
<1>4. Last' => arriving' = (IF message' \in Keys THEN << >>
                            ELSE <<CommandOf(session' = "read", message')>>)
  BY <1>2 DEF MessageEnds
<1>5. cmdCmpl' =>
        /\ LineTime' >= MessageTime - 1 /\ ~rxValid' /\ ~cmdFifoPush'
        /\ cmd' \in Sessions[Shown']
        /\ arriving' = (IF cmd' \in Keys THEN << >> ELSE <<CommandOf(cmdType', cmd')>>)
  BY <1>2, Margins, CommandStep, PipeApart
<1>6. cmdFifoPush' =>
        /\ LineTime' >= MessageTime - 2 /\ ~rxValid'
        /\ CommandOf(cmdType', cmd') \in Commands
        /\ arriving' = <<CommandOf(cmdType', cmd')>>
  <2> SUFFICES ASSUME cmdFifoPush'
               PROVE  /\ LineTime' >= MessageTime - 2 /\ ~rxValid'
                      /\ CommandOf(cmdType', cmd') \in Commands
                      /\ arriving' = <<CommandOf(cmdType', cmd')>>
    OBVIOUS
  <2>1. /\ cmdCmpl
        /\ PipedCommand' = PipedCommand /\ PipedCommand \in Commands
        /\ arriving = <<PipedCommand>>
    BY CommandStep
  <2>2. LineTime' >= MessageTime - 2 /\ ~rxValid' /\ ~MessageEnds
    BY <2>1, Margins
  <2>3. UNCHANGED arriving
    BY <2>2, EdgeLine DEF LineMoves, LineIdle, LineBegins, LineWaits, ByteEnds
  <2> QED  BY <1>3, <2>1, <2>2, <2>3
<1>7. BusMoves
  BY EdgeBus
<1>8. /\ cmdFifo' = << >> \/ cmdFifo' = cmdFifo \/ (cmdFifo' = <<PipedCommand>> /\ cmdFifoPush)
      /\ cmdFifo' = << >> => waits' = 0
      /\ waits' = 0 \/ (waits < MaxWait /\ waits' = waits + 1 /\ cmdFifo # << >>)
  BY <1>7 DEF BusMoves, BusIdle, BusAccepts, BusWaits, BusReads, BusWrites
<1>9. cmdFifo' \in Seq(Commands) /\ Len(cmdFifo') <= 1
  <2>1. CASE cmdFifo' = << >>
    <3>1. Len(<< >>) = 0 /\ << >> \in Seq(Commands) /\ 0 <= 1
      BY EmptySeq
    <3> QED  BY <2>1, <3>1, Zenon
  <2>2. CASE cmdFifo' = cmdFifo
    BY <2>2, <1>1 DEF Piped
  <2>3. CASE cmdFifo' = <<PipedCommand>> /\ cmdFifoPush
    BY <2>3, <1>1
  <2> QED  BY <1>8, <2>1, <2>2, <2>3
<1>10. waits' \in 0 .. MaxWait
  BY <1>1, <1>8, Constants
<1>11. cmdFifo' # << >> =>
         /\ LineTime' >= MessageTime - 3 - waits'
         /\ ~Last' /\ ~cmdCmpl' /\ ~cmdFifoPush'
  <2> SUFFICES ASSUME cmdFifo' # << >>
               PROVE  /\ LineTime' >= MessageTime - 3 - waits'
                      /\ ~Last' /\ ~cmdCmpl' /\ ~cmdFifoPush'
    OBVIOUS
  <2>1. BusAccepts \/ BusWaits
    BY <1>7 DEF BusMoves, BusIdle, BusReads, BusWrites
  <2>2. CASE BusAccepts
    <3>1. cmdFifoPush /\ waits' = 0
      BY <2>2 DEF BusAccepts
    <3>2. LineTime' >= MessageTime - 3 /\ ~MessageEnds /\ MessageTime \in Nat
      BY <3>1, Margins
    <3>3. ~Last /\ ~cmdCmpl
      BY <3>1, PipeApart
    <3> QED  BY <3>1, <3>2, <3>3, <1>2, CommandStep
  <2>3. CASE BusWaits
    <3>1. cmdFifo # << >> /\ waits' = waits + 1
      BY <2>3 DEF BusWaits
    <3>2. LineTime' >= MessageTime - 4 - waits /\ ~MessageEnds /\ MessageTime \in Nat /\ waits \in Nat
      BY <3>1, <1>1, Margins
    <3>3. ~Last /\ ~cmdCmpl
      BY <3>1, PipeApart
    <3> QED  BY <3>1, <3>2, <3>3, <1>2, CommandStep
  <2> QED  BY <2>1, <2>2, <2>3
<1>12. Piped'
  BY <1>4, <1>5, <1>6, <1>8, <1>9, <1>11 DEF Piped
<1>13. cmdFifoPush' \in BOOLEAN
  BY DEF Edge, Clock, PushCommand
<1> QED  BY <1>9, <1>10, <1>12, <1>13

-----------------------------------------------------------------------------
\* The commands accepted and not performed

LEMMA TodoIs ==
  ASSUME HostInv
  PROVE  /\ cmdFifo # << >> => Todo = cmdFifo /\ ~InPipe
         /\ cmdFifo = << >> /\ InPipe => Todo = arriving
         /\ cmdFifo = << >> /\ ~InPipe => Todo = << >>
         /\ Todo = << >> \/ (Head(Todo) \in Commands /\ Todo = <<Head(Todo)>> /\ Tail(Todo) = << >>)
<1>1. /\ cmdFifo \in Seq(Commands) /\ Len(cmdFifo) <= 1
      /\ arriving \in Seq(Commands) /\ Len(arriving) <= 1
  BY DEF HostInv, TypeOK, Piped
<1>2. cmdFifo # << >> => ~InPipe
  BY DEF HostInv, Piped, InPipe, Last
<1>3. cmdFifo \o << >> = cmdFifo /\ << >> \o arriving = arriving /\ << >> \o << >> = << >>
  BY <1>1
<1>4. /\ cmdFifo # << >> => Todo = cmdFifo
      /\ cmdFifo = << >> /\ InPipe => Todo = arriving
      /\ cmdFifo = << >> /\ ~InPipe => Todo = << >>
  BY <1>2, <1>3, Zenon DEF Todo
<1>5. \/ cmdFifo = << >>
      \/ cmdFifo # << >> /\ Len(cmdFifo) = 1 /\ Tail(cmdFifo) = << >>
           /\ cmdFifo = <<Head(cmdFifo)>> /\ Head(cmdFifo) \in Commands
  BY <1>1, Single, Zenon
<1>6. \/ arriving = << >>
      \/ arriving # << >> /\ Len(arriving) = 1 /\ Tail(arriving) = << >>
           /\ arriving = <<Head(arriving)>> /\ Head(arriving) \in Commands
  BY <1>1, Single, Zenon
<1>7. Todo = << >> \/ (Head(Todo) \in Commands /\ Todo = <<Head(Todo)>> /\ Tail(Todo) = << >>)
  BY <1>4, <1>5, <1>6, Zenon
<1> QED  BY <1>2, <1>4, <1>7

LEMMA ArrivingStep ==
  ASSUME HostInv, Edge
  PROVE  /\ arriving' \in Seq(Commands) /\ Len(arriving') <= 1
         /\ ~MessageEnds => UNCHANGED arriving
         /\ toSend # << >> => message \in Sessions[Settled] /\ session = After(Settled, message)
         /\ LineWaits \/ ByteEnds \/ MessageEnds => toSend # << >>
<1>1. toSend # << >> => message \in Sessions[Settled] /\ session = After(Settled, message)
  BY DEF HostInv, SessionShown, Coming
<1>2. LineWaits \/ ByteEnds \/ MessageEnds => toSend # << >>
  <2>1. Received => toSend # << >>
    <3>1. Received => rxWait # 0
      BY DEF Received
    <3> QED  BY <3>1 DEF HostInv, Assembled
  <2> QED  BY <2>1 DEF LineWaits, ByteEnds, MessageEnds
<1>3. ~MessageEnds => UNCHANGED arriving
  BY EdgeLine DEF LineMoves, LineIdle, LineBegins, LineWaits, ByteEnds
<1>4. ASSUME MessageEnds
      PROVE  arriving' \in Seq(Commands) /\ Len(arriving') <= 1
  <2>1. /\ message \in Sessions[Settled] /\ session = After(Settled, message)
        /\ Settled \in SessionNames
    BY <1>1, <1>2, <1>4, EdgeFlags
  <2>2. message \notin Keys => CommandOf(session = "read", message) \in Commands
    BY <2>1, SessionMessage
  <2>3. \A c \in Commands : <<c>> \in Seq(Commands) /\ Len(<<c>>) = 1
    OBVIOUS
  <2>4. << >> \in Seq(Commands) /\ Len(<< >>) = 0 /\ 0 <= 1 /\ 1 <= 1
    BY EmptySeq
  <2>5. CASE message \in Keys
    <3>1. arriving' = << >>
      BY <2>5, <1>4 DEF MessageEnds
    <3> QED  BY <3>1, <2>4, Zenon
  <2>6. CASE message \notin Keys
    <3>1. arriving' = <<CommandOf(session = "read", message)>>
      BY <2>6, <1>4 DEF MessageEnds
    <3> QED  BY <3>1, <2>2, <2>3, <2>4, <2>6, Zenon
  <2> QED  BY <2>5, <2>6
<1>5. arriving \in Seq(Commands) /\ Len(arriving) <= 1
  BY DEF HostInv, TypeOK
<1>6. CASE ~MessageEnds
  <2>1. arriving' = arriving
    BY <1>3, <1>6
  <2> QED  BY <2>1, <1>1, <1>2, <1>3, <1>5, Zenon
<1> QED  BY <1>1, <1>2, <1>3, <1>4, <1>6

LEMMA TodoStep ==
  ASSUME HostInv, Edge
  PROVE  /\ BusReads \/ BusWrites =>
              cmdFifo # << >> /\ Todo = cmdFifo /\ Todo' = << >> /\ ~InPipe' /\ ~MessageEnds
         /\ MessageEnds =>
              BusIdle /\ Todo = << >> /\ Todo' = arriving' /\ ~readDataValid
         /\ ~(BusReads \/ BusWrites) /\ ~MessageEnds => Todo' = Todo
<1>1. /\ cmdFifo # << >> => Todo = cmdFifo /\ ~InPipe
      /\ cmdFifo = << >> /\ InPipe => Todo = arriving
      /\ cmdFifo = << >> /\ ~InPipe => Todo = << >>
  BY TodoIs
<1>2. /\ InPipe <=> Last \/ cmdCmpl \/ cmdFifoPush
      /\ InPipe' <=> Last' \/ cmdCmpl' \/ cmdFifoPush'
      /\ Todo' = cmdFifo' \o (IF InPipe' THEN arriving' ELSE << >>)
  BY DEF InPipe, Last, Todo
<1>3. /\ Last' <=> MessageEnds
      /\ cmdCmpl' = Last
      /\ ~MessageEnds => UNCHANGED arriving
  BY EdgeLine DEF LineMoves, LineIdle, LineBegins, LineWaits, ByteEnds
<1>4. cmdFifoPush' <=> cmdCmpl /\ cmd \notin Keys
  BY CommandStep
<1>5. BusMoves
  BY EdgeBus
<1>6. /\ cmdFifo # << >> => ~MessageEnds
      /\ cmdFifoPush => ~MessageEnds
      /\ cmdCmpl => ~MessageEnds
      /\ Last => ~MessageEnds
      /\ readDataValid => ~MessageEnds
  BY Margins
<1>7. arriving' \in Seq(Commands) /\ cmdFifo' \in Seq(Commands)
  BY ArrivingStep, PipedStep
<1>8. /\ cmdFifo' \o << >> = cmdFifo' /\ << >> \o arriving' = arriving' /\ << >> \o << >> = << >>
  BY <1>7
<1>9. ASSUME BusReads \/ BusWrites
      PROVE  cmdFifo # << >> /\ Todo = cmdFifo /\ Todo' = << >> /\ ~InPipe' /\ ~MessageEnds
  <2>1. cmdFifo # << >> /\ cmdFifo' = << >>
    BY <1>9 DEF BusReads, BusWrites
  <2>2. ~InPipe /\ ~MessageEnds /\ Todo = cmdFifo
    BY <2>1, <1>1, <1>6
  <2>3. ~InPipe'
    BY <2>2, <1>2, <1>3, <1>4
  <2> QED  BY <2>1, <2>2, <2>3, <1>2, <1>8
<1>10. ASSUME MessageEnds
       PROVE  BusIdle /\ Todo = << >> /\ Todo' = arriving' /\ ~readDataValid
  <2>1. ~InPipe /\ cmdFifo = << >> /\ ~cmdFifoPush /\ ~readDataValid
    BY <1>2, <1>6, <1>10
  <2>2. BusIdle
    BY <2>1, <1>5 DEF BusMoves, BusAccepts, BusWaits, BusReads, BusWrites
  <2>3. cmdFifo' = << >> /\ InPipe'
    BY <2>2, <1>2, <1>3, <1>10 DEF BusIdle
  <2> QED  BY <2>1, <2>2, <2>3, <1>1, <1>2, <1>8
<1>11. ASSUME ~(BusReads \/ BusWrites), ~MessageEnds
       PROVE  Todo' = Todo
  <2>1. UNCHANGED arriving /\ ~Last'
    BY <1>3, <1>11
  <2>2. CASE BusWaits
    <3>1. cmdFifo # << >> /\ cmdFifo' = cmdFifo
      BY <2>2 DEF BusWaits
    <3>2. ~InPipe /\ Todo = cmdFifo
      BY <3>1, <1>1
    <3>3. ~InPipe'
      BY <3>2, <2>1, <1>2, <1>3, <1>4
    <3> QED  BY <3>1, <3>2, <3>3, <1>2, <1>8
  <2>3. CASE BusAccepts
    <3>1. cmdFifo = << >> /\ cmdFifoPush /\ cmdFifo' = <<PipedCommand>>
      BY <2>3 DEF BusAccepts
    <3>2. ~Last /\ ~cmdCmpl
      BY <3>1, PipeApart
    <3>3. ~InPipe' /\ Todo = arriving
      BY <3>1, <3>2, <2>1, <1>1, <1>2, <1>3, <1>4
    <3>4. arriving = <<PipedCommand>>
      BY <3>1 DEF HostInv, Piped, PipedCommand
    <3> QED  BY <3>1, <3>3, <3>4, <1>2, <1>8
  <2>4. CASE BusIdle
    <3>1. cmdFifo = << >> /\ ~cmdFifoPush /\ cmdFifo' = << >>
      BY <2>4 DEF BusIdle
    <3>2. CASE Last
      <4>1. InPipe /\ InPipe'
        BY <3>2, <1>2, <1>3
      <4> QED  BY <3>1, <4>1, <2>1, <1>1, <1>2, <1>8
    <3>3. CASE cmdCmpl /\ cmd \notin Keys
      <4>1. InPipe /\ InPipe'
        BY <3>3, <1>2, <1>4
      <4> QED  BY <3>1, <4>1, <2>1, <1>1, <1>2, <1>8
    <3>4. CASE cmdCmpl /\ cmd \in Keys
      <4>1. InPipe /\ arriving = << >>
        BY <3>4, <1>2, CommandStep
      <4>2. Todo = << >>
        BY <3>1, <4>1, <1>1
      <4>3. Todo' = << >> \o << >>
        BY <3>1, <4>1, <2>1, <1>2
      <4> QED  BY <4>2, <4>3, <1>8
    <3>5. CASE ~Last /\ ~cmdCmpl
      <4>1. ~InPipe /\ ~InPipe'
        BY <3>1, <3>5, <2>1, <1>2, <1>3, <1>4
      <4> QED  BY <3>1, <4>1, <1>1, <1>2, <1>8
    <3> QED  BY <3>2, <3>3, <3>4, <3>5
  <2> QED  BY <2>2, <2>3, <2>4, <1>5, <1>11 DEF BusMoves
<1> QED  BY <1>9, <1>10, <1>11

-----------------------------------------------------------------------------
\* The reset of the core, and the memory the PC wants

LEMMA HeldStep ==
  ASSUME HostInv, Edge
  PROVE  Held' /\ coreRst' \in BOOLEAN
<1>1. Held /\ SessionShown
  BY DEF HostInv
<1>2. /\ Shown' = Settled /\ Shown \in SessionNames /\ Settled \in SessionNames
      /\ Shown # "none" <=> writing \/ reading
  BY EdgeFlags
<1>3. (writing \/ reading => coreRst') /\ coreRst' \in BOOLEAN
  BY DEF Edge, Clock, Resets
<1>4. Shown # "none" => coreRst'
  BY <1>2, <1>3
<1>5. ~cmdCmpl => Settled = Shown
  BY DEF Settled
<1>6. cmdFifoPush' => Shown # "none" /\ Shown' = Shown
  BY CommandStep
<1>7. ASSUME cmdFifo' # << >>
      PROVE  Shown # "none" /\ Shown' = Shown
  <2>1. cmdFifo # << >> \/ cmdFifoPush
    BY <1>7, EdgeBus DEF BusMoves, BusIdle, BusAccepts, BusWaits, BusReads, BusWrites
  <2>2. Shown # "none"
    BY <2>1, <1>1 DEF Held
  <2>3. ~cmdCmpl
    BY <2>1, PipeApart
  <2> QED  BY <2>2, <2>3, <1>2, <1>5
<1>8. ASSUME cmdCmpl', cmd' \notin Keys
      PROVE  Shown # "none"
  <2>1. Last /\ cmd' \in Sessions[Shown']
    BY <1>8, CommandStep
  <2>2. Shown' = Shown
    BY <2>1, <1>2, PipeApart
  <2> QED  BY <2>1, <2>2, <1>2, <1>8, SessionMessage
<1>9. ASSUME Coming', Len(toSend') < 2 * W, message' \notin Keys
      PROVE  Shown # "none"
  <2>1. /\ LineMoves /\ (Last' <=> MessageEnds)
        /\ LineBegins => Len(toSend') = 2 * W
        /\ W \in Nat
    BY EdgeLine, Constants
  <2>2. ~LineBegins
    BY <2>1, <1>9
  <2>3. ~LineIdle
    BY <2>1, <1>9 DEF LineIdle, Coming, MessageEnds
  <2>4. LineWaits \/ ByteEnds \/ MessageEnds
    BY <2>1, <2>2, <2>3 DEF LineMoves
  <2>5. message' = message /\ toSend # << >> /\ message \in Sessions[Settled]
    BY <2>4, ArrivingStep DEF LineWaits, ByteEnds, MessageEnds
  <2>6. Settled # "none"
    BY <2>5, <1>2, <1>9, SessionMessage
  <2>7. ~cmdCmpl
    <3> SUFFICES ASSUME cmdCmpl  PROVE FALSE
      OBVIOUS
    <3>1. ~MessageEnds /\ ~rxValid'
      BY Margins
    <3>2. LineWaits
      BY <3>1, <2>4, EdgeLine
    <3>3. Len(toSend) < 2 * W
      BY <3>2, <1>9 DEF LineWaits
    <3>4. LineTime <= MessageTime - 1 - RxTime /\ RxTime \in Nat /\ RxTime >= 4
      BY <3>3, <2>5, EdgeLine, Constants
    <3>5. LineTime >= MessageTime - 1
      BY DEF HostInv, Piped
    <3> QED  BY <3>4, <3>5, Margins
  <2> QED  BY <2>6, <2>7, <1>5
<1> QED  BY <1>2, <1>3, <1>4, <1>6, <1>7, <1>8, <1>9, Zenon DEF Held

LEMMA PerformedIs ==
  ASSUME HostInv
  PROVE  Performed \in [Address -> Word]
<1>1. memory \in [Address -> Word]
  BY DEF HostInv, TypeOK
<1>2. CASE Todo # << >> /\ ~Head(Todo).read
  <2>1. Head(Todo) \in Commands
    BY <1>2, TodoIs
  <2>2. Head(Todo).address \in Address /\ Head(Todo).word \in Word
    BY <2>1, Constants DEF Address
  <2> QED  BY <2>2, <1>1, <1>2 DEF Performed
<1> QED  BY <1>1, <1>2 DEF Performed

LEMMA ImageStep ==
  ASSUME HostInv, Edge
  PROVE  /\ ImageIs'
         /\ memory' \in [Address -> Word] /\ image' \in [Address -> Word]
         /\ cut' \subseteq Address
<1>1. /\ ImageIs /\ memory \in [Address -> Word] /\ image \in [Address -> Word]
      /\ cut \subseteq Address /\ session \in SessionNames
  BY DEF HostInv, TypeOK, SessionNames
<1>2. BusMoves /\ LineMoves
  BY EdgeBus, EdgeLine
<1>3. /\ BusReads \/ BusWrites =>
           cmdFifo # << >> /\ Todo = cmdFifo /\ Todo' = << >> /\ ~MessageEnds
      /\ MessageEnds => BusIdle /\ Todo = << >> /\ Todo' = arriving'
      /\ ~(BusReads \/ BusWrites) /\ ~MessageEnds => Todo' = Todo
  BY TodoStep
<1>4. ~BusWrites => memory' = memory
  BY <1>2 DEF BusMoves, BusIdle, BusAccepts, BusWaits, BusReads
<1>5. Performed' = IF Todo' # << >> /\ ~Head(Todo').read
                   THEN [memory' EXCEPT ![Head(Todo').address] = Head(Todo').word]
                   ELSE memory'
  BY DEF Performed
<1>6. ~MessageEnds => Performed' = Performed
  <2> SUFFICES ASSUME ~MessageEnds  PROVE Performed' = Performed
    OBVIOUS
  <2>1. CASE BusReads
    BY <2>1, <1>3, <1>5 DEF BusReads, Performed
  <2>2. CASE BusWrites
    BY <2>2, <1>3, <1>5 DEF BusWrites, Performed
  <2>3. CASE ~BusReads /\ ~BusWrites
    <3>1. Todo' = Todo /\ memory' = memory
      BY <2>3, <1>3, <1>4
    <3> QED  BY <3>1, <1>5 DEF Performed
  <2> QED  BY <2>1, <2>2, <2>3
<1>7. memory' \in [Address -> Word]
  <2>1. CASE BusWrites
    <3>1. Todo = cmdFifo /\ cmdFifo # << >>
      BY <2>1, <1>3
    <3>2. Head(cmdFifo) \in Commands
      BY <3>1, TodoIs
    <3>3. Head(cmdFifo).address \in Address /\ Head(cmdFifo).word \in Word
      BY <3>2, Constants DEF Address
    <3> QED  BY <2>1, <3>3, <1>1 DEF BusWrites
  <2> QED  BY <2>1, <1>1, <1>4
<1>8. Completed' = IF toSend' # << >> /\ session' = "write" /\ message' \notin Keys
                   THEN [Performed' EXCEPT ![SubSeq(message', 1, W)] = SubSeq(message', W + 1, 2 * W)]
                   ELSE Performed'
  BY DEF Completed
<1>9. ASSUME UNCHANGED <<image, cut>>, Completed' = Completed
      PROVE  ImageIs' /\ image' \in [Address -> Word] /\ cut' \subseteq Address
  BY <1>1, <1>9 DEF ImageIs
<1>10. CASE LineIdle
  <2>1. toSend = << >> /\ toSend' = << >> /\ UNCHANGED <<image, cut>> /\ ~MessageEnds
    BY <1>10 DEF LineIdle, MessageEnds
  <2>2. Completed' = Completed
    BY <2>1, <1>6, <1>8 DEF Completed
  <2> QED  BY <2>1, <2>2, <1>7, <1>9
<1>11. CASE LineBegins
  <2> DEFINE addr == SubSeq(message', 1, W)
             word == SubSeq(message', W + 1, 2 * W)
  <2>1. /\ toSend = << >> /\ ~MessageEnds /\ message' \in Sessions[session]
        /\ session' = After(session, message')
        /\ IF session = "write" /\ message' # END_KEY
           THEN image' = [image EXCEPT ![addr] = word] /\ cut' = cut \ {addr}
           ELSE UNCHANGED <<image, cut>>
    BY <1>11 DEF LineBegins, MessageEnds
  <2>2. toSend' # << >>
    BY <1>11, EdgeLine
  <2>3. session = "write" /\ message' # END_KEY <=> session' = "write" /\ message' \notin Keys
    BY <2>1, <1>1, SessionMessage
  <2>4. Completed = Performed /\ Performed' = Performed
    BY <2>1, <1>6 DEF Completed
  <2>5. CASE ~(session = "write" /\ message' # END_KEY)
    <3>1. UNCHANGED <<image, cut>>
      BY <2>1, <2>5
    <3>2. Completed' = Completed
      BY <2>3, <2>4, <2>5, <1>8
    <3> QED  BY <3>1, <3>2, <1>7, <1>9
  <2>6. CASE session = "write" /\ message' # END_KEY
    <3>1. PICK c \in Commands : message' = Message(c)
      BY <2>1, <2>6 DEF Sessions
    <3>2. c.address \in Address /\ c.word \in Word
      BY Constants DEF Address
    <3>3. addr \in Address /\ word \in Word
      BY <3>1, <3>2, MessageOf
    <3>4. image' = [image EXCEPT ![addr] = word] /\ cut' = cut \ {addr}
      BY <2>1, <2>6
    <3>5. Completed' = [Performed EXCEPT ![addr] = word]
      BY <2>2, <2>3, <2>4, <2>6, <1>8
    <3>6. Performed \in [Address -> Word]
      BY PerformedIs
    <3> HIDE DEF addr, word
    <3>7. ASSUME NEW a \in Address \ cut'
          PROVE  image'[a] = Completed'[a]
      <4>1. CASE a = addr
        BY <4>1, <3>3, <3>4, <3>5, <3>6, <1>1
      <4>2. CASE a # addr
        <5>1. a \in Address \ cut
          BY <4>2, <3>4, <3>7
        <5>2. image[a] = Performed[a]
          BY <5>1, <2>4, <1>1 DEF ImageIs
        <5> QED  BY <5>1, <5>2, <4>2, <3>4, <3>5, <3>6, <1>1
      <4> QED  BY <4>1, <4>2
    <3>8. ImageIs'
      BY <3>7 DEF ImageIs
    <3> QED  BY <3>3, <3>4, <3>8, <1>1, <1>7
  <2> QED  BY <2>5, <2>6
<1>12. CASE LineWaits \/ ByteEnds
  <2>1. /\ UNCHANGED <<session, message, image, cut>> /\ ~MessageEnds
        /\ toSend # << >> /\ toSend' # << >>
    <3>1. LineWaits => toSend' = toSend /\ UNCHANGED <<session, message, image, cut>>
      BY DEF LineWaits
    <3>2. ByteEnds => toSend' # << >> /\ UNCHANGED <<session, message, image, cut>>
      BY EdgeLine DEF ByteEnds
    <3>3. toSend # << >>
      BY <1>12, ArrivingStep
    <3>4. toSend' # << >>
      BY <1>12, <3>1, <3>2, <3>3
    <3> QED  BY <1>12, <3>1, <3>2, <3>3, <3>4 DEF MessageEnds
  <2>2. Completed' = Completed
    BY <2>1, <1>6, <1>8 DEF Completed
  <2> QED  BY <2>1, <2>2, <1>7, <1>9
<1>13. CASE MessageEnds
  <2>1. /\ toSend # << >> /\ toSend' = << >> /\ UNCHANGED <<session, message, image, cut>>
        /\ arriving' = IF message \in Keys THEN << >>
                       ELSE <<CommandOf(session = "read", message)>>
    BY <1>13, ArrivingStep DEF MessageEnds
  <2>2. Todo = << >> /\ Todo' = arriving' /\ memory' = memory
    BY <1>3, <1>13 DEF BusIdle
  <2>3. Performed = memory
    BY <2>2 DEF Performed
  <2>4. CASE message \in Keys
    <3>1. Todo' = << >>
      BY <2>1, <2>2, <2>4
    <3>2. Completed' = Completed
      BY <3>1, <2>1, <2>2, <2>3, <2>4, <1>5, <1>8 DEF Completed
    <3> QED  BY <3>2, <2>1, <1>7, <1>9
  <2>5. CASE message \notin Keys
    <3>1. message \in Sessions[Settled] /\ session = After(Settled, message) /\ Settled \in SessionNames
      BY <2>1, ArrivingStep, EdgeFlags
    <3>2. session \in {"write", "read"}
      BY <3>1, <2>5, <1>1, SessionMessage DEF SessionNames
    <3> DEFINE c == CommandOf(session = "read", message)
    <3>3. c.read = (session = "read") /\ c.address = SubSeq(message, 1, W) /\ c.word = SubSeq(message, W + 1, 2 * W)
      BY DEF CommandOf
    <3>4. Todo' = <<c>> /\ Head(<<c>>) = c /\ <<c>> # << >>
      BY <2>1, <2>2, <2>5
    <3> HIDE DEF c
    <3>5. Performed' = IF session = "write"
                       THEN [memory EXCEPT ![SubSeq(message, 1, W)] = SubSeq(message, W + 1, 2 * W)]
                       ELSE memory
      BY <3>2, <3>3, <3>4, <2>2, <1>5
    <3>6. Completed' = Completed
      BY <3>5, <2>1, <2>3, <2>5, <1>8 DEF Completed
    <3> QED  BY <3>6, <2>1, <1>7, <1>9
  <2> QED  BY <2>4, <2>5
<1> QED  BY <1>2, <1>10, <1>11, <1>12, <1>13 DEF LineMoves

-----------------------------------------------------------------------------
\* The sender

Pushed == readFifo' = IF readDataValid THEN <<busData>> ELSE readFifo
SenderIdle ==
  /\ sendState = IDLE /\ readFifo = << >> /\ sendState' = IDLE
  /\ txBusy = 0 /\ txBusy' = 0 /\ txd' = NoByte /\ UNCHANGED readData /\ Pushed
SenderPops ==
  /\ sendState = IDLE /\ readFifo # << >> /\ ~readDataValid /\ sendState' = START
  /\ txBusy = 0 /\ txBusy' = 0 /\ txd' = NoByte
  /\ readData' = Head(readFifo) /\ readFifo' = << >>
SenderSends ==
  /\ sendState \in 1 .. W /\ txBusy = 0 /\ sendState' = sendState + 1
  /\ txBusy' = TxTime /\ txd' = readData[sendState] /\ UNCHANGED readData /\ Pushed
SenderWaits ==
  /\ sendState \in 2 .. W + 1 /\ txBusy > 0 /\ UNCHANGED sendState
  /\ txBusy' = txBusy - 1 /\ txd' = NoByte /\ UNCHANGED readData /\ Pushed
SenderEnds ==
  /\ sendState = W + 1 /\ txBusy = 0 /\ sendState' = IDLE
  /\ txBusy' = 0 /\ txd' = NoByte /\ UNCHANGED readData /\ Pushed
SenderMoves == SenderIdle \/ SenderPops \/ SenderSends \/ SenderWaits \/ SenderEnds

LEMMA EdgeSender ==
  ASSUME HostInv, Edge
  PROVE  SenderMoves
<1>1. /\ readFifo \in Seq(Word) /\ sendState \in 0 .. W + 1 /\ txBusy \in 0 .. TxTime
      /\ readDataValid \in BOOLEAN /\ busData \in Word
      /\ W \in Nat /\ W >= 1 /\ TxTime \in Nat
  BY Constants DEF HostInv, TypeOK, IDLE, DATA
<1>2. /\ sendState <= 1 => txBusy = 0
      /\ Len(readFifo) <= 1 /\ (readDataValid => readFifo = << >>)
  BY DEF HostInv, KeepsUp, START
<1>3. \/ readFifo = << >>
      \/ readFifo # << >> /\ Len(readFifo) = 1 /\ Tail(readFifo) = << >>
           /\ readFifo = <<Head(readFifo)>> /\ Head(readFifo) \in Word
  BY <1>1, <1>2, Single, Zenon
<1>4. /\ readFifo \o << >> = readFifo /\ << >> \o << >> = << >> /\ << >> \o <<busData>> = <<busData>>
  BY <1>1
<1>5. readDataValid => Len(readFifo) < Depth
  <2>1. Len(<< >>) = 0 /\ 0 < 2
    BY EmptySeq
  <2> QED  BY <2>1, <1>2, Zenon DEF Depth
<1>6. /\ readFifo' = Fifo(readFifo, readDataValid, busData, read_fifo_pop)
      /\ readData' = IF read_fifo_pop THEN Head(readFifo) ELSE readData
      /\ sendState' =
           IF sendState = 0 THEN (IF read_fifo_pop THEN 1 ELSE 0)
           ELSE IF sendState > 1 /\ txBusy # 0 THEN sendState
           ELSE IF sendState = W + 1 THEN 0 ELSE sendState + 1
  BY DEF Edge, Clock, Sender, IDLE, START, DATA, tx_ready
<1>7. /\ read_fifo_pop <=> sendState = 0 /\ txBusy = 0 /\ readFifo # << >>
      /\ tx_valid <=> sendState = 1 \/ (sendState \in 2 .. W /\ txBusy = 0)
      /\ txBusy' = IF tx_valid /\ txBusy = 0 THEN TxTime ELSE IF txBusy > 0 THEN txBusy - 1 ELSE 0
      /\ txd' = IF tx_valid /\ txBusy = 0 THEN readData[sendState] ELSE NoByte
  <2>1. START = 1 /\ START + 1 .. DATA - 1 = 2 .. W
    BY <1>1 DEF START, DATA
  <2>2. read_fifo_pop <=> sendState = 0 /\ txBusy = 0 /\ readFifo # << >>
    BY Zenon DEF read_fifo_pop, tx_ready, IDLE
  <2>3. tx_valid <=> sendState = 1 \/ (sendState \in 2 .. W /\ txBusy = 0)
    BY <2>1, Zenon DEF tx_valid, tx_ready
  <2>4. uart_tx
    BY DEF Edge, Clock
  <2> QED  BY <2>2, <2>3, <2>4, Zenon DEF uart_tx, tx_data, tx_ready
<1>8. ASSUME ~read_fifo_pop
      PROVE  Pushed
  BY <1>2, <1>4, <1>5, <1>6, <1>8 DEF Fifo, Pushed
<1>9. CASE sendState = 0 /\ readFifo = << >>
  <2>1. ~read_fifo_pop /\ ~tx_valid /\ txBusy = 0
    BY <1>1, <1>2, <1>7, <1>9
  <2> QED  BY <2>1, <1>6, <1>7, <1>8, <1>9 DEF SenderMoves, SenderIdle, IDLE
<1>10. CASE sendState = 0 /\ readFifo # << >>
  <2>1. read_fifo_pop /\ ~tx_valid /\ txBusy = 0 /\ ~readDataValid
    BY <1>1, <1>2, <1>7, <1>10
  <2>2. readFifo' = << >> \o << >>
    BY <2>1, <1>3, <1>6, <1>10 DEF Fifo
  <2> QED  BY <2>1, <2>2, <1>4, <1>6, <1>7, <1>10 DEF SenderMoves, SenderPops, IDLE, START
<1>11. CASE sendState \in 1 .. W /\ txBusy = 0
  <2>1. ~read_fifo_pop /\ tx_valid /\ sendState # 0 /\ sendState # W + 1
    BY <1>1, <1>7, <1>11
  <2> QED  BY <2>1, <1>6, <1>7, <1>8, <1>11 DEF SenderMoves, SenderSends
<1>12. CASE sendState # 0 /\ txBusy # 0
  <2>1. ~read_fifo_pop /\ sendState \in 2 .. W + 1 /\ txBusy > 0
    BY <1>1, <1>2, <1>7, <1>12
  <2> QED  BY <2>1, <1>6, <1>7, <1>8, <1>12 DEF SenderMoves, SenderWaits
<1>13. CASE sendState = W + 1 /\ txBusy = 0
  <2>1. ~read_fifo_pop /\ ~tx_valid /\ sendState # 0
    BY <1>1, <1>7, <1>13
  <2> QED  BY <2>1, <1>6, <1>7, <1>8, <1>13 DEF SenderMoves, SenderEnds, IDLE
<1>14. sendState = 0 \/ sendState \in 1 .. W \/ sendState = W + 1
  BY <1>1
<1> QED  BY <1>9, <1>10, <1>11, <1>12, <1>13, <1>14

\* The time an answer still takes in the sender.
Answering == Sending + Once(readFifo # << >>)

LEMMA SendingTimes ==
  ASSUME HostInv
  PROVE  /\ Sending \in Nat
         /\ sendState = 0 => Sending = 0
         /\ sendState # 0 => Sending >= 1
         /\ sendState # 0 => Sending = txBusy + 1 + (W + 1 - sendState) * (TxTime + 1)
<1>1. sendState \in 0 .. W + 1 /\ txBusy \in 0 .. TxTime /\ W \in Nat /\ TxTime \in Nat
  BY Constants DEF HostInv, TypeOK, IDLE, DATA
<1>2. W + 1 - sendState \in Nat /\ TxTime + 1 \in Nat
  BY <1>1
<1>3. (W + 1 - sendState) * (TxTime + 1) \in Nat
  BY <1>2
<1>4. Sending = IF sendState = 0 THEN 0 ELSE txBusy + 1 + (W + 1 - sendState) * (TxTime + 1)
  BY DEF Sending, IDLE
<1> QED  BY <1>1, <1>3, <1>4

\* Every cycle of the sender is one less of the time that is left.
LEMMA SenderStep ==
  ASSUME HostInv, Edge
  PROVE  /\ Answering \in Nat
         /\ sendState' \in IDLE .. DATA /\ txBusy' \in 0 .. TxTime
         /\ sendState' <= START => txBusy' = 0
         /\ readFifo' \in Seq(Word) /\ Len(readFifo') <= 1
         /\ readData' \in Word /\ txd' \in Byte \cup {NoByte}
         /\ Answering' = (IF Answering = 0 THEN 0 ELSE Answering - 1) + Once(readDataValid)
<1> DEFINE left(s) == (W + 1 - s) * (TxTime + 1)
<1>1. /\ readFifo \in Seq(Word) /\ sendState \in 0 .. W + 1 /\ txBusy \in 0 .. TxTime
      /\ readDataValid \in BOOLEAN /\ busData \in Word /\ readData \in Word
      /\ W \in Nat /\ W >= 1 /\ TxTime \in Nat
      /\ Len(readFifo) <= 1 /\ (readDataValid => readFifo = << >>)
  BY Constants DEF HostInv, TypeOK, KeepsUp, IDLE, DATA
<1>2. /\ AnswerTime \in Nat /\ AnswerTime = W * (TxTime + 1) + 2
  BY Times DEF AnswerTime
<1>3. /\ Sending \in Nat
      /\ sendState = 0 => Sending = 0
      /\ sendState # 0 => Sending >= 1 /\ Sending = txBusy + 1 + left(sendState)
  BY SendingTimes
<1>4. /\ Once(TRUE) = AnswerTime /\ Once(FALSE) = 0
  BY DEF Once
<1>5. Sending' = IF sendState' = 0 THEN 0 ELSE txBusy' + 1 + left(sendState')
  BY DEF Sending, IDLE
<1>6. Answering \in Nat /\ Answering' = Sending' + Once(readFifo' # << >>)
  BY <1>2, <1>3, <1>4 DEF Answering, Once
<1>7. /\ left(1) = W * (TxTime + 1) /\ left(W + 1) = 0
      /\ \A s \in 1 .. W : left(s) = left(s + 1) + (TxTime + 1) /\ left(s) \in Int
  <2>1. W + 1 - 1 = W /\ W + 1 - (W + 1) = 0 /\ 0 * (TxTime + 1) = 0
    BY <1>1
  <2>2. ASSUME NEW s \in 1 .. W
        PROVE  left(s) = left(s + 1) + (TxTime + 1) /\ left(s) \in Int
    <3> DEFINE r == W + 1 - (s + 1)
    <3>1. r \in Int /\ W + 1 - s = r + 1
      BY <1>1
    <3>2. (r + 1) * (TxTime + 1) = r * (TxTime + 1) + (TxTime + 1)
      <4> HIDE DEF r
      <4> QED  BY <3>1, <1>1
    <3>3. (r + 1) * (TxTime + 1) \in Int
      <4> HIDE DEF r
      <4> QED  BY <3>1, <1>1
    <3> QED  BY <3>1, <3>2, <3>3
  <2> QED  BY <2>1, <2>2
<1>8. left(1) \in Int
  BY <1>1, <1>7
<1> HIDE DEF left
<1>9. \A w \in Word : /\ <<w>> \in Seq(Word) /\ Len(<<w>>) <= 1 /\ <<w>> # << >>
  OBVIOUS
<1>10. << >> \in Seq(Word) /\ Len(<< >>) <= 1
  <2>1. << >> \in Seq(Word) /\ Len(<< >>) = 0 /\ 0 <= 1
    BY EmptySeq
  <2> QED  BY <2>1, Zenon
<1>11. ASSUME Pushed
       PROVE  /\ readFifo' \in Seq(Word) /\ Len(readFifo') <= 1
              /\ Once(readFifo' # << >>) = Once(readFifo # << >>) + Once(readDataValid)
  <2>1. CASE readDataValid
    <3>1. readFifo' = <<busData>> /\ readFifo = << >>
      BY <2>1, <1>1, <1>11 DEF Pushed
    <3>2. Once(readFifo' # << >>) = AnswerTime /\ Once(readFifo # << >>) = 0 /\ Once(readDataValid) = AnswerTime
      BY <2>1, <3>1, <1>1, <1>9 DEF Once
    <3> QED  BY <3>1, <3>2, <1>1, <1>2, <1>9
  <2>2. CASE ~readDataValid
    <3>1. readFifo' = readFifo
      BY <2>2, <1>11 DEF Pushed
    <3>2. Once(readFifo' # << >>) = Once(readFifo # << >>) /\ Once(readDataValid) = 0
          /\ Once(readFifo # << >>) \in Nat
      BY <2>2, <3>1, <1>2 DEF Once
    <3>3. Once(readFifo' # << >>) = Once(readFifo # << >>) + Once(readDataValid)
      BY <3>2
    <3> QED  BY <3>1, <3>3, <1>1
  <2> QED  BY <2>1, <2>2
<1>12. Once(readFifo # << >>) \in Nat /\ Once(readDataValid) \in Nat
  BY <1>2 DEF Once
<1>13. SenderMoves
  BY EdgeSender
<1>14. CASE SenderIdle
  <2>1. Sending = 0 /\ Sending' = 0 /\ Once(readFifo # << >>) = 0
    BY <1>14, <1>3, <1>5 DEF SenderIdle, IDLE, Once
  <2>2. Pushed
    BY <1>14 DEF SenderIdle
  <2>3. Answering = 0 /\ Answering' = Once(readDataValid)
    BY <2>1, <2>2, <1>6, <1>11, <1>12 DEF Answering
  <2> QED  BY <2>2, <2>3, <1>1, <1>6, <1>11, <1>12, <1>14 DEF SenderIdle, IDLE, START, DATA
<1>15. CASE SenderPops
  <2>1. Sending = 0 /\ Sending' = 0 + 1 + left(1) /\ Once(readFifo # << >>) = AnswerTime
    BY <1>15, <1>3, <1>5 DEF SenderPops, IDLE, START, Once
  <2>2. readFifo' = << >> /\ Once(readDataValid) = 0 /\ Once(readFifo' # << >>) = 0
    BY <1>15 DEF SenderPops, Once
  <2>3. Answering = AnswerTime /\ Answering' = AnswerTime - 1 /\ AnswerTime # 0
    BY <2>1, <2>2, <1>2, <1>6, <1>7, <1>8, Times DEF Answering
  <2>4. Head(readFifo) \in Word
    BY <1>1, <1>15, Single DEF SenderPops
  <2> QED  BY <2>2, <2>3, <2>4, <1>1, <1>2, <1>6, <1>10, <1>15 DEF SenderPops, IDLE, START, DATA
<1>16. ASSUME Pushed, Sending' = Sending - 1, sendState # 0
       PROVE  /\ Answering' = (IF Answering = 0 THEN 0 ELSE Answering - 1) + Once(readDataValid)
              /\ readFifo' \in Seq(Word) /\ Len(readFifo') <= 1
  <2>1. Answering = Sending + Once(readFifo # << >>) /\ Sending >= 1
    BY <1>3, <1>16 DEF Answering
  <2>2. Once(readFifo' # << >>) = Once(readFifo # << >>) + Once(readDataValid)
    BY <1>11, <1>16
  <2>3. Answering # 0
    BY <2>1, <1>3, <1>12
  <2>4. Answering' = Answering - 1 + Once(readDataValid)
    BY <2>1, <2>2, <1>3, <1>6, <1>12, <1>16
  <2> QED  BY <2>3, <2>4, <1>11, <1>16
<1>17. CASE SenderSends
  <2>1. sendState \in 1 .. W /\ sendState' = sendState + 1 /\ txBusy = 0 /\ txBusy' = TxTime
    BY <1>17 DEF SenderSends
  <2>2. Sending = 0 + 1 + left(sendState) /\ Sending' = TxTime + 1 + left(sendState + 1)
    BY <2>1, <1>1, <1>3, <1>5
  <2>3. left(sendState) = left(sendState + 1) + (TxTime + 1) /\ left(sendState) \in Int
    BY <2>1, <1>7
  <2>4. Sending' = Sending - 1
    <3>1. left(sendState + 1) = left(sendState) - (TxTime + 1)
      <4>1. left(sendState + 1) \in Int
        BY <2>1, <1>1 DEF left
      <4> QED  BY <4>1, <2>3, <1>1
    <3> QED  BY <2>2, <2>3, <3>1, <1>1
  <2>5. txd' \in Byte
    BY <2>1, <1>1, <1>17 DEF SenderSends, Word
  <2>6. Pushed /\ readData' = readData
    BY <1>17 DEF SenderSends
  <2> QED  BY <2>1, <2>4, <2>5, <2>6, <1>1, <1>6, <1>16 DEF IDLE, START, DATA
<1>18. CASE SenderWaits
  <2>1. sendState \in 2 .. W + 1 /\ sendState' = sendState /\ txBusy > 0 /\ txBusy' = txBusy - 1
    BY <1>18 DEF SenderWaits
  <2>2. left(sendState) \in Int
    BY <1>1 DEF left
  <2>3. Sending' = Sending - 1
    BY <2>1, <2>2, <1>1, <1>3, <1>5
  <2>4. Pushed /\ readData' = readData /\ txd' = NoByte
    BY <1>18 DEF SenderWaits
  <2> QED  BY <2>1, <2>3, <2>4, <1>1, <1>6, <1>16 DEF IDLE, START, DATA
<1>19. CASE SenderEnds
  <2>1. sendState = W + 1 /\ sendState' = 0 /\ txBusy = 0 /\ txBusy' = 0
    BY <1>19 DEF SenderEnds, IDLE
  <2>2. Sending = 1 /\ Sending' = 0
    BY <2>1, <1>1, <1>3, <1>5, <1>7
  <2>3. Pushed /\ readData' = readData /\ txd' = NoByte
    BY <1>19 DEF SenderEnds
  <2> QED  BY <2>1, <2>2, <2>3, <1>1, <1>6, <1>16 DEF IDLE, START, DATA
<1> QED  BY <1>13, <1>14, <1>15, <1>17, <1>18, <1>19 DEF SenderMoves

-----------------------------------------------------------------------------
\* The answers keep up with the line

\* A word that was read, or is asked for, is one answer of work.
LEMMA AskedStep ==
  ASSUME HostInv, Edge
  PROVE  /\ readDataValid => ~Asked
         /\ readDataValid' <=> BusReads
         /\ BusReads => Asked /\ ~readDataValid /\ ~Asked' /\ ~InPipe'
         /\ ~BusReads /\ ~MessageEnds => (Asked' <=> Asked)
         /\ MessageEnds => ~Asked /\ ~readDataValid
         /\ Asked => LineTime' >= MessageTime - 4 - MaxWait
<1>1. /\ BusReads \/ BusWrites =>
           cmdFifo # << >> /\ Todo = cmdFifo /\ Todo' = << >> /\ ~InPipe' /\ ~MessageEnds
      /\ MessageEnds => Todo = << >> /\ ~readDataValid
      /\ ~(BusReads \/ BusWrites) /\ ~MessageEnds => Todo' = Todo
  BY TodoStep
<1>2. Asked <=> Todo # << >> /\ Head(Todo).read
  BY DEF Asked
<1>3. Asked' <=> Todo' # << >> /\ Head(Todo').read
  BY DEF Asked
<1>4. /\ cmdFifo # << >> => Todo = cmdFifo /\ ~InPipe
      /\ cmdFifo = << >> /\ ~InPipe => Todo = << >>
  BY TodoIs
<1>5. readDataValid => cmdFifo = << >> /\ ~InPipe
  BY DEF HostInv, KeepsUp
<1>6. BusMoves
  BY EdgeBus
<1>7. readDataValid' <=> BusReads
  BY <1>6 DEF BusMoves, BusIdle, BusAccepts, BusWaits, BusReads, BusWrites
<1>8. BusReads => Asked /\ ~readDataValid /\ ~Asked' /\ ~InPipe'
  BY <1>1, <1>2, <1>3, <1>5 DEF BusReads
<1>9. BusWrites => ~Asked /\ ~Asked'
  BY <1>1, <1>2, <1>3 DEF BusWrites
<1>10. ~BusReads /\ ~MessageEnds => (Asked' <=> Asked)
  BY <1>1, <1>2, <1>3, <1>9
<1>11. Asked => LineTime' >= MessageTime - 4 - MaxWait
  <2> SUFFICES ASSUME Asked  PROVE LineTime' >= MessageTime - 4 - MaxWait
    OBVIOUS
  <2>1. cmdFifo # << >> \/ Last \/ cmdCmpl \/ cmdFifoPush
    BY <1>2, <1>4 DEF InPipe, Last
  <2> QED  BY <2>1, Margins
<1> QED  BY <1>1, <1>2, <1>4, <1>5, <1>7, <1>8, <1>10, <1>11

\* With a answers' cycles, w cycles of work and t cycles left of the message: the
\* work goes down, is one answer again, or grows by one when a message ends.
LEMMA WorkArithmetic ==
  ASSUME NEW w \in Nat, NEW w1 \in Nat, NEW t \in Nat, NEW t1 \in Nat,
         NEW m \in Nat, NEW a \in Nat, NEW x \in Nat,
         a >= 3, a <= m, m >= x + 7,
         w < 2 * a, w = 0 \/ w + m <= t + a + x + 5,
         \/ w >= 1 /\ w1 = w - 1 /\ t1 >= t - 1
         \/ w1 = 0 \/ (w1 = a /\ t1 >= m - 5 - x)
         \/ t = 1 /\ t1 = m /\ w1 <= (IF w = 0 THEN 0 ELSE w - 1) + a
  PROVE  w1 < 2 * a /\ (w1 = 0 \/ w1 + m <= t1 + a + x + 5)
OBVIOUS

LEMMA KeepsUpStep ==
  ASSUME HostInv, Edge
  PROVE  KeepsUp'
<1>1. /\ Answering \in Nat
      /\ Answering' = (IF Answering = 0 THEN 0 ELSE Answering - 1) + Once(readDataValid)
      /\ sendState' <= START => txBusy' = 0
      /\ Len(readFifo') <= 1
  BY SenderStep
<1>2. /\ AnswerTime \in Nat /\ AnswerTime >= 3 /\ AnswerTime <= MessageTime
  BY Times
<1>3. /\ ~MessageEnds => LineTime' >= LineTime - 1
      /\ MessageEnds => LineTime = 1 /\ LineTime' = MessageTime
      /\ LineTime \in Nat /\ LineTime' \in Nat /\ MessageTime \in Nat
      /\ MessageTime >= MaxWait + 7 /\ MaxWait \in Nat
      /\ readDataValid => LineTime' >= MessageTime - 5 - MaxWait /\ ~MessageEnds
      /\ cmdFifo # << >> =>
              LineTime' >= MessageTime - 4 - waits /\ waits \in 0 .. MaxWait
  BY Margins
<1>4. /\ readDataValid => ~Asked
      /\ readDataValid' <=> BusReads
      /\ BusReads => Asked /\ ~readDataValid /\ ~Asked' /\ ~InPipe'
      /\ ~BusReads /\ ~MessageEnds => (Asked' <=> Asked)
      /\ MessageEnds => ~Asked /\ ~readDataValid /\ ~BusReads
      /\ Asked => LineTime' >= MessageTime - 4 - MaxWait
  BY AskedStep
<1>5. /\ Work < 2 * AnswerTime
      /\ Work = 0 \/ Work + MessageTime <= LineTime + AnswerTime + MaxWait + 5
  BY DEF HostInv, KeepsUp
\* v and k: the cycles for the word on the bus and for the command.
<1>6. PICK v, k, v1, k1 :
        /\ Work = Answering + v + k /\ Work' = Answering' + v1 + k1
        /\ Answering' = (IF Answering = 0 THEN 0 ELSE Answering - 1) + v
        /\ v  = IF readDataValid THEN AnswerTime ELSE 0
        /\ k  = IF Asked THEN AnswerTime ELSE 0
        /\ v1 = IF readDataValid' THEN AnswerTime ELSE 0
        /\ k1 = IF Asked' THEN AnswerTime ELSE 0
  <2>1. Work = Answering + Once(readDataValid) + Once(Asked)
    BY DEF Work, Answering
  <2>2. Work' = Answering' + Once(readDataValid') + Once(Asked')
    BY <2>1 DEF Work, Answering
  <2>3. /\ Once(readDataValid)  = IF readDataValid THEN AnswerTime ELSE 0
        /\ Once(Asked)  = IF Asked THEN AnswerTime ELSE 0
        /\ Once(readDataValid') = IF readDataValid' THEN AnswerTime ELSE 0
        /\ Once(Asked') = IF Asked' THEN AnswerTime ELSE 0
    BY Zenon DEF Once
  <2> QED  BY <2>1, <2>2, <2>3, <1>1, Zenon
<1>7. v \in {0, AnswerTime} /\ k \in {0, AnswerTime} /\ v1 \in {0, AnswerTime} /\ k1 \in {0, AnswerTime}
  BY <1>6, Zenon
<1>8. ~MessageEnds => v1 + k1 = k
  <2> SUFFICES ASSUME ~MessageEnds  PROVE v1 + k1 = k
    OBVIOUS
  <2>1. CASE BusReads
    <3>1. v1 = AnswerTime /\ k1 = 0 /\ k = AnswerTime
      BY <2>1, <1>4, <1>6, Zenon
    <3> QED  BY <3>1, <1>2
  <2>2. CASE ~BusReads
    <3>1. v1 = 0 /\ k1 = k
      BY <2>2, <1>4, <1>6, Zenon
    <3> QED  BY <3>1, <1>2, <1>7
  <2> QED  BY <2>1, <2>2
<1>9. MessageEnds => v = 0 /\ k = 0 /\ v1 = 0
  BY <1>4, <1>6, Zenon
<1>10. Answering \in Nat /\ v \in Nat /\ k \in Nat /\ v1 \in Nat /\ k1 \in Nat
  BY <1>1, <1>2, <1>7
<1>11. Work \in Nat /\ Work' \in Nat
  <2>1. Answering' \in Nat
    BY <1>1, <1>6, <1>10
  <2> QED  BY <2>1, <1>6, <1>10
<1>12. ASSUME ~MessageEnds, Answering # 0
       PROVE  Work >= 1 /\ Work' = Work - 1 /\ LineTime' >= LineTime - 1
  <2>1. Answering' = Answering - 1 + v /\ Answering >= 1
    BY <1>6, <1>10, <1>12
  <2>2. Work' = Answering - 1 + v + k
    BY <2>1, <1>6, <1>8, <1>10, <1>12
  <2> QED  BY <2>1, <2>2, <1>3, <1>6, <1>10, <1>12
<1>13. ASSUME ~MessageEnds, Answering = 0
       PROVE  Work' = 0 \/ (Work' = AnswerTime /\ LineTime' >= MessageTime - 5 - MaxWait)
  <2>1. Work' = v + k
    BY <1>6, <1>8, <1>10, <1>13
  <2>2. CASE readDataValid
    <3>1. v = AnswerTime /\ k = 0
      BY <2>2, <1>4, <1>6, Zenon
    <3> QED  BY <2>1, <2>2, <3>1, <1>2, <1>3
  <2>3. CASE ~readDataValid /\ Asked
    <3>1. v = 0 /\ k = AnswerTime
      BY <2>3, <1>6, Zenon
    <3>2. LineTime' >= MessageTime - 5 - MaxWait
      BY <2>3, <1>3, <1>4
    <3> QED  BY <2>1, <3>1, <3>2, <1>2
  <2>4. CASE ~readDataValid /\ ~Asked
    <3>1. v = 0 /\ k = 0
      BY <2>4, <1>6, Zenon
    <3> QED  BY <2>1, <3>1
  <2> QED  BY <2>2, <2>3, <2>4
<1>14. ASSUME MessageEnds
       PROVE  /\ LineTime = 1 /\ LineTime' = MessageTime
              /\ Work' <= (IF Work = 0 THEN 0 ELSE Work - 1) + AnswerTime
  <2>1. Work = Answering
    BY <1>6, <1>9, <1>10, <1>14
  <2>2. Answering' = (IF Answering = 0 THEN 0 ELSE Answering - 1) /\ Work' = Answering' + k1
    BY <1>6, <1>9, <1>10, <1>14
  <2>3. k1 <= AnswerTime
    BY <1>2, <1>7
  <2> QED  BY <2>1, <2>2, <2>3, <1>2, <1>3, <1>10, <1>14
<1>15. /\ Work' < 2 * AnswerTime
       /\ Work' = 0 \/ Work' + MessageTime <= LineTime' + AnswerTime + MaxWait + 5
  <2>1. /\ LineTime \in Nat /\ LineTime' \in Nat /\ MessageTime \in Nat
        /\ MessageTime >= MaxWait + 7 /\ MaxWait \in Nat
    BY <1>3
  <2>2. \/ Work >= 1 /\ Work' = Work - 1 /\ LineTime' >= LineTime - 1
        \/ Work' = 0 \/ (Work' = AnswerTime /\ LineTime' >= MessageTime - 5 - MaxWait)
        \/ /\ LineTime = 1 /\ LineTime' = MessageTime
           /\ Work' <= (IF Work = 0 THEN 0 ELSE Work - 1) + AnswerTime
    BY <1>12, <1>13, <1>14
  <2>3. PICK w, w1, t, t1 : w = Work /\ w1 = Work' /\ t = LineTime /\ t1 = LineTime'
    OBVIOUS
  <2>4. w \in Nat /\ w1 \in Nat /\ t \in Nat /\ t1 \in Nat
    BY <2>1, <2>3, <1>11
  <2>5. w < 2 * AnswerTime /\ (w = 0 \/ w + MessageTime <= t + AnswerTime + MaxWait + 5)
    BY <2>3, <1>5
  <2>6. \/ w >= 1 /\ w1 = w - 1 /\ t1 >= t - 1
        \/ w1 = 0 \/ (w1 = AnswerTime /\ t1 >= MessageTime - 5 - MaxWait)
        \/ t = 1 /\ t1 = MessageTime /\ w1 <= (IF w = 0 THEN 0 ELSE w - 1) + AnswerTime
    BY <2>2, <2>3
  <2>7. w1 < 2 * AnswerTime /\ (w1 = 0 \/ w1 + MessageTime <= t1 + AnswerTime + MaxWait + 5)
    BY <2>1, <2>4, <2>5, <2>6, <1>2, WorkArithmetic
  <2> QED  BY <2>3, <2>7
<1>16. readDataValid' => /\ LineTime' >= MessageTime - 4 - MaxWait
                         /\ readFifo' = << >> /\ cmdFifo' = << >> /\ ~InPipe'
  <2> SUFFICES ASSUME readDataValid'
               PROVE  /\ LineTime' >= MessageTime - 4 - MaxWait
                      /\ readFifo' = << >> /\ cmdFifo' = << >> /\ ~InPipe'
    OBVIOUS
  <2>1. BusReads /\ Asked /\ ~readDataValid /\ ~InPipe' /\ cmdFifo' = << >>
    BY <1>4 DEF BusReads
  <2>2. k = AnswerTime /\ v = 0
    BY <2>1, <1>6, Zenon
  <2>3. Answering < AnswerTime
    BY <2>2, <1>2, <1>5, <1>6, <1>10
  <2>4. readFifo = << >>
    <3> SUFFICES ASSUME readFifo # << >>  PROVE FALSE
      OBVIOUS
    <3>1. Answering = Sending + AnswerTime /\ Sending \in Nat
      BY SendingTimes DEF Answering, Once
    <3> QED  BY <3>1, <2>3, <1>2
  <2>5. readFifo' = << >>
    BY <2>1, <2>4, EdgeSender DEF SenderMoves, SenderIdle, SenderPops, SenderSends, SenderWaits,
                                  SenderEnds, Pushed
  <2> QED  BY <2>1, <2>5, <1>4
<1> QED  BY <1>1, <1>15, <1>16 DEF KeepsUp

-----------------------------------------------------------------------------
\* The invariant holds

LEMMA TypesStep ==
  ASSUME HostInv, Edge
  PROVE  TypeOK'
<1>1. TypeOK
  BY DEF HostInv
<1>2. toSend' \in Seq(Byte) /\ Len(toSend') <= 2 * W /\ rxWait' \in 0 .. RxTime
  BY EdgeLine
<1>3. session' \in {"none", "write", "read"} /\ sent' \in 0 .. MaxMessages
  <2>1. session' \in {"none", "write", "read"}
    BY SessionStep DEF SessionNames
  <2>2. sent' \in 0 .. MaxMessages
    BY <1>1, EdgeLine DEF TypeOK, LineMoves, LineIdle, LineBegins, LineWaits, ByteEnds, MessageEnds
  <2> QED  BY <2>1, <2>2
<1>4. /\ rxValid' \in BOOLEAN /\ rxData' \in Byte
      /\ cmd' \in [1 .. 2 * W -> Byte] /\ dataCount' \in 0 .. 2 * W - 1
  BY EdgeLine DEF Bytes2W, Edge, Clock, uart_rx, Received
<1>5. {cmdCmpl', cmdType', writing', reading', cmdFifoPush', readDataValid', coreRst'} \subseteq BOOLEAN
  <2>1. cmdCmpl' \in BOOLEAN
    BY <1>1 DEF Edge, Clock, AssembleCommand, TypeOK
  <2>2. {cmdType', writing', reading'} \subseteq BOOLEAN
    BY EdgeFlags
  <2>3. cmdFifoPush' \in BOOLEAN /\ coreRst' \in BOOLEAN
    BY PipedStep, HeldStep
  <2>4. readDataValid' \in BOOLEAN
    BY DEF Edge, Clock, Access
  <2> QED  BY <2>1, <2>2, <2>3, <2>4
<1>6. cmdFifo' \in Seq(Commands) /\ Len(cmdFifo') <= Depth /\ waits' \in 0 .. MaxWait
  <2>1. cmdFifo' \in Seq(Commands) /\ waits' \in 0 .. MaxWait /\ Piped'
    BY PipedStep
  <2>2. Len(cmdFifo') <= 1 /\ Len(cmdFifo') \in Nat
    BY <2>1, LenProperties DEF Piped
  <2> QED  BY <2>1, <2>2 DEF Depth
<1>7. /\ readFifo' \in Seq(Word) /\ Len(readFifo') <= Depth
      /\ readData' \in Word /\ sendState' \in IDLE .. DATA
      /\ txBusy' \in 0 .. TxTime /\ txd' \in Byte \cup {NoByte}
  <2>1. /\ readFifo' \in Seq(Word) /\ Len(readFifo') <= 1
        /\ readData' \in Word /\ sendState' \in IDLE .. DATA
        /\ txBusy' \in 0 .. TxTime /\ txd' \in Byte \cup {NoByte}
    BY SenderStep
  <2>2. Len(readFifo') \in Nat
    BY <2>1, LenProperties
  <2> QED  BY <2>1, <2>2 DEF Depth
<1>8. busData' \in Word
  <2>1. CASE BusReads
    <3>1. Head(cmdFifo) \in Commands
      BY <2>1, TodoIs, TodoStep
    <3>2. Head(cmdFifo).address \in Address
      BY <3>1 DEF Address
    <3> QED  BY <2>1, <3>2, <1>1 DEF BusReads, TypeOK
  <2>2. CASE ~BusReads
    BY <2>2, <1>1, EdgeBus DEF TypeOK, BusMoves, BusIdle, BusAccepts, BusWaits, BusWrites
  <2> QED  BY <2>1, <2>2
<1>9. /\ memory' \in [Address -> Word] /\ image' \in [Address -> Word]
      /\ cut' \subseteq Address
  BY ImageStep
<1>10. arriving' \in Seq(Commands) /\ Len(arriving') <= 1 /\ resets' \in 0 .. MaxResets
  BY <1>1, ArrivingStep DEF Edge, Clock, TypeOK
<1> QED  BY <1>2, <1>3, <1>4, <1>5, <1>6, <1>7, <1>8, <1>9, <1>10 DEF TypeOK

LEMMA EdgeInv ==
  ASSUME HostInv, Edge
  PROVE  HostInv'
BY TypesStep, EdgeLine, SessionStep, PipedStep, HeldStep, ImageStep, KeepsUpStep DEF HostInv

\* Nothing is on its way after a reset, nor after a power-up.
Quiet ==
  /\ toSend = << >> /\ rxWait = 0 /\ session = "none"
  /\ rxValid = FALSE /\ cmdCmpl = FALSE /\ dataCount = 0
  /\ writing = FALSE /\ reading = FALSE
  /\ cmdFifoPush = FALSE /\ cmdFifo = << >>
  /\ waits = 0 /\ readDataValid = FALSE
  /\ readFifo = << >> /\ sendState = IDLE /\ txBusy = 0 /\ txd = NoByte
  /\ coreRst = TRUE /\ message \in Bytes2W
  /\ \A a \in Address \ cut : image[a] = memory[a]

LEMMA QuietInv == Quiet /\ TypeOK => HostInv
<1> SUFFICES ASSUME Quiet, TypeOK  PROVE HostInv
  OBVIOUS
<1>1. W \in Nat /\ W >= 1 /\ Len(<< >>) = 0 /\ 0 <= 1 /\ << >> \o << >> = << >>
  BY Constants, EmptySeq
<1>2. ~Last /\ ~Coming /\ ~InPipe
  <2>1. ~Last
    BY DEF Quiet, Last
  <2> QED  BY <2>1 DEF Quiet, Coming, InPipe, Last
<1>3. Shown = "none" /\ Settled = "none"
  BY DEF Quiet, Shown, Settled
<1>4. Todo = << >>
  BY <1>1, <1>2 DEF Quiet, Todo
<1>5. Assembled
  <2>1. \A i \in 1 .. Len(toSend) : toSend[i] = message[2 * W - Len(toSend) + i]
    <3>1. Len(toSend) = 0
      BY <1>1, Zenon DEF Quiet
    <3>2. 1 .. 0 = {}
      OBVIOUS
    <3> QED  BY <3>1, <3>2, Zenon
  <2>2. \A i \in 1 .. dataCount : cmd[2 * W - dataCount + i] = message[i]
    BY DEF Quiet
  <2> QED  BY <2>1, <2>2 DEF Quiet, Assembled, Bytes2W
<1>6. SessionShown
  BY <1>2, <1>3 DEF Quiet, SessionShown
<1>7. Piped
  <2>1. Len(cmdFifo) <= 1
    BY <1>1, Zenon DEF Quiet
  <2> QED  BY <2>1, <1>2 DEF Quiet, Piped
<1>8. Held
  BY <1>2 DEF Quiet, Held
<1>9. ImageIs
  <2>1. Completed = memory
    BY <1>4 DEF Quiet, Completed, Performed
  <2> QED  BY <2>1 DEF Quiet, ImageIs
<1>10. KeepsUp
  <2>1. Len(readFifo) <= 1
    BY <1>1, Zenon DEF Quiet
  <2>2. Work = 0
    <3>1. ~Asked /\ Sending = 0
      BY <1>4 DEF Asked, Quiet, Sending
    <3>2. Once(readFifo # << >>) = 0 /\ Once(readDataValid) = 0 /\ Once(Asked) = 0
      BY <3>1, Zenon DEF Once, Quiet
    <3> QED  BY <3>1, <3>2 DEF Work
  <2>3. Work < 2 * AnswerTime
    BY <2>2, Times
  <2> QED  BY <2>1, <2>2, <2>3 DEF Quiet, KeepsUp
<1> QED  BY <1>5, <1>6, <1>7, <1>8, <1>9, <1>10 DEF HostInv

LEMMA InitInv == Init => HostInv
<1> SUFFICES ASSUME Init  PROVE HostInv
  OBVIOUS
<1>1. /\ W \in Nat /\ W >= 1 /\ RxTime \in Nat /\ TxTime \in Nat /\ MaxWait \in Nat
      /\ MaxMessages \in Nat /\ MaxResets \in Nat /\ Cleared \in Word
  BY Constants
<1>2. Len(<< >>) = 0 /\ 0 <= 1 /\ 0 <= Depth /\ 0 <= 2 * W
  BY <1>1, EmptySeq DEF Depth
<1>3. /\ << >> \in Seq(Byte) /\ << >> \in Seq(Commands) /\ << >> \in Seq(Word)
  OBVIOUS
<1>4. Zeros \in Bytes2W
  <2>1. 0 \in Byte
    BY DEF Byte
  <2> QED  BY <2>1 DEF Zeros, Repeat, Bytes2W
<1>5. cmd \in [1 .. 2 * W -> Byte] /\ message \in Bytes2W
  BY <1>4, KeysDiffer DEF Init, Bytes2W
<1>6. memory \in [Address -> Word]
  BY <1>1 DEF Init
<1>7. /\ toSend \in Seq(Byte) /\ Len(toSend) <= 2 * W
      /\ cmdFifo \in Seq(Commands) /\ Len(cmdFifo) <= Depth
      /\ readFifo \in Seq(Word) /\ Len(readFifo) <= Depth
      /\ arriving \in Seq(Commands) /\ Len(arriving) <= 1
  BY <1>2, <1>3, Zenon DEF Init
<1>8. TypeOK
  <2>1. /\ 0 \in 0 .. RxTime /\ 0 \in Byte /\ 0 \in 0 .. 2 * W - 1 /\ 0 \in 0 .. MaxWait
        /\ 0 \in 0 .. W + 1 /\ 0 \in 0 .. TxTime /\ 0 \in 0 .. MaxMessages /\ 0 \in 0 .. MaxResets
    BY <1>1 DEF Byte
  <2>2. sendState \in IDLE .. DATA
    BY <2>1 DEF Init, IDLE, DATA
  <2>3. {cmdCmpl, cmdType, writing, reading, cmdFifoPush, readDataValid, coreRst} \subseteq BOOLEAN
    BY DEF Init
  <2>4. rxValid \in BOOLEAN /\ session \in {"none", "write", "read"}
    BY DEF Init
  <2>5. /\ rxWait = 0 /\ sent = 0 /\ rxData = 0 /\ dataCount = 0 /\ waits = 0 /\ txBusy = 0 /\ resets = 0
        /\ busData = Cleared /\ readData = Cleared /\ txd = NoByte /\ image = memory /\ cut = {}
    BY DEF Init
  <2> QED  BY <2>1, <2>2, <2>3, <2>4, <2>5, <1>1, <1>5, <1>6, <1>7, Zenon DEF TypeOK
<1>9. Quiet
  BY <1>5 DEF Init, Quiet
<1> QED  BY <1>8, <1>9, QuietInv

\* A reset cuts off what is under way: elsewhere the memory is the one the PC wants.
LEMMA CutIs ==
  ASSUME HostInv
  PROVE  /\ cut \cup UnderWay \subseteq Address
         /\ \A a \in Address \ (cut \cup UnderWay) : image[a] = memory[a]
<1>1. /\ cut \subseteq Address /\ ImageIs /\ memory \in [Address -> Word]
      /\ session \in SessionNames
  BY DEF HostInv, TypeOK, SessionNames
<1> DEFINE ofLine == IF toSend # << >> /\ session = "write" /\ message \notin Keys
                     THEN {SubSeq(message, 1, W)} ELSE {}
           ofTodo == {Todo[i].address : i \in {j \in 1 .. Len(Todo) : ~Todo[j].read}}
<1>2. /\ ofTodo \subseteq Address
      /\ \A a \in Address \ ofTodo : Performed[a] = memory[a]
  <2>1. CASE Todo = << >>
    <3>1. Len(Todo) = 0
      BY <2>1, EmptySeq
    <3>2. 1 .. 0 = {}
      OBVIOUS
    <3>3. ofTodo = {}
      BY <3>1, <3>2, Zenon
    <3> QED  BY <2>1, <3>3 DEF Performed
  <2>2. CASE Todo # << >>
    <3>1. PICK c \in Commands : Todo = <<c>> /\ Head(Todo) = c
      BY <2>2, TodoIs
    <3>2. Len(Todo) = 1 /\ Todo[1] = c
      BY <3>1
    <3>3. ofTodo = IF c.read THEN {} ELSE {c.address}
      BY <3>2
    <3>4. c.address \in Address /\ c.word \in Word
      BY Constants DEF Address
    <3>5. Performed = IF c.read THEN memory ELSE [memory EXCEPT ![c.address] = c.word]
      BY <2>2, <3>1 DEF Performed
    <3> HIDE DEF ofTodo
    <3> QED  BY <3>3, <3>4, <3>5, <1>1
  <2> QED  BY <2>1, <2>2
<1>3. /\ ofLine \subseteq Address
      /\ \A a \in Address \ ofLine : Completed[a] = Performed[a]
  <2>1. CASE ~(toSend # << >> /\ session = "write" /\ message \notin Keys)
    BY <2>1 DEF Completed
  <2>2. CASE toSend # << >> /\ session = "write" /\ message \notin Keys
    <3>1. /\ message \in Sessions[Settled] /\ session = After(Settled, message)
          /\ Settled \in SessionNames
      <4>1. message \in Sessions[Settled] /\ session = After(Settled, message)
        BY <2>2 DEF HostInv, SessionShown, Coming
      <4>2. Shown \in SessionNames
        BY DEF Shown, SessionNames
      <4>3. cmdCmpl => cmd \in Sessions[Shown]
        BY DEF HostInv, Piped
      <4>4. Settled \in SessionNames
        BY <4>2, <4>3, SessionMessage DEF Settled
      <4> QED  BY <4>1, <4>4
    <3>2. CommandOf(FALSE, message) \in Commands
      BY <2>2, <3>1, SessionMessage
    <3>3. CommandOf(FALSE, message).address = SubSeq(message, 1, W)
      BY DEF CommandOf
    <3>4. SubSeq(message, 1, W) \in Address
      BY <3>2, <3>3 DEF Address
    <3>5. ofLine = {SubSeq(message, 1, W)}
      BY <2>2
    <3>6. Completed = [Performed EXCEPT ![SubSeq(message, 1, W)] = SubSeq(message, W + 1, 2 * W)]
      BY <2>2 DEF Completed
    <3>7. Performed \in [Address -> Word]
      BY PerformedIs
    <3> HIDE DEF ofLine
    <3> QED  BY <3>4, <3>5, <3>6, <3>7
  <2> QED  BY <2>1, <2>2
<1>4. UnderWay = ofTodo \cup ofLine
  BY DEF UnderWay
<1> HIDE DEF ofTodo, ofLine
<1> QED  BY <1>1, <1>2, <1>3, <1>4 DEF ImageIs

LEMMA ResetInv ==
  ASSUME HostInv, Reset
  PROVE  HostInv'
<1>1. TypeOK /\ message \in Bytes2W
  BY DEF HostInv, Assembled, Bytes2W
<1>2. /\ W \in Nat /\ W >= 1 /\ RxTime \in Nat /\ TxTime \in Nat /\ MaxWait \in Nat
      /\ MaxMessages \in Nat /\ MaxResets \in Nat
  BY Constants
<1>3. cut' \subseteq Address /\ \A a \in Address \ cut' : image'[a] = memory'[a]
  BY CutIs DEF Reset
<1>9. Quiet'
  BY <1>1, <1>3 DEF Reset, Quiet
<1>4. Len(<< >>) = 0 /\ 0 <= 1 /\ 0 <= Depth /\ 0 <= 2 * W
  BY <1>2, EmptySeq DEF Depth
<1>5. /\ << >> \in Seq(Byte) /\ << >> \in Seq(Commands) /\ << >> \in Seq(Word)
  OBVIOUS
<1>6. /\ toSend' \in Seq(Byte) /\ Len(toSend') <= 2 * W
      /\ cmdFifo' \in Seq(Commands) /\ Len(cmdFifo') <= Depth
      /\ readFifo' \in Seq(Word) /\ Len(readFifo') <= Depth
  BY <1>4, <1>5, Zenon DEF Reset
<1>7. resets' \in 0 .. MaxResets
  BY <1>1, <1>2 DEF TypeOK, Reset
<1>8. TypeOK'
  <2>1. /\ 0 \in 0 .. RxTime /\ 0 \in Byte /\ 0 \in 0 .. 2 * W - 1 /\ 0 \in 0 .. MaxWait
        /\ 0 \in 0 .. W + 1 /\ 0 \in 0 .. TxTime
    BY <1>2 DEF Byte
  <2>2. sendState' \in IDLE .. DATA
    BY <2>1 DEF Reset, IDLE, DATA
  <2>3. {cmdCmpl', cmdType', writing', reading', cmdFifoPush', readDataValid', coreRst'} \subseteq BOOLEAN
    BY <1>1 DEF Reset, TypeOK
  <2>4. rxValid' \in BOOLEAN /\ session' \in {"none", "write", "read"}
    BY DEF Reset
  <2>5. /\ rxWait' = 0 /\ dataCount' = 0 /\ waits' = 0 /\ txBusy' = 0 /\ txd' = NoByte
        /\ UNCHANGED <<image, sent, arriving, rxData, cmd, busData, readData, memory>>
    BY DEF Reset
  <2>6. /\ sent' \in 0 .. MaxMessages /\ rxData' \in Byte
        /\ cmd' \in [1 .. 2 * W -> Byte] /\ busData' \in Word /\ readData' \in Word
        /\ memory' \in [Address -> Word] /\ image' \in [Address -> Word]
        /\ arriving' \in Seq(Commands) /\ Len(arriving') <= 1
    BY <2>5, <1>1 DEF TypeOK
  <2> QED  BY <2>1, <2>2, <2>3, <2>4, <2>5, <2>6, <1>3, <1>6, <1>7, Zenon DEF TypeOK
<1> QED  BY <1>8, <1>9, QuietInv, PTL

LEMMA StutterInv ==
  ASSUME HostInv, UNCHANGED vars
  PROVE  HostInv'
<1> USE DEF vars, pcVars, cmdVars, busVars, sendVars
<1>1. TypeOK' /\ Assembled'
  BY DEF HostInv, TypeOK, Assembled
<1>2. /\ Last' = Last /\ Coming' = Coming /\ Shown' = Shown /\ LineTime' = LineTime
      /\ InPipe' = InPipe /\ Todo' = Todo
  BY DEF Last, data_count_fire, Coming, Shown, LineTime, InPipe, Todo
<1>3. /\ Settled' = Settled /\ Performed' = Performed /\ Completed' = Completed
      /\ Asked' = Asked /\ Sending' = Sending
  BY <1>2 DEF Settled, Performed, Completed, Asked, Sending
<1>4. SessionShown' /\ Held'
  BY <1>2, <1>3 DEF HostInv, SessionShown, Held
<1>5. Piped'
  BY <1>2 DEF HostInv, Piped
<1>6. ImageIs'
  BY <1>3 DEF HostInv, ImageIs
<1>7. Work' = Work
  BY <1>3 DEF Work
<1>8. KeepsUp'
  BY <1>2, <1>7 DEF HostInv, KeepsUp
<1> QED  BY <1>1, <1>4, <1>5, <1>6, <1>8 DEF HostInv

THEOREM HostInvariant == Spec => []HostInv
<1>1. HostInv /\ [Next]_vars => HostInv'
  BY EdgeInv, ResetInv, StutterInv DEF Next
<1> QED  BY InitInv, <1>1, PTL DEF Spec

-----------------------------------------------------------------------------
\* What the invariant says of the host

\* Every register keeps its width, no FIFO holds more than its depth and no
\* access waits longer than MaxWait, whatever the length of a word, the
\* commands and the timing.
THEOREM HostTypes == Spec => []TypeOK
<1>1. HostInv => TypeOK
  BY DEF HostInv
<1> QED  BY HostInvariant, <1>1, PTL

\* The core runs with no access of the host under way and, unless a new download has
\* begun, with every word the PC has asked for in the memory, except those whose last
\* write a reset cut off: the reset logic of veriRISCV_soc.sv and the session flags
\* hold the core until the last command of the session is performed.
THEOREM LoadedCorrect == Spec => []LoadedWhenRunning
<1>1. HostInv => LoadedWhenRunning
  <2> SUFFICES ASSUME HostInv, ~coreRst
               PROVE  /\ cmdFifo = << >> /\ ~cmdFifoPush
                      /\ session # "write" => \A a \in Address \ cut : memory[a] = image[a]
    BY DEF LoadedWhenRunning
  <2>1. cmdFifo = << >> /\ ~cmdFifoPush /\ ~(cmdCmpl /\ cmd \notin Keys)
    BY DEF HostInv, Held
  <2>2. Last => message \in Keys
    <3> SUFFICES ASSUME Last, message \notin Keys  PROVE FALSE
      OBVIOUS
    <3>1. rxValid /\ dataCount = 2 * W - 1 /\ W \in Nat /\ W >= 1 /\ toSend \in Seq(Byte)
      BY Constants DEF HostInv, TypeOK, Last, data_count_fire
    <3>2. Len(toSend) < 2 * W
      <4>1. CASE toSend = << >>
        <5>1. Len(toSend) = 0 /\ 0 < 2 * W
          BY <4>1, <3>1, EmptySeq
        <5> QED  BY <5>1, Zenon
      <4>2. CASE toSend # << >>
        <5>1. dataCount + 1 = 2 * W - Len(toSend) /\ Len(toSend) \in Nat
          BY <4>2, <3>1, LenProperties DEF HostInv, Assembled
        <5> QED  BY <5>1, <3>1
      <4> QED  BY <4>1, <4>2
    <3> QED  BY <3>2 DEF HostInv, Held, Coming
  <2>3. Todo = << >>
    <3>1. /\ Last => arriving = << >>
          /\ cmdCmpl => arriving = << >>
      BY <2>1, <2>2 DEF HostInv, Piped
    <3>2. InPipe => arriving = << >>
      BY <2>1, <3>1 DEF InPipe, Last
    <3> QED  BY <2>1, <3>2, TodoIs
  <2>4. session # "write" => Completed = memory
    BY <2>3 DEF Completed, Performed
  <2> QED  BY <2>1, <2>4 DEF HostInv, ImageIs
<1> QED  BY HostInvariant, <1>1, PTL

\* No command and no word that was read is pushed into a full FIFO: the bus and
\* the sender keep up with the line.
THEOREM PushesAlwaysFit == Spec => []PushesFit
<1>1. HostInv => PushesFit
  <2> SUFFICES ASSUME HostInv  PROVE PushesFit
    OBVIOUS
  <2>1. Len(<< >>) = 0 /\ 0 < Depth
    BY EmptySeq DEF Depth
  <2>2. cmdFifoPush => cmdFifo = << >>
    BY PipeApart
  <2>3. readDataValid => readFifo = << >>
    BY DEF HostInv, KeepsUp
  <2> QED  BY <2>1, <2>2, <2>3, Zenon DEF PushesFit
<1> QED  BY HostInvariant, <1>1, PTL

-----------------------------------------------------------------------------
\* The host implements the loader

LEMMA HeadTailOfConcat ==
  ASSUME NEW S, NEW s \in Seq(S), NEW t \in Seq(S), s # << >>
  PROVE  /\ s \o t # << >> /\ Head(s \o t) = Head(s)
         /\ Tail(s \o t) = Tail(s) \o t
<1> DEFINE st == s \o t
           u == Tail(s)
           ut == u \o t
<1>1. /\ st \in Seq(S) /\ Len(st) = Len(s) + Len(t)
      /\ \A i \in 1 .. Len(s) + Len(t) : st[i] = IF i <= Len(s) THEN s[i] ELSE t[i - Len(s)]
  BY ConcatProperties, Zenon
<1>2. u \in Seq(S) /\ Len(u) = Len(s) - 1 /\ \A i \in 1 .. Len(u) : u[i] = s[i + 1]
  BY HeadTailProperties
<1>3. /\ ut \in Seq(S) /\ Len(ut) = Len(u) + Len(t)
      /\ \A i \in 1 .. Len(u) + Len(t) : ut[i] = IF i <= Len(u) THEN u[i] ELSE t[i - Len(u)]
  <2> HIDE DEF u
  <2> QED  BY <1>2, ConcatProperties, Zenon
<1>4. Len(s) \in Nat \ {0} /\ Len(t) \in Nat
  BY EmptySeq, LenProperties
<1>5. st # << >>
  BY ConcatEqualIffEmpty
<1>6. Head(st) = s[1] /\ Head(s) = s[1]
  <2>1. st[1] = s[1]
    BY <1>1, <1>4
  <2>2. \A q \in Seq(S) : q # << >> => Head(q) = q[1]
    OBVIOUS
  <2> QED  BY <2>1, <2>2, <1>1, <1>5
<1> HIDE DEF st, u, ut
<1>7. /\ Tail(st) \in Seq(S) /\ Len(Tail(st)) = Len(st) - 1
      /\ \A i \in 1 .. Len(Tail(st)) : Tail(st)[i] = st[i + 1]
  BY <1>1, <1>5, HeadTailProperties
<1> DEFINE v == Tail(st)
<1> HIDE DEF v
<1>8. v \in Seq(S) /\ Len(v) = Len(ut) /\ \A i \in 1 .. Len(v) : v[i] = st[i + 1]
  BY <1>1, <1>2, <1>3, <1>4, <1>7 DEF v
<1>9. ASSUME NEW i \in 1 .. Len(v)
      PROVE  v[i] = ut[i]
  <2>1. i \in 1 .. Len(s) - 1 + Len(t) /\ v[i] = st[i + 1] /\ i + 1 \in 1 .. Len(s) + Len(t)
    BY <1>2, <1>3, <1>4, <1>8, <1>9
  <2>2. CASE i <= Len(s) - 1
    <3>1. i \in 1 .. Len(u) /\ i <= Len(u) /\ i \in 1 .. Len(u) + Len(t) /\ i + 1 <= Len(s)
      BY <2>1, <2>2, <1>2, <1>4
    <3>2. st[i + 1] = s[i + 1]
      BY <2>1, <3>1, <1>1
    <3>3. ut[i] = u[i]
      BY <3>1, <1>3
    <3>4. u[i] = s[i + 1]
      BY <3>1, <1>2
    <3> QED  BY <2>1, <3>2, <3>3, <3>4
  <2>3. CASE ~(i <= Len(s) - 1)
    <3>1. /\ i + 1 - Len(s) = i - Len(u) /\ ~(i <= Len(u)) /\ ~(i + 1 <= Len(s))
          /\ i \in 1 .. Len(u) + Len(t)
      BY <2>1, <2>3, <1>2, <1>4
    <3>2. st[i + 1] = t[i + 1 - Len(s)]
      BY <2>1, <3>1, <1>1
    <3>3. ut[i] = t[i - Len(u)]
      BY <3>1, <1>3
    <3> QED  BY <2>1, <3>1, <3>2, <3>3
  <2> QED  BY <2>2, <2>3
<1>10. v = ut
  BY <1>3, <1>8, <1>9, SeqEqual
<1> QED  BY <1>5, <1>6, <1>10 DEF st, u, ut, v

\* The word that is next after the one being sent.
Queued == IF readDataValid THEN busData
          ELSE IF readFifo # << >> THEN Head(readFifo) ELSE << >>

OwedSplit ==
  Owed = Unsent \o Queued /\ Unsent \in Seq(Byte) /\ Queued \in Seq(Byte)

LEMMA OwedIs == HostInv => OwedSplit
<1> SUFFICES ASSUME HostInv  PROVE OwedSplit
  OBVIOUS
<1>1. /\ readFifo \in Seq(Word) /\ Len(readFifo) <= 1 /\ busData \in Word /\ readData \in Word
      /\ readDataValid => readFifo = << >>
      /\ sendState \in 0 .. W + 1 /\ W \in Nat
  BY Constants DEF HostInv, TypeOK, KeepsUp, IDLE, DATA
<1>2. \A w \in Word : w \in Seq(Byte) /\ Len(w) = W
  BY <1>1, FunctionIsSeq DEF Word
<1>3. \/ readFifo = << >>
      \/ readFifo # << >> /\ Len(readFifo) = 1 /\ Tail(readFifo) = << >>
           /\ readFifo = <<Head(readFifo)>> /\ Head(readFifo) \in Word
  BY <1>1, Single, Zenon
<1>4. << >> \in Seq(Byte)
  OBVIOUS
<1>5. Queued \in Seq(Byte)
  BY <1>1, <1>2, <1>3, <1>4, Zenon DEF Queued
<1>6. Unsent \in Seq(Byte)
  <2>1. CASE sendState = 0
    BY <2>1, <1>4 DEF Unsent, IDLE
  <2>2. CASE sendState # 0
    <3>1. \A i \in sendState .. W : readData[i] \in Byte
      BY <2>2, <1>1 DEF Word
    <3>2. SubSeq(readData, sendState, W) \in Seq(Byte)
      BY <3>1, <1>1, SubSeqProperties
    <3> QED  BY <3>2, <2>2 DEF Unsent, IDLE
  <2> QED  BY <2>1, <2>2
<1>7. Bytes(readFifo) = IF readFifo = << >> THEN << >> ELSE Head(readFifo)
  <2>1. CASE readFifo = << >>
    <3>1. ~(Len(readFifo) > 0) /\ ~(Len(readFifo) > 1)
      BY <2>1
    <3>2. Bytes(readFifo) = << >> \o << >>
      BY <3>1, Zenon DEF Bytes
    <3> QED  BY <3>2, <2>1
  <2>2. CASE readFifo # << >>
    <3>1. Len(readFifo) = 1 /\ readFifo[1] = Head(readFifo) /\ Head(readFifo) \in Word
      BY <2>2, <1>1, <1>3
    <3>2. 1 > 0 /\ ~(1 > 1)
      OBVIOUS
    <3>3. Bytes(readFifo) = Head(readFifo) \o << >>
      BY <3>1, <3>2, Zenon DEF Bytes
    <3>4. Head(readFifo) \o << >> = Head(readFifo)
      BY <3>1, <1>2, ConcatEmptySeq
    <3> QED  BY <3>3, <3>4, <2>2
  <2> QED  BY <2>1, <2>2
<1>8. Owed = Unsent \o Queued
  <2>1. CASE readDataValid
    <3>1. Bytes(readFifo) = << >> /\ Queued = busData
      BY <2>1, <1>1, <1>7 DEF Queued
    <3>2. Owed = Unsent \o << >> \o busData
      BY <3>1, <2>1, Zenon DEF Owed
    <3>3. Unsent \o << >> = Unsent
      BY <1>6, ConcatEmptySeq
    <3> QED  BY <3>1, <3>2, <3>3
  <2>2. CASE ~readDataValid
    <3>1. Bytes(readFifo) = Queued
      BY <2>2, <1>7 DEF Queued
    <3>2. Owed = Unsent \o Queued \o << >>
      BY <3>1, <2>2, Zenon DEF Owed
    <3>3. Unsent \o Queued \in Seq(Byte)
      BY <1>5, <1>6, ConcatProperties
    <3>4. (Unsent \o Queued) \o << >> = Unsent \o Queued
      BY <3>3, ConcatEmptySeq
    <3> QED  BY <3>2, <3>4
  <2> QED  BY <2>1, <2>2
<1> QED  BY <1>5, <1>6, <1>8 DEF OwedSplit

\* The word an edge reads joins the bytes owed, and at most one byte leaves them.
Fetched == IF BusReads THEN memory[Head(cmdFifo).address] ELSE << >>

LEMMA QueuedStep ==
  ASSUME HostInv, Edge
  PROVE  /\ Fetched \in Seq(Byte)
         /\ Pushed => Queued' = Queued \o Fetched
         /\ SenderPops => Queued = Head(readFifo) /\ Queued' = Fetched
<1>1. /\ memory \in [Address -> Word] /\ busData \in Word
      /\ readDataValid => readFifo = << >>
      /\ W \in Nat
  BY Constants DEF HostInv, TypeOK, KeepsUp
<1>2. Fetched \in Seq(Byte)
  <2>1. << >> \in Seq(Byte)
    OBVIOUS
  <2>2. CASE BusReads
    <3>1. Head(cmdFifo) \in Commands
      BY <2>2, TodoIs, TodoStep
    <3>2. Head(cmdFifo).address \in Address
      BY <3>1 DEF Address
    <3>3. memory[Head(cmdFifo).address] \in Word
      BY <3>2, <1>1
    <3>4. \A w \in Word : w \in Seq(Byte)
      BY <1>1, FunctionIsSeq DEF Word
    <3> QED  BY <3>3, <3>4, <2>2 DEF Fetched
  <2>3. CASE ~BusReads
    BY <2>1, <2>3 DEF Fetched
  <2> QED  BY <2>2, <2>3
<1>3. /\ readDataValid' <=> BusReads
      /\ BusReads => ~readDataValid /\ busData' = memory[Head(cmdFifo).address]
  BY AskedStep DEF BusReads
<1>4. Queued \in Seq(Byte)
  BY OwedIs DEF OwedSplit
<1>5. Queued \o << >> = Queued /\ << >> \o Fetched = Fetched
  BY <1>2, <1>4, ConcatEmptySeq
<1>6. readDataValid' => readFifo' = << >>
  BY KeepsUpStep DEF KeepsUp
<1>7. Queued' = IF readDataValid' THEN busData'
                ELSE IF readFifo' # << >> THEN Head(readFifo') ELSE << >>
  BY DEF Queued
<1>8. ASSUME Pushed
      PROVE  Queued' = Queued \o Fetched
  <2>1. CASE BusReads
    <3>1. ~readDataValid /\ readFifo' = readFifo /\ readFifo' = << >>
      BY <2>1, <1>3, <1>6, <1>8 DEF Pushed
    <3>2. Queued = << >>
      BY <3>1 DEF Queued
    <3>3. Queued' = Fetched
      BY <2>1, <1>3, <1>7 DEF Fetched
    <3> QED  BY <3>2, <3>3, <1>5
  <2>2. CASE ~BusReads
    <3>1. Queued' = IF readFifo' # << >> THEN Head(readFifo') ELSE << >>
      BY <2>2, <1>3, <1>7
    <3>2. CASE readDataValid
      <4>1. readFifo' = <<busData>> /\ Head(<<busData>>) = busData /\ <<busData>> # << >>
        BY <3>2, <1>8 DEF Pushed
      <4>2. Queued' = busData /\ Queued = busData
        BY <3>1, <3>2, <4>1 DEF Queued
      <4> QED  BY <2>2, <4>2, <1>5 DEF Fetched
    <3>3. CASE ~readDataValid
      <4>1. readFifo' = readFifo
        BY <3>3, <1>8 DEF Pushed
      <4>2. Queued' = Queued
        BY <3>1, <3>3, <4>1 DEF Queued
      <4> QED  BY <2>2, <4>2, <1>5 DEF Fetched
    <3> QED  BY <3>2, <3>3
  <2> QED  BY <2>1, <2>2
<1>9. ASSUME SenderPops
      PROVE  Queued = Head(readFifo) /\ Queued' = Fetched
  <2>1. Queued = Head(readFifo)
    BY <1>9 DEF SenderPops, Queued
  <2>2. CASE BusReads
    BY <2>1, <2>2, <1>3, <1>7 DEF Fetched
  <2>3. CASE ~BusReads
    BY <2>1, <2>3, <1>3, <1>7, <1>9 DEF SenderPops, Fetched
  <2> QED  BY <2>1, <2>2, <2>3
<1> QED  BY <1>2, <1>8, <1>9

LEMMA OwedStep ==
  ASSUME HostInv, Edge
  PROVE  \/ txd' = NoByte /\ Owed' = Owed \o Fetched
         \/ /\ Owed \o Fetched # << >>
            /\ txd' = Head(Owed \o Fetched) /\ Owed' = Tail(Owed \o Fetched)
<1>1. Owed = Unsent \o Queued /\ Unsent \in Seq(Byte) /\ Queued \in Seq(Byte)
  BY OwedIs DEF OwedSplit
<1>2. Owed' = Unsent' \o Queued'
  <2>1. HostInv'
    BY EdgeInv
  <2>2. OwedSplit'
    BY <2>1, OwedIs, PTL
  <2> QED  BY <2>2 DEF OwedSplit
<1>3. /\ Fetched \in Seq(Byte)
      /\ Pushed => Queued' = Queued \o Fetched
      /\ SenderPops => Queued = Head(readFifo) /\ Queued' = Fetched
  BY QueuedStep
<1>4. Queued \o Fetched \in Seq(Byte)
  BY <1>1, <1>3, ConcatProperties
<1>5. Owed \o Fetched = Unsent \o (Queued \o Fetched)
  BY <1>1, <1>3, ConcatAssociative
<1>6. ASSUME Pushed, Unsent' = Unsent
      PROVE  Owed' = Owed \o Fetched
  BY <1>2, <1>3, <1>5, <1>6
<1>7. /\ readFifo \in Seq(Word) /\ Len(readFifo) <= 1 /\ readData \in Word
      /\ sendState \in 0 .. W + 1 /\ W \in Nat /\ W >= 1
  BY Constants DEF HostInv, TypeOK, KeepsUp, IDLE, DATA
<1>8. \A w \in Word : w \in Seq(Byte) /\ Len(w) = W
  BY <1>7, FunctionIsSeq DEF Word
<1>9. /\ Unsent = IF sendState = 0 THEN << >> ELSE SubSeq(readData, sendState, W)
      /\ Unsent' = IF sendState' = 0 THEN << >> ELSE SubSeq(readData', sendState', W)
  BY DEF Unsent, IDLE
<1>10. SenderMoves
  BY EdgeSender
<1>11. CASE SenderIdle
  BY <1>6, <1>9, <1>11 DEF SenderIdle, IDLE
<1>12. CASE SenderPops
  <2>1. Head(readFifo) \in Word
    BY <1>7, <1>12, Single DEF SenderPops
  <2>2. SubSeq(Head(readFifo), 1, W) = Head(readFifo)
    BY <2>1, <1>8, SubSeqFull
  <2>3. Unsent = << >> /\ Unsent' = Queued
    BY <2>2, <1>3, <1>9, <1>12 DEF SenderPops, IDLE, START
  <2>4. << >> \o (Queued \o Fetched) = Queued \o Fetched
    BY <1>4, ConcatEmptySeq
  <2>5. Owed' = Owed \o Fetched
    BY <2>3, <2>4, <1>2, <1>3, <1>5, <1>12
  <2> QED  BY <2>5, <1>12 DEF SenderPops
<1>13. CASE SenderSends
  <2>1. /\ sendState \in 1 .. W /\ sendState' = sendState + 1 /\ readData' = readData
        /\ txd' = readData[sendState] /\ Pushed
    BY <1>13 DEF SenderSends
  <2>2. readData \in Seq(Byte) /\ Len(readData) = W
    BY <1>7, <1>8
  <2>3. /\ sendState \in 1 .. Len(readData) /\ W \in sendState .. Len(readData)
        /\ sendState # 0 /\ sendState' # 0
    BY <2>1, <2>2, <1>7
  <2>4. /\ Unsent = SubSeq(readData, sendState, W)
        /\ Unsent' = SubSeq(readData, sendState + 1, W)
    BY <2>1, <2>3, <1>9
  <2>5. Head(Unsent) = readData[sendState] /\ Tail(Unsent) = Unsent'
    BY <2>2, <2>3, <2>4, HeadTailOfSubSeq
  <2>6. Unsent # << >>
    <3>1. \A i \in sendState .. W : readData[i] \in Byte
      BY <2>1, <1>7 DEF Word
    <3>2. Len(Unsent) = W - sendState + 1
      BY <2>1, <2>4, <3>1, <1>7, SubSeqProperties
    <3>3. Len(Unsent) # 0
      BY <3>2, <2>1, <1>7
    <3>4. Len(<< >>) = 0
      BY EmptySeq
    <3> QED  BY <3>3, <3>4, Zenon
  <2>7. /\ Unsent \o (Queued \o Fetched) # << >>
        /\ Head(Unsent \o (Queued \o Fetched)) = Head(Unsent)
        /\ Tail(Unsent \o (Queued \o Fetched)) = Tail(Unsent) \o (Queued \o Fetched)
    BY <2>6, <1>1, <1>4, HeadTailOfConcat
  <2> QED  BY <2>1, <2>5, <2>7, <1>2, <1>3, <1>5
<1>14. CASE SenderWaits
  <2>1. Unsent' = Unsent /\ Pushed /\ txd' = NoByte
    BY <1>9, <1>14 DEF SenderWaits
  <2> QED  BY <2>1, <1>6
<1>15. CASE SenderEnds
  <2>1. sendState = W + 1 /\ sendState' = 0 /\ Pushed /\ txd' = NoByte /\ sendState # 0
    BY <1>7, <1>15 DEF SenderEnds, IDLE
  <2>2. SubSeq(readData, W + 1, W) = << >>
    BY <1>7, SubSeqEmpty
  <2>3. Unsent' = Unsent
    BY <2>1, <2>2, <1>9
  <2> QED  BY <2>1, <2>3, <1>6
<1> QED  BY <1>10, <1>11, <1>12, <1>13, <1>14, <1>15 DEF SenderMoves

LEMMA LoaderInit == Init => Loader!Init
<1> SUFFICES ASSUME Init  PROVE Loader!Init
  OBVIOUS
<1>1. << >> \o << >> = << >>
  OBVIOUS
<1>2. Todo = << >>
  BY <1>1 DEF Init, Todo, InPipe
<1>3. Unsent = << >> /\ Bytes(readFifo) = << >>
  <2>1. Len(<< >>) = 0 /\ ~(0 > 0) /\ ~(0 > 1)
    BY EmptySeq
  <2>2. ~(Len(readFifo) > 0) /\ ~(Len(readFifo) > 1)
    BY <2>1, Zenon DEF Init
  <2> QED  BY <2>2, <1>1, Zenon DEF Init, Unsent, Bytes
<1>4. Owed = << >>
  BY <1>1, <1>3, Zenon DEF Init, Owed
<1> QED  BY <1>2, <1>4 DEF Init, Loader!Init, Address, Loader!Address

LEMMA LoaderEdge ==
  ASSUME HostInv, Edge
  PROVE  Loader!Next
<1>1. \/ txd' = NoByte /\ Owed' = Owed \o Fetched
      \/ /\ Owed \o Fetched # << >>
         /\ txd' = Head(Owed \o Fetched) /\ Owed' = Tail(Owed \o Fetched)
  BY OwedStep
<1>2. /\ BusReads \/ BusWrites =>
              cmdFifo # << >> /\ Todo = cmdFifo /\ Todo' = << >> /\ ~MessageEnds
      /\ MessageEnds => Todo = << >> /\ Todo' = arriving'
      /\ ~(BusReads \/ BusWrites) /\ ~MessageEnds => Todo' = Todo
  BY TodoStep
<1>3. Todo = << >> \/ Tail(Todo) = << >>
  BY TodoIs
<1>4. ~BusReads => Fetched = << >> /\ Owed \o Fetched = Owed
  <2>1. Owed \in Seq(Byte)
    BY OwedIs, ConcatProperties DEF OwedSplit
  <2>2. Owed \o << >> = Owed
    BY <2>1, ConcatEmptySeq
  <2> QED  BY <2>2 DEF Fetched
<1>5. resets' = resets
  BY DEF Edge, Clock
<1>6. BusMoves
  BY EdgeBus
<1>7. CASE BusReads
  <2>1. Todo # << >> /\ Head(Todo).read /\ memory' = memory /\ Todo' = Tail(Todo)
    BY <1>2, <1>3, <1>7 DEF BusReads
  <2>2. Fetched = memory[Head(Todo).address]
    BY <1>2, <1>7 DEF Fetched
  <2>3. Loader!AcceptOrNot(Tail(Todo))
    BY <2>1 DEF Loader!AcceptOrNot
  <2>4. Loader!SendOrNot(Owed \o memory[Head(Todo).address])
    BY <1>1, <2>2 DEF Loader!SendOrNot
  <2> QED  BY <2>1, <2>3, <2>4, <1>5 DEF Loader!Next, Loader!Read
<1>8. ASSUME ~BusReads
      PROVE  Loader!SendOrNot(Owed)
  BY <1>1, <1>4, <1>8 DEF Loader!SendOrNot
<1>9. CASE BusWrites
  <2>1. /\ Todo # << >> /\ ~Head(Todo).read /\ Todo' = Tail(Todo)
        /\ memory' = [memory EXCEPT ![Head(Todo).address] = Head(Todo).word]
    BY <1>2, <1>3, <1>9 DEF BusWrites
  <2>2. Loader!AcceptOrNot(Tail(Todo))
    BY <2>1 DEF Loader!AcceptOrNot
  <2>3. ~BusReads
    BY <1>9 DEF BusReads, BusWrites
  <2> QED  BY <2>1, <2>2, <2>3, <1>5, <1>8 DEF Loader!Next, Loader!Write
<1>10. CASE ~BusReads /\ ~BusWrites
  <2>1. memory' = memory
    BY <1>6, <1>10 DEF BusMoves, BusIdle, BusAccepts, BusWaits
  <2>2. Loader!AcceptOrNot(Todo)
    <3>1. CASE ~MessageEnds
      BY <3>1, <1>2, <1>10 DEF Loader!AcceptOrNot
    <3>2. CASE MessageEnds
      <4>1. Todo = << >> /\ Todo' = arriving'
        BY <3>2, <1>2
      <4>2. arriving' \in Seq(Commands) /\ Len(arriving') <= 1
        BY ArrivingStep
      <4>3. arriving' = << >> \/ (Head(arriving') \in Commands /\ arriving' = <<Head(arriving')>>)
        BY <4>2, Single, Zenon
      <4>4. CASE arriving' = << >>
        BY <4>1, <4>4 DEF Loader!AcceptOrNot
      <4>5. CASE Head(arriving') \in Commands /\ arriving' = <<Head(arriving')>>
        <5> DEFINE c == Head(arriving')
        <5>1. c \in Commands /\ arriving' = <<c>>
          BY <4>5
        <5> HIDE DEF c
        <5>2. Append(<< >>, c) = <<c>>
          OBVIOUS
        <5>3. Todo' = Append(Todo, c)
          BY <5>1, <5>2, <4>1
        <5> QED  BY <5>1, <5>3 DEF Loader!AcceptOrNot
      <4> QED  BY <4>3, <4>4, <4>5
    <3> QED  BY <3>1, <3>2
  <2> QED  BY <2>1, <2>2, <1>5, <1>8, <1>10 DEF Loader!Next, Loader!NoAccess
<1> QED  BY <1>7, <1>9, <1>10

LEMMA LoaderReset ==
  ASSUME Reset
  PROVE  Loader!Next
<1>1. << >> \o << >> = << >>
  OBVIOUS
<1>2. Todo' = << >>
  BY <1>1 DEF Reset, Todo, InPipe
<1>3. Unsent' = << >>
  BY DEF Reset, Unsent
<1>4. Bytes(readFifo') = << >>
  <2>1. Len(<< >>) = 0 /\ ~(0 > 0) /\ ~(0 > 1)
    BY EmptySeq
  <2>2. ~(Len(readFifo') > 0) /\ ~(Len(readFifo') > 1)
    BY <2>1, Zenon DEF Reset
  <2> QED  BY <2>2, <1>1, Zenon DEF Bytes
<1>5. Owed' = << >>
  <2>1. Owed' = Unsent' \o Bytes(readFifo') \o (IF readDataValid' THEN busData' ELSE << >>)
    BY DEF Owed
  <2>2. ~readDataValid'
    BY DEF Reset
  <2> QED  BY <2>1, <2>2, <1>1, <1>3, <1>4, Zenon
<1> QED  BY <1>2, <1>5 DEF Reset, Loader!Next, Loader!Reset

\* The host performs the PC's commands in the order they were sent, each exactly
\* once, and answers the reads in the same order, byte by byte: no command or
\* byte is lost, repeated or changed between the line and the bus, or between
\* the bus and the transmitter, whatever the timing within the assumptions.
THEOREM LoaderImplemented == Spec => ImplementsLoader
<1>1. Init => Loader!Init
  BY LoaderInit
<1>2. HostInv /\ [Next]_vars => [Loader!Next]_(Loader!vars)
  <2> SUFFICES ASSUME HostInv, [Next]_vars  PROVE [Loader!Next]_(Loader!vars)
    OBVIOUS
  <2>1. CASE Edge
    BY <2>1, LoaderEdge
  <2>2. CASE Reset
    BY <2>2, LoaderReset
  <2>3. CASE UNCHANGED vars
    <3> USE DEF vars, pcVars, cmdVars, busVars, sendVars
    <3>1. Todo' = Todo
      BY <2>3 DEF Todo, InPipe, data_count_fire
    <3>2. Owed' = Owed
      BY <2>3 DEF Owed, Unsent, Bytes
    <3> QED  BY <2>3, <3>1, <3>2 DEF Loader!vars
  <2> QED  BY <2>1, <2>2, <2>3 DEF Next
<1> QED  BY <1>1, <1>2, HostInvariant, PTL DEF Spec, ImplementsLoader, Loader!Spec
=============================================================================
