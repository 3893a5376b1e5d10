----------------------------- MODULE IfuProofs -----------------------------
(***************************************************************************)
(* Proofs about the fetch unit for every queue depth, almost-full          *)
(* threshold, address space and set of redirect targets.                   *)
(***************************************************************************)
EXTENDS Ifu, TLAPS

-----------------------------------------------------------------------------
\* Remainders and the pointers of a ring

\* A remainder is determined by any way to write the number.
LEMMA ModUnique ==
  ASSUME NEW M \in Nat \ {0}, NEW q \in Int, NEW r \in 0 .. M - 1
  PROVE  (M * q + r) % M = r
  OBVIOUS

\* Quotient and remainder make up the number.
LEMMA ModSplit ==
  ASSUME NEW M \in Nat \ {0}, NEW a \in Int
  PROVE  /\ a \div M \in Int
         /\ a % M \in 0 .. M - 1
         /\ a = M * (a \div M) + (a % M)
  OBVIOUS

\* A multiple of the modulus does not matter ...
LEMMA ModShift ==
  ASSUME NEW M \in Nat \ {0}, NEW q \in Int, NEW a \in Int
  PROVE  (M * q + a) % M = a % M
<1> DEFINE d == a \div M
           e == a % M
<1>1. d \in Int /\ e \in 0 .. M - 1 /\ a = M * d + e
  BY ModSplit
<1> HIDE DEF d, e
<1>2. (M * (q + d) + e) % M = e
  <2>1. q + d \in Int  BY <1>1
  <2> QED  BY <1>1, <2>1, ModUnique
<1>3. M * q + a = M * (q + d) + e
  BY <1>1
<1>4. (M * q + a) % M = e
  BY <1>2, <1>3
<1> QED  BY <1>4 DEF e

\* ... nor does reducing one summand ...
LEMMA ModAdd ==
  ASSUME NEW M \in Nat \ {0}, NEW a \in Int, NEW b \in Int
  PROVE  ((a % M) + b) % M = (a + b) % M
<1> DEFINE d == a \div M
           e == a % M
<1>1. d \in Int /\ e \in 0 .. M - 1 /\ a = M * d + e
  BY ModSplit
<1> HIDE DEF d, e
<1>2. (M * d + (e + b)) % M = (e + b) % M
  <2>1. e + b \in Int  BY <1>1
  <2> QED  BY <1>1, <2>1, ModShift
<1>3. a + b = M * d + (e + b)
  BY <1>1
<1>4. (a + b) % M = (e + b) % M
  BY <1>2, <1>3
<1> QED  BY <1>4 DEF e

\* ... or what is subtracted.
LEMMA ModSub ==
  ASSUME NEW M \in Nat \ {0}, NEW a \in Int, NEW b \in Int
  PROVE  (b - (a % M)) % M = (b - a) % M
<1> DEFINE d == a \div M
           e == a % M
<1>1. d \in Int /\ e \in 0 .. M - 1 /\ a = M * d + e
  BY ModSplit
<1> HIDE DEF d, e
<1>2. (M * d + (b - a)) % M = (b - a) % M
  <2>1. b - a \in Int  OBVIOUS
  <2> QED  BY <1>1, <2>1, ModShift
<1>3. b - e = M * d + (b - a)
  BY <1>1
<1>4. (b - e) % M = (b - a) % M
  BY <1>2, <1>3
<1> QED  BY <1>4 DEF e

\* The remainder of a number at most one modulus away from 0 .. M - 1.
LEMMA ModNear ==
  ASSUME NEW M \in Nat \ {0}, NEW x \in Int
  PROVE  /\ x \in 0 .. M - 1 => x % M = x
         /\ x \in -M .. -1 => x % M = x + M
         /\ x \in M .. 2 * M - 1 => x % M = x - M
         /\ x % M \in 0 .. M - 1
  OBVIOUS

LEMMA ModSmall ==
  ASSUME NEW M \in Nat \ {0}, NEW x \in 0 .. M - 1
  PROVE  x % M = x
  OBVIOUS

LEMMA DistanceTyped ==
  ASSUME NEW M \in Nat \ {0}, NEW a \in Int, NEW b \in Int
  PROVE  (a - b) % M \in 0 .. M - 1
<1>1. a - b \in Int
  OBVIOUS
<1> QED  BY <1>1, ModSplit

\* A pointer that moves by one stays a pointer; it wraps at the end.
LEMMA PointerStep ==
  ASSUME NEW M \in Nat \ {0}, NEW p \in 0 .. M - 1
  PROVE  (p + 1) % M = IF p = M - 1 THEN 0 ELSE p + 1
<1> DEFINE x == p + 1
<1>1. x \in Int /\ (p = M - 1 => x = M) /\ (p # M - 1 => x \in 0 .. M - 1)
  OBVIOUS
<1>2. M \in M .. 2 * M - 1
  OBVIOUS
<1>3. /\ x \in 0 .. M - 1 => x % M = x
      /\ x \in M .. 2 * M - 1 => x % M = x - M
  BY <1>1, ModNear
<1> HIDE DEF x
<1>4. x % M = IF p = M - 1 THEN 0 ELSE x
  BY <1>1, <1>2, <1>3
<1> QED  BY <1>4 DEF x

\* The distance from one pointer to another.
LEMMA PointerDistance ==
  ASSUME NEW M \in Nat \ {0}, NEW r \in 0 .. M - 1, NEW w \in 0 .. M - 1
  PROVE  (w - r) % M = IF w >= r THEN w - r ELSE w - r + M
<1> DEFINE x == w - r
<1>1. x \in Int /\ (w >= r => x \in 0 .. M - 1) /\ (~(w >= r) => x \in -M .. -1)
  OBVIOUS
<1>2. /\ x \in 0 .. M - 1 => x % M = x
      /\ x \in -M .. -1 => x % M = x + M
  BY <1>1, ModNear
<1> HIDE DEF x
<1>3. x % M = IF w >= r THEN x ELSE x + M
  BY <1>1, <1>2
<1> QED  BY <1>3 DEF x

\* A pointer without its extra bit is the index it stands for.
LEMMA PointerIndex ==
  ASSUME NEW D \in Nat \ {0}, NEW p \in 0 .. 2 * D - 1
  PROVE  p % D \in 0 .. D - 1 /\ p % D = IF p < D THEN p ELSE p - D
<1>1. p \in Int /\ (p < D => p \in 0 .. D - 1) /\ (~(p < D) => p \in D .. 2 * D - 1)
  OBVIOUS
<1>2. /\ p \in 0 .. D - 1 => p % D = p
      /\ p \in D .. 2 * D - 1 => p % D = p - D
      /\ p % D \in 0 .. D - 1
  BY <1>1, ModNear
<1> QED  BY <1>1, <1>2

\* Pointers carry one bit more than an index.  The offset of slot s of a memory
\* of D slots behind pointer r.
LEMMA OffsetIs ==
  ASSUME NEW D \in Nat \ {0}, NEW r \in 0 .. 2 * D - 1, NEW s \in 0 .. D - 1
  PROVE  (s - r) % D = IF r < D THEN IF s >= r THEN s - r ELSE s - r + D
                                ELSE IF s >= r - D THEN s - r + D ELSE s - r + 2 * D
<1> DEFINE t == r % D
<1>1. t = IF r < D THEN r ELSE r - D
  BY PointerIndex
<1>2. t \in 0 .. D - 1
  BY PointerIndex
<1>3. (s - t) % D = (s - r) % D
  <2>1. r \in Int /\ s \in Int  OBVIOUS
  <2> QED  BY <2>1, ModSub
<1> HIDE DEF t
<1>4. (s - t) % D = IF s >= t THEN s - t ELSE s - t + D
  BY <1>2, PointerDistance
<1> QED  BY <1>1, <1>3, <1>4

\* Advancing the read pointer moves every slot one place to the front, and the
\* first one to the end.
LEMMA OffsetStep ==
  ASSUME NEW D \in Nat \ {0}, NEW r \in 0 .. 2 * D - 1, NEW s \in 0 .. D - 1,
         NEW r2 \in 0 .. 2 * D - 1, r2 = (r + 1) % (2 * D)
  PROVE  (s - r2) % D = IF (s - r) % D = 0 THEN D - 1 ELSE ((s - r) % D) - 1
<1>1. (r + 1) % (2 * D) = IF r = 2 * D - 1 THEN 0 ELSE r + 1
  BY PointerStep
<1>2. (s - r) % D = IF r < D THEN IF s >= r THEN s - r ELSE s - r + D
                             ELSE IF s >= r - D THEN s - r + D ELSE s - r + 2 * D
  BY OffsetIs
<1>3. (s - r2) % D = IF r2 < D THEN IF s >= r2 THEN s - r2 ELSE s - r2 + D
                              ELSE IF s >= r2 - D THEN s - r2 + D ELSE s - r2 + 2 * D
  BY OffsetIs
<1> QED  BY <1>1, <1>2, <1>3

\* The slot the write pointer selects lies behind everything in a ring that is
\* not full, and no other slot does.
LEMMA OffsetWritten ==
  ASSUME NEW D \in Nat \ {0}, NEW r \in 0 .. 2 * D - 1, NEW w \in 0 .. 2 * D - 1,
         NEW s \in 0 .. D - 1
  PROVE  (w - r) % (2 * D) < D => ((s - r) % D = (w - r) % (2 * D) <=> s = w % D)
<1>1. w % D = IF w < D THEN w ELSE w - D
  BY PointerIndex
<1>2. (w - r) % (2 * D) = IF w >= r THEN w - r ELSE w - r + 2 * D
  BY PointerDistance
<1>3. (s - r) % D = IF r < D THEN IF s >= r THEN s - r ELSE s - r + D
                             ELSE IF s >= r - D THEN s - r + D ELSE s - r + 2 * D
  BY OffsetIs
<1> QED  BY <1>1, <1>2, <1>3

\* The slot the read pointer selects is the first one.
LEMMA OffsetRead ==
  ASSUME NEW D \in Nat \ {0}, NEW r \in 0 .. 2 * D - 1
  PROVE  r % D \in 0 .. D - 1 /\ ((r % D) - r) % D = 0
<1> DEFINE s == r % D
<1>1. s \in 0 .. D - 1 /\ s = IF r < D THEN r ELSE r - D
  BY PointerIndex
<1> HIDE DEF s
<1>2. (s - r) % D = IF r < D THEN IF s >= r THEN s - r ELSE s - r + D
                             ELSE IF s >= r - D THEN s - r + D ELSE s - r + 2 * D
  BY <1>1, OffsetIs
<1> QED  BY <1>1, <1>2 DEF s

-----------------------------------------------------------------------------
\* The inductive invariant.

Depth == IFQ_DEPTH
InFlight == IF ifqWen THEN 1 ELSE 0
Fetched(a) == [instr |-> a, pc |-> a]

\* pc of the oldest entry of the queue, and of the k-th one behind it.
QueueNext == IF instructionValid THEN NextPc(expected) ELSE expected
At(k) == (QueueNext + k) % PcMod

\* Position of slot s of the queue's memory behind the read pointer.
Offset(s) == (s - ifqRdptr) % Depth

\* There is room for what is in flight.
Room == IfqFill + InFlight <= Depth

\* What is presented is the instruction decode has to take next.
Presented == instructionValid => ifqDout = Fetched(expected)

\* A redirect that waits for the bus: the unit is empty, and no instruction is
\* in EX that could redirect again.
Redirecting ==
  /\ held # NoPc => inEx
  /\ inEx => ~flushPendingRead
  /\ held = NoPc => (pendingPcValid <=> flushPendingRead)
  /\ flushPendingRead =>
       /\ pendingPcValid /\ pendingPc = expected
       /\ IfqFill = 0 /\ ~ifqWen /\ ~instructionValid

\* The queue, the word in flight and the fetch address continue the stream that
\* decode takes, unless a taken branch held in EX has already redirected pc; the
\* flush that follows then drops the queue.
Queued ==
  held = NoPc =>
    /\ \A s \in 0 .. Depth - 1 : Offset(s) < IfqFill => ifqMem[s] = Fetched(At(Offset(s)))
    /\ ifqWen => readData = At(IfqFill) /\ currentPc = At(IfqFill)
    /\ ~pendingPcValid => pc = At(IfqFill + InFlight)

Inv == TypeOK /\ Room /\ Presented /\ Redirecting /\ Queued

-----------------------------------------------------------------------------
\* The constants.
LEMMA ConstantFacts ==
  /\ Depth \in Nat \ {0} /\ PtrMod \in Nat \ {0} /\ PcMod \in Nat \ {0}
  /\ PtrMod = 2 * Depth
  /\ IFQ_AFULL_TH \in 1 .. Depth - 1
  /\ NoPc \notin Pcs /\ NoPc \notin Targets /\ Targets \subseteq Pcs /\ 0 \in Pcs
<1>1. IFQ_DEPTH \in Nat \ {0} /\ PcMod \in Nat \ {0}
  BY PcModAssumption, DepthAssumption
<1>2. 2 * IFQ_DEPTH \in Nat \ {0} /\ 0 \in 0 .. PcMod - 1
  BY <1>1
<1>3. NoPc \notin Targets
  BY TargetsAssumption, NoPcAssumption
<1> QED  BY <1>1, <1>2, <1>3, DepthAssumption, TargetsAssumption, NoPcAssumption
         DEF Depth, PtrMod, Pcs

LEMMA NextPcTyped ==
  ASSUME NEW p \in Pcs
  PROVE  NextPc(p) \in Pcs
<1>1. p + 1 \in Int
  BY ConstantFacts DEF Pcs
<1> QED  BY <1>1, ConstantFacts, ModSplit DEF Pcs, NextPc

\* The fill level: what is in flight arrives, what is read leaves.
LEMMA FillEdge ==
  ASSUME TypeOK, Room, NEW stall \in BOOLEAN, IfqPointers(stall, FALSE)
  PROVE  /\ ifqRdptr' \in 0 .. PtrMod - 1 /\ ifqWtptr' \in 0 .. PtrMod - 1
         /\ IfqFill \in 0 .. PtrMod - 1
         /\ IfqFill' = IfqFill + InFlight - (IF IfqRen(stall) THEN 1 ELSE 0)
<1> DEFINE i == IF IfqRen(stall) THEN 1 ELSE 0
           j == InFlight
<1>1. /\ ifqRdptr \in 0 .. PtrMod - 1 /\ ifqWtptr \in 0 .. PtrMod - 1
      /\ i \in {0, 1} /\ j \in {0, 1}
      /\ PtrMod \in Nat \ {0} /\ PtrMod = 2 * Depth /\ Depth \in Nat \ {0}
  BY ConstantFacts DEF TypeOK, InFlight
<1>2. IfqFill \in 0 .. PtrMod - 1
  <2>1. ifqWtptr - ifqRdptr \in Int  BY <1>1
  <2> QED  BY <1>1, <2>1, ModSplit DEF IfqFill
<1>3. IfqFill + j - i \in 0 .. PtrMod - 1
  <2>1. i = 1 => IfqFill # 0
    BY DEF IfqRen, IfqEmpty
  <2>2. IfqFill + j <= Depth
    BY DEF Room
  <2> HIDE DEF i, j
  <2> QED  BY <1>1, <1>2, <2>1, <2>2
<1>4. /\ ifqRdptr' = IF i = 1 THEN (ifqRdptr + 1) % PtrMod ELSE ifqRdptr
      /\ ifqWtptr' = IF j = 1 THEN (ifqWtptr + 1) % PtrMod ELSE ifqWtptr
  BY DEF IfqPointers, InFlight
<1> HIDE DEF i, j
<1>5. ((ifqWtptr - ifqRdptr) % PtrMod) + j - i \in 0 .. PtrMod - 1
  BY <1>3 DEF IfqFill
<1> DEFINE M == PtrMod
           r == ifqRdptr
           w == ifqWtptr
           r2 == ifqRdptr'
           w2 == ifqWtptr'
<1> HIDE DEF M, r, w, r2, w2
<1>6. /\ r2 \in 0 .. M - 1 /\ w2 \in 0 .. M - 1
      /\ (w2 - r2) % M = ((w - r) % M) + j - i
  <2>1. /\ M \in Nat \ {0} /\ r \in 0 .. M - 1 /\ w \in 0 .. M - 1
        /\ i \in {0, 1} /\ j \in {0, 1}
    BY <1>1 DEF M, r, w
  <2>2. /\ r2 = IF i = 1 THEN (r + 1) % M ELSE r
        /\ w2 = IF j = 1 THEN (w + 1) % M ELSE w
    BY <1>4 DEF M, r, w, r2, w2
  <2>3. ((w - r) % M) + j - i \in 0 .. M - 1
    BY <1>5 DEF M, r, w
  <2>4. /\ (r + 1) % M = IF r = M - 1 THEN 0 ELSE r + 1
        /\ (w + 1) % M = IF w = M - 1 THEN 0 ELSE w + 1
    BY <2>1, PointerStep
  <2>5. r2 \in 0 .. M - 1 /\ w2 \in 0 .. M - 1
    BY <2>1, <2>2, <2>4
  <2>6. /\ (w - r) % M = IF w >= r THEN w - r ELSE w - r + M
        /\ (w2 - r2) % M = IF w2 >= r2 THEN w2 - r2 ELSE w2 - r2 + M
    BY <2>1, <2>5, PointerDistance
  <2> QED  BY <2>1, <2>2, <2>3, <2>4, <2>5, <2>6
<1>7. IfqFill' = IfqFill + j - i
  BY <1>6 DEF IfqFill, PtrMod, M, r, w, r2, w2
<1> QED  BY <1>2, <1>6, <1>7 DEF i, j, M, r2, w2

\* A flush empties the queue.
LEMMA FlushedFill ==
  ASSUME NEW stall \in BOOLEAN, IfqPointers(stall, TRUE)
  PROVE  ifqRdptr' = 0 /\ ifqWtptr' = 0 /\ IfqFill' = 0
<1>1. 0 % PtrMod = 0
  <2>1. 0 \in 0 .. PtrMod - 1 /\ 0 \in Int  BY ConstantFacts
  <2> QED  BY <2>1, ConstantFacts, ModNear
<1> QED  BY <1>1, ConstantFacts DEF IfqPointers, IfqFill, PtrMod

\* Every clock edge keeps the registers in their types.
LEMMA EdgeTyped ==
  ASSUME TypeOK, Room, NEW wait \in BOOLEAN, NEW stall \in BOOLEAN, NEW flush \in BOOLEAN,
         NEW trap \in Targets \cup {NoPc}, NEW branch \in Targets \cup {NoPc},
         Edge(wait, stall, flush, trap, branch),
         expected' \in Pcs, held' \in Targets \cup {NoPc},
         inEx' \in BOOLEAN, inBack' \in BOOLEAN
  PROVE  TypeOK'
<1>1. pc' \in Pcs /\ pendingPc' \in Pcs /\ currentPc' \in Pcs
  BY ConstantFacts, NextPcTyped DEF TypeOK, Edge, PcRegNext, PendingPcNext
<1>2. /\ pendingPcValid' \in BOOLEAN /\ ifqWen' \in BOOLEAN
      /\ flushPendingRead' \in BOOLEAN /\ instructionValid' \in BOOLEAN
  BY DEF TypeOK, Edge, PendingPcValidNext, IfqWenNext, FlushPendingReadNext,
         InstructionValidNext, IbusFire, IbusRead, IfqRen, IfqEmpty
<1>3. ifqRdptr' \in 0 .. PtrMod - 1 /\ ifqWtptr' \in 0 .. PtrMod - 1
  <2>1. CASE flush = TRUE
    BY <2>1, ConstantFacts DEF Edge, IfqPointers
  <2>2. CASE flush = FALSE
    BY <2>2, FillEdge DEF Edge
  <2> QED  BY <2>1, <2>2
<1>4. ifqMem' \in [0 .. IFQ_DEPTH - 1 -> Entry] /\ ifqDout' \in Entry
  <2>1. ifqRdptr % Depth \in 0 .. Depth - 1
    BY ConstantFacts, PointerIndex DEF TypeOK
  <2>2. [instr |-> readData, pc |-> currentPc] \in Entry
    BY DEF TypeOK, Entry
  <2> QED  BY <2>1, <2>2 DEF TypeOK, Edge, IfqMemory, Depth
<1>5. readData' \in Pcs /\ openReq' \in Pcs \cup {NoPc}
  BY DEF TypeOK, Edge
<1> QED  BY <1>1, <1>2, <1>3, <1>4, <1>5 DEF TypeOK, PtrMod, Pcs, Entry

\* The almost-full threshold: a read is only made when its word has a place.
LEMMA RoomStep ==
  ASSUME TypeOK, Room, NEW wait \in BOOLEAN, NEW stall \in BOOLEAN, NEW flush \in BOOLEAN,
         IfqPointers(stall, flush), ifqWen' = IfqWenNext(wait, flush)
  PROVE  Room'
<1>1. CASE flush = TRUE
  <2>1. IfqFill' = 0
    BY <1>1, FlushedFill
  <2>2. ifqWen' = FALSE
    BY <1>1 DEF IfqWenNext
  <2> QED  BY <2>1, <2>2, ConstantFacts DEF Room, InFlight, Depth
<1>2. CASE flush = FALSE
  <2>1. /\ IfqFill \in 0 .. PtrMod - 1
        /\ IfqFill' = IfqFill + InFlight - (IF IfqRen(stall) THEN 1 ELSE 0)
    BY <1>2, FillEdge
  <2>2. ifqWen' => IfqFill <= Depth - IFQ_AFULL_TH - 1
    BY <1>2, <2>1, ConstantFacts DEF IfqWenNext, IbusFire, IbusRead, IfqAfull, Depth
  <2>3. IfqFill' <= IfqFill + InFlight /\ IfqFill' \in Int
    BY <2>1, ConstantFacts DEF InFlight
  <2> QED  BY <2>1, <2>2, <2>3, ConstantFacts DEF Room, InFlight, Depth
<1> QED  BY <1>1, <1>2

\* A flush, by a taken branch or a trap to p: whatever the bus does, the unit
\* restarts at p.
LEMMA FlushStep ==
  ASSUME Inv, NEW wait \in BOOLEAN, NEW stall \in BOOLEAN, NEW p \in Targets,
         NEW trap \in Targets \cup {NoPc}, NEW branch \in Targets \cup {NoPc},
         p = IF trap # NoPc THEN trap ELSE branch,
         Edge(wait, stall, TRUE, trap, branch),
         expected' = p, held' = NoPc, inEx' = FALSE
  PROVE  Room' /\ Presented' /\ Redirecting' /\ Queued'
<1>1. /\ IfqFill' = 0 /\ ifqRdptr' = 0
      /\ ifqWen' = FALSE /\ instructionValid' = FALSE
  BY FlushedFill DEF Edge, IfqWenNext, InstructionValidNext
<1>2. Room' /\ Presented'
  BY <1>1, ConstantFacts DEF Room, InFlight, Presented, Depth
<1>3. flushPendingRead => IfqFill = 0
  BY DEF Inv, Redirecting
<1>4. ASSUME NEW s \in 0 .. Depth - 1
      PROVE  ~(Offset(s) < IfqFill)'
  <2>1. ifqRdptr' \in Int /\ s \in Int
    BY <1>1, ConstantFacts
  <2>2. Offset(s)' \in 0 .. Depth - 1
    BY <2>1, ConstantFacts, DistanceTyped DEF Offset, Depth
  <2> QED  BY <1>1, <2>2
<1>5. CASE wait = TRUE
  <2>1. pendingPcValid' = TRUE /\ pendingPc' = p /\ flushPendingRead' = TRUE
    BY <1>5, ConstantFacts DEF Edge, PendingPcValidNext, PendingPcNext, FlushPendingReadNext
  <2>2. Redirecting'
    BY <1>1, <2>1 DEF Redirecting
  <2>3. Queued'
    BY <1>1, <1>4, <2>1 DEF Queued, Depth
  <2> QED  BY <1>2, <2>2, <2>3
<1>6. CASE wait = FALSE
  <2>1. flushPendingRead => IbusRead
    BY <1>3, ConstantFacts DEF IbusRead, IfqAfull, Depth
  <2>2. pendingPcValid' = FALSE /\ pc' = p /\ flushPendingRead' = FALSE
    BY <1>6, <2>1, ConstantFacts
    DEF Edge, PendingPcValidNext, PcRegNext, FlushPendingReadNext, IbusFire, Inv, TypeOK
  <2>3. Redirecting'
    BY <1>1, <2>2 DEF Redirecting
  <2>4. Queued'
    <3>1. p \in 0 .. PcMod - 1 /\ p % PcMod = p /\ p + 0 = p
      <4>1. p \in 0 .. PcMod - 1 /\ p + 0 = p
        BY ConstantFacts DEF Pcs
      <4>2. p % PcMod = p
        BY <4>1, ConstantFacts, ModSmall
      <4> QED  BY <4>1, <4>2
    <3>2. pc' = At(IfqFill + InFlight)'
      BY <1>1, <2>2, <3>1 DEF At, QueueNext, InFlight
    <3> QED  BY <1>1, <1>4, <2>2, <3>2 DEF Queued, Depth
  <2> QED  BY <1>2, <2>3, <2>4
<1> QED  BY <1>5, <1>6

\* What follows the queue in the stream moves on when an entry is presented.
LEMMA StreamStep ==
  ASSUME Inv, NEW wait \in BOOLEAN, NEW stall \in BOOLEAN, Run(wait, stall)
  PROVE  /\ QueueNext \in Pcs
         /\ QueueNext' = IF IfqRen(stall) THEN NextPc(QueueNext) ELSE QueueNext
         /\ \A k \in Int : At(k)' = IF IfqRen(stall) THEN At(k + 1) ELSE At(k)
<1>1. /\ QueueNext \in Pcs
      /\ QueueNext' = IF IfqRen(stall) THEN NextPc(QueueNext) ELSE QueueNext
  <2>1. expected \in Pcs /\ instructionValid \in BOOLEAN
    BY DEF Inv, TypeOK
  <2>2. instructionValid' = (IfqRen(stall) \/ (stall /\ instructionValid))
    BY DEF Run, Edge, InstructionValidNext
  <2>3. expected' = IF instructionValid /\ ~stall THEN NextPc(expected) ELSE expected
    BY DEF Run, Taken
  <2>4. IfqRen(stall) => ~stall
    BY DEF IfqRen
  <2> QED  BY <2>1, <2>2, <2>3, <2>4, NextPcTyped DEF QueueNext
<1>2. ASSUME NEW k \in Int
      PROVE  At(k)' = IF IfqRen(stall) THEN At(k + 1) ELSE At(k)
  <2> DEFINE q == QueueNext
  <2>1. q + 1 \in Int /\ q \in Int
    BY <1>1 DEF Pcs
  <2>2. (((q + 1) % PcMod) + k) % PcMod = ((q + 1) + k) % PcMod
    BY <2>1, ConstantFacts, ModAdd
  <2>3. (q + 1) + k = q + (k + 1)
    BY <2>1
  <2> QED  BY <1>1, <2>2, <2>3 DEF At, NextPc
<1> QED  BY <1>1, <1>2

\* The pointers of a cycle without a flush.
LEMMA RunFill ==
  ASSUME Inv, NEW wait \in BOOLEAN, NEW stall \in BOOLEAN, Run(wait, stall)
  PROVE  /\ ifqRdptr \in 0 .. 2 * Depth - 1 /\ ifqRdptr' \in 0 .. 2 * Depth - 1
         /\ ifqWtptr \in 0 .. 2 * Depth - 1
         /\ IfqFill \in 0 .. 2 * Depth - 1 /\ IfqFill + InFlight <= Depth
         /\ IfqFill' = IfqFill + InFlight - (IF IfqRen(stall) THEN 1 ELSE 0)
<1>1. TypeOK /\ Room /\ IfqPointers(stall, FALSE)
  BY DEF Inv, Run, Edge
<1>2. /\ ifqRdptr' \in 0 .. PtrMod - 1
      /\ IfqFill \in 0 .. PtrMod - 1
      /\ IfqFill' = IfqFill + InFlight - (IF IfqRen(stall) THEN 1 ELSE 0)
  BY <1>1, FillEdge
<1> QED  BY <1>1, <1>2, ConstantFacts DEF TypeOK, Room

\* The entry that is presented is the oldest one.
LEMMA RunPresented ==
  ASSUME Inv, NEW wait \in BOOLEAN, NEW stall \in BOOLEAN, Run(wait, stall)
  PROVE  Presented'
<1>1. CASE IfqRen(stall)
  <2> DEFINE s == ifqRdptr % Depth
  <2>1. s \in 0 .. Depth - 1 /\ Offset(s) = 0
    BY RunFill, ConstantFacts, OffsetRead DEF Offset
  <2>2. 0 < IfqFill
    BY <1>1, RunFill, ConstantFacts DEF IfqRen, IfqEmpty
  <2>3. ifqMem[s] = Fetched(At(0))
    BY <2>1, <2>2 DEF Inv, Queued, Run
  <2>4. At(0) = QueueNext
    <3>1. QueueNext \in 0 .. PcMod - 1 /\ QueueNext + 0 = QueueNext
      BY StreamStep DEF Pcs
    <3> QED  BY <3>1, ConstantFacts, ModSmall DEF At
  <2>5. expected' = QueueNext
    BY <1>1 DEF Run, Taken, QueueNext, IfqRen
  <2> QED  BY <1>1, <2>3, <2>4, <2>5 DEF Presented, Run, Edge, IfqMemory, Depth, Fetched
<1>2. CASE ~IfqRen(stall)
  BY <1>2 DEF Inv, Presented, Run, Taken, Edge, IfqMemory, InstructionValidNext, Fetched
<1> QED  BY <1>1, <1>2

\* A redirect is pending until a read of the old stream has been accepted.
LEMMA RunRedirecting ==
  ASSUME Inv, NEW wait \in BOOLEAN, NEW stall \in BOOLEAN, Run(wait, stall)
  PROVE  Redirecting'
<1>1. pendingPcValid' = (pendingPcValid /\ wait) /\ pendingPc' = pendingPc
  BY DEF Run, Edge, PendingPcValidNext, PendingPcNext, Inv, TypeOK
<1>2. flushPendingRead' = (flushPendingRead /\ wait)
  <2>1. flushPendingRead => IbusRead
    BY ConstantFacts DEF Inv, Redirecting, IbusRead, IfqAfull, Depth
  <2> QED  BY <2>1 DEF Run, Edge, FlushPendingReadNext, IbusFire, Inv, TypeOK
<1>3. (~flushPendingRead /\ Taken(stall)) \/ inEx' = inEx
  BY DEF Run, Taken, Inv, Redirecting, TypeOK
<1>4. ASSUME flushPendingRead
      PROVE  /\ IfqFill' = 0 /\ ifqWen' = FALSE /\ instructionValid' = FALSE
             /\ expected' = expected
  <2>1. IfqFill = 0 /\ ~ifqWen /\ ~instructionValid
    BY <1>4 DEF Inv, Redirecting
  <2>2. ~IfqRen(stall)
    BY <2>1 DEF IfqRen, IfqEmpty
  <2>3. IfqFill' = 0
    BY <2>1, <2>2, RunFill DEF InFlight
  <2> QED  BY <1>4, <2>1, <2>2, <2>3
           DEF Run, Taken, Edge, IfqWenNext, InstructionValidNext
<1> QED  BY <1>1, <1>2, <1>3, <1>4 DEF Inv, TypeOK, Redirecting, Run

\* The queue, the word in flight and the fetch address continue the stream.
LEMMA RunQueued ==
  ASSUME Inv, NEW wait \in BOOLEAN, NEW stall \in BOOLEAN, Run(wait, stall)
  PROVE  Queued'
<1> DEFINE i == IF IfqRen(stall) THEN 1 ELSE 0
<1>1. i \in {0, 1} /\ InFlight \in {0, 1} /\ (i = 1 <=> IfqRen(stall))
  BY DEF InFlight
<1>2. \A k \in Int : (QueueNext' + k) % PcMod = (QueueNext + (k + i)) % PcMod
  BY StreamStep DEF At
<1>3. /\ IfqFill \in 0 .. 2 * Depth - 1 /\ IfqFill + InFlight <= Depth
      /\ IfqFill' = IfqFill + InFlight - i
  BY RunFill
<1>4. i = 1 => IfqFill # 0
  BY DEF IfqRen, IfqEmpty
\* The queue: the word that arrives is written behind the others.
<1>5. ASSUME NEW s \in 0 .. Depth - 1, (Offset(s) < IfqFill)'
      PROVE  (ifqMem[s] = Fetched(At(Offset(s))))'
  <2>1. Offset(s) \in 0 .. Depth - 1
    BY RunFill, ConstantFacts, DistanceTyped DEF Offset
  <2>2. Offset(s)' = IF i = 0 THEN Offset(s)
                     ELSE IF Offset(s) = 0 THEN Depth - 1 ELSE Offset(s) - 1
    <3>1. CASE i = 1
      <4>1. ifqRdptr' = (ifqRdptr + 1) % (2 * Depth)
        BY <1>1, <3>1, ConstantFacts DEF Run, Edge, IfqPointers
      <4> QED  BY <3>1, <4>1, RunFill, ConstantFacts, OffsetStep DEF Offset, Depth
    <3>2. CASE i = 0
      BY <1>1, <3>2 DEF Run, Edge, IfqPointers, Offset, Depth
    <3> QED  BY <1>1, <3>1, <3>2
  <2> HIDE DEF i
  <2>3. Offset(s)' = Offset(s) - i /\ Offset(s) < IfqFill + InFlight
    BY <1>1, <1>3, <1>4, <1>5, <2>1, <2>2, ConstantFacts
  <2>4. Fetched(At(Offset(s)))' = Fetched(At(Offset(s)))
    <3> DEFINE k == Offset(s)
    <3>1. k' \in Int /\ k' + i = k
      BY <1>1, <2>1, <2>3
    <3>2. (QueueNext' + k') % PcMod = (QueueNext + k) % PcMod
      BY <1>2, <3>1
    <3> QED  BY <3>2 DEF Fetched, At
  <2> DEFINE r == ifqRdptr
             w == ifqWtptr
  <2>5. /\ r \in 0 .. 2 * Depth - 1 /\ w \in 0 .. 2 * Depth - 1
        /\ IfqFill = (w - r) % (2 * Depth) /\ Offset(s) = (s - r) % Depth
    BY RunFill, ConstantFacts DEF IfqFill, Offset
  <2> HIDE DEF r, w
  <2>6. (w - r) % (2 * Depth) < Depth =>
          ((s - r) % Depth = (w - r) % (2 * Depth) <=> s = w % Depth)
    BY <2>5, ConstantFacts, OffsetWritten
  <2>7. IfqFill < Depth => (Offset(s) = IfqFill <=> s = ifqWtptr % Depth)
    BY <2>5, <2>6 DEF w
  <2>8. CASE ifqWen /\ s = ifqWtptr % Depth
    <3>1. Offset(s) = IfqFill
      BY <1>3, <2>8, <2>7, ConstantFacts DEF InFlight
    <3>2. ifqMem'[s] = [instr |-> readData, pc |-> currentPc]
      BY <2>8 DEF Run, Edge, IfqMemory, Depth, Inv, TypeOK
    <3>3. ifqMem'[s] = Fetched(At(Offset(s)))
      BY <2>8, <3>1, <3>2 DEF Inv, Queued, Run, Fetched
    <3> QED  BY <2>4, <3>3
  <2>9. CASE ~(ifqWen /\ s = ifqWtptr % Depth)
    <3>1. Offset(s) < IfqFill
      BY <1>3, <2>1, <2>3, <2>9, <2>7, ConstantFacts DEF InFlight
    <3>2. ifqMem'[s] = ifqMem[s]
      BY <2>9 DEF Run, Edge, IfqMemory, Depth, Inv, TypeOK
    <3>3. ifqMem'[s] = Fetched(At(Offset(s)))
      BY <3>1, <3>2 DEF Inv, Queued, Run
    <3> QED  BY <2>4, <3>3
  <2> QED  BY <2>8, <2>9
\* The word in flight: it was read at the fetch address.
<1>6. ASSUME ifqWen'
      PROVE  (readData = At(IfqFill) /\ currentPc = At(IfqFill))'
  <2>1. /\ IbusFire(wait) /\ ~flushPendingRead
        /\ readData' = pc /\ currentPc' = pc
    BY <1>6 DEF Run, Edge, IfqWenNext
  <2>2. pc = At(IfqFill + InFlight)
    BY <2>1 DEF Inv, Redirecting, Queued, Run
  <2> DEFINE k == IfqFill
  <2>3. k' \in Int /\ k' + i = IfqFill + InFlight
    BY <1>1, <1>3
  <2>4. At(IfqFill)' = At(IfqFill + InFlight)
    <3>1. (QueueNext' + k') % PcMod = (QueueNext + (k' + i)) % PcMod
      BY <1>2, <2>3
    <3> QED  BY <2>3, <3>1 DEF At
  <2> QED  BY <2>1, <2>2, <2>4
\* The fetch address: it follows whatever was asked for.
<1>7. ASSUME ~pendingPcValid'
      PROVE  (pc = At(IfqFill + InFlight))'
  <2> DEFINE k == IfqFill + InFlight
  <2>1. k' \in Int /\ k' + i = k + InFlight'
    <3>1. InFlight' \in {0, 1}
      BY DEF InFlight
    <3> QED  BY <1>1, <1>3, <3>1
  <2>2. (QueueNext' + k') % PcMod = (QueueNext + (k + InFlight')) % PcMod
    <3>1. (QueueNext' + k') % PcMod = (QueueNext + (k' + i)) % PcMod
      BY <1>2, <2>1
    <3> QED  BY <2>1, <3>1
  <2>3. CASE wait
    <3>1. pc' = pc /\ ~pendingPcValid /\ InFlight' = 0
      BY <1>7, <2>3 DEF Run, Edge, PcRegNext, PendingPcValidNext, IfqWenNext, IbusFire, InFlight
    <3>2. pc = At(k) /\ k + InFlight' = k
      BY <1>1, <1>3, <3>1 DEF Inv, Queued, Run
    <3> QED  BY <2>2, <3>1, <3>2 DEF At
  <2>4. CASE ~wait /\ pendingPcValid
    <3>1. flushPendingRead /\ pc' = pendingPc
      BY <2>4 DEF Inv, Redirecting, Run, Edge, PcRegNext
    <3>2. pendingPc = expected /\ k = 0 /\ QueueNext = expected
      BY <3>1 DEF Inv, Redirecting, QueueNext, InFlight
    <3>3. InFlight' = 0
      BY <3>1 DEF InFlight, Run, Edge, IfqWenNext
    <3>4. (QueueNext + 0) % PcMod = QueueNext
      <4>1. QueueNext \in 0 .. PcMod - 1 /\ QueueNext + 0 = QueueNext
        BY StreamStep DEF Pcs
      <4> QED  BY <4>1, ConstantFacts, ModSmall
    <3> QED  BY <2>2, <3>1, <3>2, <3>3, <3>4 DEF At
  <2>5. CASE ~wait /\ ~pendingPcValid
    <3>1. pc = At(k) /\ ~flushPendingRead
      BY <2>5 DEF Inv, Redirecting, Queued, Run
    <3>2. CASE IbusRead
      <4>1. pc' = (pc + 1) % PcMod /\ InFlight' = 1
        BY <2>5, <3>1, <3>2
        DEF Run, Edge, PcRegNext, NextPc, IfqWenNext, IbusFire, InFlight
      <4>2. (((QueueNext + k) % PcMod) + 1) % PcMod = ((QueueNext + k) + 1) % PcMod
        <5>1. QueueNext + k \in Int
          BY <1>1, <1>3, StreamStep DEF Pcs
        <5> QED  BY <5>1, ConstantFacts, ModAdd
      <4>3. (QueueNext + k) + 1 = QueueNext + (k + 1)
        BY <1>1, <1>3, StreamStep DEF Pcs
      <4> QED  BY <2>2, <3>1, <4>1, <4>2, <4>3 DEF At
    <3>3. CASE ~IbusRead
      <4>1. pc' = pc /\ InFlight' = 0
        BY <2>5, <3>3 DEF Run, Edge, PcRegNext, IfqWenNext, IbusFire, InFlight
      <4>2. k + InFlight' = k
        BY <1>1, <1>3, <4>1
      <4> QED  BY <2>2, <3>1, <4>1, <4>2 DEF At
    <3> QED  BY <3>2, <3>3
  <2> QED  BY <2>3, <2>4, <2>5 DEF Run
<1> QED  BY <1>5, <1>6, <1>7 DEF Queued, Depth

\* A branch that waits in EX: nothing is presented anew, and a redirect is
\* remembered or already in pc.
LEMMA HeldStep ==
  ASSUME Inv, NEW wait \in BOOLEAN, NEW p \in Targets, BranchHeld(wait, p)
  PROVE  Presented' /\ Redirecting' /\ Queued'
<1>1. ~flushPendingRead /\ p # NoPc
  BY ConstantFacts DEF Inv, Redirecting, BranchHeld
<1>2. ~flushPendingRead' /\ held' = p /\ inEx' = inEx
  BY <1>1 DEF BranchHeld, Edge, FlushPendingReadNext
<1>3. ~IfqRen(TRUE)
  BY DEF IfqRen
<1>4. Presented'
  BY <1>3 DEF Inv, Presented, BranchHeld, Edge, IfqMemory, InstructionValidNext, Fetched
<1> QED  BY <1>1, <1>2, <1>4 DEF BranchHeld, Redirecting, Queued

-----------------------------------------------------------------------------
\* The invariant holds.

LEMMA InitInv ==
  ASSUME Init
  PROVE  Inv
<1>1. 0 % PtrMod = 0 /\ 0 % PcMod = 0
  <2>1. 0 \in 0 .. PtrMod - 1 /\ 0 \in 0 .. PcMod - 1
    BY ConstantFacts
  <2> QED  BY <2>1, ConstantFacts, ModSmall
<1>2. IfqFill = 0 /\ InFlight = 0 /\ QueueNext = 0 /\ At(0) = 0
  BY <1>1 DEF Init, IfqFill, InFlight, QueueNext, At
<1>3. TypeOK
  <2>1. 0 \in Pcs /\ 0 \in 0 .. PtrMod - 1
    BY ConstantFacts
  <2>2. [instr |-> 0, pc |-> 0] \in Entry
    BY <2>1 DEF Entry
  <2>3. ifqMem \in [0 .. IFQ_DEPTH - 1 -> Entry]
    BY <2>2 DEF Init
  <2> QED  BY <2>1, <2>2, <2>3 DEF Init, TypeOK
<1>4. Room /\ Presented /\ Redirecting
  BY <1>2, ConstantFacts DEF Init, Room, Presented, Redirecting
<1>5. ASSUME NEW s \in 0 .. Depth - 1
      PROVE  ~(Offset(s) < IfqFill)
  <2>1. ifqRdptr \in Int /\ s \in Int
    BY <1>3 DEF TypeOK
  <2>2. Offset(s) \in 0 .. Depth - 1
    BY <2>1, ConstantFacts, DistanceTyped DEF Offset
  <2> QED  BY <1>2, <2>2
<1>6. Queued
  BY <1>2, <1>5 DEF Init, Queued, InFlight, Depth
<1> QED  BY <1>3, <1>4, <1>6 DEF Inv

LEMMA NextInv ==
  ASSUME Inv, [Next]_vars
  PROVE  Inv'
<1>1. TypeOK /\ Room
  BY DEF Inv
<1>2. ASSUME NEW wait \in BOOLEAN, NEW stall \in BOOLEAN, Run(wait, stall)
      PROVE  Inv'
  <2>1. /\ expected' \in Pcs /\ held' \in Targets \cup {NoPc}
        /\ inEx' \in BOOLEAN /\ inBack' \in BOOLEAN
    BY <1>1, <1>2, NextPcTyped DEF Run, TypeOK, Taken
  <2>2. TypeOK'
    BY <1>1, <1>2, <2>1, EdgeTyped DEF Run
  <2>3. Room'
    BY <1>1, <1>2, RoomStep DEF Run, Edge
  <2> QED  BY <1>2, <2>2, <2>3, RunPresented, RunRedirecting, RunQueued DEF Inv
<1>3. ASSUME NEW wait \in BOOLEAN, NEW p \in Targets, BranchHeld(wait, p)
      PROVE  Inv'
  <2>1. /\ expected' \in Pcs /\ held' \in Targets \cup {NoPc}
        /\ inEx' \in BOOLEAN /\ inBack' \in BOOLEAN
    BY <1>1, <1>3 DEF BranchHeld, TypeOK
  <2>2. TypeOK'
    BY <1>1, <1>3, <2>1, EdgeTyped DEF BranchHeld
  <2>3. Room'
    BY <1>1, <1>3, RoomStep DEF BranchHeld, Edge
  <2> QED  BY <1>3, <2>2, <2>3, HeldStep DEF Inv
<1>4. ASSUME NEW wait \in BOOLEAN, NEW stall \in BOOLEAN, NEW p \in Targets,
             BranchFlush(wait, stall, p)
      PROVE  Inv'
  <2>1. /\ expected' \in Pcs /\ held' \in Targets \cup {NoPc}
        /\ inEx' \in BOOLEAN /\ inBack' \in BOOLEAN
    BY <1>1, <1>4, ConstantFacts DEF BranchFlush, TypeOK
  <2>2. TypeOK'
    BY <1>1, <1>4, <2>1, EdgeTyped DEF BranchFlush
  <2> QED  BY <1>4, <2>2, FlushStep DEF Inv, BranchFlush
<1>5. ASSUME NEW wait \in BOOLEAN, NEW stall \in BOOLEAN, NEW p \in Targets,
             NEW b \in Targets \cup {NoPc}, TrapFlush(wait, stall, p, b)
      PROVE  Inv'
  <2>1. /\ expected' \in Pcs /\ held' \in Targets \cup {NoPc}
        /\ inEx' \in BOOLEAN /\ inBack' \in BOOLEAN
    BY <1>1, <1>5, ConstantFacts DEF TrapFlush, TypeOK
  <2>2. TypeOK'
    BY <1>1, <1>5, <2>1, EdgeTyped DEF TrapFlush
  <2> QED  BY <1>5, <2>2, FlushStep, ConstantFacts DEF Inv, TrapFlush
<1>6. CASE UNCHANGED vars
  BY <1>6 DEF vars, regs, env, Inv, TypeOK, Room, Presented, Redirecting, Queued,
              IfqFill, InFlight, Fetched, QueueNext, At, Offset
<1> QED  BY <1>2, <1>3, <1>4, <1>5, <1>6 DEF Next

\* The registers stay in their types and the inductive invariant holds in every
\* reachable state.
THEOREM Invariance == Spec => []Inv
<1>1. Init => Inv
  BY InitInv
<1>2. Inv /\ [Next]_vars => Inv'
  BY NextInv
<1> QED  BY <1>1, <1>2, PTL DEF Spec

\* Type correctness: the pointers never leave the range of their registers.
THEOREM TypeCorrect == Spec => []TypeOK
<1>1. Inv => TypeOK
  BY DEF Inv
<1> QED  BY <1>1, Invariance, PTL

\* For every depth and every almost-full threshold of at least one, no bus and
\* no pipeline behaviour makes the queue overflow.
THEOREM NoOverflow == Spec => []IfqNeverOverflows
<1>1. Inv => IfqNeverOverflows
  BY DEF Inv, Room, IfqNeverOverflows, InFlight, Depth
<1> QED  BY <1>1, Invariance, PTL

\* While the read of a flushed stream is outstanding the unit is empty and the
\* redirect is remembered.
THEOREM StaleIsolated == Spec => []StaleReadIsolated
<1>1. Inv => StaleReadIsolated
  BY DEF Inv, Redirecting, StaleReadIsolated, IfqEmpty
<1> QED  BY <1>1, Invariance, PTL

\* The address of a read the bus holds off never changes.
THEOREM AddressStable == Spec => []BusAddressStable
<1>1. Init => BusAddressStable
  BY DEF Init, BusAddressStable
<1>2. BusAddressStable /\ [Next]_vars => BusAddressStable'
  <2>1. ASSUME NEW wait \in BOOLEAN, NEW stall, NEW flush, NEW trap, NEW branch,
               Edge(wait, stall, flush, trap, branch)
        PROVE  BusAddressStable'
    BY <2>1 DEF Edge, PcRegNext, BusAddressStable
  <2>2. CASE UNCHANGED vars
    BY <2>2 DEF vars, regs, env, BusAddressStable
  <2> QED  BY <2>1, <2>2 DEF Next, Run, BranchHeld, BranchFlush, TrapFlush
<1> QED  BY <1>1, <1>2, PTL DEF Spec

-----------------------------------------------------------------------------
\* The fetch unit implements the abstract fetch stage, for every value of the
\* constants: decode is given the program in order, each word with its own pc,
\* whatever the bus, the pipeline and the redirects do.

LEMMA InitRefines ==
  ASSUME Init
  PROVE  Stream!Init
BY ConstantFacts DEF Init, Stream!Init, Stream!Pcs, Pcs

LEMMA StepRefines ==
  ASSUME Inv, Inv', [Next]_vars
  PROVE  [Stream!Next]_Stream!vars
<1>1. /\ Pcs = Stream!Pcs
      /\ ifqDout'.pc \in Pcs /\ ifqDout'.instr \in Pcs
  BY DEF Inv, TypeOK, Entry, Pcs, Stream!Pcs
<1>2. instructionValid' => ifqDout'.pc = expected' /\ ifqDout'.instr = expected'
  BY DEF Inv, Presented, Fetched
<1>3. ASSUME NEW wait \in BOOLEAN, NEW stall \in BOOLEAN, Run(wait, stall)
      PROVE  [Stream!Next]_Stream!vars
  <2>1. /\ ~IfqRen(stall) => ifqDout' = ifqDout
        /\ instructionValid' = (IfqRen(stall) \/ (stall /\ instructionValid))
        /\ IfqRen(stall) => ~stall
    BY <1>3 DEF Run, Edge, IfqMemory, InstructionValidNext, IfqRen
  <2>2. expected' = IF instructionValid /\ ~stall THEN Stream!NextPc(expected) ELSE expected
    BY <1>3 DEF Run, Taken, NextPc, Stream!NextPc
  <2>3. instructionValid \in BOOLEAN /\ instructionValid' \in BOOLEAN
    BY DEF Inv, TypeOK
  <2>4. CASE instructionValid /\ ~stall
    BY <1>2, <2>1, <2>2, <2>3, <2>4 DEF Stream!Next, Stream!Take, Stream!Presents
  <2>5. CASE ~instructionValid /\ IfqRen(stall)
    BY <1>2, <2>1, <2>2, <2>3, <2>5 DEF Stream!Next, Stream!Present, Stream!Presents
  <2>6. CASE (instructionValid /\ stall) \/ (~instructionValid /\ ~IfqRen(stall))
    BY <2>1, <2>2, <2>3, <2>6 DEF Stream!vars
  <2> QED  BY <2>4, <2>5, <2>6
<1>4. ASSUME NEW wait \in BOOLEAN, NEW p \in Targets, BranchHeld(wait, p)
      PROVE  UNCHANGED Stream!vars
  BY <1>4 DEF BranchHeld, Edge, IfqMemory, InstructionValidNext, IfqRen, Stream!vars,
              Inv, TypeOK
<1>5. ASSUME NEW wait \in BOOLEAN, NEW stall \in BOOLEAN, NEW p \in Targets,
             NEW trap, NEW branch, Edge(wait, stall, TRUE, trap, branch), expected' = p
      PROVE  Stream!Next
  <2>1. p \in Pcs /\ instructionValid' = FALSE
    BY <1>5, ConstantFacts DEF Edge, InstructionValidNext
  <2> QED  BY <1>1, <1>5, <2>1 DEF Stream!Next, Stream!Redirect
<1>6. CASE UNCHANGED vars
  BY <1>6 DEF vars, regs, env, Stream!vars
<1> QED  BY <1>3, <1>4, <1>5, <1>6 DEF Next, BranchFlush, TrapFlush

THEOREM FetchStreamImplemented == Spec => ImplementsFetchStream
<1>1. Init => Stream!Init
  BY InitRefines
<1>2. Inv /\ Inv' /\ [Next]_vars => [Stream!Next]_Stream!vars
  BY StepRefines
<1> QED  BY <1>1, <1>2, Invariance, PTL DEF Spec, ImplementsFetchStream, Stream!Spec
=============================================================================
