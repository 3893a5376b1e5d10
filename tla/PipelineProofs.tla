---------------------------- MODULE PipelineProofs ---------------------------
(***************************************************************************)
(* What holds of the pipeline for every program, every set of registers,   *)
(* every width of the values, every length of a division, every number of  *)
(* interrupts and all wait states of the data bus.                         *)
(***************************************************************************)
EXTENDS Pipeline, TLAPS

-----------------------------------------------------------------------------
\* Values and addresses

LEMMA Constants ==
  /\ Last \in Nat /\ ValMod \in Nat /\ Last < ValMod /\ 0 \in Regs /\ Handler \in Pcs
  /\ 0 \in Pcs /\ 0 \in Vals /\ Pcs \subseteq Vals
BY ValuesAssumption DEF Pcs, Vals

LEMMA ModTyped ==
  ASSUME NEW n \in Nat, NEW m \in Nat, m > 0
  PROVE  n % m \in 0 .. m - 1
OBVIOUS

\* Results stay in the range of the values, addresses in the program.
LEMMA ResultsTyped ==
  /\ \A v \in Vals : /\ AluResult(v) \in Vals /\ MulResult(v) \in Vals /\ DivResult(v) \in Vals
                     /\ v % (Last + 1) \in Pcs
  /\ \A n \in Nat : DevAnswer(n) \in Vals
  /\ \A p \in Pcs : NextPc(p) \in Pcs /\ Fetch!NextPc(p) = NextPc(p)
<1>1. ValMod \in Nat /\ ValMod > 0 /\ Last + 1 \in Nat /\ Last + 1 > 0
  BY Constants
<1>2. ASSUME NEW v \in Vals
      PROVE  /\ AluResult(v) \in Vals /\ MulResult(v) \in Vals /\ DivResult(v) \in Vals
             /\ v % (Last + 1) \in Pcs
  <2>1. v \in Nat /\ v + 1 \in Nat /\ v + 3 \in Nat /\ v + 5 \in Nat
    BY <1>1 DEF Vals
  <2>2. (v + 1) % ValMod \in Vals /\ (v + 3) % ValMod \in Vals /\ (v + 5) % ValMod \in Vals
    BY <1>1, <2>1, ModTyped DEF Vals
  <2>3. v % (Last + 1) \in 0 .. (Last + 1) - 1
    BY <1>1, <2>1, ModTyped
  <2>4. 0 .. (Last + 1) - 1 = Pcs
    BY Constants DEF Pcs
  <2> QED  BY <2>2, <2>3, <2>4 DEF AluResult, MulResult, DivResult
<1>3. ASSUME NEW n \in Nat PROVE DevAnswer(n) \in Vals
  <2>1. (n + 1) % ValMod \in Vals
    BY <1>1, ModTyped DEF Vals
  <2> QED  BY <2>1 DEF DevAnswer
<1>4. ASSUME NEW p \in Pcs PROVE NextPc(p) \in Pcs /\ Fetch!NextPc(p) = NextPc(p)
  <2>1. p + 1 \in Nat
    BY Constants DEF Pcs
  <2>2. (p + 1) % (Last + 1) \in 0 .. (Last + 1) - 1
    BY <1>1, <2>1, ModTyped
  <2>3. 0 .. (Last + 1) - 1 = Pcs
    BY Constants DEF Pcs
  <2> QED  BY <2>2, <2>3 DEF NextPc, Fetch!NextPc
<1> QED  BY <1>2, <1>3, <1>4

-----------------------------------------------------------------------------
\* The inductive invariant

\* The devices' accesses are values or the mark of a load.
Accessed == dev \in Seq(Vals \cup {ReadAccess})

\* The data of the load in WB is on the bus for one cycle and then held.
Held ==
  /\ readValid => busData \in Vals /\ ~useHold
  /\ memwb.op = "load" => IF useHold THEN hold \in Vals ELSE readValid

\* While a multiply or divide runs, nothing is in MEM; a division ends.
Muldiv ==
  /\ mul.busy \/ div.running => exmem.op = "none"
  /\ div.running => div.iterations \in 0 .. DIV_STEPS

\* Of two neighbouring stages that both hold an instruction, the older holds the
\* predecessor of the younger.
Follows(young, old) == young.op # "none" /\ old.op # "none" => young.pc = NextPc(old.pc)

Fetched(s) == s.op # "none" => s.op = prog[s.pc].op

InOrder ==
  /\ ifValid => ifPc = expected /\ ifWord = expected
  /\ idex.op # "none" => expected = NextPc(idex.pc)
  /\ Follows(idex, exmem) /\ Follows(exmem, memwb)
  /\ Fetched(idex) /\ Fetched(exmem) /\ Fetched(memwb)

Inv == prog \in Programs /\ TypeOK /\ Accessed /\ Held /\ Muldiv /\ InOrder

LEMMA InitInv == Init => Inv
<1> SUFFICES ASSUME Init PROVE Inv
  OBVIOUS
<1>1. prog \in Programs /\ prog \in [Pcs -> Instr]
  BY ProgramsAssumption DEF Init
<1>2. NoStage \in Stage /\ NoIdEx \in IdEx
  BY Constants DEF NoStage, NoIdEx, Stage, IdEx, StageOps
<1>3. mul \in [busy : BOOLEAN, valid : BOOLEAN \X BOOLEAN, operand : Vals, out : Vals]
  BY Constants, ResultsTyped DEF Init
<1>4. div \in [running : BOOLEAN, iterations : 0 .. DIV_STEPS + 1, out : Vals]
  BY Constants, BoundsAssumption DEF Init
<1>5. irqLeft \in 0 .. MaxIrq /\ regfile \in [Regs -> Vals]
  BY Constants, BoundsAssumption DEF Init
<1>6. TypeOK
  BY <1>1, <1>2, <1>3, <1>4, <1>5, Constants DEF TypeOK, Init, Junk
<1>7. Accessed /\ Held /\ Muldiv /\ InOrder
  BY DEF Init, Accessed, Held, Muldiv, InOrder, Follows, Fetched, NoStage, NoIdEx
<1> QED  BY <1>1, <1>6, <1>7 DEF Inv

-----------------------------------------------------------------------------
\* What the stages read

LEMMA WbDataTyped ==
  ASSUME Inv PROVE WbData \in Vals
BY Constants DEF Inv, TypeOK, Held, WbData, MemoryData, Stage

LEMMA ForwardedTyped ==
  ASSUME TypeOK PROVE Forwarded \in Vals
BY DEF TypeOK, Forwarded, Stage, IdEx

LEMMA ExResultTyped ==
  ASSUME TypeOK PROVE ExResult \in Vals
<1>1. mul.out \in Vals /\ div.out \in Vals /\ idex.pc \in Pcs
  BY DEF TypeOK, IdEx
<1> QED  BY <1>1, ForwardedTyped, ResultsTyped, Constants DEF ExResult

LEMMA DecodedTyped ==
  ASSUME Inv PROVE Decoded \in IdEx
<1>1. Cur \in Instr /\ ifPc \in Pcs
  BY DEF Inv, TypeOK, Cur
<1>2. RegRead(Cur.rs) \in Vals
  BY <1>1, WbDataTyped, Constants DEF RegRead, Inv, TypeOK, Instr
<1>3. ForwardFrom(idex) \in BOOLEAN /\ ForwardFrom(exmem) \in BOOLEAN
  BY DEF ForwardFrom, Matches, ReadsRs, RegWrite
<1>4. NoIdEx \in IdEx /\ [NoIdEx EXCEPT !.op = "ill", !.pc = ifPc] \in IdEx
  BY <1>1, Constants DEF NoIdEx, IdEx, StageOps, Ops
<1>5. [op |-> Cur.op, rd |-> Cur.rd, pc |-> ifPc, val |-> RegRead(Cur.rs), tgt |-> Cur.tgt,
       fromMem |-> ForwardFrom(idex), fromWb |-> ForwardFrom(exmem)] \in IdEx
  BY <1>1, <1>2, <1>3 DEF IdEx, Instr, StageOps
<1> QED  BY <1>4, <1>5 DEF Decoded

LEMMA TrapPcTyped ==
  ASSUME TypeOK PROVE TrapPc \in Pcs
BY Constants DEF TypeOK, TrapPc

-----------------------------------------------------------------------------
\* One edge preserves each conjunct.

LEMMA EdgeFetch ==
  ASSUME Inv, NEW wait \in BusWaits, Edge(wait)
  PROVE  expected' \in Pcs /\ ifValid' \in BOOLEAN /\ ifPc' \in Pcs /\ ifWord' \in Pcs
<1>1. expected \in Pcs /\ ifValid \in BOOLEAN /\ ifPc \in Pcs /\ ifWord \in Pcs /\ idex.tgt \in Pcs
  BY DEF Inv, TypeOK, IdEx
<1>2. FetchStage(wait)
  BY DEF Edge
<1>3. CASE IfFlush(wait)
  BY <1>1, <1>2, <1>3, TrapPcTyped, Constants DEF FetchStage, Fetch!Redirect, Inv
<1>4. CASE ~IfFlush(wait)
  BY <1>1, <1>2, <1>4, ResultsTyped
  DEF FetchStage, Fetch!Present, Fetch!Take, Fetch!Presents
<1> QED  BY <1>3, <1>4

LEMMA EdgeStages ==
  ASSUME Inv, NEW wait \in BusWaits, Edge(wait)
  PROVE  idex' \in IdEx /\ exmem' \in Stage /\ memwb' \in Stage /\ openReq' \in Stage
<1>1. idex \in IdEx /\ exmem \in Stage /\ memwb \in Stage
  BY DEF Inv, TypeOK
<1>2. NoStage \in Stage /\ NoIdEx \in IdEx
  BY Constants DEF NoStage, NoIdEx, Stage, IdEx, StageOps
<1>3. idex' \in IdEx
  BY <1>1, <1>2, DecodedTyped DEF Edge, DecodeStage
<1>4. [op |-> idex.op, rd |-> idex.rd, pc |-> idex.pc, val |-> ExResult] \in Stage
  BY <1>1, ExResultTyped DEF Stage, IdEx, Inv
<1>5. exmem' \in Stage
  BY <1>1, <1>2, <1>4 DEF Edge, ExecuteStage
<1>6. memwb' \in Stage /\ openReq' \in Stage
  BY <1>1, <1>2 DEF Edge, MemoryStage
<1> QED  BY <1>3, <1>5, <1>6

LEMMA EdgeUnits ==
  ASSUME Inv, NEW wait \in BusWaits, Edge(wait)
  PROVE  /\ mul' \in [busy : BOOLEAN, valid : BOOLEAN \X BOOLEAN, operand : Vals, out : Vals]
         /\ div' \in [running : BOOLEAN, iterations : 0 .. DIV_STEPS + 1, out : Vals]
         /\ div'.running => div'.iterations \in 0 .. DIV_STEPS
<1> DEFINE flush == Flush(wait)
<1>1. mul \in [busy : BOOLEAN, valid : BOOLEAN \X BOOLEAN, operand : Vals, out : Vals]
  BY DEF Inv, TypeOK
<1>2. div \in [running : BOOLEAN, iterations : 0 .. DIV_STEPS + 1, out : Vals]
  BY DEF Inv, TypeOK
<1>3. Forwarded \in Vals /\ MulResult(mul.operand) \in Vals /\ DivResult(Forwarded) \in Vals
  BY <1>1, ForwardedTyped, ResultsTyped DEF Inv
<1>4. DIV_STEPS \in Nat /\ DIV_STEPS > 0
  BY BoundsAssumption
<1>5. MultiplyDivide(wait)
  BY DEF Edge
<1>6. mul' \in [busy : BOOLEAN, valid : BOOLEAN \X BOOLEAN, operand : Vals, out : Vals]
  <2>1. mul' = [busy |-> MulNewReq(flush) \/ (mul.busy /\ ~mul.valid[2]),
                valid |-> <<MulNewReq(flush), mul.valid[1]>>,
                operand |-> IF idex.op = "mul" THEN Forwarded ELSE 0,
                out |-> MulResult(mul.operand)]
    BY <1>5 DEF MultiplyDivide
  <2>2. MulNewReq(flush) \in BOOLEAN /\ mul.valid[1] \in BOOLEAN
    BY <1>1 DEF MulNewReq
  <2>3. (MulNewReq(flush) \/ (mul.busy /\ ~mul.valid[2])) \in BOOLEAN
    OBVIOUS
  <2>4. <<MulNewReq(flush), mul.valid[1]>> \in BOOLEAN \X BOOLEAN
    BY <2>2
  <2>5. (IF idex.op = "mul" THEN Forwarded ELSE 0) \in Vals
    BY <1>3, Constants
  <2> HIDE DEF flush
  <2> QED  BY <1>3, <2>1, <2>3, <2>4, <2>5
<1>7. CASE flush
  <2>1. div' = [running |-> FALSE, iterations |-> 0, out |-> div.out]
    BY <1>5, <1>7 DEF MultiplyDivide
  <2>2. div' \in [running : BOOLEAN, iterations : 0 .. DIV_STEPS + 1, out : Vals]
    BY <1>2, <1>4, <2>1
  <2>3. div'.running = FALSE
    BY <1>2, <2>1
  <2>4. ~div'.running
    BY <2>3, Zenon
  <2> HIDE DEF flush
  <2> QED  BY <1>6, <2>2, <2>4
<1>8. CASE ~flush /\ DivNewReq(FALSE)
  <2>1. div' = [running |-> TRUE, iterations |-> 0, out |-> DivResult(Forwarded)]
    BY <1>5, <1>8 DEF MultiplyDivide
  <2> QED  BY <1>3, <1>4, <1>6, <2>1
<1>9. CASE ~flush /\ ~DivNewReq(FALSE) /\ div.running
  <2>1. div' = [div EXCEPT !.running = ~DivDone, !.iterations = @ + 1]
    BY <1>5, <1>9 DEF MultiplyDivide
  <2>2. div.iterations \in 0 .. DIV_STEPS
    BY <1>9 DEF Inv, Muldiv
  <2>3. DivDone <=> div.iterations = DIV_STEPS
    BY DEF DivDone
  <2>4. div.iterations + 1 \in 0 .. DIV_STEPS + 1
        /\ (~DivDone => div.iterations + 1 \in 0 .. DIV_STEPS)
    BY <1>4, <2>2, <2>3
  <2>5. (~DivDone) \in BOOLEAN /\ div'.running = ~DivDone /\ div'.iterations = div.iterations + 1
    BY <1>2, <2>1
  <2>6. div' \in [running : BOOLEAN, iterations : 0 .. DIV_STEPS + 1, out : Vals]
    BY <1>2, <2>1, <2>4, <2>5
  <2> QED  BY <1>6, <2>4, <2>5, <2>6
<1>10. CASE ~flush /\ ~DivNewReq(FALSE) /\ ~div.running
  <2>1. div' = div
    BY <1>5, <1>10 DEF MultiplyDivide
  <2> QED  BY <1>2, <1>6, <1>10, <2>1
<1> QED  BY <1>7, <1>8, <1>9, <1>10

LEMMA EdgeMemory ==
  ASSUME Inv, NEW wait \in BusWaits, Edge(wait)
  PROVE  /\ busData' \in Vals \cup {Junk} /\ hold' \in Vals \cup {Junk}
         /\ readValid' \in BOOLEAN /\ useHold' \in BOOLEAN
         /\ Accessed' /\ Held'
<1>1. busData \in Vals \cup {Junk} /\ hold \in Vals \cup {Junk}
      /\ readValid \in BOOLEAN /\ useHold \in BOOLEAN /\ exmem \in Stage
  BY DEF Inv, TypeOK
<1>2. dev \in Seq(Vals \cup {ReadAccess}) /\ Len(dev) \in Nat
  BY DEF Inv, Accessed
<1>3. DevAnswer(Len(dev)) \in Vals
  BY <1>2, ResultsTyped
<1>4. MemoryStage(wait)
  BY DEF Edge
<1>5. busData' \in Vals \cup {Junk} /\ hold' \in Vals \cup {Junk}
  BY <1>1, <1>3, <1>4 DEF MemoryStage
<1>6. readValid' = (exmem.op = "load" /\ ~wait) /\ readValid' \in BOOLEAN
  BY <1>4 DEF MemoryStage
<1>7. useHold' \in BOOLEAN
  BY <1>1, <1>4 DEF MemoryStage, DbusBusy
<1>8. Accessed'
  <2>1. exmem.val \in Vals
    BY <1>1 DEF Stage
  <2>2. (IF exmem.op = "load" THEN ReadAccess ELSE exmem.val) \in Vals \cup {ReadAccess}
    BY <2>1
  <2>3. \A x \in Vals \cup {ReadAccess} : Append(dev, x) \in Seq(Vals \cup {ReadAccess})
    BY <1>2
  <2> QED  BY <1>2, <1>4, <2>2, <2>3 DEF Accessed, MemoryStage
<1>9. readValid' => busData' \in Vals /\ ~useHold'
  BY <1>3, <1>4, <1>6 DEF MemoryStage, DbusFire, DbusRequest, DbusBusy, Accesses
<1>10. memwb'.op = "load" => IF useHold' THEN hold' \in Vals ELSE readValid'
  <2> SUFFICES ASSUME memwb'.op = "load" PROVE IF useHold' THEN hold' \in Vals ELSE readValid'
    OBVIOUS
  <2>1. memwb' = IF Flush(wait) THEN NoStage ELSE IF DbusBusy(wait) THEN memwb ELSE exmem
    BY <1>4 DEF MemoryStage
  <2>2. ~Flush(wait)
    BY <2>1 DEF NoStage
  <2>3. CASE DbusBusy(wait)
    <3>1. memwb.op = "load"
      BY <2>1, <2>2, <2>3
    <3>2. useHold' = TRUE /\ hold' \in Vals
      BY <1>4, <2>3, <3>1 DEF MemoryStage, Inv, Held
    <3> QED  BY <3>2
  <2>4. CASE ~DbusBusy(wait)
    <3>1. exmem.op = "load" /\ ~wait
      BY <2>1, <2>2, <2>4 DEF DbusBusy, DbusRequest, Accesses
    <3>2. useHold' = FALSE
      BY <1>4, <2>4 DEF MemoryStage
    <3> QED  BY <1>6, <3>1, <3>2
  <2> QED  BY <2>3, <2>4
<1>11. Held'
  BY <1>9, <1>10 DEF Held
<1> QED  BY <1>5, <1>6, <1>7, <1>8, <1>11

LEMMA EdgeTraps ==
  ASSUME Inv, NEW wait \in BusWaits, Edge(wait)
  PROVE  /\ regfile' \in [Regs -> Vals] /\ mepc' \in Pcs
         /\ mie' \in BOOLEAN /\ mpie' \in BOOLEAN /\ meie' \in BOOLEAN
         /\ irq' \in BOOLEAN /\ irqLeft' \in 0 .. MaxIrq
<1>1. /\ regfile \in [Regs -> Vals] /\ mepc \in Pcs /\ memwb \in Stage /\ exmem \in Stage
      /\ mie \in BOOLEAN /\ mpie \in BOOLEAN /\ meie \in BOOLEAN
      /\ irq \in BOOLEAN /\ irqLeft \in 0 .. MaxIrq
  BY DEF Inv, TypeOK
<1>2. regfile' \in [Regs -> Vals]
  BY <1>1, WbDataTyped DEF Edge, WriteBack
<1>3. memwb.val % (Last + 1) \in Pcs /\ memwb.pc \in Pcs /\ exmem.pc \in Pcs
  BY <1>1, ResultsTyped DEF Stage
<1>4. mepc' \in Pcs
  BY <1>1, <1>3 DEF Edge, TrapControl
<1>5. mie' \in BOOLEAN /\ mpie' \in BOOLEAN
  BY <1>1, Zenon DEF Edge, TrapControl
<1>6. meie' \in BOOLEAN
  BY <1>1 DEF Edge, InterruptEnable
<1>7. irq' \in BOOLEAN
  BY <1>1 DEF Edge, Interrupts, InterruptEnter
<1>8. irqLeft' \in 0 .. MaxIrq
  BY <1>1, BoundsAssumption DEF Edge, Interrupts
<1> QED  BY <1>2, <1>4, <1>5, <1>6, <1>7, <1>8

\* A multiply or divide that goes on has emptied EX/MEM.
LEMMA EdgeMuldiv ==
  ASSUME Inv, NEW wait \in BusWaits, Edge(wait)
  PROVE  Muldiv'
<1>1. ASSUME mul'.busy \/ div'.running PROVE exmem'.op = "none"
  <2>1. CASE Flush(wait)
    BY <2>1 DEF Edge, ExecuteStage, NoStage
  <2>2. CASE ~Flush(wait)
    <3>1. MuldivStall(Flush(wait))
      <4>1. CASE mul'.busy
        <5>1. mul'.busy = (MulNewReq(Flush(wait)) \/ (mul.busy /\ ~mul.valid[2]))
          BY DEF Edge, MultiplyDivide
        <5> QED  BY <4>1, <5>1, Zenon DEF MuldivStall
      <4>2. CASE div'.running
        <5>1. div \in [running : BOOLEAN, iterations : 0 .. DIV_STEPS + 1, out : Vals]
          BY DEF Inv, TypeOK
        <5>2. CASE DivNewReq(FALSE)
          BY <2>2, <5>2 DEF DivNewReq, MuldivStall
        <5>3. CASE ~DivNewReq(FALSE) /\ div.running
          <6>1. div' = [div EXCEPT !.running = ~DivDone, !.iterations = @ + 1]
            BY <2>2, <5>3 DEF Edge, MultiplyDivide
          <6>2. div'.running = ~DivDone
            BY <5>1, <6>1
          <6>3. ~DivDone
            BY <4>2, <6>2, Zenon
          <6> QED  BY <5>3, <6>3 DEF MuldivStall
        <5>4. CASE ~DivNewReq(FALSE) /\ ~div.running
          <6>1. div' = div
            BY <2>2, <5>4 DEF Edge, MultiplyDivide
          <6> QED  BY <4>2, <5>4, <6>1
        <5> QED  BY <5>2, <5>3, <5>4
      <4> QED  BY <1>1, <4>1, <4>2
    <3> QED  BY <3>1 DEF Edge, ExecuteStage, ExBubble, NoStage
  <2> QED  BY <2>1, <2>2
<1> QED  BY <1>1, EdgeUnits DEF Muldiv

\* A stage is emptied, holds on, or takes over the instruction of the younger one,
\* and then all of them move.
LEMMA EdgeInOrder ==
  ASSUME Inv, NEW wait \in BusWaits, Edge(wait)
  PROVE  InOrder'
<1> DEFINE busy  == DbusBusy(wait)
           stall == MuldivStall(Flush(wait))
<1>1. InOrder /\ prog' = prog /\ exmem \in Stage /\ memwb \in Stage /\ idex \in IdEx
      /\ expected \in Pcs
  BY DEF Inv, TypeOK, Edge
<1>2. memwb' = NoStage \/ (busy /\ memwb' = memwb) \/ (~busy /\ memwb' = exmem)
  BY DEF Edge, MemoryStage
<1>3. \/ exmem' = NoStage
      \/ ~Flush(wait) /\ ~stall /\ busy /\ exmem' = exmem
      \/ ~Flush(wait) /\ ~stall /\ ~busy /\ exmem'.op = idex.op /\ exmem'.pc = idex.pc
  BY DEF Edge, ExecuteStage, ExBubble
<1>4. \/ idex' = NoIdEx
      \/ ~IfFlush(wait) /\ ~IdStall(wait) /\ idex' = Decoded
      \/ ~IfFlush(wait) /\ ~IdBubble(wait) /\ IdStall(wait) /\ idex' = idex
  BY DEF Edge, DecodeStage
<1>5. IdStall(wait) <=> busy \/ stall
  BY DEF IdStall
<1>6. Decoded.op # "none" => /\ ifValid /\ Decoded.pc = expected
                             /\ Decoded.op = prog[expected].op
  <2>1. NoIdEx.op = "none" /\ [NoIdEx EXCEPT !.op = "ill", !.pc = ifPc].op = "ill"
        /\ [NoIdEx EXCEPT !.op = "ill", !.pc = ifPc].pc = ifPc
    BY DEF NoIdEx
  <2> QED  BY <1>1, <2>1 DEF Decoded, Cur, InOrder
<1>7. NoStage.op = "none" /\ NoIdEx.op = "none"
  BY DEF NoStage, NoIdEx
<1>8. Fetched(idex)' /\ Fetched(exmem)' /\ Fetched(memwb)'
  <2>1. Fetched(memwb)'
    BY <1>1, <1>2, <1>7 DEF InOrder, Fetched
  <2>2. Fetched(exmem)'
    BY <1>1, <1>3, <1>7 DEF InOrder, Fetched
  <2>3. Fetched(idex)'
    BY <1>1, <1>4, <1>6, <1>7 DEF InOrder, Fetched
  <2> QED  BY <2>1, <2>2, <2>3
<1>9. Follows(exmem, memwb)'
  BY <1>1, <1>2, <1>3, <1>7 DEF InOrder, Follows
<1>10. Follows(idex, exmem)'
  BY <1>1, <1>3, <1>4, <1>5, <1>6, <1>7 DEF InOrder, Follows
<1>11. /\ ifValid' => ifPc' = expected' /\ ifWord' = expected'
       /\ idex'.op # "none" => expected' = NextPc(idex'.pc)
  <2>1. FetchStage(wait)
    BY DEF Edge
  <2>2. CASE IfFlush(wait)
    <3>1. ifValid' = FALSE /\ idex' = NoIdEx
      BY <2>1, <2>2 DEF FetchStage, Fetch!Redirect, Edge, DecodeStage
    <3> QED  BY <1>7, <3>1
  <2>3. CASE ~IfFlush(wait) /\ IfStall(wait)
    <3>1. UNCHANGED <<expected, ifValid, ifPc, ifWord>>
      BY <2>1, <2>3 DEF FetchStage
    <3>2. idex' = NoIdEx \/ idex' = idex
      <4>1. CASE IdStall(wait)
        BY <1>4, <4>1
      <4>2. CASE ~IdStall(wait)
        BY <2>3, <4>2 DEF Edge, DecodeStage, IfStall, IdStall, IdBubble
      <4> QED  BY <4>1, <4>2
    <3> QED  BY <1>1, <1>7, <3>1, <3>2 DEF InOrder
  <2>4. CASE ~IfFlush(wait) /\ ~IfStall(wait)
    <3>1. idex' = Decoded
      BY <2>4 DEF Edge, DecodeStage, IfStall, IdStall, IdBubble
    <3>2. Fetch!Present \/ Fetch!Take \/ (~ifValid /\ UNCHANGED <<expected, ifValid, ifPc, ifWord>>)
      BY <2>1, <2>4 DEF FetchStage
    <3>3. ifValid' => ifPc' = expected' /\ ifWord' = expected'
      BY <1>1, <3>2 DEF Fetch!Present, Fetch!Take, Fetch!Presents
    <3>4. ifValid => expected' = NextPc(expected)
      BY <1>1, <3>2, ResultsTyped DEF Fetch!Present, Fetch!Take
    <3> QED  BY <1>6, <3>1, <3>3, <3>4
  <2> QED  BY <2>2, <2>3, <2>4
<1> QED  BY <1>8, <1>9, <1>10, <1>11 DEF InOrder

-----------------------------------------------------------------------------
\* The theorems

LEMMA EdgeInv ==
  ASSUME Inv, NEW wait \in BusWaits, Edge(wait)
  PROVE  Inv'
<1>1. prog' = prog
  BY DEF Edge
<1>2. TypeOK'
  BY <1>1, EdgeFetch, EdgeStages, EdgeUnits, EdgeMemory, EdgeTraps DEF TypeOK, Inv
<1> QED  BY <1>1, <1>2, EdgeMemory, EdgeMuldiv, EdgeInOrder DEF Inv

LEMMA NextInv == Inv /\ [Next]_vars => Inv'
<1> SUFFICES ASSUME Inv, [Next]_vars PROVE Inv'
  OBVIOUS
<1>1. CASE Next
  <2>1. PICK wait \in BusWaits : Edge(wait)
    BY <1>1 DEF Next, Trap, Stalled, TakenBranch, Advance
  <2> QED  BY <2>1, EdgeInv
<1>2. CASE UNCHANGED vars
  BY <1>2 DEF vars, coreVars, memVars, trapVars, Inv, TypeOK, Accessed, Held, Muldiv, InOrder,
              Follows, Fetched
<1> QED  BY <1>1, <1>2

LEMMA Invariant == Spec => []Inv
BY InitInv, NextInv, PTL DEF Spec

\* The registers of ID to WB keep their types.  What it takes is the load data: what
\* WB writes back is data of the bus, although the bus shows it for one cycle and
\* WB may wait for many (MEM.sv, lsu_readdata_hold).
THEOREM PipelineTypes == Spec => []TypeOK
<1>1. Inv => TypeOK
  BY DEF Inv
<1> QED  BY <1>1, Invariant, PTL

\* In a program with no multiply or divide behind an access and no access behind mret
\* (Separated, which the core does not see to), a bus that holds an access off finds
\* the same access in the next cycle, whatever stalls, bubbles, exceptions, interrupts
\* and flushes coincide (MEM.sv, the note on the Avalon protocol).
THEOREM RequestStable ==
  ASSUME \A p \in Programs : Separated(p)
  PROVE  Spec => []DbusRequestStable
<1>1. Init => DbusRequestStable
  BY DEF Init, DbusRequestStable, NoStage
<1>2. ASSUME Inv, NEW wait \in BusWaits, Edge(wait) PROVE DbusRequestStable'
  <2>1. openReq' = IF DbusBusy(wait) THEN exmem ELSE NoStage
    BY <1>2 DEF Edge, MemoryStage
  <2>2. CASE ~DbusBusy(wait)
    BY <2>1, <2>2 DEF DbusRequestStable, NoStage
  <2>3. CASE DbusBusy(wait)
    <3>1. exmem.op \in Accesses /\ exmem.op # "none" /\ exmem.op = prog[exmem.pc].op
      BY <1>2, <2>3 DEF DbusBusy, DbusRequest, Accesses, Inv, InOrder, Fetched
    <3>2. Separated(prog) /\ exmem.pc \in Pcs /\ memwb.pc \in Pcs
      BY <1>2 DEF Inv, TypeOK, Stage
    <3>3. memwb.op # "mret"
      <4> SUFFICES ASSUME memwb.op = "mret" PROVE FALSE
        OBVIOUS
      <4>1. exmem.pc = NextPc(memwb.pc) /\ prog[memwb.pc].op = "mret"
        BY <1>2, <3>1 DEF Inv, InOrder, Follows, Fetched
      <4>2. prog[NextPc(memwb.pc)].op \notin Accesses
        BY <3>2, <4>1 DEF Separated
      <4> QED  BY <3>1, <4>1, <4>2
    <3>4. ~Flush(wait)
      BY <2>3, <3>3 DEF Flush, TrapTake, TrapEnter, ExceptionEnter, InterruptEnter, TrapReturn
    <3>5. idex.op \notin {"mul", "div"}
      <4> SUFFICES ASSUME idex.op \in {"mul", "div"} PROVE FALSE
        OBVIOUS
      <4>1. idex.pc = NextPc(exmem.pc) /\ idex.op = prog[idex.pc].op
        BY <1>2, <3>1 DEF Inv, InOrder, Follows, Fetched
      <4>2. prog[NextPc(exmem.pc)].op \notin {"mul", "div"}
        BY <3>1, <3>2 DEF Separated
      <4> QED  BY <4>1, <4>2
    <3>6. ~MuldivStall(Flush(wait))
      BY <1>2, <3>1, <3>5 DEF Inv, Muldiv, MuldivStall, MulNewReq, DivNewReq
    <3>7. exmem' = exmem
      BY <1>2, <2>3, <3>4, <3>6 DEF Edge, ExecuteStage, ExBubble
    <3> QED  BY <2>1, <2>3, <3>7 DEF DbusRequestStable
  <2> QED  BY <2>2, <2>3
<1>3. Inv /\ DbusRequestStable /\ [Next]_vars => DbusRequestStable'
  <2> SUFFICES ASSUME Inv, DbusRequestStable, [Next]_vars PROVE DbusRequestStable'
    OBVIOUS
  <2>1. CASE Next
    <3>1. PICK wait \in BusWaits : Edge(wait)
      BY <2>1 DEF Next, Trap, Stalled, TakenBranch, Advance
    <3> QED  BY <1>2, <3>1
  <2>2. CASE UNCHANGED vars
    BY <2>2 DEF vars, coreVars, memVars, DbusRequestStable
  <2> QED  BY <2>1, <2>2
<1> QED  BY <1>1, <1>3, Invariant, PTL DEF Spec

-----------------------------------------------------------------------------
\* The core implements the sequential machine: the invariant

Trapping(s) == s.op \in {"ill", "mis", "jmis", "mret"}

\* What the instruction of a stage reads when everything older has been executed.
Operand(s) == IF prog[s.pc].rs = 0 THEN 0 ELSE ArchRegs[prog[s.pc].rs]

\* The same for EX, where the result of the instruction in MEM has to be added.
OperandEx ==
  LET r == prog[idex.pc].rs
  IN  IF r = 0 THEN 0
      ELSE IF RegWrite(exmem.op) /\ exmem.rd = r THEN exmem.val
      ELSE ArchRegs[r]

\* Control bits and destination are those of the program.
Decodes ==
  /\ idex.op \notin {"none", "ill"} =>
       idex.rd = prog[idex.pc].rd /\ idex.tgt = prog[idex.pc].tgt
  /\ exmem.op \notin {"none", "ill"} => exmem.rd = prog[exmem.pc].rd

\* Nothing in EX reads what MEM does not have yet: a load or a CSR.
Available ==
  idex.op # "none" =>
    /\ exmem.op # "csrr"
    /\ ReadsRs(idex.op) /\ MemRead(exmem.op) => prog[idex.pc].rs # exmem.rd

\* The forwarding flags are right until a multiply or divide has taken its operand.
Forwards ==
  /\ ~Trapping(memwb)
  /\ idex.op # "none" /\ ReadsRs(idex.op) /\ ~mul.busy /\ ~div.running
  => Forwarded = OperandEx

\* MEM holds the result of its instruction.
Executed ==
  /\ exmem.op = "alu" => exmem.val = AluResult(Operand(exmem))
  /\ exmem.op = "mul" => exmem.val = MulResult(Operand(exmem))
  /\ exmem.op = "div" => exmem.val = DivResult(Operand(exmem))
  /\ exmem.op \in {"jal", "jmis"} => exmem.val = NextPc(exmem.pc)
  /\ exmem.op \in {"store", "csrw"} => exmem.val = Operand(exmem)

\* A jump to a misaligned address empties what is behind it, as any jump does, and
\* traps before the fetch stage gets further; WB holds what it links.
Misjumped ==
  /\ exmem.op = "jmis" => idex.op = "none" /\ ~ifValid
  /\ memwb.op = "jmis" =>
       /\ idex.op = "none" /\ exmem.op = "none"
       /\ memwb.rd = prog[memwb.pc].rd /\ memwb.val = NextPc(memwb.pc)

\* The oldest instruction behind MEM, and what it has to be.
Behind == IF idex.op # "none" THEN idex.pc ELSE expected

Successor ==
  IF exmem.op = "jal" \/ (exmem.op = "beqz" /\ Operand(exmem) = 0)
    THEN prog[exmem.pc].tgt ELSE NextPc(exmem.pc)

Continues ==
  ~Trapping(memwb) /\ ~Trapping(exmem) /\ exmem.op # "none" => Behind = Successor

\* The multiplier and the divider work for the instruction in EX.  After a trap the
\* multiplier may be busy for one more cycle, in which the front end is empty.
Works ==
  /\ mul.busy <=> mul.valid[1] \/ mul.valid[2]
  /\ ~(mul.valid[1] /\ mul.valid[2])
  /\ mul.valid[1] => \/ Trapping(memwb)
                     \/ idex.op = "mul" /\ mul.operand = Operand(idex)
  /\ mul.valid[2] => \/ idex.op = "mul" /\ mul.out = MulResult(Operand(idex))
                     \/ idex.op = "none" /\ ~ifValid
  /\ div.running => \/ Trapping(memwb)
                    \/ idex.op = "div" /\ div.out = DivResult(Operand(idex))

IsaInv ==
  /\ Inv /\ Separated(prog)
  /\ Decodes /\ Available /\ Forwards /\ Executed /\ Misjumped /\ Continues /\ Works

LEMMA IsaInitInv ==
  ASSUME \A p \in Programs : Separated(p), Init
  PROVE  IsaInv
<1>1. Inv /\ Separated(prog)
  BY InitInv DEF Init
<1>2. Decodes /\ Available /\ Forwards /\ Executed /\ Misjumped /\ Continues
  BY DEF Init, Decodes, Available, Forwards, Executed, Misjumped, Continues, NoStage, NoIdEx
<1>3. Works
  BY DEF Init, Works
<1> QED  BY <1>1, <1>2, <1>3 DEF IsaInv

-----------------------------------------------------------------------------
\* The three kinds of edge

\* The pipeline is flushed for an instruction in WB that traps or for an interrupt, and
\* both wait for the data bus: behind mret and a misaligned jump there is no access.
LEMMA FlushIs ==
  ASSUME IsaInv, NEW wait \in BusWaits
  PROVE  /\ DbusBusy(wait) => /\ ~Flush(wait) /\ ~TrapTake(wait) /\ ~TrapEnter(wait)
                              /\ ~InterruptEnter(wait)
         /\ ~DbusBusy(wait) =>
              /\ Flush(wait) <=> Trapping(memwb) \/ InterruptEnter(wait)
              /\ TrapTake(wait) <=> Trapping(memwb) \/ InterruptEnter(wait)
              /\ TrapEnter(wait) <=> WbException \/ InterruptEnter(wait)
         /\ memwb.op \in {"mret", "jmis"} => ~DbusRequest
<1>1. memwb.op = "mret" => ~DbusRequest
  <2> SUFFICES ASSUME memwb.op = "mret", exmem.op \in Accesses PROVE FALSE
    BY DEF DbusRequest
  <2>1. memwb.op # "none" /\ exmem.op # "none"
    BY DEF Accesses
  <2>2. exmem.pc = NextPc(memwb.pc) /\ prog[memwb.pc].op = memwb.op /\ exmem.op = prog[exmem.pc].op
    BY <2>1 DEF IsaInv, Inv, InOrder, Follows, Fetched
  <2>3. memwb.pc \in Pcs
    BY DEF IsaInv, Inv, TypeOK, Stage
  <2> QED  BY <2>2, <2>3 DEF IsaInv, Separated
<1>2. memwb.op = "jmis" => ~DbusRequest
  BY DEF IsaInv, Misjumped, DbusRequest, Accesses
<1> QED  BY <1>1, <1>2 DEF Flush, TrapTake, TrapEnter, ExceptionEnter, InterruptEnter, WbException,
                          TrapReturn, Trapping, DbusBusy

\* Behind an access there is no multiply or divide, nor does one go on.
LEMMA BusyNoStall ==
  ASSUME IsaInv, NEW wait \in BusWaits, DbusBusy(wait)
  PROVE  ~MuldivStall(Flush(wait)) /\ idex.op \notin {"mul", "div"} /\ ~mul.busy /\ ~div.running
<1>1. exmem.op \in Accesses /\ exmem.op # "none" /\ exmem.pc \in Pcs
  BY DEF DbusBusy, DbusRequest, Accesses, IsaInv, Inv, TypeOK, Stage
<1>2. idex.op \notin {"mul", "div"}
  <2> SUFFICES ASSUME idex.op \in {"mul", "div"} PROVE FALSE
    OBVIOUS
  <2>1. idex.pc = NextPc(exmem.pc) /\ idex.op = prog[idex.pc].op /\ exmem.op = prog[exmem.pc].op
    BY <1>1 DEF IsaInv, Inv, InOrder, Follows, Fetched
  <2> QED  BY <1>1, <2>1 DEF IsaInv, Separated
<1>3. ~mul.busy /\ ~div.running
  BY <1>1 DEF IsaInv, Inv, Muldiv
<1> QED  BY <1>2, <1>3 DEF MuldivStall, MulNewReq, DivNewReq

LEMMA ArchRegsTyped ==
  ASSUME IsaInv PROVE ArchRegs \in [Regs -> Vals]
BY WbDataTyped DEF IsaInv, Inv, TypeOK, ArchRegs

LEMMA EdgeRegs ==
  ASSUME IsaInv, NEW wait \in BusWaits, Edge(wait)
  PROVE  /\ memwb.op # "jmis" => regfile' = ArchRegs
         /\ meie' = ArchMeie /\ prog' = prog
<1>1. prog' = prog
  BY DEF Edge
<1>3. ASSUME memwb.op # "jmis" PROVE regfile' = ArchRegs
  BY <1>3 DEF Edge, WriteBack, ArchRegs, WbRegWrite, WbException, RegWrite
<1>2. meie' = ArchMeie
  BY DEF Edge, InterruptEnable, ArchMeie
<1> QED  BY <1>1, <1>2, <1>3

\* The access in MEM waits for the bus: everything stays as it is, but for the load
\* data of the instruction in WB, which moves from the bus to the hold register.
LEMMA HoldEdge ==
  ASSUME IsaInv, NEW wait \in BusWaits, Edge(wait), DbusBusy(wait)
  PROVE  /\ memwb.op \notin {"mret", "jmis"} /\ exmem.op \in Accesses
         /\ idex' = idex /\ exmem' = exmem /\ memwb' = memwb
         /\ UNCHANGED <<expected, ifValid, ifPc, ifWord, dev>>
         /\ ArchRegs' = ArchRegs
         /\ mepc' = ArchMepc /\ mie' = mie /\ mpie' = mpie
<1>1. /\ memwb.op \notin {"mret", "jmis"} /\ exmem.op \in Accesses
      /\ ~Flush(wait) /\ ~TrapTake(wait) /\ ~TrapEnter(wait)
  BY FlushIs DEF DbusBusy, DbusRequest
<1>2. ~MuldivStall(Flush(wait))
  BY BusyNoStall
<1>3. ~IfFlush(wait)
  BY <1>1 DEF IfFlush
<1>4. exmem' = exmem /\ memwb' = memwb
  BY <1>1, <1>2 DEF Edge, ExecuteStage, ExBubble, MemoryStage
<1>5. idex' = idex
  BY <1>3 DEF Edge, DecodeStage, IdBubble, IdStall
<1>6. UNCHANGED <<expected, ifValid, ifPc, ifWord>>
  BY <1>3 DEF Edge, FetchStage, IfStall
<1>7. dev' = dev
  BY DEF Edge, MemoryStage, DbusFire, DbusBusy
<1>8. mepc' = ArchMepc /\ mie' = mie /\ mpie' = mpie
  <2>1. ~TrapReturn
    BY <1>1 DEF TrapReturn
  <2> QED  BY <1>1, <2>1 DEF Edge, TrapControl, ArchMepc
<1>9. ArchRegs' = ArchRegs
  <2>1. WbRegWrite' = WbRegWrite /\ WbException' = WbException
    BY <1>4 DEF WbRegWrite, WbException
  <2>2. WbRegWrite => WbData' = WbData
    <3>1. CASE memwb.op = "csrr"
      BY <1>4, <1>8, <3>1 DEF WbData, ArchMepc, TrapReturn
    <3>2. CASE memwb.op = "load"
      <4>1. useHold' = TRUE
        BY <3>2 DEF IsaInv, Inv, Held, Edge, MemoryStage
      <4>2. hold' = IF readValid THEN busData ELSE hold
        BY DEF Edge, MemoryStage
      <4>3. MemoryData = IF readValid THEN busData ELSE hold
        BY <3>2 DEF IsaInv, Inv, Held, MemoryData
      <4>4. MemoryData' = MemoryData
        BY <4>1, <4>2, <4>3 DEF MemoryData
      <4> QED  BY <1>4, <3>2, <4>4 DEF WbData
    <3>3. CASE memwb.op \notin {"csrr", "load"}
      BY <1>4, <3>3 DEF WbData
    <3> QED  BY <3>1, <3>2, <3>3
  <2>3. regfile' = ArchRegs /\ regfile \in [Regs -> Vals] /\ memwb \in Stage
    BY <1>1, EdgeRegs DEF IsaInv, Inv, TypeOK
  <2>4. CASE WbRegWrite /\ ~WbException
    <3>1. ArchRegs = [regfile EXCEPT ![memwb.rd] = WbData]
      BY <2>4 DEF ArchRegs
    <3>2. ArchRegs' = [ArchRegs EXCEPT ![memwb.rd] = WbData]
      BY <1>4, <2>1, <2>2, <2>3, <2>4 DEF ArchRegs
    <3> QED  BY <2>3, <3>1, <3>2
  <2>5. CASE ~(WbRegWrite /\ ~WbException)
    BY <2>1, <2>3, <2>5 DEF ArchRegs
  <2> QED  BY <2>4, <2>5
<1> QED  BY <1>1, <1>4, <1>5, <1>6, <1>7, <1>8, <1>9

\* Interrupts that come apart find no trap and no write of mepc in WB.
LEMMA InterruptIs ==
  ASSUME Apart, NEW wait \in BusWaits, InterruptEnter(wait)
  PROVE  /\ exmem.op \notin {"none", "ill"} /\ ~DbusBusy(wait)
         /\ ~Trapping(memwb) /\ memwb.op # "csrw"
         /\ mie /\ meie
BY DEF Apart, InterruptEnter, Valid, Trapping

\* A trap in WB or an interrupt: what is behind WB goes, but for the access in MEM.
LEMMA FlushEdge ==
  ASSUME IsaInv, NEW wait \in BusWaits, Edge(wait), Flush(wait)
  PROVE  /\ idex' = NoIdEx /\ exmem' = NoStage /\ memwb' = NoStage
         /\ ifValid' = FALSE /\ expected' = TrapPc
         /\ dev' = IF exmem.op \in Accesses
                     THEN Append(dev, IF exmem.op = "load" THEN ReadAccess ELSE exmem.val)
                     ELSE dev
         /\ ArchRegs' = regfile'
         /\ ~div'.running
         /\ mul'.busy <=> mul.busy /\ ~mul.valid[2]
         /\ ~mul'.valid[1] /\ (mul'.valid[2] <=> mul.valid[1])
<1>1. TrapTake(wait) /\ IfFlush(wait) /\ ~DbusBusy(wait)
  BY FlushIs DEF IfFlush
<1>2. idex' = NoIdEx /\ exmem' = NoStage /\ memwb' = NoStage
  BY <1>1 DEF Edge, DecodeStage, ExecuteStage, MemoryStage
<1>3. ifValid' = FALSE /\ expected' = TrapPc
  BY <1>1 DEF Edge, FetchStage, Fetch!Redirect
<1>4. dev' = IF exmem.op \in Accesses
               THEN Append(dev, IF exmem.op = "load" THEN ReadAccess ELSE exmem.val) ELSE dev
  BY <1>1 DEF Edge, MemoryStage, DbusFire, DbusBusy, DbusRequest
<1>5. ArchRegs' = regfile'
  <2>1. ~WbRegWrite'
    BY <1>2 DEF WbRegWrite, RegWrite, NoStage
  <2> QED  BY <2>1 DEF ArchRegs
<1>6. ~div'.running
  BY <1>1 DEF Edge, MultiplyDivide
<1>7. (mul'.busy <=> mul.busy /\ ~mul.valid[2]) /\ ~mul'.valid[1] /\ (mul'.valid[2] <=> mul.valid[1])
  <2>1. mul' = [busy |-> MulNewReq(Flush(wait)) \/ (mul.busy /\ ~mul.valid[2]),
                valid |-> <<MulNewReq(Flush(wait)), mul.valid[1]>>,
                operand |-> IF idex.op = "mul" THEN Forwarded ELSE 0,
                out |-> MulResult(mul.operand)]
    BY DEF Edge, MultiplyDivide
  <2>2. MulNewReq(Flush(wait)) = FALSE
    BY DEF MulNewReq
  <2> QED  BY <2>1, <2>2
<1> QED  BY <1>2, <1>3, <1>4, <1>5, <1>6, <1>7

\* The trap's own registers, for a trap in WB ...
LEMMA TrapEdge ==
  ASSUME IsaInv, Apart, NEW wait \in BusWaits, Edge(wait), ~DbusBusy(wait), Trapping(memwb)
  PROVE  /\ mepc' = memwb.pc
         /\ WbException => mie' = FALSE /\ mpie' = mie /\ TrapPc = Handler
         /\ TrapReturn => mie' = mpie /\ mpie' = TRUE /\ TrapPc = mepc
<1>1. TrapTake(wait) /\ ~InterruptEnter(wait) /\ (TrapEnter(wait) <=> WbException)
  BY FlushIs, InterruptIs
<1>2. mepc' = memwb.pc
  BY <1>1 DEF Edge, TrapControl, Trapping
<1>3. ~(WbException /\ TrapReturn)
  BY DEF WbException, TrapReturn
<1> QED  BY <1>1, <1>2, <1>3 DEF Edge, TrapControl, TrapPc

\* ... and for an interrupt, which resumes at the instruction in MEM.
LEMMA InterruptEdge ==
  ASSUME IsaInv, Apart, NEW wait \in BusWaits, Edge(wait), InterruptEnter(wait)
  PROVE  mepc' = exmem.pc /\ mie' = FALSE /\ mpie' = mie /\ TrapPc = Handler
<1>1. TrapTake(wait) /\ TrapEnter(wait) /\ memwb.op # "csrw" /\ ~TrapReturn
  BY InterruptIs DEF TrapTake, TrapEnter, Trapping, TrapReturn
<1> QED  BY <1>1 DEF Edge, TrapControl, TrapPc

\* What the instruction in MEM writes when it leaves it.
Result ==
  IF exmem.op = "csrr" THEN ArchMepc
  ELSE IF exmem.op = "load" THEN DevAnswer(Len(dev))
  ELSE exmem.val

\* The instruction in MEM, if there is one, goes to WB and has been executed then.
LEMMA AdvanceEdge ==
  ASSUME IsaInv, NEW wait \in BusWaits, Edge(wait), ~DbusBusy(wait), ~Trapping(memwb),
         ~InterruptEnter(wait)
  PROVE  /\ memwb' = exmem
         /\ mepc' = ArchMepc /\ mie' = mie /\ mpie' = mpie /\ ArchMie = mie /\ ArchMpie = mpie
         /\ dev' = IF exmem.op \in Accesses
                     THEN Append(dev, IF exmem.op = "load" THEN ReadAccess ELSE exmem.val)
                     ELSE dev
         /\ ArchRegs' = IF RegWrite(exmem.op) /\ exmem.op \notin {"mis", "jmis"}
                          THEN [ArchRegs EXCEPT ![exmem.rd] = Result] ELSE ArchRegs
<1>1. ~Flush(wait) /\ ~TrapTake(wait) /\ ~TrapEnter(wait) /\ ~TrapReturn /\ ~WbException
  BY FlushIs DEF Trapping, WbException, TrapReturn
<1>2. memwb' = exmem
  BY <1>1 DEF Edge, MemoryStage
<1>3. mepc' = ArchMepc /\ mie' = mie /\ mpie' = mpie /\ ArchMie = mie /\ ArchMpie = mpie
  BY <1>1 DEF Edge, TrapControl, ArchMepc, ArchMie, ArchMpie
<1>4. dev' = IF exmem.op \in Accesses
               THEN Append(dev, IF exmem.op = "load" THEN ReadAccess ELSE exmem.val) ELSE dev
  BY DEF Edge, MemoryStage, DbusFire, DbusBusy, DbusRequest
<1>5. WbRegWrite' /\ ~WbException' <=> RegWrite(exmem.op) /\ exmem.op \notin {"mis", "jmis"}
  BY <1>2 DEF WbRegWrite, WbException, RegWrite
<1>6. WbData' = Result
  <2>1. CASE exmem.op = "csrr"
    BY <1>2, <1>3, <2>1 DEF WbData, Result
  <2>2. CASE exmem.op = "load"
    <3>1. useHold' = FALSE /\ busData' = DevAnswer(Len(dev))
      BY <2>2 DEF Edge, MemoryStage, DbusFire, DbusBusy, DbusRequest, Accesses
    <3>2. MemoryData' = DevAnswer(Len(dev))
      BY <3>1 DEF MemoryData
    <3> QED  BY <1>2, <2>2, <3>2 DEF WbData, Result
  <2>3. CASE exmem.op \notin {"csrr", "load"}
    BY <1>2, <2>3 DEF WbData, Result
  <2> QED  BY <2>1, <2>2, <2>3
<1>7. ArchRegs' = IF RegWrite(exmem.op) /\ exmem.op \notin {"mis", "jmis"}
                    THEN [ArchRegs EXCEPT ![exmem.rd] = Result] ELSE ArchRegs
  <2>1. regfile' = ArchRegs
    BY EdgeRegs DEF Trapping
  <2> QED  BY <1>2, <1>5, <1>6, <2>1 DEF ArchRegs
<1> QED  BY <1>2, <1>3, <1>4, <1>7

\* EX is held for a multiply or divide only, and no bubble hits it there.
LEMMA StallIs ==
  ASSUME IsaInv, NEW wait \in BusWaits, ~Trapping(memwb),
         ~InterruptEnter(wait), MuldivStall(Flush(wait))
  PROVE  /\ idex.op \in {"mul", "div"} /\ ~DbusBusy(wait) /\ ~IfFlush(wait)
         /\ ~Trapping(exmem) => ~IdBubble(wait)
<1>1. ~Flush(wait) /\ ~TrapTake(wait)
  BY FlushIs
<1>2. ~DbusBusy(wait)
  BY BusyNoStall
<1>3. idex.op \in {"mul", "div"}
  <2>1. mul.busy /\ ~mul.valid[2] => idex.op = "mul"
    BY DEF IsaInv, Works
  <2>2. div.running => idex.op = "div"
    BY DEF IsaInv, Works
  <2> QED  BY <2>1, <2>2 DEF MuldivStall, MulNewReq, DivNewReq
<1>4. ~IfFlush(wait)
  BY <1>1, <1>3 DEF IfFlush, BranchTake
<1>5. ASSUME ~Trapping(exmem), IdBubble(wait) PROVE FALSE
  <2>1. exmem.op # "csrr"
    BY <1>3 DEF IsaInv, Available
  <2>2. LoadStall(wait)
    BY <1>3, <1>5, <2>1 DEF IdBubble, CsrStall
  <2>3. MemRead(exmem.op)
    BY <1>3, <2>2 DEF LoadStall, MemRead
  <2>4. exmem.op = "load"
    BY <1>5, <2>3 DEF MemRead, Trapping
  <2>5. idex.pc = NextPc(exmem.pc) /\ idex.op = prog[idex.pc].op /\ exmem.op = prog[exmem.pc].op
        /\ exmem.pc \in Pcs
    BY <1>3, <2>4 DEF IsaInv, Inv, TypeOK, Stage, InOrder, Follows, Fetched
  <2> QED  BY <1>3, <2>4, <2>5 DEF IsaInv, Separated, Accesses
<1> QED  BY <1>2, <1>3, <1>4, <1>5

LEMMA StallEdge ==
  ASSUME IsaInv, NEW wait \in BusWaits, Edge(wait), ~Trapping(memwb),
         ~InterruptEnter(wait), MuldivStall(Flush(wait))
  PROVE  /\ exmem' = NoStage
         /\ UNCHANGED <<expected, ifValid, ifPc, ifWord>>
         /\ ~Trapping(exmem) => idex' = idex
         /\ idex' \in {idex, NoIdEx}
<1>1. exmem' = NoStage
  BY DEF Edge, ExecuteStage, ExBubble
<1>2. UNCHANGED <<expected, ifValid, ifPc, ifWord>>
  BY StallIs DEF Edge, FetchStage, IfStall
<1>3. idex' = IF IdBubble(wait) THEN NoIdEx ELSE idex
  BY StallIs DEF Edge, DecodeStage, IdStall
<1> QED  BY <1>1, <1>2, <1>3, StallIs

\* The instruction in EX, if there is one, goes to MEM with its result, and the
\* next one in order is behind it.
LEMMA MoveEdge ==
  ASSUME IsaInv, NEW wait \in BusWaits, Edge(wait), ~DbusBusy(wait), ~Trapping(memwb),
         ~InterruptEnter(wait),
         ~MuldivStall(Flush(wait))
  PROVE  /\ exmem' = IF idex.op = "none" THEN NoStage
                     ELSE [op |-> idex.op, rd |-> idex.rd, pc |-> idex.pc, val |-> ExResult]
         /\ BranchTake => idex' = NoIdEx /\ ifValid' = FALSE /\ expected' = idex.tgt
         /\ ~BranchTake => \/ idex' = NoIdEx /\ expected' = expected /\ ifValid' = ifValid
                           \/ idex' = NoIdEx /\ expected' = expected /\ ~ifValid
                           \/ idex' = Decoded /\ ifValid /\ ~LoadStall(wait) /\ ~CsrStall
<1>1. ~Flush(wait) /\ ~TrapTake(wait)
  BY FlushIs
<1>2. exmem' = IF idex.op = "none" THEN NoStage
               ELSE [op |-> idex.op, rd |-> idex.rd, pc |-> idex.pc, val |-> ExResult]
  BY <1>1 DEF Edge, ExecuteStage, ExBubble
<1>3. ASSUME BranchTake PROVE idex' = NoIdEx /\ ifValid' = FALSE /\ expected' = idex.tgt
  BY <1>1, <1>3 DEF Edge, IfFlush, DecodeStage, FetchStage, Fetch!Redirect
<1>4. ASSUME ~BranchTake
      PROVE  \/ idex' = NoIdEx /\ expected' = expected /\ ifValid' = ifValid
             \/ idex' = NoIdEx /\ expected' = expected /\ ~ifValid
             \/ idex' = Decoded /\ ifValid /\ ~LoadStall(wait) /\ ~CsrStall
  <2>1. ~IfFlush(wait)
    BY <1>1, <1>4 DEF IfFlush
  <2>2. CASE LoadStall(wait) \/ CsrStall
    BY <2>1, <2>2 DEF Edge, DecodeStage, FetchStage, IfStall, IdBubble
  <2>3. CASE ~LoadStall(wait) /\ ~CsrStall
    <3>1. idex' = Decoded /\ ~IfStall(wait)
      BY <2>1, <2>3 DEF Edge, DecodeStage, IfStall, IdStall, IdBubble
    <3>2. CASE ifValid
      BY <2>3, <3>1, <3>2
    <3>3. CASE ~ifValid
      BY <2>1, <3>1, <3>3 DEF Edge, FetchStage, Decoded, Fetch!Present, Fetch!Take
    <3> QED  BY <3>2, <3>3
  <2> QED  BY <2>2, <2>3
<1> QED  BY <1>2, <1>3, <1>4

-----------------------------------------------------------------------------
\* Operands

LEMMA Facts ==
  ASSUME IsaInv
  PROVE  /\ prog \in [Pcs -> Instr]
         /\ idex \in IdEx /\ exmem \in Stage /\ memwb \in Stage
         /\ mul \in [busy : BOOLEAN, valid : BOOLEAN \X BOOLEAN, operand : Vals, out : Vals]
         /\ div \in [running : BOOLEAN, iterations : 0 .. DIV_STEPS + 1, out : Vals]
         /\ ArchRegs \in [Regs -> Vals]
         /\ idex.pc \in Pcs /\ exmem.pc \in Pcs /\ exmem.rd \in Regs
         /\ prog[idex.pc].rs \in Regs /\ prog[exmem.pc].rs \in Regs
<1>1. prog \in [Pcs -> Instr] /\ idex.pc \in Pcs /\ exmem.pc \in Pcs /\ exmem.rd \in Regs
  BY DEF IsaInv, Inv, TypeOK, IdEx, Stage
<1>2. prog[idex.pc].rs \in Regs /\ prog[exmem.pc].rs \in Regs
  BY <1>1 DEF Instr
<1> QED  BY <1>1, <1>2, ArchRegsTyped DEF IsaInv, Inv, TypeOK

\* A result reaches EX from MEM, and the register from WB.
LEMMA OperandKept ==
  ASSUME IsaInv, NEW wait \in BusWaits, Edge(wait), ~DbusBusy(wait), ~Trapping(memwb),
         ~InterruptEnter(wait),
         idex.op # "none", ReadsRs(idex.op), ~mul.busy, ~div.running
  PROVE  Forwarded = IF prog[idex.pc].rs = 0 THEN 0 ELSE ArchRegs'[prog[idex.pc].rs]
<1> DEFINE r == prog[idex.pc].rs
<1>1. Forwarded = IF r = 0 THEN 0
                  ELSE IF RegWrite(exmem.op) /\ exmem.rd = r THEN exmem.val ELSE ArchRegs[r]
  BY DEF IsaInv, Forwards, OperandEx
<1>2. ArchRegs' = IF RegWrite(exmem.op) /\ exmem.op \notin {"mis", "jmis"}
                    THEN [ArchRegs EXCEPT ![exmem.rd] = Result] ELSE ArchRegs
  BY AdvanceEdge
<1>3. ArchRegs \in [Regs -> Vals] /\ r \in Regs /\ exmem.rd \in Regs /\ exmem.op # "jmis"
  BY Facts DEF IsaInv, Misjumped
<1>4. CASE RegWrite(exmem.op) /\ exmem.rd = r
  <2>1. exmem.op # "csrr" /\ exmem.op # "load" /\ exmem.op # "mis"
    BY <1>4 DEF IsaInv, Available, MemRead
  <2>2. Result = exmem.val
    BY <2>1 DEF Result
  <2>3. ArchRegs'[r] = exmem.val
    BY <1>2, <1>3, <1>4, <2>1, <2>2
  <2> QED  BY <1>1, <1>4, <2>3
<1>5. CASE ~(RegWrite(exmem.op) /\ exmem.rd = r)
  <2>1. ArchRegs'[r] = ArchRegs[r]
    BY <1>2, <1>3, <1>5
  <2> QED  BY <1>1, <1>5, <2>1
<1> QED  BY <1>4, <1>5

\* The word that decode takes is the next one of the program.
LEMMA DecodedIs ==
  ASSUME IsaInv, ifValid
  PROVE  /\ Decoded.op = prog[expected].op /\ Decoded.op # "none" /\ Decoded.pc = expected
         /\ Cur = prog[expected]
         /\ Decoded.op # "ill" =>
              /\ Decoded.rd = Cur.rd /\ Decoded.tgt = Cur.tgt /\ Decoded.val = RegRead(Cur.rs)
              /\ Decoded.fromMem = ForwardFrom(idex) /\ Decoded.fromWb = ForwardFrom(exmem)
<1>1. ifPc = expected /\ ifWord = expected /\ expected \in Pcs /\ prog \in [Pcs -> Instr]
  BY DEF IsaInv, Inv, TypeOK, InOrder
<1>2. Cur = prog[expected] /\ Cur.op \in Ops
  BY <1>1 DEF Cur, Instr
<1>3. Cur.op # "none"
  BY <1>2 DEF Ops
<1>4. CASE Cur.op = "ill"
  <2>1. Decoded = [NoIdEx EXCEPT !.op = "ill", !.pc = ifPc]
    BY <1>4 DEF Decoded
  <2>2. Decoded.op = "ill" /\ Decoded.pc = ifPc
    BY <2>1 DEF NoIdEx
  <2> QED  BY <1>1, <1>2, <1>3, <1>4, <2>2
<1>5. CASE Cur.op # "ill"
  BY <1>1, <1>2, <1>3, <1>5 DEF Decoded
<1> QED  BY <1>4, <1>5

\* The flags and the register set in decode are right when the instruction is in EX.
LEMMA DecodedForwards ==
  ASSUME IsaInv, NEW wait \in BusWaits, Edge(wait), ~DbusBusy(wait), ~Trapping(memwb),
         ~InterruptEnter(wait),
         ~Trapping(exmem), ~MuldivStall(Flush(wait)), ~BranchTake,
         ifValid, ~LoadStall(wait), ~CsrStall, idex' = Decoded, ReadsRs(idex'.op)
  PROVE  Forwarded' = OperandEx'
<1> DEFINE r == prog[expected].rs
<1>1. memwb' = exmem /\ prog' = prog
  BY AdvanceEdge, EdgeRegs
<1>2. ~Flush(wait) /\ ~IfFlush(wait)
  BY FlushIs DEF IfFlush
<1>3. idex'.op # "ill" /\ Cur = prog[expected] /\ Cur.op = idex'.op
  BY DecodedIs DEF ReadsRs
<1>4. /\ idex'.pc = expected /\ idex'.val = RegRead(r)
      /\ idex'.fromMem = ForwardFrom(idex) /\ idex'.fromWb = ForwardFrom(exmem)
  BY <1>3, DecodedIs
<1>5. /\ ForwardFrom(idex) <=> r = idex.rd /\ RegWrite(idex.op) /\ r # 0
      /\ ForwardFrom(exmem) <=> r = exmem.rd /\ RegWrite(exmem.op) /\ r # 0
  BY <1>3 DEF ForwardFrom, Matches
<1>6. RegWrite(exmem'.op) /\ exmem'.rd = r <=> RegWrite(idex.op) /\ r = idex.rd
  <2>1. exmem' = IF idex.op = "none" THEN NoStage
                 ELSE [op |-> idex.op, rd |-> idex.rd, pc |-> idex.pc, val |-> ExResult]
    BY MoveEdge
  <2>2. CASE idex.op = "none"
    <3>1. exmem'.op = "none"
      BY <2>1, <2>2 DEF NoStage
    <3> QED  BY <2>2, <3>1 DEF RegWrite
  <2>3. CASE idex.op # "none"
    <3>1. exmem'.op = idex.op /\ exmem'.rd = idex.rd
      BY <2>1, <2>3
    <3> QED  BY <3>1
  <2> QED  BY <2>2, <2>3
<1>7. prog'[idex'.pc].rs = r
  BY <1>1, <1>4
<1>8. OperandEx' = IF r = 0 THEN 0
                   ELSE IF RegWrite(exmem'.op) /\ exmem'.rd = r THEN exmem'.val
                   ELSE ArchRegs'[r]
  BY <1>7 DEF OperandEx
<1>9. Forwarded' = IF idex'.fromMem THEN exmem'.val
                   ELSE IF idex'.fromWb THEN memwb'.val ELSE idex'.val
  BY DEF Forwarded
<1>10. expected \in Pcs /\ r \in Regs
  BY Facts DEF IsaInv, Inv, TypeOK, Instr
<1>11. RegRead(r) = IF r = 0 THEN 0 ELSE ArchRegs[r]
  <2>1. ~WbException /\ regfile \in [Regs -> Vals]
    BY Facts DEF Trapping, WbException, IsaInv, Inv, TypeOK
  <2> QED  BY <1>10, <2>1 DEF RegRead, ArchRegs
<1>12. ArchRegs' = IF RegWrite(exmem.op) /\ exmem.op \notin {"mis", "jmis"}
                     THEN [ArchRegs EXCEPT ![exmem.rd] = Result] ELSE ArchRegs
  BY AdvanceEdge
<1>13. CASE r = 0
  BY <1>4, <1>5, <1>8, <1>9, <1>11, <1>13
<1>14. CASE r # 0 /\ RegWrite(idex.op) /\ r = idex.rd
  BY <1>4, <1>5, <1>6, <1>8, <1>9, <1>14
<1>15. CASE r # 0 /\ ~(RegWrite(idex.op) /\ r = idex.rd) /\ RegWrite(exmem.op) /\ r = exmem.rd
  <2>1. Matches(exmem)
    BY <1>3, <1>15 DEF Matches
  <2>2. ~MemRead(exmem.op) /\ exmem.op # "csrr"
    BY <1>2, <1>3, <2>1 DEF LoadStall, CsrStall
  <2>3. exmem.op \notin {"mis", "jmis"} /\ Result = exmem.val
    BY <2>2 DEF MemRead, Result, Trapping
  <2>4. ArchRegs'[r] = exmem.val
    BY <1>10, <1>12, <1>15, <2>3, Facts
  <2> QED  BY <1>1, <1>4, <1>5, <1>6, <1>8, <1>9, <1>15, <2>4
<1>16. CASE r # 0 /\ ~(RegWrite(idex.op) /\ r = idex.rd) /\ ~(RegWrite(exmem.op) /\ r = exmem.rd)
  <2>1. ArchRegs'[r] = ArchRegs[r]
    BY <1>10, <1>12, <1>16, Facts
  <2> QED  BY <1>4, <1>5, <1>6, <1>8, <1>9, <1>11, <1>16, <2>1
<1> QED  BY <1>13, <1>14, <1>15, <1>16

-----------------------------------------------------------------------------
\* The invariant is kept.

\* What the units do in every cycle without a flush.
LEMMA UnitsEdge ==
  ASSUME IsaInv, NEW wait \in BusWaits, Edge(wait), ~Flush(wait)
  PROVE  /\ mul'.busy <=> MulNewReq(FALSE) \/ (mul.busy /\ ~mul.valid[2])
         /\ mul'.valid[1] <=> MulNewReq(FALSE)
         /\ mul'.valid[2] <=> mul.valid[1]
         /\ mul'.operand = IF idex.op = "mul" THEN Forwarded ELSE 0
         /\ mul'.out = MulResult(mul.operand)
         /\ DivNewReq(FALSE) => div'.running /\ div'.out = DivResult(Forwarded)
         /\ ~DivNewReq(FALSE) => /\ div'.running <=> div.running /\ ~DivDone
                                 /\ div'.out = div.out
<1>1. Flush(wait) = FALSE
  BY DEF Flush, TrapTake, TrapEnter, ExceptionEnter, WbException, TrapReturn
<1>2. mul' = [busy |-> MulNewReq(FALSE) \/ (mul.busy /\ ~mul.valid[2]),
              valid |-> <<MulNewReq(FALSE), mul.valid[1]>>,
              operand |-> IF idex.op = "mul" THEN Forwarded ELSE 0,
              out |-> MulResult(mul.operand)]
  BY <1>1 DEF Edge, MultiplyDivide
<1>3. DivNewReq(FALSE) => div'.running /\ div'.out = DivResult(Forwarded)
  BY DEF Edge, MultiplyDivide
<1>4. ~DivNewReq(FALSE) => (div'.running <=> div.running /\ ~DivDone) /\ div'.out = div.out
  <2>1. CASE ~DivNewReq(FALSE) /\ div.running
    <3>1. div' = [div EXCEPT !.running = ~DivDone, !.iterations = @ + 1]
      BY <2>1 DEF Edge, MultiplyDivide
    <3>2. div'.running = ~DivDone /\ div'.out = div.out
      BY <3>1, Facts
    <3> QED  BY <2>1, <3>2, Zenon
  <2>2. CASE ~DivNewReq(FALSE) /\ ~div.running
    BY <2>2 DEF Edge, MultiplyDivide
  <2> QED  BY <2>1, <2>2
<1> QED  BY <1>2, <1>3, <1>4

LEMMA HoldInv ==
  ASSUME IsaInv, NEW wait \in BusWaits, Edge(wait), DbusBusy(wait)
  PROVE  IsaInv'
<1>1. Inv' /\ prog' = prog
  BY EdgeInv, EdgeRegs DEF IsaInv
<1>2. /\ idex' = idex /\ exmem' = exmem /\ memwb' = memwb /\ ArchRegs' = ArchRegs
      /\ expected' = expected /\ ifValid' = ifValid /\ ~Flush(wait)
      /\ memwb.op # "jmis" /\ exmem.op \in Accesses
  BY HoldEdge, FlushIs
<1>3. ~mul.busy /\ ~div.running /\ idex.op \notin {"mul", "div"}
  BY BusyNoStall
<1>4. ~MulNewReq(FALSE) /\ ~DivNewReq(FALSE)
  BY <1>3 DEF MulNewReq, DivNewReq
<1>5. ~mul'.busy /\ ~mul'.valid[1] /\ ~mul'.valid[2] /\ ~div'.running
  <2>1. ~mul.valid[1]
    BY <1>3 DEF IsaInv, Works
  <2> QED  BY <1>2, <1>3, <1>4, <2>1, UnitsEdge
<1>6. Works'
  BY <1>5 DEF Works
<1>7. Forwards'
  <2>1. Forwarded' = Forwarded /\ OperandEx' = OperandEx
    BY <1>1, <1>2 DEF Forwarded, OperandEx
  <2> QED  BY <1>2, <1>3, <2>1 DEF IsaInv, Forwards, Trapping
<1>8. Operand(exmem)' = Operand(exmem)
  BY <1>1, <1>2 DEF Operand
<1>9. Executed' /\ Continues'
  BY <1>1, <1>2, <1>8 DEF IsaInv, Executed, Continues, Behind, Successor, Trapping
<1>11. Misjumped'
  BY <1>2 DEF Misjumped, Accesses
<1>10. Decodes' /\ Available' /\ Separated(prog)'
  BY <1>1, <1>2 DEF IsaInv, Decodes, Available, Separated
<1> QED  BY <1>1, <1>6, <1>7, <1>9, <1>10, <1>11 DEF IsaInv

LEMMA FlushInv ==
  ASSUME IsaInv, NEW wait \in BusWaits, Edge(wait), Flush(wait)
  PROVE  IsaInv'
<1>1. Inv' /\ prog' = prog
  BY EdgeInv, EdgeRegs DEF IsaInv
<1>2. idex'.op = "none" /\ exmem'.op = "none" /\ memwb'.op = "none"
  <2>1. idex' = NoIdEx /\ exmem' = NoStage /\ memwb' = NoStage
    BY FlushEdge
  <2> QED  BY <2>1 DEF NoIdEx, NoStage
<1>3. /\ ifValid' = FALSE /\ ~div'.running
      /\ mul'.busy <=> mul.busy /\ ~mul.valid[2]
      /\ ~mul'.valid[1] /\ (mul'.valid[2] <=> mul.valid[1])
  BY FlushEdge
<1>4. Works'
  <2>1. mul'.busy <=> mul'.valid[1] \/ mul'.valid[2]
    BY <1>3 DEF IsaInv, Works
  <2> QED  BY <1>2, <1>3, <2>1 DEF Works
<1>5. Decodes' /\ Available' /\ Forwards' /\ Executed' /\ Misjumped' /\ Continues'
  BY <1>2 DEF Decodes, Available, Forwards, Executed, Misjumped, Continues
<1>6. Separated(prog)'
  BY <1>1 DEF IsaInv, Separated
<1> QED  BY <1>1, <1>4, <1>5, <1>6 DEF IsaInv

\* What a multiply or divide computes does not change while it is alone.
LEMMA StallInv ==
  ASSUME IsaInv, NEW wait \in BusWaits, Edge(wait), ~Trapping(memwb),
         ~InterruptEnter(wait), MuldivStall(Flush(wait))
  PROVE  IsaInv'
<1>1. Inv' /\ prog' = prog
  BY EdgeInv, EdgeRegs DEF IsaInv
<1>2. ~Flush(wait) /\ ~DbusBusy(wait) /\ idex.op \in {"mul", "div"} /\ idex.op # "none"
  BY FlushIs, StallIs
<1>3. memwb' = exmem /\ exmem'.op = "none" /\ idex' \in {idex, NoIdEx}
  BY <1>2, AdvanceEdge, StallEdge DEF NoStage
<1>4. Trapping(memwb') \/ (~Trapping(exmem) /\ idex' = idex)
  BY <1>3, StallEdge
<1>5. (MulNewReq(FALSE) \/ (mul.busy /\ ~mul.valid[2])) \/ DivNewReq(FALSE) \/ (div.running /\ ~DivDone)
  BY <1>2 DEF MuldivStall, MulNewReq, DivNewReq
<1>6. mul'.busy \/ div'.running
  BY <1>2, <1>5, UnitsEdge
<1>7. Works'
  <2>1. (mul'.busy <=> mul'.valid[1] \/ mul'.valid[2]) /\ ~(mul'.valid[1] /\ mul'.valid[2])
    <3>1. mul.busy /\ ~mul.valid[2] <=> mul.valid[1]
      BY DEF IsaInv, Works
    <3>2. ~(MulNewReq(FALSE) /\ mul.valid[1])
      BY DEF IsaInv, Works, MulNewReq
    <3> QED  BY <1>2, <3>1, <3>2, UnitsEdge
  <2>2. ASSUME ~Trapping(exmem), mul.busy \/ div.running
        PROVE  ArchRegs' = ArchRegs
    <3>1. exmem.op = "none"
      BY <2>2 DEF IsaInv, Inv, Muldiv
    <3> QED  BY <1>2, <3>1, AdvanceEdge DEF RegWrite
  <2>3. ASSUME ~Trapping(exmem), ~mul.busy, ~div.running
        PROVE  Forwarded = Operand(idex)'
    <3>1. Forwarded = IF prog[idex.pc].rs = 0 THEN 0 ELSE ArchRegs'[prog[idex.pc].rs]
      BY <1>2, <2>3, OperandKept DEF ReadsRs
    <3>2. idex' = idex
      BY <1>3, <1>4, <2>3 DEF Trapping
    <3>3. Operand(idex)' = IF prog[idex.pc].rs = 0 THEN 0 ELSE ArchRegs'[prog[idex.pc].rs]
      BY <1>1, <3>2 DEF Operand
    <3> QED  BY <3>1, <3>3
  <2>4. mul'.valid[1] => Trapping(memwb') \/ (idex'.op = "mul" /\ mul'.operand = Operand(idex)')
    <3> SUFFICES ASSUME mul'.valid[1], ~Trapping(exmem)
                 PROVE  idex'.op = "mul" /\ mul'.operand = Operand(idex)'
      BY <1>3
    <3>1. MulNewReq(FALSE)
      BY <1>2, UnitsEdge
    <3>2. idex.op = "mul" /\ ~mul.busy /\ idex' = idex
      BY <1>3, <1>4, <3>1 DEF MulNewReq
    <3>3. ~div.running
      BY <3>2 DEF IsaInv, Works
    <3> QED  BY <1>2, <2>3, <3>2, <3>3, UnitsEdge
  <2>5. mul'.valid[2] => \/ idex'.op = "mul" /\ mul'.out = MulResult(Operand(idex)')
                         \/ idex'.op = "none" /\ ~ifValid'
    <3> SUFFICES ASSUME mul'.valid[2]
                 PROVE  idex'.op = "mul" /\ mul'.out = MulResult(Operand(idex)')
      OBVIOUS
    <3>1. mul.valid[1] /\ mul.busy
      BY <1>2, UnitsEdge DEF IsaInv, Works
    <3>2. idex.op = "mul" /\ mul.operand = Operand(idex) /\ exmem.op = "none"
      BY <3>1 DEF IsaInv, Works, Inv, Muldiv
    <3>3. ~Trapping(exmem) /\ idex' = idex
      BY <1>3, <1>4, <3>2 DEF Trapping
    <3>4. Operand(idex)' = Operand(idex)
      BY <1>1, <2>2, <3>1, <3>3 DEF Operand
    <3> QED  BY <1>2, <3>2, <3>3, <3>4, UnitsEdge
  <2>6. div'.running => \/ Trapping(memwb')
                        \/ idex'.op = "div" /\ div'.out = DivResult(Operand(idex)')
    <3> SUFFICES ASSUME div'.running, ~Trapping(exmem)
                 PROVE  idex'.op = "div" /\ div'.out = DivResult(Operand(idex)')
      BY <1>3
    <3>1. idex' = idex
      BY <1>3, <1>4
    <3>2. CASE DivNewReq(FALSE)
      <4>1. idex.op = "div" /\ ~div.running
        BY <3>2 DEF DivNewReq
      <4>2. ~mul.busy
        BY <4>1 DEF IsaInv, Works
      <4> QED  BY <1>2, <2>3, <3>1, <3>2, <4>1, <4>2, UnitsEdge
    <3>3. CASE ~DivNewReq(FALSE)
      <4>1. div.running /\ div'.out = div.out
        BY <1>2, <3>3, UnitsEdge
      <4>2. idex.op = "div" /\ div.out = DivResult(Operand(idex))
        BY <4>1 DEF IsaInv, Works
      <4>3. Operand(idex)' = Operand(idex)
        BY <1>1, <2>2, <3>1, <4>1 DEF Operand
      <4> QED  BY <3>1, <4>1, <4>2, <4>3
    <3> QED  BY <3>2, <3>3
  <2> QED  BY <2>1, <2>4, <2>5, <2>6 DEF Works, Trapping
<1>8. Forwards' /\ Executed' /\ Continues'
  BY <1>3, <1>6 DEF Forwards, Executed, Continues
<1>11. Misjumped'
  <2>1. exmem.op # "jmis"
    BY <1>2 DEF IsaInv, Misjumped
  <2> QED  BY <1>3, <2>1 DEF Misjumped
<1>9. Decodes' /\ Available'
  BY <1>1, <1>3 DEF IsaInv, Decodes, Available, MemRead, NoIdEx
<1>10. Separated(prog)'
  BY <1>1 DEF IsaInv, Separated
<1> QED  BY <1>1, <1>7, <1>8, <1>9, <1>10, <1>11 DEF IsaInv

\* A multiply or divide leaves EX with its result, all others with what they read.
LEMMA MoveInv ==
  ASSUME IsaInv, NEW wait \in BusWaits, Edge(wait), ~DbusBusy(wait), ~Trapping(memwb),
         ~InterruptEnter(wait),
         ~MuldivStall(Flush(wait))
  PROVE  IsaInv'
<1>1. Inv' /\ prog' = prog /\ memwb' = exmem
  BY EdgeInv, EdgeRegs, AdvanceEdge DEF IsaInv
<1>2. ~Flush(wait) /\ ~IfFlush(wait) = ~BranchTake
  BY FlushIs DEF IfFlush
<1>3. /\ ~MulNewReq(FALSE) /\ ~(mul.busy /\ ~mul.valid[2])
      /\ ~DivNewReq(FALSE) /\ ~(div.running /\ ~DivDone)
  BY <1>2 DEF MuldivStall, MulNewReq, DivNewReq
<1>4. ~mul.valid[1]
  BY <1>3 DEF IsaInv, Works
<1>5. ~mul'.busy /\ ~mul'.valid[1] /\ ~mul'.valid[2] /\ ~div'.running
  BY <1>2, <1>3, <1>4, UnitsEdge
<1>6. Works'
  BY <1>5 DEF Works
<1>7. idex.op = "none" => exmem'.op = "none"
  <2>1. idex.op = "none" => exmem' = NoStage
    BY MoveEdge
  <2> QED  BY <2>1 DEF NoStage
<1>8. idex.op # "none" => /\ exmem'.op = idex.op /\ exmem'.rd = idex.rd /\ exmem'.pc = idex.pc
                          /\ exmem'.val = ExResult
  <2>1. idex.op # "none" =>
          exmem' = [op |-> idex.op, rd |-> idex.rd, pc |-> idex.pc, val |-> ExResult]
    BY MoveEdge
  <2> QED  BY <2>1
<1>9. \/ idex'.op = "none"
      \/ ~BranchTake /\ idex' = Decoded /\ ifValid /\ ~LoadStall(wait) /\ ~CsrStall
  <2>1. NoIdEx.op = "none"
    BY DEF NoIdEx
  <2> QED  BY <2>1, MoveEdge
<1>10. Decodes'
  <2>1. exmem'.op \notin {"none", "ill"} => exmem'.rd = prog'[exmem'.pc].rd
    BY <1>1, <1>7, <1>8 DEF IsaInv, Decodes
  <2>2. idex'.op \notin {"none", "ill"} =>
          idex'.rd = prog'[idex'.pc].rd /\ idex'.tgt = prog'[idex'.pc].tgt
    BY <1>1, <1>9, DecodedIs
  <2> QED  BY <2>1, <2>2 DEF Decodes
<1>11. Available'
  <2> SUFFICES ASSUME idex'.op # "none"
               PROVE  /\ exmem'.op # "csrr"
                      /\ ReadsRs(idex'.op) /\ MemRead(exmem'.op) => prog'[idex'.pc].rs # exmem'.rd
    BY DEF Available
  <2>1. ~BranchTake /\ idex' = Decoded /\ ifValid /\ ~LoadStall(wait) /\ ~CsrStall
    BY <1>9
  <2>2. exmem'.op # "csrr"
    BY <1>7, <1>8, <2>1 DEF CsrStall
  <2>3. ASSUME ReadsRs(idex'.op), MemRead(exmem'.op) PROVE prog'[idex'.pc].rs # exmem'.rd
    <3>1. MemRead(idex.op) /\ exmem'.rd = idex.rd
      BY <1>7, <1>8, <2>3 DEF MemRead
    <3>2. Cur.op = idex'.op /\ Cur.op # "ill" /\ prog'[idex'.pc].rs = Cur.rs
      BY <1>1, <2>1, <2>3, DecodedIs DEF ReadsRs
    <3>3. ~IfFlush(wait)
      BY <2>1, FlushIs DEF IfFlush
    <3> QED  BY <2>1, <2>3, <3>1, <3>2, <3>3 DEF LoadStall, Matches
  <2> QED  BY <2>2, <2>3
<1>12. Forwards'
  <2> SUFFICES ASSUME ~Trapping(exmem), idex'.op # "none", ReadsRs(idex'.op)
               PROVE  Forwarded' = OperandEx'
    BY <1>1 DEF Forwards, Trapping
  <2> QED  BY <1>9, DecodedForwards
<1>13. ASSUME idex.op # "none", ReadsRs(idex.op), idex.op \notin {"mul", "div"}
       PROVE  Forwarded = Operand(exmem)'
  <2>1. ~mul.busy /\ ~div.running
    BY <1>3, <1>4, <1>13 DEF IsaInv, Works
  <2>2. Forwarded = IF prog[idex.pc].rs = 0 THEN 0 ELSE ArchRegs'[prog[idex.pc].rs]
    BY <1>13, <2>1, OperandKept
  <2>3. Operand(exmem)' = IF prog[idex.pc].rs = 0 THEN 0 ELSE ArchRegs'[prog[idex.pc].rs]
    BY <1>1, <1>8, <1>13 DEF Operand
  <2> QED  BY <2>2, <2>3
<1>14. ASSUME idex.op \in {"mul", "div"} PROVE Operand(exmem)' = Operand(idex)
  <2>1. mul.busy \/ div.running
    BY <1>2, <1>3, <1>14 DEF MulNewReq, DivNewReq
  <2>2. exmem.op = "none"
    BY <2>1 DEF IsaInv, Inv, Muldiv
  <2>3. ArchRegs' = ArchRegs
    BY <2>2, AdvanceEdge DEF RegWrite
  <2> QED  BY <1>1, <1>8, <1>14, <2>3 DEF Operand
<1>15. Executed'
  <2> SUFFICES ASSUME idex.op # "none"
               PROVE  /\ idex.op = "alu" => ExResult = AluResult(Operand(exmem)')
                      /\ idex.op = "mul" => ExResult = MulResult(Operand(exmem)')
                      /\ idex.op = "div" => ExResult = DivResult(Operand(exmem)')
                      /\ idex.op \in {"jal", "jmis"} => ExResult = NextPc(idex.pc)
                      /\ idex.op \in {"store", "csrw"} => ExResult = Operand(exmem)'
    BY <1>1, <1>7, <1>8 DEF Executed
  <2>1. ASSUME idex.op = "mul" PROVE ExResult = MulResult(Operand(exmem)')
    <3>1. mul.valid[2]
      BY <1>3, <2>1 DEF MulNewReq
    <3>2. mul.out = MulResult(Operand(idex))
      BY <2>1, <3>1 DEF IsaInv, Works
    <3> QED  BY <1>14, <2>1, <3>2 DEF ExResult
  <2>2. ASSUME idex.op = "div" PROVE ExResult = DivResult(Operand(exmem)')
    <3>1. div.running
      BY <1>3, <2>2 DEF DivNewReq
    <3>2. div.out = DivResult(Operand(idex))
      BY <2>2, <3>1 DEF IsaInv, Works
    <3> QED  BY <1>14, <2>2, <3>2 DEF ExResult
  <2>3. ASSUME idex.op \in {"alu", "store", "csrw"} PROVE Forwarded = Operand(exmem)'
    BY <1>13, <2>3 DEF ReadsRs
  <2> QED  BY <2>1, <2>2, <2>3 DEF ExResult
<1>16. Continues'
  <2> SUFFICES ASSUME ~Trapping(exmem), idex.op # "none", idex.op \notin {"ill", "mis", "jmis", "mret"}
               PROVE  Behind' = Successor'
    BY <1>1, <1>7, <1>8 DEF Continues, Trapping
  <2>1. Successor' = IF idex.op = "jal" \/ (idex.op = "beqz" /\ Operand(exmem)' = 0)
                       THEN prog[idex.pc].tgt ELSE NextPc(idex.pc)
    BY <1>1, <1>8 DEF Successor
  <2>2. BranchTake <=> idex.op = "jal" \/ (idex.op = "beqz" /\ Operand(exmem)' = 0)
    <3>1. idex.op = "beqz" => Forwarded = Operand(exmem)'
      BY <1>13 DEF ReadsRs
    <3> QED  BY <3>1 DEF BranchTake
  <2>3. CASE BranchTake
    <3>1. idex' = NoIdEx /\ expected' = idex.tgt
      BY <2>3, MoveEdge
    <3>2. Behind' = idex.tgt
      BY <3>1 DEF Behind, NoIdEx
    <3>3. idex.tgt = prog[idex.pc].tgt
      BY DEF IsaInv, Decodes
    <3> QED  BY <2>1, <2>2, <2>3, <3>2, <3>3
  <2>4. CASE ~BranchTake
    <3>1. expected = NextPc(idex.pc)
      BY DEF IsaInv, Inv, InOrder
    <3>2. Behind' = expected
      <4>1. CASE idex' = NoIdEx /\ expected' = expected
        BY <4>1 DEF Behind, NoIdEx
      <4>2. CASE idex' = Decoded /\ ifValid
        BY <4>2, DecodedIs DEF Behind
      <4> QED  BY <2>4, <4>1, <4>2, MoveEdge
    <3> QED  BY <2>1, <2>2, <2>4, <3>1, <3>2
  <2> QED  BY <2>3, <2>4
<1>17. Separated(prog)'
  BY <1>1 DEF IsaInv, Separated
<1>18. Misjumped'
  <2>1. ASSUME exmem'.op = "jmis" PROVE idex'.op = "none" /\ ~ifValid'
    <3>1. BranchTake
      BY <1>7, <1>8, <2>1 DEF BranchTake
    <3>2. idex' = NoIdEx /\ ifValid' = FALSE
      BY <3>1, MoveEdge
    <3> QED  BY <3>2 DEF NoIdEx
  <2>2. ASSUME exmem.op = "jmis"
        PROVE  /\ idex'.op = "none" /\ exmem'.op = "none"
               /\ exmem.rd = prog[exmem.pc].rd /\ exmem.val = NextPc(exmem.pc)
    <3>1. idex.op = "none" /\ ~ifValid
      BY <2>2 DEF IsaInv, Misjumped
    <3>2. exmem'.op = "none" /\ idex'.op = "none"
      BY <1>7, <1>9, <3>1
    <3> QED  BY <2>2, <3>2 DEF IsaInv, Decodes, Executed
  <2> QED  BY <1>1, <2>1, <2>2 DEF Misjumped
<1> QED  BY <1>1, <1>6, <1>10, <1>11, <1>12, <1>15, <1>16, <1>17, <1>18 DEF IsaInv

LEMMA IsaNextInv == IsaInv /\ [Next]_vars => IsaInv'
<1> SUFFICES ASSUME IsaInv, [Next]_vars PROVE IsaInv'
  OBVIOUS
<1>1. CASE Next
  <2>1. PICK wait \in BusWaits : Edge(wait)
    BY <1>1 DEF Next, Trap, Stalled, TakenBranch, Advance
  <2>2. CASE DbusBusy(wait)
    BY <2>1, <2>2, HoldInv
  <2>3. CASE Flush(wait)
    BY <2>1, <2>3, FlushInv
  <2>4. CASE ~DbusBusy(wait) /\ ~Flush(wait) /\ MuldivStall(Flush(wait))
    BY <2>1, <2>4, FlushIs, StallInv
  <2>5. CASE ~DbusBusy(wait) /\ ~Flush(wait) /\ ~MuldivStall(Flush(wait))
    BY <2>1, <2>5, FlushIs, MoveInv
  <2> QED  BY <2>2, <2>3, <2>4, <2>5
<1>2. CASE UNCHANGED vars
  <2>1. Inv'
    BY <1>2, NextInv DEF IsaInv
  <2> QED  BY <1>2, <2>1 DEF vars, coreVars, memVars, trapVars, IsaInv, Separated, Decodes,
                 Available, Forwards, Executed, Misjumped, Continues, Works, Trapping, Operand,
                 OperandEx, Behind, Successor, ArchRegs, WbRegWrite, WbException, WbData,
                 MemoryData, Forwarded
<1> QED  BY <1>1, <1>2

-----------------------------------------------------------------------------
\* The refinement

LEMMA ArchPcIs ==
  IsaInv /\ ~Trapping(memwb) => ArchPc = IF exmem.op # "none" THEN exmem.pc ELSE Behind
<1> SUFFICES ASSUME IsaInv, ~Trapping(memwb)
             PROVE  ArchPc = IF exmem.op # "none" THEN exmem.pc ELSE Behind
  OBVIOUS
<1>1. ~WbException /\ ~TrapReturn
  BY DEF Trapping, WbException, TrapReturn
<1>2. ifValid => ifPc = expected
  BY DEF IsaInv, Inv, InOrder
<1> QED  BY <1>1, <1>2 DEF ArchPc, Behind

LEMMA ArchPcNext ==
  (IsaInv /\ ~Trapping(memwb) => ArchPc = IF exmem.op # "none" THEN exmem.pc ELSE Behind)'
BY ArchPcIs, PTL

LEMMA StutterHold ==
  ASSUME IsaInv, IsaInv', NEW wait \in BusWaits, Edge(wait), DbusBusy(wait)
  PROVE  UNCHANGED Arch!vars
<1>1. /\ memwb.op # "mret" /\ exmem.op \in Accesses /\ exmem' = exmem /\ memwb' = memwb
      /\ ArchRegs' = ArchRegs /\ dev' = dev /\ mepc' = ArchMepc /\ mie' = mie /\ mpie' = mpie
  BY HoldEdge
<1>2. meie' = ArchMeie /\ prog' = prog
  BY EdgeRegs
<1>3. ~TrapReturn /\ ~TrapReturn' /\ WbException' = WbException
  BY <1>1 DEF WbException, TrapReturn
<1>4. ArchPc' = ArchPc
  <2>1. exmem.op # "none"
    BY <1>1 DEF Accesses
  <2> QED  BY <1>1, <1>3, <2>1 DEF ArchPc
<1>5. ArchMepc' = ArchMepc
  BY <1>1, <1>3 DEF ArchMepc
<1>6. ArchMie' = ArchMie /\ ArchMpie' = ArchMpie
  BY <1>1, <1>3 DEF ArchMie, ArchMpie
<1>7. ArchMeie' = ArchMeie
  BY <1>1, <1>2 DEF ArchMeie
<1> QED  BY <1>1, <1>2, <1>4, <1>5, <1>6, <1>7 DEF Arch!vars

\* The two modules share the definitions of Instructions.
LEMMA SameOperators ==
  /\ \A v : /\ Arch!AluResult(v) = AluResult(v) /\ Arch!MulResult(v) = MulResult(v)
            /\ Arch!DivResult(v) = DivResult(v) /\ Arch!DevAnswer(v) = DevAnswer(v)
            /\ Arch!NextPc(v) = NextPc(v)
  /\ Arch!ReadAccess = ReadAccess
BY DEF Arch!AluResult, AluResult, Arch!MulResult, MulResult, Arch!DivResult, DivResult,
       Arch!DevAnswer, DevAnswer, Arch!NextPc, NextPc, Arch!ReadAccess, ReadAccess

LEMMA StutterReturn ==
  ASSUME IsaInv, Apart, NEW wait \in BusWaits, Edge(wait), memwb.op = "mret"
  PROVE  UNCHANGED Arch!vars
<1>1. TrapReturn /\ ~WbException /\ Trapping(memwb) /\ ~DbusBusy(wait) /\ Flush(wait)
  BY FlushIs DEF TrapReturn, WbException, Trapping, DbusBusy
<1>2. /\ idex' = NoIdEx /\ exmem' = NoStage /\ memwb' = NoStage
      /\ ifValid' = FALSE /\ expected' = mepc
      /\ mepc' = memwb.pc /\ mie' = mpie /\ mpie' = TRUE
  BY <1>1, FlushEdge, TrapEdge
<1>3. dev' = dev
  BY <1>1, FlushEdge, FlushIs DEF DbusRequest
<1>4. meie' = ArchMeie /\ prog' = prog /\ ArchRegs' = ArchRegs
  BY <1>1, FlushEdge, EdgeRegs
<1>5. memwb'.op = "none" /\ exmem'.op = "none" /\ idex'.op = "none"
  BY <1>2 DEF NoStage, NoIdEx
<1>6. ~WbException' /\ ~TrapReturn'
  BY <1>5 DEF WbException, TrapReturn
<1>7. ArchPc' = ArchPc
  BY <1>1, <1>2, <1>5, <1>6 DEF ArchPc
<1>8. ArchMepc' = ArchMepc
  BY <1>1, <1>2, <1>5, <1>6 DEF ArchMepc
<1>9. ArchMie' = ArchMie /\ ArchMpie' = ArchMpie
  BY <1>1, <1>2, <1>6 DEF ArchMie, ArchMpie
<1>10. ArchMeie' = ArchMeie
  BY <1>4, <1>5 DEF ArchMeie
<1> QED  BY <1>3, <1>4, <1>7, <1>8, <1>9, <1>10 DEF Arch!vars

\* What the bus has seen when a trap finds an instruction in MEM.
LEMMA ReachedIs ==
  ASSUME IsaInv, exmem.op # "none"
  PROVE  Arch!Reached(exmem.pc) = IF exmem.op \in Accesses
                                  THEN Append(dev, IF exmem.op = "load" THEN ReadAccess ELSE exmem.val)
                                  ELSE dev
<1>1. prog[exmem.pc].op = exmem.op
  BY DEF IsaInv, Inv, InOrder, Fetched
<1>2. exmem.op = "store" => exmem.val = Arch!Read(prog[exmem.pc].rs)
  BY DEF IsaInv, Executed, Operand, Arch!Read
<1> QED  BY <1>1, <1>2, SameOperators DEF Arch!Reached, Accesses

\* The edge that takes an exception is the sequential machine's step.
LEMMA Excepted ==
  ASSUME IsaInv, Apart, NEW wait \in BusWaits, Edge(wait), ~DbusBusy(wait), WbException
  PROVE  Arch!Exception \/ Arch!MisalignedJump
<1>1. Trapping(memwb) /\ Flush(wait) /\ ~TrapReturn /\ memwb.op # "csrw" /\ memwb.op # "ei"
  BY FlushIs DEF Trapping, WbException, TrapReturn
<1>2. /\ idex' = NoIdEx /\ exmem' = NoStage /\ memwb' = NoStage
      /\ ifValid' = FALSE /\ expected' = Handler
      /\ mepc' = memwb.pc /\ mie' = FALSE /\ mpie' = mie
      /\ ArchRegs' = regfile'
  BY <1>1, FlushEdge, TrapEdge
<1>3. dev' = IF exmem.op \in Accesses
             THEN Append(dev, IF exmem.op = "load" THEN ReadAccess ELSE exmem.val) ELSE dev
  BY <1>1, FlushEdge
<1>4. meie' = ArchMeie /\ prog' = prog
  BY EdgeRegs
<1>5. memwb'.op = "none" /\ exmem'.op = "none" /\ idex'.op = "none"
  BY <1>2 DEF NoStage, NoIdEx
<1>6. ~WbException' /\ ~TrapReturn'
  BY <1>5 DEF WbException, TrapReturn
<1>7. ArchPc = memwb.pc /\ ArchPc' = Handler
  BY <1>2, <1>5, <1>6 DEF ArchPc
<1>8. ArchMepc' = ArchPc
  BY <1>2, <1>5, <1>6, <1>7 DEF ArchMepc
<1>9. ArchMie' = FALSE /\ ArchMpie' = ArchMie
  BY <1>1, <1>2, <1>6 DEF ArchMie, ArchMpie
<1>10. ArchMeie' = ArchMeie
  BY <1>4, <1>5 DEF ArchMeie
<1>11. Arch!EnterTrap
  BY <1>4, <1>7, <1>8, <1>9, <1>10 DEF Arch!EnterTrap
<1>12. Arch!Cur = prog[memwb.pc] /\ prog[memwb.pc].op = memwb.op
  BY <1>7 DEF Arch!Cur, WbException, IsaInv, Inv, InOrder, Fetched
<1>13. CASE memwb.op \in {"ill", "mis"}
  <2>1. ArchRegs' = ArchRegs
    BY <1>2, <1>13, EdgeRegs
  <2>2. dev' \in {dev, Arch!Reached(Arch!NextPc(ArchPc))}
    <3>1. CASE exmem.op = "none"
      BY <1>3, <3>1 DEF Accesses
    <3>2. CASE exmem.op # "none"
      <4>1. exmem.pc = NextPc(memwb.pc)
        BY <1>13, <3>2 DEF IsaInv, Inv, InOrder, Follows
      <4>2. Arch!NextPc(ArchPc) = exmem.pc
        BY <1>7, <4>1, SameOperators
      <4> QED  BY <1>3, <3>2, <4>2, ReachedIs
    <3> QED  BY <3>1, <3>2
  <2>3. Arch!Exception
    BY <1>11, <1>12, <1>13, <2>1, <2>2 DEF Arch!Exception
  <2> QED  BY <2>3
<1>14. CASE memwb.op = "jmis"
  <2>1. exmem.op = "none" /\ memwb.rd = prog[memwb.pc].rd /\ memwb.val = NextPc(memwb.pc)
    BY <1>14 DEF IsaInv, Misjumped
  <2>2. dev' = dev
    BY <1>3, <2>1 DEF Accesses
  <2>3. regfile' = [regfile EXCEPT ![memwb.rd] = memwb.val]
    BY <1>14 DEF Edge, WriteBack, WbRegWrite, RegWrite, WbData
  <2>4. ArchRegs = regfile
    BY DEF ArchRegs
  <2>5. ArchRegs' = [ArchRegs EXCEPT ![prog[memwb.pc].rd] = Arch!NextPc(ArchPc)]
    BY <1>2, <1>7, <2>1, <2>3, <2>4, SameOperators
  <2>6. Arch!MisalignedJump
    BY <1>11, <1>12, <1>14, <2>2, <2>5 DEF Arch!MisalignedJump, Arch!Write
  <2> QED  BY <2>6
<1> QED  BY <1>13, <1>14 DEF WbException

\* So is the edge that takes an interrupt.
LEMMA Interrupted ==
  ASSUME IsaInv, Apart, NEW wait \in BusWaits, Edge(wait), InterruptEnter(wait)
  PROVE  Arch!Interrupt
<1>0. Flush(wait) /\ ~Trapping(memwb) /\ exmem.op # "none"
  BY FlushIs, InterruptIs
<1>1. /\ idex' = NoIdEx /\ exmem' = NoStage /\ memwb' = NoStage
      /\ ifValid' = FALSE /\ expected' = Handler
      /\ mepc' = exmem.pc /\ mie' = FALSE /\ mpie' = mie
  BY <1>0, FlushEdge, InterruptEdge
<1>2. meie' = ArchMeie /\ prog' = prog /\ ArchRegs' = ArchRegs
  BY <1>0, FlushEdge, EdgeRegs DEF Trapping
<1>3. memwb'.op = "none" /\ exmem'.op = "none" /\ idex'.op = "none"
  BY <1>1 DEF NoStage, NoIdEx
<1>4. ~WbException /\ ~TrapReturn /\ ~WbException' /\ ~TrapReturn'
  BY <1>0, <1>3 DEF WbException, TrapReturn, Trapping
<1>5. ArchPc = exmem.pc /\ ArchPc' = Handler
  BY <1>0, <1>1, <1>3, <1>4 DEF ArchPc
<1>6. ArchMepc' = ArchPc
  BY <1>1, <1>3, <1>4, <1>5 DEF ArchMepc
<1>7. ArchMie' = FALSE /\ ArchMpie' = ArchMie
  BY <1>1, <1>4 DEF ArchMie, ArchMpie
<1>8. ArchMie /\ ArchMeie
  BY <1>4, InterruptIs DEF ArchMie, ArchMeie
<1>9. ArchMeie' = ArchMeie
  BY <1>2, <1>3 DEF ArchMeie
<1>10. dev' = Arch!Reached(ArchPc)
  BY <1>0, <1>5, FlushEdge, ReachedIs
<1> QED  BY <1>2, <1>5, <1>6, <1>7, <1>8, <1>9, <1>10 DEF Arch!Interrupt, Arch!EnterTrap

\* Whatever moves behind it, the oldest instruction behind MEM stays the oldest.
LEMMA OldestKept ==
  ASSUME IsaInv, NEW wait \in BusWaits, Edge(wait), ~DbusBusy(wait), ~Trapping(memwb),
         ~InterruptEnter(wait),
         ~Trapping(exmem)
  PROVE  (IF exmem'.op # "none" THEN exmem'.pc ELSE Behind') = Behind
<1>1. CASE MuldivStall(Flush(wait))
  <2>1. exmem' = NoStage /\ idex' = idex /\ expected' = expected
    BY <1>1, StallEdge
  <2> QED  BY <2>1 DEF Behind, NoStage
<1>2. CASE ~MuldivStall(Flush(wait)) /\ idex.op # "none"
  <2>1. exmem' = [op |-> idex.op, rd |-> idex.rd, pc |-> idex.pc, val |-> ExResult]
    BY <1>2, MoveEdge
  <2>2. exmem'.op = idex.op /\ exmem'.pc = idex.pc
    BY <2>1
  <2> QED  BY <1>2, <2>2 DEF Behind
<1>3. CASE ~MuldivStall(Flush(wait)) /\ idex.op = "none"
  <2>1. exmem' = NoStage /\ ~BranchTake
    BY <1>3, MoveEdge DEF BranchTake
  <2>2. Behind' = expected
    <3>1. CASE idex' = NoIdEx /\ expected' = expected
      BY <3>1 DEF Behind, NoIdEx
    <3>2. CASE idex' = Decoded /\ ifValid
      BY <3>2, DecodedIs DEF Behind
    <3> QED  BY <1>3, <2>1, <3>1, <3>2, MoveEdge
  <2> QED  BY <1>3, <2>1, <2>2 DEF Behind, NoStage
<1> QED  BY <1>1, <1>2, <1>3

LEMMA StutterBubble ==
  ASSUME IsaInv, IsaInv', NEW wait \in BusWaits, Edge(wait), ~DbusBusy(wait), ~Trapping(memwb),
         ~InterruptEnter(wait),
         exmem.op = "none"
  PROVE  UNCHANGED Arch!vars
<1>1. /\ memwb' = exmem /\ mepc' = ArchMepc /\ mie' = mie /\ mpie' = mpie
      /\ ArchMie = mie /\ ArchMpie = mpie /\ dev' = dev /\ ArchRegs' = ArchRegs
  BY AdvanceEdge DEF Accesses, RegWrite
<1>2. meie' = ArchMeie /\ prog' = prog
  BY EdgeRegs
<1>3. memwb'.op = "none" /\ ~Trapping(memwb)' /\ ~Trapping(exmem)
  BY <1>1 DEF Trapping
<1>4. ~WbException' /\ ~TrapReturn'
  BY <1>3 DEF WbException, TrapReturn
<1>5. ArchPc' = ArchPc
  BY <1>3, OldestKept, ArchPcIs, ArchPcNext
<1>6. ArchMepc' = ArchMepc
  BY <1>1, <1>3, <1>4 DEF ArchMepc
<1>7. ArchMie' = ArchMie /\ ArchMpie' = ArchMpie
  BY <1>1, <1>4 DEF ArchMie, ArchMpie
<1>8. ArchMeie' = ArchMeie
  BY <1>2, <1>3 DEF ArchMeie
<1> QED  BY <1>1, <1>2, <1>5, <1>6, <1>7, <1>8 DEF Arch!vars

\* An instruction that leaves MEM is one step of the sequential machine, unless it raises
\* an exception, which is one when its trap is taken.
LEMMA Executes ==
  ASSUME IsaInv, IsaInv', NEW wait \in BusWaits, Edge(wait), ~DbusBusy(wait), ~Trapping(memwb),
         ~InterruptEnter(wait),
         exmem.op # "none"
  PROVE  Arch!Next \/ UNCHANGED Arch!vars
<1>1. /\ memwb' = exmem /\ mepc' = ArchMepc /\ mie' = mie /\ mpie' = mpie
      /\ ArchMie = mie /\ ArchMpie = mpie
      /\ dev' = IF exmem.op \in Accesses
                  THEN Append(dev, IF exmem.op = "load" THEN ReadAccess ELSE exmem.val)
                  ELSE dev
      /\ ArchRegs' = IF RegWrite(exmem.op) /\ exmem.op \notin {"mis", "jmis"}
                       THEN [ArchRegs EXCEPT ![exmem.rd] = Result] ELSE ArchRegs
  BY AdvanceEdge
<1>2. meie' = ArchMeie /\ prog' = prog
  BY EdgeRegs
<1>3. ArchPc = exmem.pc
  BY ArchPcIs
<1>4. Arch!Cur = prog[exmem.pc] /\ prog[exmem.pc].op = exmem.op /\ exmem.op \in Ops
  <2>1. prog[exmem.pc].op = exmem.op /\ exmem.op \in StageOps
    BY DEF IsaInv, Inv, InOrder, Fetched, TypeOK, Stage
  <2> QED  BY <1>3, <2>1 DEF Arch!Cur, StageOps
<1>5. exmem.op # "ill" => exmem.rd = prog[exmem.pc].rd
  BY DEF IsaInv, Decodes
<1>6. Arch!Read(prog[exmem.pc].rs) = Operand(exmem)
  BY DEF Arch!Read, Operand
<1>7. ~Trapping(exmem) => ArchPc' = Successor
  <2>1. ASSUME ~Trapping(exmem) PROVE ArchPc' = Successor
    <3>1. ~Trapping(memwb)'
      BY <1>1, <2>1 DEF Trapping
    <3>2. ArchPc' = Behind
      BY <2>1, <3>1, ArchPcNext, OldestKept
    <3> QED  BY <2>1, <3>2 DEF IsaInv, Continues
  <2> QED  BY <2>1
<1>8. ArchMepc' = IF exmem.op = "csrw" THEN exmem.val % (Last + 1)
                  ELSE IF exmem.op = "mret" THEN exmem.pc ELSE ArchMepc
  BY <1>1 DEF ArchMepc, TrapReturn
<1>9. /\ ArchMie' = IF exmem.op = "mret" THEN ArchMpie ELSE ArchMie
      /\ ArchMpie' = IF exmem.op = "mret" THEN TRUE ELSE ArchMpie
  BY <1>1 DEF ArchMie, ArchMpie, TrapReturn
<1>10. ArchMeie' = (ArchMeie \/ exmem.op = "ei")
  BY <1>1, <1>2 DEF ArchMeie
<1>11. ASSUME exmem.op # "ei" PROVE ArchMeie' = ArchMeie
  BY <1>10, <1>11 DEF ArchMeie
<1>12. CASE exmem.op \in {"alu", "mul", "div"}
  <2>1. /\ exmem.op = "alu" => exmem.val = AluResult(Operand(exmem))
        /\ exmem.op = "mul" => exmem.val = MulResult(Operand(exmem))
        /\ exmem.op = "div" => exmem.val = DivResult(Operand(exmem))
    BY DEF IsaInv, Executed
  <2>2. ArchRegs' = [ArchRegs EXCEPT ![exmem.rd] = exmem.val]
    BY <1>1, <1>12 DEF RegWrite, Result
  <2>3. ArchPc' = NextPc(ArchPc) /\ dev' = dev /\ ArchMepc' = ArchMepc
        /\ ArchMie' = ArchMie /\ ArchMpie' = ArchMpie /\ ArchMeie' = ArchMeie
    BY <1>1, <1>3, <1>7, <1>8, <1>9, <1>11, <1>12 DEF Successor, Trapping, Accesses
  <2>4. Arch!Calculate
    BY <1>2, <1>4, <1>5, <1>6, <1>12, <2>1, <2>2, <2>3, SameOperators
    DEF Arch!Calculate, Arch!Write, Arch!Step
  <2> QED  BY <2>4 DEF Arch!Next
<1>13. CASE exmem.op = "load"
  <2>1. ArchRegs' = [ArchRegs EXCEPT ![exmem.rd] = DevAnswer(Len(dev))]
    BY <1>1, <1>13 DEF RegWrite, Result
  <2>2. ArchPc' = NextPc(ArchPc) /\ dev' = Append(dev, ReadAccess) /\ ArchMepc' = ArchMepc
        /\ ArchMie' = ArchMie /\ ArchMpie' = ArchMpie /\ ArchMeie' = ArchMeie
    BY <1>1, <1>3, <1>7, <1>8, <1>9, <1>11, <1>13 DEF Successor, Trapping, Accesses
  <2>3. Arch!Load
    BY <1>2, <1>4, <1>5, <1>13, <2>1, <2>2, SameOperators DEF Arch!Load, Arch!Write, Arch!Step
  <2> QED  BY <2>3 DEF Arch!Next
<1>14. CASE exmem.op = "store"
  <2>1. exmem.val = Operand(exmem)
    BY <1>14 DEF IsaInv, Executed
  <2>2. ArchPc' = NextPc(ArchPc) /\ dev' = Append(dev, exmem.val) /\ ArchMepc' = ArchMepc
        /\ ArchMie' = ArchMie /\ ArchMpie' = ArchMpie /\ ArchMeie' = ArchMeie
        /\ ArchRegs' = ArchRegs
    BY <1>1, <1>3, <1>7, <1>8, <1>9, <1>11, <1>14 DEF Successor, Trapping, Accesses, RegWrite
  <2>3. Arch!Store
    BY <1>2, <1>4, <1>6, <1>14, <2>1, <2>2, SameOperators DEF Arch!Store, Arch!Step
  <2> QED  BY <2>3 DEF Arch!Next
<1>15. CASE exmem.op = "beqz"
  <2>1. dev' = dev /\ ArchMepc' = ArchMepc /\ ArchRegs' = ArchRegs
        /\ ArchMie' = ArchMie /\ ArchMpie' = ArchMpie /\ ArchMeie' = ArchMeie
    BY <1>1, <1>8, <1>9, <1>11, <1>15 DEF Trapping, Accesses, RegWrite
  <2>2. ArchPc' = IF Operand(exmem) = 0 THEN prog[exmem.pc].tgt ELSE NextPc(ArchPc)
    BY <1>3, <1>7, <1>15 DEF Successor, Trapping
  <2>3. Arch!Branch
    BY <1>2, <1>4, <1>6, <1>15, <2>1, <2>2, SameOperators DEF Arch!Branch
  <2> QED  BY <2>3 DEF Arch!Next
<1>16. CASE exmem.op = "jal"
  <2>1. exmem.val = NextPc(ArchPc)
    BY <1>3, <1>16 DEF IsaInv, Executed
  <2>2. ArchRegs' = [ArchRegs EXCEPT ![exmem.rd] = exmem.val]
    BY <1>1, <1>16 DEF RegWrite, Result
  <2>3. ArchPc' = prog[exmem.pc].tgt /\ dev' = dev /\ ArchMepc' = ArchMepc
        /\ ArchMie' = ArchMie /\ ArchMpie' = ArchMpie /\ ArchMeie' = ArchMeie
    BY <1>1, <1>7, <1>8, <1>9, <1>11, <1>16 DEF Successor, Trapping, Accesses
  <2>4. Arch!Jump
    BY <1>2, <1>4, <1>5, <1>16, <2>1, <2>2, <2>3, SameOperators DEF Arch!Jump, Arch!Write
  <2> QED  BY <2>4 DEF Arch!Next
<1>17. CASE exmem.op = "csrr"
  <2>1. ArchRegs' = [ArchRegs EXCEPT ![exmem.rd] = ArchMepc]
    BY <1>1, <1>17 DEF RegWrite, Result
  <2>2. ArchPc' = NextPc(ArchPc) /\ dev' = dev /\ ArchMepc' = ArchMepc
        /\ ArchMie' = ArchMie /\ ArchMpie' = ArchMpie /\ ArchMeie' = ArchMeie
    BY <1>1, <1>3, <1>7, <1>8, <1>9, <1>11, <1>17 DEF Successor, Trapping, Accesses
  <2>3. Arch!CsrRead
    BY <1>2, <1>4, <1>5, <1>17, <2>1, <2>2, SameOperators DEF Arch!CsrRead, Arch!Write, Arch!Step
  <2> QED  BY <2>3 DEF Arch!Next
<1>18. CASE exmem.op = "csrw"
  <2>1. exmem.val = Operand(exmem)
    BY <1>18 DEF IsaInv, Executed
  <2>2. ArchPc' = NextPc(ArchPc) /\ dev' = dev /\ ArchMepc' = exmem.val % (Last + 1)
        /\ ArchMie' = ArchMie /\ ArchMpie' = ArchMpie /\ ArchMeie' = ArchMeie
        /\ ArchRegs' = ArchRegs
    BY <1>1, <1>3, <1>7, <1>8, <1>9, <1>11, <1>18 DEF Successor, Trapping, Accesses, RegWrite
  <2>3. Arch!CsrWrite
    BY <1>2, <1>4, <1>6, <1>18, <2>1, <2>2, SameOperators DEF Arch!CsrWrite, Arch!Step
  <2> QED  BY <2>3 DEF Arch!Next
<1>19. CASE exmem.op = "ei"
  <2>1. ArchPc' = NextPc(ArchPc) /\ dev' = dev /\ ArchMepc' = ArchMepc
        /\ ArchMie' = ArchMie /\ ArchMpie' = ArchMpie /\ ArchRegs' = ArchRegs
    BY <1>1, <1>3, <1>7, <1>8, <1>9, <1>19 DEF Successor, Trapping, Accesses, RegWrite
  <2>2. ArchMeie' = TRUE
    BY <1>10, <1>19
  <2>3. Arch!EnableInterrupt
    BY <1>2, <1>4, <1>19, <2>1, <2>2, SameOperators DEF Arch!EnableInterrupt, Arch!Step
  <2> QED  BY <2>3 DEF Arch!Next
<1>20. CASE exmem.op = "mret"
  <2>1. ArchPc' = ArchMepc
    BY <1>1, <1>20 DEF ArchPc, WbException, TrapReturn
  <2>2. dev' = dev /\ ArchMepc' = ArchPc /\ ArchMie' = ArchMpie /\ ArchMpie' = TRUE
        /\ ArchMeie' = ArchMeie /\ ArchRegs' = ArchRegs
    BY <1>1, <1>3, <1>8, <1>9, <1>11, <1>20 DEF Trapping, Accesses, RegWrite
  <2>3. Arch!Mret
    BY <1>2, <1>4, <1>20, <2>1, <2>2 DEF Arch!Mret
  <2> QED  BY <2>3 DEF Arch!Next
<1>21. CASE exmem.op \in {"ill", "mis", "jmis"}
  <2>1. ArchPc' = ArchPc
    BY <1>1, <1>3, <1>21 DEF ArchPc, WbException
  <2>2. dev' = dev /\ ArchMepc' = ArchMepc /\ ArchMie' = ArchMie /\ ArchMpie' = ArchMpie
        /\ ArchMeie' = ArchMeie /\ ArchRegs' = ArchRegs
    BY <1>1, <1>8, <1>9, <1>11, <1>21 DEF Accesses, RegWrite
  <2> QED  BY <1>2, <2>1, <2>2 DEF Arch!vars
<1> QED  BY <1>4, <1>12, <1>13, <1>14, <1>15, <1>16, <1>17, <1>18, <1>19, <1>20, <1>21 DEF Ops

\* The pipelined core executes as the sequential machine does, with exceptions, returns
\* and interrupts and for all wait states of the data bus: no instruction is lost,
\* repeated or reordered, every operand is the value that program order gives it, and
\* the bus sees the accesses of the program, and at most the one at the point of a trap
\* besides them (hdu.sv, the forwarding of ID.sv and EX.sv, and trap_ctrl.sv together).
\* The theorem is about the programs and interrupts that the core gets right, which
\* nothing in it sees to: no multiply or divide behind an access and no access behind
\* mret (Separated), no interrupt in the cycle of an exception, mret or a write of
\* mepc in WB (Apart).
THEOREM IsaImplemented ==
  ASSUME \A p \in Programs : Separated(p)
  PROVE  Spec /\ []Apart => ImplementsIsa
<1>1. Init => IsaInv
  BY IsaInitInv
<1>2. Init => Arch!Init
  <2> SUFFICES ASSUME Init PROVE Arch!Init
    OBVIOUS
  <2>1. ~WbRegWrite /\ ~WbException /\ ~TrapReturn /\ memwb.op = "none"
    BY DEF Init, WbRegWrite, RegWrite, WbException, TrapReturn, NoStage
  <2> QED  BY <2>1 DEF Init, Arch!Init, ArchPc, ArchRegs, ArchMepc, ArchMie, ArchMpie, ArchMeie,
                       NoStage, NoIdEx
<1>3. IsaInv /\ IsaInv' /\ Apart /\ [Next]_vars => [Arch!Next]_(Arch!vars)
  <2> SUFFICES ASSUME IsaInv, IsaInv', Apart, [Next]_vars PROVE [Arch!Next]_(Arch!vars)
    OBVIOUS
  <2>1. CASE Next
    <3>1. PICK wait \in BusWaits : Edge(wait)
      BY <2>1 DEF Next, Trap, Stalled, TakenBranch, Advance
    <3>2. CASE DbusBusy(wait)
      BY <3>1, <3>2, StutterHold
    <3>3. CASE ~DbusBusy(wait) /\ WbException
      BY <3>1, <3>3, Excepted DEF Arch!Next
    <3>7. CASE memwb.op = "mret"
      BY <3>1, <3>7, StutterReturn
    <3>4. CASE InterruptEnter(wait)
      BY <3>1, <3>4, Interrupted DEF Arch!Next
    <3>5. CASE ~DbusBusy(wait) /\ ~Trapping(memwb) /\ ~InterruptEnter(wait) /\ exmem.op = "none"
      BY <3>1, <3>5, StutterBubble
    <3>6. CASE ~DbusBusy(wait) /\ ~Trapping(memwb) /\ ~InterruptEnter(wait) /\ exmem.op # "none"
      BY <3>1, <3>6, Executes
    <3> QED  BY <3>2, <3>3, <3>4, <3>5, <3>6, <3>7 DEF Trapping, WbException
  <2>2. CASE UNCHANGED vars
    <3>1. UNCHANGED Arch!vars
      BY <2>2 DEF vars, coreVars, memVars, trapVars, Arch!vars, ArchPc, ArchRegs, ArchMepc, ArchMie,
                  ArchMpie, ArchMeie, WbRegWrite, WbData, MemoryData, WbException, TrapReturn
    <3> QED  BY <3>1
  <2> QED  BY <2>1, <2>2
<1> QED  BY <1>1, <1>2, <1>3, IsaNextInv, PTL DEF Spec, ImplementsIsa, Arch!Spec

\* Without interrupts the condition on them is void: what is left is Separated, which the
\* core does not see to (hdu.sv:87, trap_ctrl.sv:108).
COROLLARY QuietImplemented ==
  ASSUME MaxIrq = 0, \A p \in Programs : Separated(p)
  PROVE  Spec => ImplementsIsa
<1> DEFINE Quiet == ~irq /\ irqLeft = 0
<1>1. Init => Quiet
  BY DEF Init
<1>2. Quiet /\ [Next]_vars => Quiet'
  BY DEF Next, Trap, Stalled, TakenBranch, Advance, Edge, Interrupts, vars, trapVars
<1>3. Quiet => Apart
  BY DEF Apart
<1>4. Spec => []Apart
  BY <1>1, <1>2, <1>3, PTL DEF Spec
<1> QED  BY <1>4, IsaImplemented, PTL
=============================================================================
