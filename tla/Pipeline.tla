------------------------------ MODULE Pipeline ------------------------------
(***************************************************************************)
(* The five-stage core: ID, EX, MEM and WB (src/rtl/core/ID.sv, EX.sv,     *)
(* MEM.sv, WB.sv), the hazard unit (hdu.sv), the load/store unit (lsu.sv), *)
(* the multiplier and the divider as the pipeline sees them, and the trap  *)
(* control (trap_ctrl.sv, mcsr.sv).  The fetch stage is the abstract       *)
(* FetchStream, which module Ifu implements.                               *)
(*                                                                         *)
(* A step is one rising clock edge.  A pipeline register holds the class   *)
(* of its instruction; "none" is a register whose control bits are zero.   *)
(* An illegal word travels with its control bits zero and its exception    *)
(* bit set, as in ID.sv.  The environment chooses when the fetch stage     *)
(* presents an instruction, when the data bus asserts waitrequest and when *)
(* the interrupt line rises (at most MaxIrq times).                        *)
(***************************************************************************)
EXTENDS Instructions

CONSTANTS
  DIV_STEPS, \* iterations of the divider (32)
  MaxIrq,    \* bound: interrupts raised
  BusWaits   \* values the data bus's waitrequest can take

ASSUME BoundsAssumption ==
  DIV_STEPS \in Nat \ {0} /\ MaxIrq \in Nat /\ FALSE \in BusWaits /\ BusWaits \subseteq BOOLEAN

VARIABLES
  prog,                            \* the program in instruction memory
  expected, ifValid, ifPc, ifWord, \* the fetch stage (FetchStream)
  idex, exmem, memwb,              \* pipeline registers
  regfile,
  busData,                         \* readdata of the data bus
  readValid, useHold, hold,        \* MEM.sv: the held load data
  mul, div,                        \* multiplier and divider
  mepc, mie, mpie, meie,           \* mcsr.sv: mepc, mstatus.MIE, .MPIE, mie.MEIE
  irq, irqLeft,                    \* interrupt line, interrupts left
  dev,                             \* history: accesses the data bus performed
  openReq                          \* history: access the bus holds off

coreVars == <<expected, ifValid, ifPc, ifWord, idex, exmem, memwb, regfile>>
memVars  == <<busData, readValid, useHold, hold, dev, openReq>>
trapVars == <<mepc, mie, mpie, meie, irq, irqLeft>>
vars == <<prog, coreVars, memVars, mul, div, trapVars>>

Fetch == INSTANCE FetchStream WITH
           PcMod <- Last + 1, valid <- ifValid, outPc <- ifPc, outInstr <- ifWord

Junk == ValMod    \* what a bus shows when it has no data for us

StageOps == Ops \cup {"none"}
Stage  == [op : StageOps, rd : Regs, pc : Pcs, val : Vals]
IdEx   == [op : StageOps, rd : Regs, pc : Pcs, val : Vals, tgt : Pcs,
           fromMem : BOOLEAN, fromWb : BOOLEAN]

NoStage == [op |-> "none", rd |-> 0, pc |-> 0, val |-> 0]
NoIdEx  == [op |-> "none", rd |-> 0, pc |-> 0, val |-> 0, tgt |-> 0,
            fromMem |-> FALSE, fromWb |-> FALSE]

\* ---- decoder.sv, by instruction class ------------------------------------
Accesses == {"load", "store"}
RegWrite(op) == op \in {"alu", "mul", "div", "load", "mis", "jal", "jmis", "csrr"}
MemRead(op)  == op \in {"load", "mis"}
ReadsRs(op)  == op \in {"alu", "mul", "div", "load", "mis", "store", "beqz", "csrr", "csrw"}
Valid(s)     == s.op \notin {"none", "ill"}  \* ctrl.valid of a pipeline register

Cur == prog[ifWord]

-----------------------------------------------------------------------------
\* WB

\* Mutant: the hold register is never used.
MemoryData_NoHold == busData

\* mem2wb_pipeline_memory_data
MemoryData == IF useHold THEN hold ELSE busData

WbRegWrite == RegWrite(memwb.op) /\ memwb.op # "mis"
WbData == IF memwb.op = "csrr" THEN mepc
          ELSE IF memwb.op = "load" THEN MemoryData
          ELSE memwb.val

-----------------------------------------------------------------------------
\* EX

\* Mutant: the older of two producers wins.
Forwarded_OlderFirst == IF idex.fromWb THEN memwb.val
                        ELSE IF idex.fromMem THEN exmem.val
                        ELSE idex.val

Forwarded == IF idex.fromMem THEN exmem.val
             ELSE IF idex.fromWb THEN memwb.val
             ELSE idex.val

BranchTake == \/ idex.op = "beqz" /\ Forwarded = 0
              \/ idex.op \in {"jal", "jmis"}

\* Mutant: the multiplier restarts while it is busy.
MulNewReq_Restart(flush) == idex.op = "mul" /\ ~flush

MulNewReq(flush) == ~mul.busy /\ idex.op = "mul" /\ ~flush
DivNewReq(flush) == ~div.running /\ idex.op = "div" /\ ~flush
DivDone == div.iterations = DIV_STEPS

MuldivStall(flush) ==
  \/ MulNewReq(flush)
  \/ mul.busy /\ ~mul.valid[2]
  \/ DivNewReq(flush)
  \/ div.running /\ ~DivDone

ExResult == IF idex.op = "mul" THEN mul.out
            ELSE IF idex.op = "div" THEN div.out
            ELSE IF idex.op = "alu" THEN AluResult(Forwarded)
            ELSE IF idex.op \in {"jal", "jmis"} THEN NextPc(idex.pc)
            ELSE Forwarded

-----------------------------------------------------------------------------
\* MEM and the data bus.  The LSU is driven by the EX/MEM register itself.

DbusRequest == exmem.op \in Accesses
DbusBusy(wait) == DbusRequest /\ wait
DbusFire(wait) == DbusRequest /\ ~wait

-----------------------------------------------------------------------------
\* Trap control (WB)

WbException == memwb.op \in {"ill", "mis", "jmis"}
ExceptionEnter(wait) == ~DbusBusy(wait) /\ WbException
InterruptEnter(wait) == Valid(exmem) /\ ~DbusBusy(wait) /\ irq /\ mie /\ meie
TrapReturn == memwb.op = "mret"
TrapEnter(wait) == ExceptionEnter(wait) \/ InterruptEnter(wait)
TrapTake(wait)  == TrapEnter(wait) \/ TrapReturn
TrapPc == IF TrapReturn THEN mepc ELSE Handler

-----------------------------------------------------------------------------
\* Hazard unit

Flush(wait) == TrapTake(wait)
IfFlush(wait) == (BranchTake /\ ~DbusBusy(wait)) \/ TrapTake(wait)

Matches(s) == ReadsRs(Cur.op) /\ Cur.rs = s.rd
LoadStall(wait) ==
  /\ ifValid /\ Cur.op # "ill" /\ ~IfFlush(wait)
  /\ \/ MemRead(idex.op) /\ Matches(idex)
     \/ MemRead(exmem.op) /\ ~Flush(wait) /\ Matches(exmem)

CsrStall == idex.op = "csrr" \/ exmem.op = "csrr"

IdBubble(wait) == ~DbusBusy(wait) /\ (CsrStall \/ LoadStall(wait))
ExBubble(wait) == MuldivStall(Flush(wait))
IfStall(wait) ==
  DbusBusy(wait) \/ LoadStall(wait) \/ CsrStall \/ MuldivStall(Flush(wait))
IdStall(wait)  == DbusBusy(wait) \/ MuldivStall(Flush(wait))

-----------------------------------------------------------------------------
\* Registers, one operator per stage

FetchStage(wait) ==
  IF IfFlush(wait)
  THEN Fetch!Redirect(IF TrapTake(wait) THEN TrapPc ELSE idex.tgt)
       /\ ifPc' = 0 /\ ifWord' = 0
  ELSE IF IfStall(wait) THEN UNCHANGED <<expected, ifValid, ifPc, ifWord>>
  ELSE \/ Fetch!Present
       \/ Fetch!Take
       \/ ~ifValid /\ UNCHANGED <<expected, ifValid, ifPc, ifWord>>

\* The register file forwards a write of this cycle to its read ports.
RegRead(r) == IF r = 0 THEN 0
              ELSE IF WbRegWrite /\ r = memwb.rd THEN WbData ELSE regfile[r]

ForwardFrom(s) == Matches(s) /\ RegWrite(s.op) /\ Cur.rs # 0

Decoded ==
  IF ~ifValid THEN NoIdEx
  ELSE IF Cur.op = "ill" THEN [NoIdEx EXCEPT !.op = "ill", !.pc = ifPc]
  ELSE [op |-> Cur.op, rd |-> Cur.rd, pc |-> ifPc,
        val |-> RegRead(Cur.rs), tgt |-> Cur.tgt,
        fromMem |-> ForwardFrom(idex), fromWb |-> ForwardFrom(exmem)]

DecodeStage(wait) ==
  idex' = IF IfFlush(wait) \/ IdBubble(wait) THEN NoIdEx
          ELSE IF ~IdStall(wait) THEN Decoded
          ELSE idex

\* Mutant: EX/MEM does not wait for the data bus.
ExecuteStage_NoStall(wait) ==
  exmem' = IF Flush(wait) \/ ExBubble(wait) \/ idex.op = "none" THEN NoStage
           ELSE [op |-> idex.op, rd |-> idex.rd, pc |-> idex.pc, val |-> ExResult]

ExecuteStage(wait) ==
  exmem' = IF Flush(wait) \/ ExBubble(wait) THEN NoStage
           ELSE IF DbusBusy(wait) THEN exmem
           ELSE IF idex.op = "none" THEN NoStage
           ELSE [op |-> idex.op, rd |-> idex.rd, pc |-> idex.pc, val |-> ExResult]

MultiplyDivide(wait) ==
  /\ mul' = [busy |-> MulNewReq(Flush(wait)) \/ (mul.busy /\ ~mul.valid[2]),
             valid |-> <<MulNewReq(Flush(wait)), mul.valid[1]>>,
             operand |-> IF idex.op = "mul" THEN Forwarded ELSE 0,
             out |-> MulResult(mul.operand)]
  /\ div' =
       IF Flush(wait) THEN [running |-> FALSE, iterations |-> 0, out |-> div.out]
       ELSE IF DivNewReq(FALSE)
       THEN [running |-> TRUE, iterations |-> 0, out |-> DivResult(Forwarded)]
       ELSE IF div.running
       THEN [div EXCEPT !.running = ~DivDone, !.iterations = @ + 1]
       ELSE div

MemoryStage(wait) ==
  /\ memwb' = IF Flush(wait) THEN NoStage
              ELSE IF DbusBusy(wait) THEN memwb
              ELSE exmem
  /\ readValid' = (exmem.op = "load" /\ ~wait)
  /\ busData' = IF DbusFire(wait) /\ exmem.op = "load"
                THEN DevAnswer(Len(dev)) ELSE Junk
  /\ hold' = IF readValid THEN busData ELSE hold
  /\ useHold' = IF readValid /\ DbusBusy(wait) THEN TRUE
                ELSE useHold /\ DbusBusy(wait)
  /\ dev' = IF DbusFire(wait)
            THEN Append(dev, IF exmem.op = "load" THEN ReadAccess ELSE exmem.val)
            ELSE dev
  /\ openReq' = IF DbusBusy(wait) THEN exmem ELSE NoStage

WriteBack ==
  regfile' = IF WbRegWrite THEN [regfile EXCEPT ![memwb.rd] = WbData] ELSE regfile

\* A CSR write in WB comes after the trap's update in mcsr.sv and wins.
TrapControl(wait) ==
  /\ mepc' = IF memwb.op = "csrw" THEN memwb.val % (Last + 1)
             ELSE IF ~TrapTake(wait) THEN mepc
             ELSE IF InterruptEnter(wait) THEN exmem.pc ELSE memwb.pc
  /\ mie' = IF TrapEnter(wait) THEN FALSE ELSE IF TrapReturn THEN mpie ELSE mie
  /\ mpie' = IF TrapEnter(wait) THEN mie ELSE IF TrapReturn THEN TRUE ELSE mpie

\* A write of 1 to mie.MEIE reaches the register from WB.
InterruptEnable == meie' = (meie \/ memwb.op = "ei")

\* The handler's device access that clears the interrupt is left out: the line
\* drops when the interrupt is taken.
Interrupts(wait) ==
  \/ /\ irq
     /\ irq' = ~InterruptEnter(wait)
     /\ UNCHANGED irqLeft
  \/ ~irq /\ UNCHANGED <<irq, irqLeft>>
  \/ ~irq /\ irqLeft > 0 /\ irq' = TRUE /\ irqLeft' = irqLeft - 1

Edge(wait) ==
  /\ FetchStage(wait)
  /\ DecodeStage(wait)
  /\ ExecuteStage(wait)
  /\ MultiplyDivide(wait)
  /\ MemoryStage(wait)
  /\ WriteBack
  /\ TrapControl(wait)
  /\ InterruptEnable
  /\ Interrupts(wait)
  /\ UNCHANGED prog

-----------------------------------------------------------------------------
Init ==
  /\ prog \in Programs
  /\ expected = 0 /\ ifValid = FALSE /\ ifPc = 0 /\ ifWord = 0
  /\ idex = NoIdEx /\ exmem = NoStage /\ memwb = NoStage
  /\ regfile = [r \in Regs |-> 0]
  /\ busData = Junk /\ readValid = FALSE /\ useHold = FALSE /\ hold = Junk
  /\ mul = [busy |-> FALSE, valid |-> <<FALSE, FALSE>>, operand |-> 0, out |-> MulResult(0)]
  /\ div = [running |-> FALSE, iterations |-> 0, out |-> 0]
  /\ mepc = 0 /\ mie = TRUE /\ mpie = FALSE /\ meie = FALSE
  /\ irq = FALSE /\ irqLeft = MaxIrq
  /\ dev = << >> /\ openReq = NoStage

\* The kinds of cycle the hazard unit distinguishes.
Trap     == \E wait \in BusWaits : TrapTake(wait) /\ Edge(wait)
Stalled  == \E wait \in BusWaits : ~TrapTake(wait) /\ DbusBusy(wait) /\ Edge(wait)
TakenBranch == \E wait \in BusWaits :
                 ~TrapTake(wait) /\ ~DbusBusy(wait) /\ BranchTake /\ Edge(wait)
Advance  == \E wait \in BusWaits :
              ~TrapTake(wait) /\ ~DbusBusy(wait) /\ ~BranchTake /\ Edge(wait)

Next == Trap \/ Stalled \/ TakenBranch \/ Advance

Spec == Init /\ [][Next]_vars

\* The clock runs, the data bus answers a request again and again, and the
\* fetch stage presents the next instruction (Ifu, FetchProgress).
Fairness ==
  /\ WF_vars(Edge(FALSE))
  /\ SF_vars(Edge(FALSE) /\ ifValid')
FairSpec == Spec /\ Fairness

-----------------------------------------------------------------------------
\* Properties

TypeOK ==
  /\ prog \in [Pcs -> Instr]
  /\ expected \in Pcs /\ ifValid \in BOOLEAN /\ ifPc \in Pcs /\ ifWord \in Pcs
  /\ idex \in IdEx /\ exmem \in Stage /\ memwb \in Stage /\ openReq \in Stage
  /\ regfile \in [Regs -> Vals]
  /\ busData \in Vals \cup {Junk} /\ hold \in Vals \cup {Junk}
  /\ readValid \in BOOLEAN /\ useHold \in BOOLEAN
  /\ mul \in [busy : BOOLEAN, valid : BOOLEAN \X BOOLEAN, operand : Vals, out : Vals]
  /\ div \in [running : BOOLEAN, iterations : 0 .. DIV_STEPS + 1, out : Vals]
  /\ mepc \in Pcs /\ mie \in BOOLEAN /\ mpie \in BOOLEAN /\ meie \in BOOLEAN
  /\ irq \in BOOLEAN /\ irqLeft \in 0 .. MaxIrq

\* The software view of a pipeline state: an instruction counts as executed
\* from the edge at which it leaves MEM, so what it still has to do in WB is
\* applied; the next one is the oldest one behind it.  One that raises an exception
\* is the next one until its trap is taken.
ArchRegs == IF WbRegWrite /\ ~WbException
            THEN [regfile EXCEPT ![memwb.rd] = WbData] ELSE regfile

ArchPc == IF WbException THEN memwb.pc
          ELSE IF TrapReturn THEN mepc
          ELSE IF exmem.op # "none" THEN exmem.pc
          ELSE IF idex.op # "none" THEN idex.pc
          ELSE IF ifValid THEN ifPc
          ELSE expected

ArchMepc == IF memwb.op = "csrw" THEN memwb.val % (Last + 1)
            ELSE IF TrapReturn THEN memwb.pc
            ELSE mepc
ArchMie  == IF TrapReturn THEN mpie ELSE mie
ArchMeie == meie \/ memwb.op = "ei"
ArchMpie == IF TrapReturn THEN TRUE ELSE mpie

\* The pipelined core implements the sequential one: forwarding, stalls, flushes and
\* traps neither lose, repeat nor reorder an instruction, every operand is the value
\* the program order gives it, and the data bus sees the accesses of the program in
\* order, each once, and besides them at most the one that stands at the point of a
\* trap (MEM.sv:149 does not gate it with the flush).  It holds of programs that are
\* Separated and of interrupts that come Apart.
Arch == INSTANCE Isa WITH pc <- ArchPc, regs <- ArchRegs,
                          mepc <- ArchMepc, mie <- ArchMie, mpie <- ArchMpie,
                          meie <- ArchMeie
ImplementsIsa == Arch!Spec

\* MEM.sv, NOTE: the data bus requires that a request is kept unchanged till
\* it is taken.
DbusRequestStable == openReq.op # "none" => exmem = openReq

\* Programs in which it is, which the core does not see to: no multiply or divide
\* behind an access, which would clear it out of EX/MEM (ex_bubble in hdu.sv does not
\* wait for the data bus), and no access behind mret, whose flush does not wait for the
\* bus either (trap_return in trap_ctrl.sv).
Separated(p) ==
  \A a \in Pcs :
    /\ p[a].op \in Accesses => p[NextPc(a)].op \notin {"mul", "div"}
    /\ p[a].op = "mret" => p[NextPc(a)].op \notin Accesses

\* Interrupts that do not come in the cycle in which an exception, mret or a write of
\* mepc in WB uses mepc, which the core does not see to either.
Apart ==
  irq /\ mie /\ meie /\ Valid(exmem) =>
    memwb.op \notin {"ill", "mis", "jmis", "mret", "csrw"}

\* The hazard unit never blocks the core for good: whatever stalls, bubbles
\* and flushes coincide, the program reaches its final jump to itself.
ReachesHalt == <>(memwb.op = "jal" /\ prog[memwb.pc].tgt = memwb.pc)
=============================================================================
