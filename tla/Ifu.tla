-------------------------------- MODULE Ifu --------------------------------
(***************************************************************************)
(* The instruction fetch unit (src/rtl/core/ifu.sv): the program counter,  *)
(* the pending redirect and the instruction fetch queue (IFQ).             *)
(*                                                                         *)
(* Every step is one rising clock edge.  Variables are the registers; the  *)
(* wires of the always blocks are operators; each always block is one      *)
(* operator that gives the next value of its registers.  The inputs of the *)
(* cycle - waitrequest of the instruction bus, if_stall and if_flush from  *)
(* the hazard unit, branch_take and trap_take - are parameters.            *)
(*                                                                         *)
(* An instruction word is represented by the address it was read from, so  *)
(* the bus answers a read of address a with the value a.  Addresses count  *)
(* instruction words, pc + 4 is NextPc(pc).  Reset is the initial state.   *)
(***************************************************************************)
EXTENDS Integers

CONSTANTS
  PcMod,       \* Number of instruction words in the address space
  IFQ_DEPTH,   \* Entries of the fetch queue (a power of two in the code)
  IFQ_AFULL_TH,\* Entries kept free for reads that are still in flight
  Targets,     \* Branch and trap targets of the environment
  NoPc         \* "branch_take is low"

ASSUME PcModAssumption   == PcMod \in Nat \ {0}
ASSUME DepthAssumption   == IFQ_DEPTH \in Nat /\ IFQ_AFULL_TH \in 1 .. IFQ_DEPTH - 1
ASSUME TargetsAssumption == Targets \subseteq 0 .. PcMod - 1
ASSUME NoPcAssumption    == NoPc \notin 0 .. PcMod - 1

VARIABLES
  pc,               \* address on the instruction bus
  pendingPc,        \* redirect that waits for the bus ...
  pendingPcValid,   \* ... and whether there is one
  currentPc,        \* pc of the previous cycle: the address of the read data
  ifqMem,           \* the queue's memory: pairs of word and pc
  ifqRdptr,         \* read and write pointer, one bit wider than the index
  ifqWtptr,
  ifqDout,          \* output register of the queue: instruction, instruction_pc
  ifqWen,           \* the read data of this cycle goes into the queue
  flushPendingRead, \* the outstanding read belongs to a flushed stream
  instructionValid, \* IF/ID valid
  readData,         \* instruction bus: data of the last accepted read
  openReq,          \* instruction bus: address of a read it has not accepted yet
  held,             \* target of a taken branch kept in EX by a busy data bus
  inEx,             \* an instruction fetched since the last redirect is in EX
  inBack,           \* an instruction that may still trap is in the pipeline
  expected          \* history: pc of the instruction decode has to take next

regs == <<pc, pendingPc, pendingPcValid, currentPc, ifqMem, ifqRdptr, ifqWtptr,
          ifqDout, ifqWen, flushPendingRead, instructionValid>>
env  == <<readData, openReq, held, inEx, inBack, expected>>
vars == <<regs, env>>

Pcs == 0 .. PcMod - 1
NextPc(p) == (p + 1) % PcMod

Entry == [instr : Pcs, pc : Pcs]

PtrMod == 2 * IFQ_DEPTH

-----------------------------------------------------------------------------
\* Wires

IfqFill  == (ifqWtptr - ifqRdptr) % PtrMod      \* ifq_wrptr_minus_rdptr
IfqEmpty == IfqFill = 0
\* Mutant: the queue counts as full only when it is.
IfqAfull_NoMargin == IfqFill >= IFQ_DEPTH

IfqAfull == IfqFill >= IFQ_DEPTH - IFQ_AFULL_TH

IbusRead == ~IfqAfull
IbusFire(wait) == IbusRead /\ ~wait
IfqRen(stall) == ~IfqEmpty /\ ~stall

-----------------------------------------------------------------------------
\* Registers, one operator per always block.  trap and branch are the target
\* of the redirect, or NoPc when trap_take or branch_take is low.

PendingPcValidNext(wait, trap, branch) ==
  IF (trap # NoPc \/ branch # NoPc) /\ wait THEN TRUE
  ELSE pendingPcValid /\ wait

PendingPcNext(wait, trap, branch) ==
  IF trap # NoPc /\ wait THEN trap
  ELSE IF branch # NoPc /\ wait THEN branch
  ELSE pendingPc

\* Mutant: a redirect changes the address of an outstanding read.
PcRegNext_IgnoresWait(wait, trap, branch) ==
  IF trap # NoPc THEN trap
  ELSE IF branch # NoPc THEN branch
  ELSE IF wait THEN pc
  ELSE IF pendingPcValid THEN pendingPc
  ELSE IF IbusRead THEN NextPc(pc) ELSE pc

PcRegNext(wait, trap, branch) ==
  IF wait THEN pc
  ELSE IF trap # NoPc THEN trap
  ELSE IF branch # NoPc THEN branch
  ELSE IF pendingPcValid THEN pendingPc
  ELSE IF IbusRead THEN NextPc(pc) ELSE pc

IfqWenNext(wait, flush) == IbusFire(wait) /\ ~flushPendingRead /\ ~flush

\* Mutant: a pointer is not truncated to its width.
IfqPointers_Wide(stall, flush) ==
  IF flush
  THEN ifqRdptr' = 0 /\ ifqWtptr' = 0
  ELSE /\ ifqRdptr' = IF IfqRen(stall) THEN (ifqRdptr + 1) % PtrMod ELSE ifqRdptr
       /\ ifqWtptr' = IF ifqWen THEN ifqWtptr + 1 ELSE ifqWtptr

IfqPointers(stall, flush) ==
  IF flush
  THEN ifqRdptr' = 0 /\ ifqWtptr' = 0
  ELSE /\ ifqRdptr' = IF IfqRen(stall) THEN (ifqRdptr + 1) % PtrMod ELSE ifqRdptr
       /\ ifqWtptr' = IF ifqWen THEN (ifqWtptr + 1) % PtrMod ELSE ifqWtptr

IfqMemory(stall) ==
  /\ ifqMem' = IF ifqWen
               THEN [ifqMem EXCEPT ![ifqWtptr % IFQ_DEPTH] =
                                     [instr |-> readData, pc |-> currentPc]]
               ELSE ifqMem
  /\ ifqDout' = IF IfqRen(stall) THEN ifqMem[ifqRdptr % IFQ_DEPTH] ELSE ifqDout

\* Mutants: the mark is not set, or never cleared.
FlushPendingReadNext_NotSet(wait, flush) == flushPendingRead /\ ~IbusFire(wait)
FlushPendingReadNext_Sticky(wait, flush) == (flush /\ wait) \/ flushPendingRead

FlushPendingReadNext(wait, flush) ==
  IF flush /\ wait THEN TRUE
  ELSE flushPendingRead /\ ~IbusFire(wait)

InstructionValidNext(stall, flush) ==
  /\ ~flush
  /\ \/ IfqRen(stall)
     \/ stall /\ instructionValid

\* One clock edge of the unit.
Edge(wait, stall, flush, trap, branch) ==
  /\ pendingPcValid' = PendingPcValidNext(wait, trap, branch)
  /\ pendingPc' = PendingPcNext(wait, trap, branch)
  /\ pc' = PcRegNext(wait, trap, branch)
  /\ currentPc' = pc
  /\ ifqWen' = IfqWenNext(wait, flush)
  /\ IfqPointers(stall, flush)
  /\ IfqMemory(stall)
  /\ flushPendingRead' = FlushPendingReadNext(wait, flush)
  /\ instructionValid' = InstructionValidNext(stall, flush)
  \* The memory returns the data one cycle after the read was accepted.
  /\ readData' = IF IbusFire(wait) THEN pc ELSE readData
  /\ openReq' = IF IbusRead /\ wait THEN pc ELSE NoPc

-----------------------------------------------------------------------------
Init ==
  /\ pc = 0 /\ pendingPc = 0 /\ pendingPcValid = FALSE /\ currentPc = 0
  /\ ifqMem = [i \in 0 .. IFQ_DEPTH - 1 |-> [instr |-> 0, pc |-> 0]]
  /\ ifqRdptr = 0 /\ ifqWtptr = 0
  /\ ifqDout = [instr |-> 0, pc |-> 0]
  /\ ifqWen = FALSE /\ flushPendingRead = FALSE /\ instructionValid = FALSE
  /\ readData = 0 /\ openReq = NoPc /\ held = NoPc /\ inEx = FALSE /\ inBack = FALSE
  /\ expected = 0

\* Decode takes what is presented in every cycle in which IF is not stalled.
Taken(stall) == instructionValid /\ ~stall

\* A cycle without a redirect: the queue fills, drains or waits.
Run(wait, stall) ==
  /\ held = NoPc
  /\ Edge(wait, stall, FALSE, NoPc, NoPc)
  /\ expected' = IF Taken(stall) THEN NextPc(expected) ELSE expected
  /\ inEx' = (inEx \/ Taken(stall))
  /\ inBack' = (inBack \/ Taken(stall))
  /\ UNCHANGED held

\* A branch is taken in EX while the data bus is busy: branch_take is high in
\* every such cycle, IF is stalled, and hdu.sv holds the flush back.
BranchHeld(wait, p) ==
  /\ inEx
  /\ held \in {NoPc, p}
  /\ Edge(wait, TRUE, FALSE, NoPc, p)
  /\ held' = p
  /\ UNCHANGED <<inEx, inBack, expected>>

\* The taken branch leaves EX: IF and ID are flushed.
BranchFlush(wait, stall, p) ==
  /\ inEx
  /\ held \in {NoPc, p}
  /\ Edge(wait, stall, TRUE, NoPc, p)
  /\ expected' = p
  /\ held' = NoPc
  /\ inEx' = FALSE
  /\ UNCHANGED inBack

\* An exception, an interrupt or mret in WB.  A branch may be taken in EX in
\* the same cycle; it is flushed with everything else.
TrapFlush(wait, stall, p, branch) ==
  /\ inBack
  /\ branch # NoPc => inEx
  /\ held # NoPc => branch = held
  /\ Edge(wait, stall, TRUE, p, branch)
  /\ expected' = p
  /\ held' = NoPc
  /\ inEx' = FALSE
  /\ inBack' = FALSE

Next ==
  \E wait \in BOOLEAN :
    \/ \E stall \in BOOLEAN : Run(wait, stall)
    \/ \E p \in Targets : BranchHeld(wait, p)
    \/ \E stall \in BOOLEAN, p \in Targets : BranchFlush(wait, stall, p)
    \/ \E stall \in BOOLEAN, p \in Targets, b \in Targets \cup {NoPc} :
         TrapFlush(wait, stall, p, b)

Spec == Init /\ [][Next]_vars

\* The bus accepts reads again and again, the pipeline behind is not stalled
\* for ever, and a branch does not stay in EX for ever (the data bus answers).
Fairness ==
  /\ SF_vars(\E stall \in BOOLEAN : Run(FALSE, stall))
  /\ SF_vars(\E wait \in BOOLEAN : Run(wait, FALSE))
  /\ WF_vars(\E wait, stall \in BOOLEAN, p \in Targets :
               held # NoPc /\ BranchFlush(wait, stall, p))

FairSpec == Spec /\ Fairness

-----------------------------------------------------------------------------
\* Properties

TypeOK ==
  /\ pc \in Pcs /\ pendingPc \in Pcs /\ currentPc \in Pcs /\ expected \in Pcs
  /\ pendingPcValid \in BOOLEAN /\ ifqWen \in BOOLEAN
  /\ flushPendingRead \in BOOLEAN /\ instructionValid \in BOOLEAN
  /\ ifqMem \in [0 .. IFQ_DEPTH - 1 -> Entry]
  /\ ifqDout \in Entry
  /\ ifqRdptr \in 0 .. PtrMod - 1 /\ ifqWtptr \in 0 .. PtrMod - 1
  /\ readData \in Pcs /\ openReq \in Pcs \cup {NoPc}
  /\ held \in Targets \cup {NoPc}
  /\ inEx \in BOOLEAN /\ inBack \in BOOLEAN

\* The almost-full threshold leaves room for every read that was accepted but
\* has not arrived: the queue never holds more than IFQ_DEPTH entries, whatever
\* the bus and the pipeline do (ifu.sv, ifq_afull).
IfqNeverOverflows == IfqFill + (IF ifqWen THEN 1 ELSE 0) <= IFQ_DEPTH

\* A read that was outstanding when the front end was flushed is dropped, and
\* nothing else: while flush_pending_read is set the queue is empty, nothing is
\* on its way into it, and the redirect is still waiting in pending_pc.
StaleReadIsolated ==
  flushPendingRead =>
    IfqEmpty /\ ~ifqWen /\ pendingPcValid /\ ~instructionValid

\* Decode sees the instructions of the program in program order, each with the
\* word stored at its own pc, and none is lost, repeated or left over from
\* before a branch or trap: the unit implements the abstract fetch stage.
Stream == INSTANCE FetchStream WITH
            valid <- instructionValid, outPc <- ifqDout.pc, outInstr <- ifqDout.instr
ImplementsFetchStream == Stream!Spec

\* After every redirect, and in every other state, decode eventually gets
\* another instruction: no pending redirect or stale read blocks the unit.
FetchProgress == []<>instructionValid

\* A redirect never changes the address of a read the bus is still holding off
\* (ifu.sv, pending_pc): it waits until the read has been accepted.
BusAddressStable == openReq # NoPc => pc = openReq
=============================================================================
