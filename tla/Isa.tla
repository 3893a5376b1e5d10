-------------------------------- MODULE Isa --------------------------------
(***************************************************************************)
(* What the core promises to software: instructions execute one at a time, *)
(* in program order, and a trap is taken between two instructions.         *)
(*                                                                         *)
(* Traps are not quite what the ISA manual asks for.  A jump to a          *)
(* misaligned address traps and has written its link register all the      *)
(* same.  And the access that stands at the point of a trap may have been  *)
(* performed: the flush comes too late for it (trap_ctrl.sv, the FIXME on  *)
(* its corner cases), so that it is repeated when the handler returns to   *)
(* it.                                                                     *)
(*                                                                         *)
(* Module Pipeline implements this specification.                          *)
(***************************************************************************)
EXTENDS Instructions

VARIABLES
  prog,  \* the program in memory
  pc,    \* address of the next instruction
  regs,  \* register file; register 0 reads as zero
  dev,   \* accesses the data bus has performed, in order
  mepc,         \* where mret returns to
  mie, mpie,    \* mstatus.MIE and .MPIE
  meie          \* mie.MEIE

vars == <<prog, pc, regs, dev, mepc, mie, mpie, meie>>

Read(r) == IF r = 0 THEN 0 ELSE regs[r]
Write(r, v) == regs' = [regs EXCEPT ![r] = v]

Cur == prog[pc]
Step == pc' = NextPc(pc)

Init ==
  /\ prog \in Programs
  /\ pc = 0
  /\ regs = [r \in Regs |-> 0]
  /\ dev = << >>
  /\ mepc = 0 /\ mie = TRUE /\ mpie = FALSE /\ meie = FALSE

Calculate ==
  /\ \/ Cur.op = "alu" /\ Write(Cur.rd, AluResult(Read(Cur.rs)))
     \/ Cur.op = "mul" /\ Write(Cur.rd, MulResult(Read(Cur.rs)))
     \/ Cur.op = "div" /\ Write(Cur.rd, DivResult(Read(Cur.rs)))
  /\ Step
  /\ UNCHANGED <<prog, dev, mepc, mie, mpie, meie>>

Load ==
  /\ Cur.op = "load"
  /\ Write(Cur.rd, DevAnswer(Len(dev)))
  /\ dev' = Append(dev, ReadAccess)
  /\ Step
  /\ UNCHANGED <<prog, mepc, mie, mpie, meie>>

Store ==
  /\ Cur.op = "store"
  /\ dev' = Append(dev, Read(Cur.rs))
  /\ Step
  /\ UNCHANGED <<prog, regs, mepc, mie, mpie, meie>>

Branch ==
  /\ Cur.op = "beqz"
  /\ pc' = IF Read(Cur.rs) = 0 THEN Cur.tgt ELSE NextPc(pc)
  /\ UNCHANGED <<prog, regs, dev, mepc, mie, mpie, meie>>

Jump ==
  /\ Cur.op = "jal"
  /\ Write(Cur.rd, NextPc(pc))
  /\ pc' = Cur.tgt
  /\ UNCHANGED <<prog, dev, mepc, mie, mpie, meie>>

CsrRead ==
  /\ Cur.op = "csrr"
  /\ Write(Cur.rd, mepc)
  /\ Step
  /\ UNCHANGED <<prog, dev, mepc, mie, mpie, meie>>

CsrWrite ==
  /\ Cur.op = "csrw"
  /\ mepc' = Read(Cur.rs) % (Last + 1)
  /\ Step
  /\ UNCHANGED <<prog, regs, dev, mie, mpie, meie>>

EnableInterrupt ==
  /\ Cur.op = "ei"
  /\ meie' = TRUE
  /\ Step
  /\ UNCHANGED <<prog, regs, dev, mepc, mie, mpie>>

\* mcsr.sv writes mepc on every trap_take, so mret leaves its own pc there.
Mret ==
  /\ Cur.op = "mret"
  /\ pc' = mepc
  /\ mepc' = pc
  /\ mie' = mpie
  /\ mpie' = TRUE
  /\ UNCHANGED <<prog, regs, dev, meie>>

EnterTrap ==
  /\ pc' = Handler
  /\ mepc' = pc
  /\ mie' = FALSE
  /\ mpie' = mie
  /\ UNCHANGED <<prog, meie>>

\* The accesses the bus has seen when the instruction at p, if it is one, got there.
Reached(p) ==
  CASE prog[p].op = "load"  -> Append(dev, ReadAccess)
    [] prog[p].op = "store" -> Append(dev, Read(prog[p].rs))
    [] OTHER -> dev

\* An illegal instruction or a misaligned access has no effect but the trap; the
\* access behind it may get to the bus.
Exception ==
  /\ Cur.op \in {"ill", "mis"}
  /\ EnterTrap
  /\ dev' \in {dev, Reached(NextPc(pc))}
  /\ UNCHANGED regs

\* A jump to a misaligned address links before it traps.
MisalignedJump ==
  /\ Cur.op = "jmis"
  /\ Write(Cur.rd, NextPc(pc))
  /\ EnterTrap
  /\ UNCHANGED dev

\* An interrupt comes between two instructions and resumes at the second, whose access
\* gets to the bus.
Interrupt ==
  /\ mie /\ meie
  /\ EnterTrap
  /\ dev' = Reached(pc)
  /\ UNCHANGED regs

Next ==
  \/ Calculate \/ Load \/ Store \/ Branch \/ Jump
  \/ CsrRead \/ CsrWrite \/ EnableInterrupt \/ Mret
  \/ Exception \/ MisalignedJump \/ Interrupt

Spec == Init /\ [][Next]_vars
=============================================================================
