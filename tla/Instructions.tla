---------------------------- MODULE Instructions ----------------------------
(***************************************************************************)
(* Instruction classes, values and the data bus device shared by Isa (what *)
(* software sees) and Pipeline (what the core does).                       *)
(*                                                                         *)
(* What the pipeline does with an instruction tells apart an ALU operation,*)
(* a multiply, a divide, a load, a store, a misaligned load, a branch, a   *)
(* jump, a jump to a misaligned address, a read and a write of a CSR       *)
(* (mepc), the write that enables the interrupt in mie, mret and an        *)
(* illegal word; one source register stands for the two, whose logic is    *)
(* duplicated.  Values are small.  The data bus is a device that counts    *)
(* its accesses: a load returns their number, so a lost, repeated or       *)
(* wrong-path access shows.                                                *)
(***************************************************************************)
EXTENDS Integers, Sequences

CONSTANTS
  Programs,  \* Programs to run: functions from 0 .. Last to instructions
  Last,      \* Highest address of a program
  Regs,      \* Register numbers, 0 among them
  ValMod,    \* Values are taken modulo ValMod
  Handler    \* mtvec (direct mode)

Ops == {"alu", "mul", "div", "load", "store", "mis", "beqz", "jal",
        "jmis", "csrr", "csrw", "ei", "mret", "ill"}

Vals == 0 .. ValMod - 1
Pcs  == 0 .. Last

Instr == [op : Ops, rd : Regs, rs : Regs, tgt : Pcs]

ASSUME ProgramsAssumption == Programs \subseteq [Pcs -> Instr]
ASSUME ValuesAssumption ==
  /\ Last \in Nat /\ ValMod \in Nat /\ Last < ValMod
  /\ 0 \in Regs /\ Handler \in Pcs

NextPc(p) == (p + 1) % (Last + 1)

\* Result of an ALU operation and of the multiplier and divider.
AluResult(v) == (v + 1) % ValMod
MulResult(v) == (v + 3) % ValMod
DivResult(v) == (v + 5) % ValMod

\* What the device answers to a load after n accesses.
DevAnswer(n) == (n + 1) % ValMod
ReadAccess == "ld"
=============================================================================
