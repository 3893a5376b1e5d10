---------------------------- MODULE FetchStream ----------------------------
(***************************************************************************)
(* What the decode stage may rely on: the abstract fetch stage.            *)
(*                                                                         *)
(* It has no queue, no bus and no pointers.  It presents one instruction   *)
(* at a time (the IF/ID register), keeps presenting it until decode takes  *)
(* it, and presents the instructions in program order: the successor of    *)
(* the last one taken, or the target of the last redirect (the taken       *)
(* branch or trap that flushed the front end).  The word presented is the  *)
(* memory word stored at the presented pc.                                 *)
(*                                                                         *)
(* Module Ifu implements this specification; module Pipeline uses it.      *)
(***************************************************************************)
EXTENDS Integers

CONSTANT
  PcMod     \* Number of instruction words of the address space (2^30 in the core)

Pcs == 0 .. PcMod - 1

\* pc + 4, counted in instruction words; the 32-bit adder wraps.
NextPc(p) == (p + 1) % PcMod

VARIABLES
  expected, \* pc of the next instruction decode will take
  valid,    \* IF/ID valid
  outPc,    \* IF/ID pc
  outInstr  \* address of the memory word presented as IF/ID instruction

vars == <<expected, valid, outPc, outInstr>>

Presents(p) == valid' = TRUE /\ outPc' = p /\ outInstr' = p

Init ==
  /\ expected = 0
  /\ valid = FALSE
  /\ outPc \in Pcs
  /\ outInstr \in Pcs

\* Decode had nothing to take; an instruction shows up.
Present ==
  /\ ~valid
  /\ Presents(expected)
  /\ UNCHANGED expected

\* Decode takes the instruction; its successor follows now or later.
Take ==
  /\ valid
  /\ expected' = NextPc(expected)
  /\ \/ Presents(NextPc(expected))
     \/ valid' = FALSE /\ UNCHANGED <<outPc, outInstr>>

\* A taken branch or a trap drops what is presented and restarts at p.
Redirect(p) ==
  /\ expected' = p
  /\ valid' = FALSE
  /\ outPc' \in Pcs
  /\ outInstr' \in Pcs

Next == Present \/ Take \/ \E p \in Pcs : Redirect(p)

Spec == Init /\ [][Next]_vars
=============================================================================
