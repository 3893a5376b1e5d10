----------------------------- MODULE MCPipeline -----------------------------
(* Programs for Pipeline.  A program is a body at address 0, a halt (a jump
   to itself) behind it and, where it can trap, a handler behind the halt. *)
EXTENDS Pipeline

MCRegs == {0, 1, 2}
Any    == BOOLEAN
Never  == {FALSE}

O(op, rd, rs, tgt) == [op |-> op, rd |-> rd, rs |-> rs, tgt |-> tgt]

Halt(p) == O("jal", 0, 0, p)
Alu1  == O("alu", 1, 1, 0)
Alu2  == O("alu", 2, 1, 0)
Alu22 == O("alu", 2, 2, 0)
Load1 == O("load", 1, 0, 0)
Load2 == O("load", 2, 1, 0)
Store1 == O("store", 0, 1, 0)
Store2 == O("store", 0, 2, 0)
Mul1  == O("mul", 1, 1, 0)
Div2  == O("div", 2, 1, 0)
Csrr1 == O("csrr", 1, 0, 0)
Mis1  == O("mis", 1, 0, 0)
Jmis1 == O("jmis", 1, 0, 0)
Ill   == O("ill", 0, 0, 0)
Mret  == O("mret", 0, 0, 0)
Ei    == O("ei", 0, 0, 0)

\* Skips the instruction behind it; p is the address of the halt.
SkipOne(a, p) == O("beqz", 0, 1, IF a + 2 > p THEN p ELSE a + 2)

\* A body given as a tuple and its halt, padded to address Handler, the handler
\* there, and operations up to the last address.
Program(body, handler) ==
  [p \in 0 .. Last |->
     CASE p < Len(body) -> body[p + 1]
       [] p = Len(body) -> Halt(p)
       [] Handler <= p /\ p < Handler + Len(handler) -> handler[p - Handler + 1]
       [] OTHER -> Alu1]

-----------------------------------------------------------------------------
\* Loads, stores, operations that depend on them, branches; nothing traps.  The
\* first instruction produces register 1 and the last one observes both.
DataMenu(a) == {Alu1, Alu2, Load1, Load2, Store1, Store2, SkipOne(a, 4)}

DataPrograms ==
  {Program(body, << >>) :
     body \in {Alu1, Load1, Store1, SkipOne(0, 4)} \X DataMenu(1) \X DataMenu(2)
                \X {Alu2, Store1, Store2}}

-----------------------------------------------------------------------------
\* Exceptions and M instructions.  The handler returns behind the instruction
\* that trapped; behind mret there is an operation.
SkipHandler == <<O("csrr", 2, 0, 0), Alu22, O("csrw", 0, 2, 0), Mret>>

Accessing(i) == i.op \in Accesses
Muldiv(i)    == i.op \in {"mul", "div"}

\* Pairs that lose the access (README, section 4).
Avoided(i, j) == Accessing(i) /\ Muldiv(j)

Fenced(code) == \A p \in 1 .. Len(code) - 1 : ~Avoided(code[p], code[p + 1])

TrapMenu(a) == {Alu1, Load1, Store1, Mul1, Div2, Ill, Mis1, Jmis1, Csrr1, SkipOne(a, 3)}

TrapPrograms ==
  {Program(body, SkipHandler) :
     body \in {b \in TrapMenu(0) \X TrapMenu(1) \X TrapMenu(2) : Fenced(b)}}

-----------------------------------------------------------------------------
\* Interrupts, in programs without exceptions.
IrqHandler == <<Alu22, Mret>>

IrqMenu(a) == {Alu1, Load1, Store1, Mul1, Div2, Csrr1, SkipOne(a, 4), O("jal", 1, 0, 3)}

IrqPrograms ==
  {Program(<<Ei>> \o body, IrqHandler) :
     body \in {b \in IrqMenu(1) \X IrqMenu(2) \X {Alu1, Store1, Mul1} : Fenced(b)}}

MCPrograms == DataPrograms \cup TrapPrograms \cup IrqPrograms

\* What the theorem on stable requests asks for.
ASSUME MCSeparated == \A p \in MCPrograms : Separated(p)

-----------------------------------------------------------------------------
\* A program for what does not hold.
LoadMul == {Program(<<Load1, O("mul", 2, 2, 0), Alu1>>, << >>)}
=============================================================================
