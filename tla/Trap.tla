-------------------------------- MODULE Trap --------------------------------
(***************************************************************************)
(* Interrupts from their source to the service routine and back: trap      *)
(* control (trap_ctrl.sv), the machine CSRs (mcsr.sv), the CLIC, and the   *)
(* trap entry and dispatch of the software kit (trap_entry.S, trap.c).     *)
(*                                                                         *)
(* A step of the processor is a clock edge at which an instruction leaves  *)
(* WB or MEM; pc is the oldest instruction that has not left WB, wbValid   *)
(* tells whether it is there.  Device accesses are performed when an       *)
(* instruction leaves MEM, CSR accesses when it leaves WB.  Of the handler *)
(* there is one instruction for each access to this state.  The kit uses   *)
(* direct mode (mtvec = trap_entry).  The registers between a source and   *)
(* its line are taken as settled, since leaving the handler takes longer.  *)
(***************************************************************************)
EXTENDS Integers, Sequences

CONSTANTS
  Programs,    \* main programs, sequences of Ops; behind the last one is a loop
  MieValue,    \* the sources _init enables in mie
  TimeCmp,     \* the compare value of the programs
  TimeMax,     \* bound: the time stops there
  MaxCount,    \* timer interrupts after which mtimer_isr turns the timer off
  Externals    \* bound: interrupts of the PLIC

Sources == {"software", "timer", "external"}

\* disable: csrrci mstatus;  mstatus, mie: csrw to these;  msip, timecmp: stores
\* to the CLIC;  exc: an instruction with an exception.
Ops == {"plain", "disable", "mstatus", "mie", "msip", "timecmp", "exc"}

\* start.S and _init: interrupts are turned off, on in mstatus, and then the
\* sources in mie.  The kit writes neither register again.
ASSUME ProgramsAssumption ==
  \A p \in Programs :
    /\ p \in Seq(Ops) /\ Len(p) >= 3
    /\ p[1] = "disable" /\ p[2] \in {"mstatus", "exc"} /\ p[3] = "mie"
    /\ \A n \in 4 .. Len(p) : p[n] \in {"plain", "msip", "timecmp", "exc"}
ASSUME MieAssumption == MieValue \subseteq Sources
ASSUME BoundsAssumption ==
  /\ TimeMax \in Nat /\ TimeCmp \in 1 .. TimeMax
  /\ MaxCount \in Nat \ {0} /\ Externals \in Nat

VARIABLES
  prog,           \* the main program
  pc, wbValid,    \* oldest instruction in the pipeline; whether it is in WB
  mie, mpie,      \* mstatus.MIE, .MPIE
  enabled,        \* mie: MSIE, MTIE, MEIE
  mepc, mcause,
  cause, epc,     \* a0 and a1 of the handler
  msip, mtime, mtimecmp, \* CLIC
  external,       \* the PLIC's line
  left,           \* interrupts it has left
  count,          \* of mtimer_isr
  due,            \* history: instruction of the program that is next in order
  performed       \* history: instruction of the program that left MEM last

trapVars == <<mie, mpie, enabled, mepc, mcause>>
handlerVars == <<cause, epc>>
deviceVars == <<msip, mtime, mtimecmp, external, count>>
vars == <<prog, pc, wbValid, trapVars, handlerVars, deviceVars, left, due, performed>>

-----------------------------------------------------------------------------
\* The code.  An instruction is a routine and a position in it.

In(r, n) == [routine |-> r, at |-> n]
Main(n)  == In("main", n)

\* trap_entry: csrr mcause and mepc, call of the service routine, csrw mepc, mret.
TrapEntry == In("entry", 1)
Dispatch  == In("entry", 2)
WriteMepc == In("entry", 3)
Mret      == In("entry", 4)

\* The service routines: msip = 0; mtime = 0 and then the count; the device's own.
\* exit is where an exception ends.
Exit == In("exit", 1)
IsrCode == {In("software", 1), In("timer", 1), In("timer", 2), In("external", 1)}
IsrEnd  == {In("software", 1), In("timer", 2), In("external", 1)}

IsMain(a) == a.routine = "main" /\ a.at <= Len(prog)
Is(op, a) == IsMain(a) /\ prog[a.at] = op

\* trap_handler and interrupt_handler.
M_SOFTWARE == 3
M_TIMER    == 7
M_EXTERNAL == 11
Code == [software |-> M_SOFTWARE, timer |-> M_TIMER, external |-> M_EXTERNAL]

Handler ==
  IF ~cause.interrupt THEN Exit
  ELSE IF cause.code = M_SOFTWARE THEN In("software", 1)
  ELSE IF cause.code = M_TIMER THEN In("timer", 1)
  ELSE IF cause.code = M_EXTERNAL THEN In("external", 1)
  ELSE WriteMepc

NextPc(a) ==
  IF a.routine = "exit" \/ (a.routine = "main" /\ ~IsMain(a)) THEN a
  ELSE IF a = Dispatch THEN Handler
  ELSE IF a \in IsrEnd THEN WriteMepc
  ELSE In(a.routine, a.at + 1)

-----------------------------------------------------------------------------
\* trap_ctrl.sv

TimerLine == mtime >= mtimecmp /\ mtimecmp # 0

Lines == {s \in Sources : \/ s = "software" /\ msip
                          \/ s = "timer" /\ TimerLine
                          \/ s = "external" /\ external}

\* Mutant: the case of the timer is missing.
InterruptCode_NoTimer ==
  IF "software" \in Lines THEN M_SOFTWARE ELSE M_EXTERNAL

\* By priority, of all lines: also of those that are not enabled.
InterruptCode ==
  IF "software" \in Lines THEN M_SOFTWARE
  ELSE IF "timer" \in Lines THEN M_TIMER
  ELSE M_EXTERNAL

\* The instruction in MEM.
NextInstruction == IF wbValid THEN NextPc(pc) ELSE pc

ExceptionEnter == wbValid /\ Is("exc", pc)

\* Mutant: mret is not a trap return.
TrapReturn_Never == FALSE

TrapReturn == wbValid /\ pc = Mret

\* Only with an instruction in MEM, where the program will go on.
InterruptEnter(memValid) == memValid /\ mie /\ enabled \cap Lines # {}
TrapEnter(memValid) == ExceptionEnter \/ InterruptEnter(memValid)
TrapTake(memValid) == TrapEnter(memValid) \/ TrapReturn

TrapPc == IF TrapReturn THEN mepc ELSE TrapEntry

IllegalInstruction == 2

Cause(memValid) ==
  [interrupt |-> InterruptEnter(memValid),
   code |-> IF InterruptEnter(memValid) THEN InterruptCode
            ELSE IF ExceptionEnter THEN IllegalInstruction ELSE 0]

\* Mutant: an interrupt saves the pc of the instruction in WB.
MepcValue_Wb(memValid) == pc

MepcValue(memValid) == IF InterruptEnter(memValid) THEN NextInstruction ELSE pc

\* Mutant: interrupts stay enabled.
MieValueNext_Stays(memValid) == IF TrapEnter(memValid) THEN mie ELSE mpie

\* mstatus.MIE and .MPIE of a trap or return.
MieValueNext(memValid)  == IF TrapEnter(memValid) THEN FALSE ELSE mpie
MpieValueNext(memValid) == IF TrapEnter(memValid) THEN mie ELSE TRUE

-----------------------------------------------------------------------------
\* mcsr.sv: a CSR instruction in WB writes after the trap of the same cycle.

\* Mutant: mret leaves MIE alone.
Mstatus_NoReturn(memValid) ==
  IF TrapEnter(memValid)
    THEN mie' = MieValueNext(memValid) /\ mpie' = MpieValueNext(memValid)
    ELSE IF wbValid /\ Is("mstatus", pc) THEN mie' = TRUE /\ mpie' = FALSE
    ELSE IF wbValid /\ Is("disable", pc) THEN mie' = FALSE /\ UNCHANGED mpie
    ELSE UNCHANGED <<mie, mpie>>

Mstatus(memValid) ==
  IF wbValid /\ Is("mstatus", pc) THEN mie' = TRUE /\ mpie' = FALSE
  ELSE IF wbValid /\ Is("disable", pc) THEN mie' = FALSE /\ UNCHANGED mpie
  ELSE IF TrapTake(memValid)
    THEN mie' = MieValueNext(memValid) /\ mpie' = MpieValueNext(memValid)
  ELSE UNCHANGED <<mie, mpie>>

Csrs(memValid) ==
  /\ Mstatus(memValid)
  /\ enabled' = IF wbValid /\ Is("mie", pc) THEN MieValue ELSE enabled
  /\ mepc' = IF wbValid /\ pc = WriteMepc THEN epc
             ELSE IF TrapTake(memValid) THEN MepcValue(memValid) ELSE mepc
  /\ mcause' = IF TrapTake(memValid) THEN Cause(memValid) ELSE mcause

\* csrr a0, mcause; csrr a1, mepc.
ReadCause ==
  IF wbValid /\ pc = TrapEntry THEN cause' = mcause /\ epc' = mepc
  ELSE UNCHANGED handlerVars

-----------------------------------------------------------------------------
\* What the instruction that leaves MEM does to the devices.  A trap of the
\* same cycle does not stop it (MEM.sv:149, and the FIXME of trap_ctrl.sv:15).

Access(a) ==
  /\ msip' = IF Is("msip", a) THEN TRUE ELSE IF a = In("software", 1) THEN FALSE ELSE msip
  /\ mtime' = IF a = In("timer", 1) THEN 0 ELSE mtime
  /\ count' = IF a = In("timer", 2) THEN count + 1 ELSE count
  /\ mtimecmp' = IF Is("timecmp", a) THEN TimeCmp
                 ELSE IF a = In("timer", 2) /\ count' >= MaxCount THEN 0 ELSE mtimecmp
  /\ external' = IF a = In("external", 1) THEN FALSE ELSE external

-----------------------------------------------------------------------------
Init ==
  /\ prog \in Programs
  /\ pc = Main(1) /\ wbValid = FALSE /\ due = 1 /\ performed = 0
  /\ mie = TRUE /\ mpie = FALSE /\ enabled = {}
  /\ mepc = Main(1) /\ mcause = [interrupt |-> FALSE, code |-> 0]
  /\ cause = [interrupt |-> FALSE, code |-> 0] /\ epc = Main(1)
  /\ msip = FALSE /\ mtime = 0 /\ mtimecmp = 0 /\ count = 0
  /\ external = FALSE /\ left = Externals

\* hdu.sv: the instruction behind one that reads a CSR waits until it has left WB.
CsrRead(a) == a = TrapEntry \/ Is("disable", a)

\* The instruction at pc leaves WB if it is there, and the one behind it leaves
\* MEM if it is there; a trap flushes that one.
Edge(memValid) ==
  /\ Csrs(memValid)
  /\ ReadCause
  /\ pc' = IF TrapTake(memValid) THEN TrapPc ELSE NextInstruction
  /\ wbValid' = (memValid /\ ~TrapTake(memValid))
  /\ due' = IF wbValid /\ pc.routine = "main" /\ ~ExceptionEnter THEN NextPc(pc).at ELSE due
  /\ performed' = IF memValid /\ NextInstruction.routine = "main"
                  THEN NextInstruction.at ELSE performed
  /\ IF memValid THEN Access(NextInstruction) ELSE UNCHANGED deviceVars
  /\ UNCHANGED <<prog, left>>

\* An instruction leaves MEM behind an empty WB, WB in front of an empty MEM, or
\* both move.
Enter  == ~wbValid /\ Edge(TRUE)
Leave  == wbValid /\ Edge(FALSE)
Follow == wbValid /\ ~CsrRead(pc) /\ Edge(TRUE)

Processor == Enter \/ Leave \/ Follow

\* The timer and the devices behind the PLIC, which keeps them disabled until
\* _init is over.
Tick ==
  /\ mtime < TimeMax /\ mtime' = mtime + 1
  /\ UNCHANGED <<prog, pc, wbValid, trapVars, handlerVars, msip, mtimecmp, external, count,
                 left, due, performed>>

Raise ==
  /\ enabled # {} /\ ~external /\ left > 0
  /\ external' = TRUE /\ left' = left - 1
  /\ UNCHANGED <<prog, pc, wbValid, trapVars, handlerVars, msip, mtime, mtimecmp, count, due,
                 performed>>

Next == Processor \/ Tick \/ Raise

Spec == Init /\ [][Next]_vars

\* The clock runs and instructions arrive.
FairSpec == Spec /\ WF_vars(Processor)

-----------------------------------------------------------------------------
\* Properties

Instructions ==
  {Main(n) : n \in 1 .. Len(prog) + 1} \cup IsrCode
    \cup {TrapEntry, Dispatch, WriteMepc, Mret, Exit}

Causes == [interrupt : BOOLEAN, code : {0, IllegalInstruction} \cup {Code[s] : s \in Sources}]

TypeOK ==
  /\ pc \in Instructions /\ mepc \in Instructions /\ epc \in Instructions
  /\ wbValid \in BOOLEAN /\ mie \in BOOLEAN /\ mpie \in BOOLEAN
  /\ enabled \subseteq Sources
  /\ mcause \in Causes /\ cause \in Causes
  /\ msip \in BOOLEAN /\ external \in BOOLEAN
  /\ mtime \in 0 .. TimeMax /\ mtimecmp \in {0, TimeCmp} /\ count \in Nat
  /\ left \in 0 .. Externals /\ due \in 1 .. Len(prog) + 1
  /\ performed \in 0 .. Len(prog) + 1

\* The handler has one frame for mcause and mepc: from the trap to mret no
\* interrupt can come in, and after mret they come in again.
Booted == due > 3
HandlerUninterrupted ==
  /\ pc.routine # "main" => ~mie
  /\ pc.routine = "main" /\ Booted => mie

\* A service routine is called for a source that asks for it and is enabled,
\* although mcause was chosen when the trap was taken.
ServedIsPending ==
  pc = Dispatch /\ cause.interrupt =>
    \E s \in enabled \cap Lines : cause.code = Code[s]

\* An interrupt resumes the program with the instruction behind the last one that left
\* WB, and no access to a device is left out or done ahead of it.  An access may be
\* done twice, but only that of the instruction the program resumes with: an interrupt
\* that finds it in MEM does not stop its access.
ResumesInOrder == pc.routine = "main" => pc.at = due /\ performed \in {due - 1, due}

\* No source asks for ever, whatever the others do: each one is served.
EveryInterruptServed == \A s \in Sources : s \in Lines ~> s \notin Lines

\* trap_ctrl.sv, update mepc register: an exception writes the address of the
\* instruction that encountered it.
ExceptionWritesMepc == [][ExceptionEnter /\ pc' = TrapEntry => mepc' = pc]_vars
=============================================================================
