----------------------------- MODULE TrapProofs -----------------------------
(***************************************************************************)
(* What holds of interrupts for every program of the kit, every compare    *)
(* value, and every order in which the sources ask.                        *)
(***************************************************************************)
EXTENDS Trap, TLAPS

-----------------------------------------------------------------------------
\* The program and the handler

\* What the program is at each place.
LEMMA ProgramIs ==
  ASSUME prog \in Programs
  PROVE  /\ Len(prog) \in Nat /\ Len(prog) >= 3
         /\ \A n \in 1 .. Len(prog) : prog[n] \in Ops
         /\ prog[1] = "disable" /\ prog[2] \in {"mstatus", "exc"} /\ prog[3] = "mie"
         /\ \A n \in 4 .. Len(prog) : prog[n] \in {"plain", "msip", "timecmp", "exc"}
BY ProgramsAssumption

Mains == {Main(n) : n \in 1 .. Len(prog) + 1}
Handlers == IsrCode \cup {TrapEntry, Dispatch, WriteMepc, Mret}

LEMMA PlacesApart ==
  /\ \A a \in Mains : a.routine = "main" /\ a = Main(a.at) /\ a.at \in 1 .. Len(prog) + 1
  /\ \A a \in Handlers \cup {Exit} : a.routine # "main"
  /\ Instructions = Mains \cup Handlers \cup {Exit}
  /\ Exit \notin Handlers
  /\ TrapEntry # Dispatch /\ TrapEntry # WriteMepc /\ TrapEntry # Mret /\ Dispatch # WriteMepc
  /\ Dispatch # Mret /\ WriteMepc # Mret
  /\ \A a \in IsrCode : a \notin {TrapEntry, Dispatch, WriteMepc, Mret}
BY DEF Mains, Handlers, Instructions, IsrCode, TrapEntry, Dispatch, WriteMepc, Mret, Exit, Main,
       In

\* Where the code goes on.
LEMMA NextPcIs ==
  ASSUME prog \in Programs
  PROVE  /\ \A a \in Mains : NextPc(a) \in Mains
              /\ NextPc(a) = Main(IF a.at <= Len(prog) THEN a.at + 1 ELSE a.at)
         /\ NextPc(TrapEntry) = Dispatch
         /\ NextPc(Dispatch) \in IsrCode \cup {WriteMepc, Exit}
         /\ NextPc(Dispatch) = Exit <=> ~cause.interrupt
         /\ \A a \in IsrCode : NextPc(a) \in IsrCode \cup {WriteMepc}
         /\ NextPc(WriteMepc) = Mret
         /\ NextPc(Exit) = Exit
<1>1. Len(prog) \in Nat
  BY ProgramIs
<1>2. ASSUME NEW a \in Mains
      PROVE  NextPc(a) \in Mains /\ NextPc(a) = Main(IF a.at <= Len(prog) THEN a.at + 1 ELSE a.at)
  <2>1. a.routine = "main" /\ a = Main(a.at) /\ a.at \in 1 .. Len(prog) + 1
    BY PlacesApart
  <2>2. a # Dispatch /\ a \notin IsrEnd
    BY <2>1 DEF Dispatch, IsrEnd, In
  <2>3. NextPc(a) = IF a.at <= Len(prog) THEN Main(a.at + 1) ELSE a
    BY <2>1, <2>2 DEF NextPc, IsMain, Main, In
  <2> QED  BY <1>1, <2>1, <2>3 DEF Mains
<1>3. /\ NextPc(TrapEntry) = Dispatch /\ NextPc(WriteMepc) = Mret /\ NextPc(Exit) = Exit
      /\ NextPc(Dispatch) = Handler
  BY DEF NextPc, TrapEntry, Dispatch, WriteMepc, Mret, Exit, IsrEnd, In
<1>4. /\ Handler \in IsrCode \cup {WriteMepc, Exit}
      /\ Handler = Exit <=> ~cause.interrupt
  BY DEF Handler, IsrCode, Exit, WriteMepc, In
<1>5. \A a \in IsrCode : NextPc(a) \in IsrCode \cup {WriteMepc}
  BY DEF NextPc, IsrCode, IsrEnd, Dispatch, WriteMepc, In
<1> QED  BY <1>2, <1>3, <1>4, <1>5

\* The handler does not run into the program: only mret leads back.
LEMMA OutsideStays ==
  ASSUME NEW a \in Handlers \cup {Exit}
  PROVE  a.routine # "main" /\ NextPc(a).routine # "main"
<1>1. a.routine # "main"
  BY PlacesApart
<1>2. Handler.routine # "main" /\ WriteMepc.routine # "main" /\ In(a.routine, a.at + 1).routine # "main"
  BY <1>1 DEF Handler, WriteMepc, Exit, In
<1> QED  BY <1>1, <1>2 DEF NextPc

-----------------------------------------------------------------------------
\* The inductive invariant

\* Where the handler will return to.
Return == IF pc \in {TrapEntry, Mret} THEN mepc ELSE epc

\* The cause that the handler has, or will read.
Reason == IF pc = TrapEntry THEN mcause ELSE cause

\* What the start-up code has done so far, and what is saved: the handler runs
\* with interrupts disabled and with a frame that leads back behind start-up,
\* to where they were enabled.
Started ==
  pc.routine = "main" =>
    /\ mie <=> pc.at # 2
    /\ enabled = IF pc.at <= 3 THEN {} ELSE MieValue
    /\ pc.at <= 3 => due = pc.at
Handling ==
  pc.routine # "main" =>
    /\ ~mie
    /\ \/ pc = Exit
       \/ pc \in {TrapEntry, Dispatch} /\ ~Reason.interrupt
       \/ mpie /\ enabled = MieValue /\ Return.at > 3
Places == epc \in Mains /\ (pc \in {TrapEntry, Mret} => mepc \in Mains)

Inv == TypeOK /\ prog \in Programs /\ Started /\ Handling /\ Places

LEMMA InitInv == Init => Inv
<1> SUFFICES ASSUME Init PROVE Inv
  OBVIOUS
<1>1. prog \in Programs /\ Len(prog) \in Nat /\ Len(prog) >= 3
  BY ProgramIs DEF Init
<1>2. Main(1) \in Mains
  BY <1>1 DEF Mains
<1>3. Main(1) \in Instructions /\ Main(1).routine = "main" /\ Main(1).at = 1
  BY <1>1 DEF Instructions, Main, In
<1>4. 0 \in 0 .. TimeMax /\ Externals \in 0 .. Externals
  BY BoundsAssumption
<1>5. [interrupt |-> FALSE, code |-> 0] \in Causes
  BY DEF Causes
<1>6. TypeOK
  <2>1. pc \in Instructions /\ mepc \in Instructions /\ epc \in Instructions
    BY <1>3 DEF Init
  <2>2. mcause \in Causes /\ cause \in Causes
    BY <1>5 DEF Init
  <2>3. mtime \in 0 .. TimeMax /\ left \in 0 .. Externals /\ due \in 1 .. Len(prog) + 1
    BY <1>1, <1>4 DEF Init
  <2>4. performed \in 0 .. Len(prog) + 1
    BY <1>1 DEF Init
  <2> QED  BY <2>1, <2>2, <2>3, <2>4 DEF Init, TypeOK
<1>7. Started /\ Handling
  BY <1>3 DEF Init, Started, Handling
<1> QED  BY <1>1, <1>2, <1>3, <1>6, <1>7 DEF Init, Inv, Places

\* The cause of a trap is one the kit knows.
LEMMA CauseTyped == \A m \in BOOLEAN : Cause(m) \in Causes
<1> SUFFICES ASSUME NEW m \in BOOLEAN PROVE Cause(m) \in Causes
  OBVIOUS
<1>1. {Code[s] : s \in Sources} = {3, 7, 11}
  BY DEF Code, Sources, M_SOFTWARE, M_TIMER, M_EXTERNAL
<1>2. InterruptCode \in {3, 7, 11}
  BY DEF InterruptCode, M_SOFTWARE, M_TIMER, M_EXTERNAL
<1>3. InterruptEnter(m) \in BOOLEAN
  BY DEF InterruptEnter
<1> QED  BY <1>1, <1>2, <1>3 DEF Cause, Causes

\* Devices.
LEMMA DeviceTypes ==
  ASSUME Inv, NEW m \in BOOLEAN, Edge(m)
  PROVE  /\ msip' \in BOOLEAN /\ external' \in BOOLEAN /\ mtime' \in 0 .. TimeMax
         /\ mtimecmp' \in {0, TimeCmp} /\ count' \in Nat
<1>1. msip \in BOOLEAN /\ external \in BOOLEAN /\ mtime \in 0 .. TimeMax
      /\ mtimecmp \in {0, TimeCmp} /\ count \in Nat
  BY DEF Inv, TypeOK
<1>2. CASE m
  <2>1. Access(NextInstruction)
    BY <1>2 DEF Edge
  <2>2. msip' \in BOOLEAN /\ external' \in BOOLEAN
    BY <1>1, <2>1 DEF Access
  <2>3. mtime' \in 0 .. TimeMax /\ count' \in Nat
    BY <1>1, <2>1, BoundsAssumption DEF Access
  <2>4. mtimecmp' \in {0, TimeCmp}
    BY <1>1, <2>1 DEF Access
  <2> QED  BY <2>2, <2>3, <2>4
<1>3. CASE ~m
  BY <1>1, <1>3 DEF Edge, deviceVars
<1> QED  BY <1>2, <1>3

\* The instruction that leaves MEM is one of the program or of the handler.
LEMMA PerformedTyped ==
  ASSUME Inv, NEW m \in BOOLEAN, Edge(m)
  PROVE  performed' \in 0 .. Len(prog) + 1
<1>1. pc \in Mains \cup Handlers \cup {Exit} /\ prog \in Programs
      /\ performed \in 0 .. Len(prog) + 1
  BY PlacesApart DEF Inv, TypeOK
<1>2. NextInstruction.routine = "main" => NextInstruction.at \in 0 .. Len(prog) + 1
  <2>1. ASSUME NEW a \in Mains PROVE a.at \in 0 .. Len(prog) + 1
    BY <1>1, ProgramIs, PlacesApart
  <2>2. CASE pc \in Mains
    <3>1. NextInstruction \in Mains
      BY <1>1, <2>2, NextPcIs DEF NextInstruction
    <3> QED  BY <2>1, <3>1
  <2>3. CASE pc \in Handlers \cup {Exit}
    BY <2>3, OutsideStays, PlacesApart DEF NextInstruction
  <2> QED  BY <1>1, <2>2, <2>3
<1> QED  BY <1>1, <1>2 DEF Edge

\* A step outside of the program: no trap comes in, only mret changes enables.
LEMMA HandlerEdge ==
  ASSUME Inv, NEW m \in BOOLEAN, Edge(m), pc.routine # "main"
  PROVE  /\ due' = due /\ prog' = prog /\ enabled' = enabled /\ ~mie
         /\ ~wbValid => UNCHANGED <<pc, mie, mpie, mepc, mcause, cause, epc>>
         /\ wbValid /\ pc = Mret =>
              /\ pc' = mepc /\ mie' = mpie /\ mpie' = TRUE /\ mepc' = Mret
              /\ mcause' \in Causes /\ UNCHANGED <<cause, epc>>
         /\ wbValid /\ pc # Mret =>
              /\ pc' = NextPc(pc) /\ UNCHANGED <<mie, mpie, mcause>>
              /\ mepc' = IF pc = WriteMepc THEN epc ELSE mepc
              /\ cause' = IF pc = TrapEntry THEN mcause ELSE cause
              /\ epc' = IF pc = TrapEntry THEN mepc ELSE epc
<1> USE DEF Edge, Csrs, handlerVars
<1>1. ~mie /\ \A op \in Ops : ~Is(op, pc)
  BY DEF Inv, Handling, Is, IsMain
<1>2. ~TrapEnter(m) /\ ~InterruptEnter(m) /\ (TrapTake(m) <=> wbValid /\ pc = Mret)
  BY <1>1 DEF TrapEnter, InterruptEnter, ExceptionEnter, TrapTake, TrapReturn, Ops
<1>3. \/ TrapTake(m) /\ mie' = mpie /\ mpie' = TRUE
      \/ ~TrapTake(m) /\ UNCHANGED <<mie, mpie>>
  BY <1>1, <1>2 DEF Mstatus, Ops, MieValueNext, MpieValueNext
<1>4. enabled' = enabled /\ due' = due /\ prog' = prog
  BY <1>1 DEF Ops
<1>5. Mret # WriteMepc /\ Mret # TrapEntry
  BY PlacesApart
<1>6. CASE ~wbValid
  BY <1>1, <1>2, <1>3, <1>4, <1>6 DEF ReadCause, NextInstruction
<1>7. CASE wbValid /\ pc = Mret
  <2>1. pc' = mepc /\ mepc' = Mret /\ UNCHANGED <<cause, epc>>
    BY <1>2, <1>5, <1>7 DEF TrapPc, TrapReturn, MepcValue, ReadCause
  <2> QED  BY <1>1, <1>2, <1>3, <1>4, <1>7, <2>1, CauseTyped
<1>8. CASE wbValid /\ pc # Mret
  BY <1>1, <1>2, <1>3, <1>4, <1>8 DEF ReadCause, NextInstruction
<1> QED  BY <1>6, <1>7, <1>8

\* A trap out of the program.
LEMMA MainTrap ==
  ASSUME Inv, NEW m \in BOOLEAN, Edge(m), pc.routine = "main", TrapEnter(m)
  PROVE  /\ due' = (IF wbValid /\ ~ExceptionEnter THEN NextPc(pc).at ELSE due)
         /\ prog' = prog /\ pc' = TrapEntry /\ wbValid' = FALSE
         /\ mepc' \in Mains /\ mepc' = (IF InterruptEnter(m) THEN NextInstruction ELSE pc)
         /\ mcause' = Cause(m) /\ UNCHANGED <<cause, epc>>
         /\ mie' = FALSE /\ mpie' = mie
         /\ InterruptEnter(m) => enabled = MieValue /\ enabled' = MieValue /\ mie /\ pc.at > 3
         /\ enabled' \subseteq Sources
<1> USE DEF Edge, Csrs, handlerVars
<1>1. pc \in Mains /\ prog \in Programs
  BY PlacesApart DEF Inv, TypeOK
<1>2. pc = Main(pc.at) /\ pc.at \in 1 .. Len(prog) + 1 /\ Len(prog) \in Nat /\ Len(prog) >= 3
  BY <1>1, PlacesApart, ProgramIs
<1>3. pc \notin {TrapEntry, Mret, WriteMepc}
  BY <1>1, PlacesApart DEF Handlers
<1>4. ~TrapReturn /\ TrapTake(m)
  BY <1>3 DEF TrapReturn, TrapTake
<1>5. InterruptEnter(m) => mie /\ enabled # {} /\ pc.at > 3 /\ enabled = MieValue
  BY <1>2 DEF InterruptEnter, Inv, Started
<1>6. ExceptionEnter => prog[pc.at] = "exc" /\ pc.at <= Len(prog)
  BY DEF ExceptionEnter, Is, IsMain
<1>7. ~Is("mstatus", pc) /\ ~Is("disable", pc) /\ (InterruptEnter(m) => ~Is("mie", pc))
  <2>1. InterruptEnter(m) \/ (prog[pc.at] = "exc" /\ pc.at <= Len(prog))
    BY <1>6 DEF TrapEnter
  <2>2. pc.at > 3 /\ pc.at <= Len(prog) => prog[pc.at] \in {"plain", "msip", "timecmp", "exc"}
    BY <1>1, <1>2, ProgramIs
  <2> QED  BY <1>5, <2>1, <2>2 DEF Is, IsMain
<1>8. mie' = FALSE /\ mpie' = mie
  BY <1>4, <1>7 DEF Mstatus, MieValueNext, MpieValueNext
<1>9. pc' = TrapEntry /\ wbValid' = FALSE /\ prog' = prog /\ UNCHANGED <<cause, epc>>
  BY <1>3, <1>4 DEF TrapPc, ReadCause
<1>10. mepc' = (IF InterruptEnter(m) THEN NextInstruction ELSE pc) /\ mepc' \in Mains
  BY <1>1, <1>3, <1>4, NextPcIs DEF MepcValue, NextInstruction
<1>11. enabled' \subseteq Sources /\ (InterruptEnter(m) => enabled' = enabled)
  BY <1>7, MieAssumption DEF Inv, TypeOK
<1> QED  BY <1>4, <1>5, <1>8, <1>9, <1>10, <1>11

\* A step of the program without a trap.
LEMMA MainStep ==
  ASSUME Inv, NEW m \in BOOLEAN, Edge(m), pc.routine = "main", ~TrapEnter(m)
  PROVE  /\ pc' = NextInstruction /\ pc' \in Mains /\ prog' = prog
         /\ UNCHANGED <<mepc, mcause, cause, epc>>
         /\ due' = IF wbValid THEN pc'.at ELSE due
         /\ mie' \in BOOLEAN /\ mpie' \in BOOLEAN /\ enabled' \subseteq Sources
         /\ Started'
<1> USE DEF Edge, Csrs, handlerVars
<1>1. pc \in Mains /\ prog \in Programs
  BY PlacesApart DEF Inv, TypeOK
<1>2. pc = Main(pc.at) /\ pc.at \in 1 .. Len(prog) + 1 /\ Len(prog) \in Nat /\ Len(prog) >= 3
  BY <1>1, PlacesApart, ProgramIs
<1>3. pc \notin {TrapEntry, Mret, WriteMepc}
  BY <1>1, PlacesApart DEF Handlers
<1>4. ~TrapReturn /\ ~TrapTake(m) /\ ~ExceptionEnter
  BY <1>3 DEF TrapReturn, TrapTake, TrapEnter
<1>5. /\ pc' = NextInstruction /\ prog' = prog /\ UNCHANGED <<mepc, mcause, cause, epc>>
  BY <1>3, <1>4 DEF ReadCause
<1>6. NextPc(pc) \in Mains /\ NextPc(pc) = Main(IF pc.at <= Len(prog) THEN pc.at + 1 ELSE pc.at)
  BY <1>1, NextPcIs
<1>7. pc' \in Mains /\ due' = IF wbValid THEN pc'.at ELSE due
  BY <1>1, <1>4, <1>5, <1>6 DEF NextInstruction
<1>8. mie \in BOOLEAN /\ mpie \in BOOLEAN /\ enabled \subseteq Sources
  BY DEF Inv, TypeOK
<1>9. mie' \in BOOLEAN /\ mpie' \in BOOLEAN /\ enabled' \subseteq Sources
  BY <1>4, <1>8, MieAssumption DEF Mstatus
<1>10. Started'
  <2>1. /\ mie <=> pc.at # 2
        /\ enabled = IF pc.at <= 3 THEN {} ELSE MieValue
        /\ pc.at <= 3 => due = pc.at
    BY DEF Inv, Started
  <2>2. CASE ~wbValid
    <3>1. pc' = pc /\ UNCHANGED <<mie, enabled, due>>
      BY <1>4, <1>5, <2>2 DEF NextInstruction, Mstatus
    <3> QED  BY <2>1, <3>1 DEF Started
  <2>3. CASE wbValid
    <3>1. pc' = NextPc(pc) /\ due' = pc'.at
      BY <1>5, <1>7, <2>3 DEF NextInstruction
    <3>2. pc'.at = IF pc.at <= Len(prog) THEN pc.at + 1 ELSE pc.at
      BY <1>6, <3>1 DEF Main, In
    <3>3. CASE pc.at = 1
      <4>1. Is("disable", pc) /\ ~Is("mstatus", pc) /\ ~Is("mie", pc)
        BY <1>1, <1>2, <3>3, ProgramIs DEF Is, IsMain
      <4>2. mie' = FALSE /\ enabled' = enabled
        BY <2>3, <4>1 DEF Mstatus
      <4> HIDE DEF Edge, Csrs, handlerVars
      <4> QED  BY <1>2, <2>1, <3>1, <3>2, <3>3, <4>2 DEF Started
    <3>4. CASE pc.at = 2
      <4>1. prog[2] # "exc"
        BY <1>2, <1>4, <2>3, <3>4 DEF ExceptionEnter, Is, IsMain
      <4>2. Is("mstatus", pc) /\ ~Is("mie", pc)
        BY <1>1, <1>2, <3>4, <4>1, ProgramIs DEF Is, IsMain
      <4>3. mie' = TRUE /\ enabled' = enabled
        BY <2>3, <4>2 DEF Mstatus
      <4>4. pc'.at = 3 /\ due' = 3 /\ enabled = {}
        BY <1>2, <2>1, <3>1, <3>2, <3>4
      <4> QED  BY <4>3, <4>4 DEF Started
    <3>5. CASE pc.at = 3
      <4>1. Is("mie", pc) /\ ~Is("mstatus", pc) /\ ~Is("disable", pc)
        BY <1>1, <1>2, <3>5, ProgramIs DEF Is, IsMain
      <4>2. UNCHANGED mie /\ enabled' = MieValue
        BY <1>4, <2>3, <4>1 DEF Mstatus
      <4>3. pc'.at = 4 /\ mie
        BY <1>2, <2>1, <3>1, <3>2, <3>5
      <4>4. mie'
        BY <4>2, <4>3
      <4> QED  BY <4>2, <4>3, <4>4 DEF Started
    <3>6. CASE pc.at > 3
      <4>1. ~Is("mie", pc) /\ ~Is("mstatus", pc) /\ ~Is("disable", pc)
        BY <1>1, <1>2, <3>6, ProgramIs DEF Is, IsMain
      <4>2. UNCHANGED <<mie, enabled>>
        BY <1>4, <2>3, <4>1 DEF Mstatus
      <4> HIDE DEF Edge, Csrs, handlerVars
      <4> QED  BY <1>2, <2>1, <3>1, <3>2, <3>6, <4>2 DEF Started
    <3> QED  BY <1>2, <3>3, <3>4, <3>5, <3>6
  <2> QED  BY <2>2, <2>3
<1> QED  BY <1>5, <1>7, <1>9, <1>10

LEMMA HandlerInv ==
  ASSUME Inv, NEW m \in BOOLEAN, Edge(m), pc.routine # "main"
  PROVE  /\ pc' \in Instructions /\ mepc' \in Instructions /\ mcause' \in Causes
         /\ cause' \in Causes /\ mie' \in BOOLEAN /\ mpie' \in BOOLEAN
         /\ Started' /\ Handling' /\ Places'
<1>1. /\ pc \in Handlers \cup {Exit} /\ prog' = prog /\ Mains' = Mains
      /\ mepc \in Instructions /\ epc \in Mains /\ (pc \in {TrapEntry, Mret} => mepc \in Mains)
  BY HandlerEdge, PlacesApart DEF Inv, TypeOK, Places, Mains
<1>2. /\ \/ pc = Exit
         \/ pc \in {TrapEntry, Dispatch} /\ ~Reason.interrupt
         \/ mpie /\ enabled = MieValue /\ Return.at > 3
      /\ ~mie /\ enabled' = enabled
  BY HandlerEdge DEF Inv, Handling
<1>3. mcause \in Causes /\ cause \in Causes /\ mie \in BOOLEAN /\ mpie \in BOOLEAN
      /\ prog \in Programs
  BY DEF Inv, TypeOK
<1>4. CASE ~wbValid
  <2>1. UNCHANGED <<pc, mie, mpie, mepc, mcause, cause, epc>>
    BY <1>4, HandlerEdge
  <2>2. Return' = Return /\ Reason' = Reason
    BY <2>1 DEF Return, Reason
  <2> QED
    BY <1>1, <1>2, <1>3, <2>1, <2>2 DEF Started, Handling, Places, Inv, TypeOK
<1>5. CASE wbValid /\ pc = Mret
  <2>1. /\ pc' = mepc /\ mie' = mpie /\ mpie' = TRUE /\ mepc' = Mret
        /\ mcause' \in Causes /\ UNCHANGED <<cause, epc>>
    BY <1>5, HandlerEdge
  <2>2. mpie /\ enabled = MieValue /\ mepc.at > 3 /\ mepc \in Mains
    <3>1. pc \notin {TrapEntry, Dispatch, Exit} /\ Return = mepc
      BY <1>5, PlacesApart DEF Return, Handlers
    <3> QED  BY <1>1, <1>2, <1>5, <3>1
  <2>3. mie' /\ enabled' = MieValue /\ pc' \in Mains /\ pc'.at > 3 /\ pc'.routine = "main"
    BY <1>2, <2>1, <2>2, PlacesApart
  <2>4. pc'.at # 2 /\ ~(pc'.at <= 3)
    BY <2>2, <2>3, PlacesApart
  <2>5. Started' /\ Handling'
    BY <2>3, <2>4 DEF Started, Handling
  <2>6. Places'
    BY <1>1, <2>1, <2>3, PlacesApart DEF Places, Handlers
  <2>7. pc' \in Instructions /\ mepc' \in Instructions
    BY <2>1, <2>2, PlacesApart DEF Handlers
  <2> QED  BY <1>3, <2>1, <2>2, <2>5, <2>6, <2>7
<1>6. CASE wbValid /\ pc # Mret
  <2>1. /\ pc' = NextPc(pc) /\ UNCHANGED <<mie, mpie, mcause>>
        /\ mepc' = IF pc = WriteMepc THEN epc ELSE mepc
        /\ cause' = IF pc = TrapEntry THEN mcause ELSE cause
        /\ epc' = IF pc = TrapEntry THEN mepc ELSE epc
    BY <1>6, HandlerEdge
  <2>2. mepc' \in Instructions /\ epc' \in Mains /\ cause' \in Causes
    BY <1>1, <1>3, <2>1, PlacesApart
  <2>3. CASE pc = TrapEntry
    <3>1. pc' = Dispatch /\ pc' # TrapEntry /\ pc' # Mret
      BY <1>3, <2>1, <2>3, NextPcIs, PlacesApart
    <3>2. Return' = Return /\ Reason' = Reason
      BY <2>1, <2>3, <3>1 DEF Return, Reason
    <3>3. pc' \in Instructions /\ pc'.routine # "main" /\ pc # Exit
      BY <2>3, <3>1, PlacesApart DEF Handlers
    <3> QED
      BY <1>1, <1>2, <1>3, <2>1, <2>2, <2>3, <3>1, <3>2, <3>3 DEF Started, Handling, Places
  <2>4. CASE pc = Dispatch
    <3>1. pc' \in IsrCode \cup {WriteMepc, Exit} /\ (pc' = Exit <=> ~cause.interrupt)
      BY <1>3, <2>1, <2>4, NextPcIs
    <3>2. pc # TrapEntry /\ pc' \notin {TrapEntry, Mret, Dispatch} /\ pc # Exit /\ pc # WriteMepc
      BY <2>4, <3>1, PlacesApart DEF Handlers
    <3>3. Return' = Return /\ Reason = cause
      BY <2>1, <2>4, <3>2, PlacesApart DEF Return, Reason
    <3>4. pc' \in Instructions /\ pc'.routine # "main"
      BY <3>1, PlacesApart DEF Handlers
    <3> QED
      BY <1>1, <1>2, <1>3, <2>1, <2>2, <2>4, <3>1, <3>2, <3>3, <3>4
         DEF Started, Handling, Places
  <2>5. CASE pc \in IsrCode
    <3>1. pc' \in IsrCode \cup {WriteMepc}
      BY <1>3, <2>1, <2>5, NextPcIs
    <3>2. /\ pc \notin {TrapEntry, Mret, Dispatch, WriteMepc, Exit}
          /\ pc' \notin {TrapEntry, Mret, Dispatch}
          /\ pc' \in Instructions /\ pc'.routine # "main"
      BY <2>5, <3>1, PlacesApart DEF Handlers
    <3>3. Return' = Return
      BY <2>1, <3>2 DEF Return
    <3> QED
      BY <1>1, <1>2, <1>3, <2>1, <2>2, <3>2, <3>3 DEF Started, Handling, Places
  <2>6. CASE pc = WriteMepc
    <3>1. pc' = Mret /\ mepc' = epc /\ epc' = epc
      BY <1>3, <2>1, <2>6, NextPcIs, PlacesApart
    <3>2. /\ pc \notin {TrapEntry, Mret, Dispatch, Exit}
          /\ pc' \in Instructions /\ pc'.routine # "main"
      BY <2>6, <3>1, PlacesApart DEF Handlers
    <3>3. Return' = Return
      BY <3>1, <3>2 DEF Return
    <3> QED
      BY <1>1, <1>2, <1>3, <2>1, <2>2, <3>1, <3>2, <3>3 DEF Started, Handling, Places
  <2>7. CASE pc = Exit
    <3>1. pc' = Exit /\ pc' \in Instructions /\ pc'.routine # "main" /\ Exit \notin {TrapEntry, Mret}
      BY <1>3, <2>1, <2>7, NextPcIs, PlacesApart DEF Handlers
    <3>2. Started' /\ Handling'
      BY <1>2, <2>1, <3>1, <1>6 DEF Started, Handling
    <3>3. Places'
      BY <1>1, <2>2, <3>1 DEF Places
    <3> QED  BY <1>3, <2>1, <2>2, <3>1, <3>2, <3>3
  <2> QED  BY <1>1, <1>6, <2>3, <2>4, <2>5, <2>6, <2>7 DEF Handlers
<1> QED  BY <1>4, <1>5, <1>6

LEMMA MainInv ==
  ASSUME Inv, NEW m \in BOOLEAN, Edge(m), pc.routine = "main"
  PROVE  /\ pc' \in Instructions /\ mepc' \in Instructions /\ mcause' \in Causes
         /\ cause' \in Causes /\ mie' \in BOOLEAN /\ mpie' \in BOOLEAN
         /\ enabled' \subseteq Sources /\ due' \in 1 .. Len(prog) + 1
         /\ prog' = prog /\ Started' /\ Handling' /\ Places'
<1>1. /\ pc \in Mains /\ epc \in Mains /\ mepc \in Instructions /\ due \in 1 .. Len(prog) + 1
      /\ mcause \in Causes /\ cause \in Causes /\ mie \in BOOLEAN /\ mpie \in BOOLEAN
      /\ prog \in Programs
  BY PlacesApart DEF Inv, TypeOK, Places
<1>2. NextPc(pc) \in Mains /\ NextPc(pc).at \in 1 .. Len(prog) + 1 /\ Len(prog) \in Nat
      /\ pc.at \in 1 .. Len(prog) + 1
      /\ NextPc(pc) = Main(IF pc.at <= Len(prog) THEN pc.at + 1 ELSE pc.at)
  BY <1>1, NextPcIs, PlacesApart, ProgramIs
<1>3. CASE TrapEnter(m)
  <2>1. /\ due' = (IF wbValid /\ ~ExceptionEnter THEN NextPc(pc).at ELSE due)
        /\ prog' = prog /\ pc' = TrapEntry
        /\ mepc' \in Mains /\ mepc' = (IF InterruptEnter(m) THEN NextInstruction ELSE pc)
        /\ mcause' = Cause(m) /\ UNCHANGED <<cause, epc>>
        /\ mie' = FALSE /\ mpie' = mie
        /\ InterruptEnter(m) => enabled = MieValue /\ enabled' = MieValue /\ mie /\ pc.at > 3
        /\ enabled' \subseteq Sources
    BY <1>3, MainTrap
  <2>2. pc' \in Instructions /\ pc'.routine # "main" /\ mepc' \in Instructions
    BY <2>1, PlacesApart DEF Handlers
  <2>3. Reason'.interrupt = InterruptEnter(m) /\ Return' = mepc'
    BY <2>1 DEF Reason, Return, Cause
  <2>4. InterruptEnter(m) => mpie' /\ enabled' = MieValue /\ Return'.at > 3
    <3>1. InterruptEnter(m) => NextInstruction.at > 3
      BY <1>2, <2>1 DEF NextInstruction, Main, In
    <3> QED  BY <2>1, <2>3, <3>1
  <2>5. Handling'
    <3>1. InterruptEnter(m) \in BOOLEAN
      BY DEF InterruptEnter
    <3>2. ~mie' /\ pc' \in {TrapEntry, Dispatch}
      BY <2>1
    <3>3. CASE InterruptEnter(m)
      BY <2>4, <3>2, <3>3 DEF Handling
    <3>4. CASE ~InterruptEnter(m)
      <4>1. ~Reason'.interrupt
        BY <2>3, <3>1, <3>4
      <4> QED  BY <3>2, <4>1 DEF Handling
    <3> QED  BY <3>1, <3>3, <3>4
  <2>6. Started' /\ Places'
    BY <1>1, <2>1, <2>2 DEF Started, Places, Mains
  <2>7. mcause' \in Causes /\ due' \in 1 .. Len(prog) + 1
    BY <1>1, <1>2, <2>1, CauseTyped
  <2> QED  BY <1>1, <2>1, <2>2, <2>5, <2>6, <2>7
<1>4. CASE ~TrapEnter(m)
  <2>1. /\ pc' = NextInstruction /\ pc' \in Mains /\ prog' = prog
        /\ UNCHANGED <<mepc, mcause, cause, epc>>
        /\ due' = IF wbValid THEN pc'.at ELSE due
        /\ mie' \in BOOLEAN /\ mpie' \in BOOLEAN /\ enabled' \subseteq Sources
        /\ Started'
    BY <1>4, MainStep
  <2>2. pc' \in Instructions /\ pc'.routine = "main" /\ pc' \notin {TrapEntry, Mret}
    BY <2>1, PlacesApart DEF Handlers
  <2>3. Handling' /\ Places'
    BY <1>1, <2>1, <2>2 DEF Handling, Places, Mains
  <2>4. due' \in 1 .. Len(prog) + 1
    BY <1>1, <2>1, PlacesApart
  <2> QED  BY <1>1, <2>1, <2>2, <2>3, <2>4
<1> QED  BY <1>3, <1>4

LEMMA EdgeInv == ASSUME Inv, NEW m \in BOOLEAN, Edge(m) PROVE Inv'
<1>1. /\ pc' \in Instructions /\ mepc' \in Instructions /\ mcause' \in Causes
      /\ cause' \in Causes /\ mie' \in BOOLEAN /\ mpie' \in BOOLEAN
      /\ enabled' \subseteq Sources /\ due' \in 1 .. Len(prog) + 1 /\ prog' = prog
      /\ Started' /\ Handling' /\ Places'
  <2>1. CASE pc.routine = "main"
    BY <2>1, MainInv
  <2>2. CASE pc.routine # "main"
    BY <2>2, HandlerInv, HandlerEdge DEF Inv, TypeOK
  <2> QED  BY <2>1, <2>2
<1>2. Instructions' = Instructions /\ Mains \subseteq Instructions /\ Places'
  BY <1>1, PlacesApart DEF Instructions
<1>3. epc' \in Instructions
  BY <1>1, <1>2 DEF Places, Mains
<1>4. wbValid' \in BOOLEAN /\ left' = left
  BY DEF Edge
<1>5. /\ msip' \in BOOLEAN /\ external' \in BOOLEAN /\ mtime' \in 0 .. TimeMax
      /\ mtimecmp' \in {0, TimeCmp} /\ count' \in Nat
  BY DeviceTypes
<1>6. left \in 0 .. Externals /\ prog \in Programs
  BY DEF Inv, TypeOK
<1>7. TypeOK'
  BY <1>1, <1>2, <1>3, <1>4, <1>5, <1>6, PerformedTyped DEF TypeOK
<1> QED  BY <1>1, <1>6, <1>7 DEF Inv

LEMMA NextInv == Inv /\ [Next]_vars => Inv'
<1> SUFFICES ASSUME Inv, [Next]_vars PROVE Inv'
  OBVIOUS
<1>1. CASE Processor
  BY <1>1, EdgeInv DEF Processor, Enter, Leave, Follow
<1>2. CASE Tick \/ Raise \/ UNCHANGED vars
  <2>1. UNCHANGED <<prog, pc, wbValid, trapVars, handlerVars, msip, mtimecmp, count, due,
                  performed>>
    BY <1>2 DEF Tick, Raise, vars, deviceVars
  <2>2. /\ mtime' \in 0 .. TimeMax /\ left' \in 0 .. Externals /\ external' \in BOOLEAN
    <3>1. mtime \in 0 .. TimeMax /\ left \in 0 .. Externals /\ external \in BOOLEAN
          /\ TimeMax \in Nat /\ Externals \in Nat
      BY BoundsAssumption DEF Inv, TypeOK
    <3>2. CASE Tick
      BY <3>1, <3>2 DEF Tick
    <3>3. CASE Raise
      BY <3>1, <3>3 DEF Raise
    <3>4. CASE UNCHANGED vars
      BY <3>1, <3>4 DEF vars, deviceVars
    <3> QED  BY <1>2, <3>2, <3>3, <3>4
  <2>3. TypeOK'
    BY <2>1, <2>2 DEF Inv, TypeOK, Instructions, trapVars, handlerVars
  <2>4. Started' /\ Handling' /\ Places'
    BY <2>1 DEF Inv, Started, Handling, Places, Return, Reason, Mains, trapVars, handlerVars
  <2> QED  BY <2>1, <2>3, <2>4 DEF Inv
<1> QED  BY <1>1, <1>2 DEF Next

LEMMA InvAlways == Spec => []Inv
BY InitInv, NextInv, PTL DEF Spec

\* CSRs, devices and the processor's places keep their types.
THEOREM TrapTypes == Spec => []TypeOK
BY InvAlways, PTL DEF Inv

\* From trap to mret no interrupt comes in, and the program runs with interrupts
\* enabled once it has started, for every program and order of the sources.
THEOREM Uninterrupted == Spec => []HandlerUninterrupted
<1>1. Inv => HandlerUninterrupted
  <2> SUFFICES ASSUME Inv PROVE HandlerUninterrupted
    OBVIOUS
  <2>1. pc.routine # "main" => ~mie
    BY DEF Inv, Handling
  <2>2. ASSUME pc.routine = "main", Booted PROVE mie
    BY <2>2 DEF Inv, Started, Booted
  <2> QED  BY <2>1, <2>2 DEF HandlerUninterrupted
<1> QED  BY <1>1, InvAlways, PTL

-----------------------------------------------------------------------------
\* The order of the program

\* In the handler the frame stays, although mepc is read, kept and written back.
LEMMA FrameKept ==
  ASSUME Inv, NEW m \in BOOLEAN, Edge(m), pc \in Handlers, ~(wbValid /\ pc = Mret)
  PROVE  /\ pc' \in Handlers \cup {Exit}
         /\ pc' \in Handlers => Return' = Return
         /\ pc' \in {TrapEntry, Dispatch} =>
              pc \in {TrapEntry, Dispatch} /\ Reason' = Reason /\ NextInstruction = pc'
<1>1. pc.routine # "main" /\ prog \in Programs
  BY PlacesApart DEF Inv
<1>2. CASE ~wbValid
  BY <1>1, <1>2, HandlerEdge DEF Return, Reason, NextInstruction
<1>3. CASE wbValid
  <2>1. /\ pc' = NextPc(pc) /\ UNCHANGED <<mie, mpie, mcause>> /\ pc' = NextInstruction
        /\ mepc' = IF pc = WriteMepc THEN epc ELSE mepc
        /\ cause' = IF pc = TrapEntry THEN mcause ELSE cause
        /\ epc' = IF pc = TrapEntry THEN mepc ELSE epc
    BY <1>1, <1>3, HandlerEdge DEF NextInstruction
  <2>2. CASE pc = TrapEntry
    <3>1. pc' = Dispatch /\ pc' \notin {TrapEntry, Mret} /\ pc # WriteMepc
      BY <1>1, <2>1, <2>2, NextPcIs, PlacesApart
    <3> QED  BY <2>1, <2>2, <3>1 DEF Return, Reason, Handlers
  <2>3. CASE pc = Dispatch
    <3>1. pc' \in IsrCode \cup {WriteMepc, Exit}
      BY <1>1, <2>1, <2>3, NextPcIs
    <3>2. pc' \notin {TrapEntry, Mret, Dispatch} /\ pc \notin {TrapEntry, Mret, WriteMepc}
      BY <2>3, <3>1, PlacesApart DEF Handlers
    <3> QED  BY <2>1, <3>1, <3>2 DEF Return, Handlers
  <2>4. CASE pc \in IsrCode
    <3>1. pc' \in IsrCode \cup {WriteMepc}
      BY <1>1, <2>1, <2>4, NextPcIs
    <3>2. pc' \notin {TrapEntry, Mret, Dispatch} /\ pc \notin {TrapEntry, Mret, WriteMepc}
      BY <2>4, <3>1, PlacesApart DEF Handlers
    <3> QED  BY <2>1, <3>1, <3>2 DEF Return, Handlers
  <2>5. CASE pc = WriteMepc
    <3>1. pc' = Mret /\ pc \notin {TrapEntry, Mret} /\ pc' \notin {TrapEntry, Dispatch}
      BY <1>1, <2>1, <2>5, NextPcIs, PlacesApart
    <3> QED  BY <2>1, <2>5, <3>1 DEF Return, Handlers
  <2> QED  BY <1>3, <2>2, <2>3, <2>4, <2>5 DEF Handlers
<1> QED  BY <1>2, <1>3

\* After an exception the handler ends.
LEMMA FailureStays ==
  ASSUME Inv, NEW m \in BOOLEAN, Edge(m), pc \in {TrapEntry, Dispatch}, ~Reason.interrupt,
         pc' \in Handlers
  PROVE  pc' \in {TrapEntry, Dispatch} /\ ~Reason'.interrupt
<1>1. pc.routine # "main" /\ pc # Mret /\ prog \in Programs
  BY PlacesApart DEF Inv, Handlers
<1>2. CASE ~wbValid
  BY <1>1, <1>2, HandlerEdge DEF Reason
<1>3. CASE wbValid
  <2>1. /\ pc' = NextPc(pc) /\ mcause' = mcause
        /\ cause' = IF pc = TrapEntry THEN mcause ELSE cause
    BY <1>1, <1>3, HandlerEdge
  <2>2. CASE pc = TrapEntry
    BY <1>1, <2>1, <2>2, NextPcIs, PlacesApart DEF Reason
  <2>3. CASE pc = Dispatch
    <3>1. ~cause.interrupt
      BY <2>3, PlacesApart DEF Reason
    <3>2. pc' = Exit
      BY <1>1, <2>1, <2>3, <3>1, NextPcIs
    <3> QED  BY <3>2, PlacesApart
  <2> QED  BY <2>2, <2>3
<1> QED  BY <1>2, <1>3

\* The instruction that is due is where the program is, or where it will be after
\* the return.  The last access was its own, if it is in WB or was interrupted in MEM,
\* or that of the one in front of it.
Ordered ==
  /\ pc.routine = "main" => pc.at = due /\ performed \in {due - 1, due}
                           /\ (wbValid => performed = due)
  /\ pc \in Handlers => Return = Main(due)
  /\ pc \in Handlers =>
       \/ performed \in {due - 1, due}
       \/ pc \in {TrapEntry, Dispatch} /\ ~Reason.interrupt

\* Exceptions end the program before interrupts are enabled, as in the kit.
EarlyExceptions == \A p \in Programs : \A n \in 4 .. Len(p) : p[n] # "exc"

LEMMA EdgeOrdered ==
  ASSUME EarlyExceptions, Inv, Ordered, NEW m \in BOOLEAN, Edge(m)
  PROVE  Ordered'
<1>1. pc \in Mains \cup Handlers \cup {Exit} /\ prog \in Programs
  BY PlacesApart DEF Inv, TypeOK
<1>2. CASE pc \in Handlers
  <2>1. pc.routine # "main" /\ due' = due /\ performed' = performed
    BY <1>2, PlacesApart, HandlerEdge, OutsideStays DEF Edge, NextInstruction
  <2>2. CASE wbValid /\ pc = Mret
    <3>1. pc' = mepc /\ mepc = Main(due)
      BY <1>2, <2>1, <2>2, HandlerEdge DEF Ordered, Return
    <3>2. pc'.routine = "main" /\ pc'.at = due
      BY <3>1 DEF Main, In
    <3>3. ~wbValid'
      BY <2>2 DEF Edge, TrapTake, TrapReturn
    <3>4. performed \in {due - 1, due}
      BY <1>2, <2>2, PlacesApart DEF Ordered
    <3> QED  BY <2>1, <3>2, <3>3, <3>4, PlacesApart DEF Ordered
  <2>3. CASE ~(wbValid /\ pc = Mret)
    <3>1. /\ pc' \in Handlers \cup {Exit}
          /\ pc' \in Handlers => Return' = Return
      BY <1>2, <2>3, FrameKept
    <3>2. \/ performed \in {due - 1, due}
          \/ pc \in {TrapEntry, Dispatch} /\ ~Reason.interrupt
      BY <1>2 DEF Ordered
    <3>3. ASSUME pc \in {TrapEntry, Dispatch}, ~Reason.interrupt, pc' \in Handlers
          PROVE  pc' \in {TrapEntry, Dispatch} /\ ~Reason'.interrupt
      BY <1>1, <2>1, <2>3, <3>3, FailureStays
    <3> QED  BY <1>2, <2>1, <3>1, <3>2, <3>3, PlacesApart DEF Ordered
  <2> QED  BY <2>2, <2>3
<1>3. CASE pc = Exit
  <2>1. pc.routine # "main" /\ pc # Mret /\ NextPc(pc) = Exit
    BY <1>1, <1>3, PlacesApart, NextPcIs DEF Handlers
  <2>2. pc' = Exit
    BY <1>3, <2>1, HandlerEdge
  <2> QED  BY <2>2, PlacesApart DEF Ordered
<1>4. CASE pc \in Mains
  <2>1. /\ pc.routine = "main" /\ pc.at = due /\ pc = Main(pc.at)
        /\ pc.at \in 1 .. Len(prog) + 1 /\ Len(prog) \in Nat
        /\ performed \in {due - 1, due} /\ (wbValid => performed = due)
    BY <1>1, <1>4, PlacesApart, ProgramIs DEF Ordered
  <2>2. NextPc(pc) \in Mains /\ NextPc(pc) = Main(NextPc(pc).at)
        /\ NextPc(pc).at \in {pc.at, pc.at + 1}
    BY <1>1, <1>4, <2>1, NextPcIs, PlacesApart DEF Main, In
  <2>5. performed' = IF m THEN NextInstruction.at ELSE performed
    <3>1. NextInstruction.routine = "main"
      BY <1>4, <2>2, PlacesApart DEF NextInstruction
    <3> QED  BY <3>1 DEF Edge
  <2>3. CASE TrapEnter(m)
    <3>1. /\ due' = (IF wbValid /\ ~ExceptionEnter THEN NextPc(pc).at ELSE due)
          /\ pc' = TrapEntry /\ mepc' = (IF InterruptEnter(m) THEN NextInstruction ELSE pc)
          /\ InterruptEnter(m) => pc.at > 3
      BY <2>1, <2>3, MainTrap
    <3>2. InterruptEnter(m) => ~ExceptionEnter
      BY <1>1, <2>1, <3>1 DEF EarlyExceptions, ExceptionEnter, Is, IsMain
    <3>3. mepc' = Main(due')
      <4>1. CASE InterruptEnter(m)
        BY <2>1, <2>2, <3>1, <3>2, <4>1 DEF NextInstruction
      <4>2. CASE ~InterruptEnter(m)
        <5>1. ExceptionEnter
          BY <2>3, <4>2 DEF TrapEnter
        <5> QED  BY <2>1, <3>1, <4>2, <5>1
      <4> QED  BY <4>1, <4>2
    <3>4. CASE InterruptEnter(m)
      <4>1. m /\ due' = NextInstruction.at
        BY <2>1, <3>1, <3>2, <3>4 DEF InterruptEnter, NextInstruction
      <4> QED  BY <2>5, <3>1, <3>3, <4>1, PlacesApart DEF Ordered, Return, Handlers
    <3>5. CASE ~InterruptEnter(m)
      <4>1. mcause' = Cause(m)
        BY <2>1, <2>3, MainTrap
      <4>2. ~Reason'.interrupt
        BY <3>1, <3>5, <4>1 DEF Reason, Cause
      <4> QED  BY <3>1, <3>3, <4>2, PlacesApart DEF Ordered, Return, Handlers
    <3> QED  BY <3>4, <3>5
  <2>4. CASE ~TrapEnter(m)
    <3>1. /\ pc' = NextInstruction /\ pc' \in Mains
          /\ due' = IF wbValid THEN pc'.at ELSE due
      BY <2>1, <2>4, MainStep
    <3>2. pc'.at = due'
      BY <2>1, <3>1 DEF NextInstruction
    <3>3. pc' \notin Handlers
      BY <1>4, <2>2, <3>1, PlacesApart DEF NextInstruction
    <3>4. wbValid' => m
      BY DEF Edge
    <3>5. CASE m
      BY <2>5, <3>1, <3>2, <3>3, <3>5 DEF Ordered
    <3>6. CASE ~m /\ wbValid
      <4>1. performed' = due /\ (due' = due \/ due' = due + 1) /\ due \in Int
        BY <2>1, <2>2, <2>5, <3>1, <3>6 DEF NextInstruction
      <4>2. performed' = due' \/ performed' = due' - 1
        BY <4>1
      <4>3. ~wbValid'
        BY <3>4, <3>6
      <4> QED  BY <3>2, <3>3, <4>2, <4>3 DEF Ordered
    <3>7. CASE ~m /\ ~wbValid
      BY <2>1, <2>5, <3>1, <3>2, <3>3, <3>4, <3>7 DEF Ordered
    <3> QED  BY <3>5, <3>6, <3>7
  <2> QED  BY <2>3, <2>4
<1> QED  BY <1>1, <1>2, <1>3, <1>4

\* For every program without an exception behind start-up, interrupts resume it behind
\* the last instruction that left WB, with no access left out or done ahead.
THEOREM InOrder ==
  ASSUME EarlyExceptions
  PROVE  Spec => []ResumesInOrder
<1>1. Init => Ordered
  <2> SUFFICES ASSUME Init PROVE Ordered
    OBVIOUS
  <2>1. pc = Main(1) /\ ~wbValid /\ due = 1 /\ performed = 0
    BY DEF Init
  <2>2. pc.routine = "main" /\ pc.at = 1 /\ pc \notin Handlers
    BY <2>1, PlacesApart DEF Main, In
  <2> QED  BY <2>1, <2>2 DEF Ordered
<1>2. Inv /\ Ordered /\ [Next]_vars => Ordered'
  <2>1. Inv /\ Ordered /\ Processor => Ordered'
    BY EdgeOrdered DEF Processor, Enter, Leave, Follow
  <2>2. Ordered /\ (Tick \/ Raise \/ UNCHANGED vars) => Ordered'
    BY DEF Ordered, Return, Reason, Tick, Raise, vars, trapVars, handlerVars
  <2> QED  BY <2>1, <2>2 DEF Next
<1>3. Ordered => ResumesInOrder
  BY DEF Ordered, ResumesInOrder
<1> QED  BY <1>1, <1>2, <1>3, InvAlways, PTL DEF Spec

-----------------------------------------------------------------------------
\* What is served

\* While the cause is read and dispatched, its source goes on asking.
Asked == \E s \in enabled \cap Lines : Reason.code = Code[s]
Asking == pc \in {TrapEntry, Dispatch} /\ Reason.interrupt => Asked

\* An access of the program, or of the entry code, takes no request back.
LEMMA LinesKept ==
  ASSUME Inv, NEW a, Access(a), a \in Mains \cup {TrapEntry, Dispatch}
  PROVE  Lines \subseteq Lines'
<1>1. a \notin IsrCode
  BY PlacesApart DEF Handlers
<1>2. a # In("software", 1) /\ a # In("timer", 1) /\ a # In("timer", 2) /\ a # In("external", 1)
  BY <1>1 DEF IsrCode
<1>3. /\ msip => msip'
      /\ mtime' = mtime /\ external' = external
      /\ mtimecmp' \in {mtimecmp, TimeCmp}
  BY <1>2 DEF Access
<1>4. TimerLine => TimerLine'
  <2>1. mtimecmp \in {0, TimeCmp} /\ TimeCmp # 0
    BY BoundsAssumption DEF Inv, TypeOK
  <2> QED  BY <1>3, <2>1 DEF TimerLine
<1> QED  BY <1>3, <1>4 DEF Lines

LEMMA EdgeAsking ==
  ASSUME MieValue = Sources, Inv, Asking, NEW m \in BOOLEAN, Edge(m)
  PROVE  Asking'
<1>1. pc \in Mains \cup Handlers \cup {Exit} /\ prog \in Programs
  BY PlacesApart DEF Inv, TypeOK
<1>2. SUFFICES ASSUME pc' \in {TrapEntry, Dispatch}, Reason'.interrupt PROVE Asked'
  BY DEF Asking
<1>3. Lines \subseteq Lines' \/ NextInstruction \notin Mains \cup {TrapEntry, Dispatch}
  <2>1. CASE m
    BY <2>1, LinesKept DEF Edge
  <2>2. CASE ~m
    BY <2>2 DEF Edge, deviceVars, Lines, TimerLine
  <2> QED  BY <2>1, <2>2
<1>4. CASE pc \in Mains
  <2>1. pc.routine = "main" /\ pc' \notin Mains
    BY <1>2, <1>4, PlacesApart DEF Handlers
  <2>2. TrapEnter(m)
    BY <2>1, MainStep
  <2>3. /\ pc' = TrapEntry /\ mcause' = Cause(m)
        /\ InterruptEnter(m) => enabled' = MieValue
    BY <2>1, <2>2, MainTrap
  <2>4. InterruptEnter(m) /\ Reason'.code = InterruptCode
    BY <1>2, <2>3 DEF Reason, Cause
  <2>5. \E s \in Lines : InterruptCode = Code[s]
    <3>1. Lines # {} /\ Lines \subseteq Sources
      BY <2>4 DEF InterruptEnter, Lines
    <3> QED  BY <3>1 DEF InterruptCode, Code, Sources
  <2>6. Lines \subseteq Lines'
    BY <1>1, <1>3, <1>4, NextPcIs DEF NextInstruction
  <2> QED  BY <2>3, <2>4, <2>5, <2>6 DEF Asked, Lines
<1>5. CASE pc \in Handlers /\ ~(wbValid /\ pc = Mret)
  <2>1. pc \in {TrapEntry, Dispatch} /\ Reason' = Reason /\ NextInstruction = pc'
    BY <1>2, <1>5, FrameKept
  <2>2. Asked
    BY <1>2, <2>1 DEF Asking
  <2>3. Lines \subseteq Lines' /\ enabled' = enabled
    BY <1>2, <1>3, <1>5, <2>1, HandlerEdge, PlacesApart
  <2> QED  BY <2>1, <2>2, <2>3 DEF Asked
<1>6. CASE wbValid /\ pc = Mret
  <2>1. pc' = mepc /\ mepc \in Mains
    BY <1>6, HandlerEdge, PlacesApart DEF Inv, Places, Handlers
  <2> QED  BY <1>2, <2>1, PlacesApart DEF Handlers
<1>7. CASE pc = Exit
  <2>1. pc' = Exit
    <3>1. pc.routine # "main" /\ pc # Mret /\ NextPc(pc) = Exit
      BY <1>1, <1>7, PlacesApart, NextPcIs DEF Handlers
    <3> QED  BY <1>7, <3>1, HandlerEdge
  <2> QED  BY <1>2, <2>1, PlacesApart DEF Handlers
<1> QED  BY <1>1, <1>4, <1>5, <1>6, <1>7

\* With all sources of the kit enabled, a service routine is called only for a
\* source that asks for it, whatever asked or was written meanwhile.
THEOREM Served ==
  ASSUME MieValue = Sources
  PROVE  Spec => []ServedIsPending
<1>1. Init => Asking
  BY DEF Init, Asking, Main, In, TrapEntry, Dispatch
<1>2. Inv /\ Asking /\ [Next]_vars => Asking'
  <2>1. Inv /\ Asking /\ Processor => Asking'
    BY EdgeAsking DEF Processor, Enter, Leave, Follow
  <2>2. ASSUME Inv, Asking, Tick \/ Raise \/ UNCHANGED vars PROVE Asking'
    <3>1. UNCHANGED <<pc, enabled, mcause, cause>>
      BY <2>2 DEF Tick, Raise, vars, trapVars, handlerVars
    <3>2. Lines \subseteq Lines'
      BY <2>2 DEF Tick, Raise, vars, deviceVars, Lines, TimerLine, Inv, TypeOK
    <3> QED  BY <2>2, <3>1, <3>2 DEF Asking, Asked, Reason
  <2> QED  BY <2>1, <2>2 DEF Next
<1>3. Asking => ServedIsPending
  BY PlacesApart DEF Asking, Asked, Reason, ServedIsPending
<1> QED  BY <1>1, <1>2, <1>3, InvAlways, PTL DEF Spec
=============================================================================
