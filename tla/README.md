# A verification development for veriRISCV

veriRISCV is a RISC-V (RV32IM, Zicsr) soft processor in SystemVerilog: a
five-stage in-order core behind a fetch unit with a queue, an instruction cache,
an Avalon-style crossbar with three hosts, memories and peripherals, and a small C
software kit that runs on it.  This directory holds TLA+ modules of its control
logic, the TLC configurations that check them on small instances, and proofs
checked by TLAPS.  Paths below are relative to the repository's root: `src/rtl/`
is the hardware, `sdk/` the software.

## 1. The system

### 1.1 Components, their state and their operations

| component | source | state | operations |
|---|---|---|---|
| fetch unit | `core/ifu.sv`, `IF.sv` | pc, pending redirect, fetch queue (IFQ) and its pointers, `flush_pending_read` | issue a read, store its word, present an instruction, redirect on branch or trap |
| pipeline | `core/ID.sv`, `EX.sv`, `MEM.sv`, `WB.sv`, `regfile.sv` | ID/EX, EX/MEM, MEM/WB registers, register file, held load data | decode, forward, execute, access memory, write back |
| hazard unit | `core/hdu.sv` | none (combinational) | stall, bubble and flush each stage |
| multiplier, divider | `core/multiplier.sv`, `divider.sv` | busy/valid pipeline; iteration counter | start, iterate, finish, flush (divider only) |
| load/store unit | `core/lsu.sv` | none of its own | byte lanes, misalignment, bus request |
| trap control, CSRs | `core/trap_ctrl.sv`, `mcsr.sv`, `csr.sv` | mstatus, mie, mip, mepc, mcause, mtval, mtvec | enter a trap, return, CSR access |
| cache | `cache/cache.sv` and its RAMs | per way and line: valid, dirty, tag, word, not-recently-used bit; IDLE/RETRIVE/FLUSH/WRITE | hit, miss and fill, bypass for peripherals |
| crossbar | `ip/bus/avalon_standard/*.sv` | per device: pending grant; per host: device of the last request | decode, arbitrate, route the answer |
| SRAM controller | `ip/sram_controller/avalon_sram_controller.sv` | IDLE/ACCESS1/ACCESS2, captured access, first half of a read | two half-word accesses per word |
| memories, GPIO | `ip/memory`, `ip/gpio` | words, registers | read, write |
| CLIC, PLIC | `ip/clic`, `ip/plic` | msip, mtime, mtimecmp; enable bits, registered lines | raise and mask interrupts |
| UART | `ip/uart/*.sv` | two FIFOs, shift registers, configuration | send, receive, watermark interrupt |
| UART host | `ip/uart_host/avalon_uart_host.sv` | bytes of a command and their count, session flags, command and read FIFO, sender | download and read back memory, hold the core in reset |
| transmit driver | `sdk/bsp/drivers/uart/uart.c`, `plic.c` | ring buffer with wrap bytes, shadow of the interrupt enables | `uart_write`, transmit ISR |
| runtime | `sdk/bsp/env` | ISR table | trap entry, dispatch, start-up |
| CoreMark | `sdk/software/coremark` | a linked list, two matrices and a text in one memory block, results | initialise, iterate (search, sort, multiply, scan), validate by CRC |

### 1.2 How they interact

* The fetch unit presents IF/ID to decode; the hazard unit answers with `if_stall`
  and `if_flush`; EX (`branch_take`) and WB (`trap_take`) redirect the fetch unit.
  All of them are wires of one clock cycle, so the core is one synchronous system.
* A bus transfer is a request that is accepted in a cycle in which `waitrequest` is
  low; read data follows in the next cycle.  The fetch unit talks to the
  instruction cache, the cache to the crossbar; the data bus and the debug (UART
  host) bus go to the crossbar directly.
* The UART host writes the program into the memories over the crossbar while it
  holds the core in reset (`soc/veriRISCV_soc.sv`), at the request of a script on a
  PC (`sdk/bsp/tools/UartDownload.py`).
* Interrupt lines go from CLIC and PLIC to trap control.  The program and its
  interrupt service routines share the driver's ring buffer.

### 1.3 What is hard here

Nothing in this system is concurrent in the sense of threads, except an ISR that
runs between two instructions.  What is hard is the number of events that meet in
one clock cycle - a read that returns while its stream is being flushed, a
load-use bubble and a divide stall, a trap while the bus waits - and the protocol
between parts that each assume something of the other.  The list in
`PROJECT.json`, `hazards`, names each of them at its line with the property that
covers it, or says why none does.

### 1.4 What makes each component correct

* Fetch unit: decode gets the program in order, each word with its own pc, across
  any redirect; the queue never overflows; a request on the bus is stable.
* Pipeline, hazard unit, traps: the program executes as if one instruction at a
  time; accesses to devices happen in order and exactly once, but for the one a trap
  interrupts (section 4).
* Cache: a read returns the word of memory, a peripheral is never cached.
* Crossbar and SRAM controller: one memory with atomic accesses for all hosts; the
  answer goes to the host that asked.
* Divider: the answer is that of the M extension, for every pair of operands.
* UART host: the commands of the PC are performed once each, in order, and answered;
  when the core runs, all of them are done.
* CoreMark: the benchmark works on the same data in every iteration, inside its
  block, and its checks accept the right results.
* Transmit driver: the serial line carries what was written, in order, each byte
  once; no wake-up is lost; `uart_write` returns.

## 2. Modules

| module | models | role |
|---|---|---|
| `FetchStream` | - | abstract: what decode may rely on |
| `Ifu` | `ifu.sv` | detailed fetch unit; implements `FetchStream` |
| `Instructions` | instruction classes | shared by the next two |
| `Isa` | - | abstract: the sequential machine software sees |
| `Pipeline` | ID to WB, hazard unit, trap control, multiplier, divider | uses `FetchStream`; implements `Isa` |
| `Cache` | `cache.sv` (read path) | a memory to the fetch unit |
| `SharedMemory` | - | abstract: one memory with atomic accesses |
| `Bus` | crossbar, SRAM controller, RAM | implements `SharedMemory` |
| `ByteStream` | - | abstract: what `uart_write` promises |
| `UartDriver` | `uart.c`, `plic.c`, the transmit half of the UART | implements `ByteStream` |
| `Trap` | `trap_ctrl.sv`, `mcsr.sv`, CLIC, `trap_entry.S`, `trap.c`, `init.c` | interrupts from the line to the service routine and back |
| `Divider` | `divider.sv` | the long division, against integer division |
| `MemoryLoader` | - | abstract: what the PC may expect of a download |
| `UartHost` | `avalon_uart_host.sv`, the reset of the core in `veriRISCV_soc.sv` | implements `MemoryLoader` |
| `CoreUtil` | `core_util.c`, `core_portme.h` | CRCs and number formats |
| `CoreMemory` | `core_list_join.c`, `core_matrix.c` | how the memory is laid out |
| `CoreList` | `core_list_join.c` | the list and its operations |
| `CoreMatrix`, `CoreState` | `core_matrix.c`, `core_state.c` | the two other benchmarks |
| `MergeSort` | `core_list_mergesort` | the actions of the in-place merge sort, loop by loop |
| `CoreMark` | `core_main.c`, the loops of `core_list_join.c` | the program: initialisation, iterations, validation; extends `MergeSort`, takes the text and matrix benchmarks as parameters |
| `IfuProofs`, `PipelineProofs`, `CacheProofs`, `BusProofs`, `UartProofs`, `TrapProofs`, `UartHostProofs` | - | theorems about the module of that name (section 6) |
| `AlgorithmProofs` | - | theorems about `Divider` and `CoreMark` |
| `MCIfu`, `MCPipeline`, `MCCache`, `MCBus`, `MCUart`, `MCTrap`, `MCDivider`, `MCUartHost`, `MCCoreMark` | - | finite instances for TLC |

A step of every hardware module is one rising clock edge.  A register of the source
is a variable of the same name (in camel case), a wire is an operator, and each
`always` block is an operator that gives the next value of its registers; reset is
the initial state.  Inputs of the cycle - `waitrequest`, a stall, a redirect, an
interrupt - are bound by `\E` in the next-state relation.  Actions name the kinds of
cycle (a hit, a fill, a trap, a stalled cycle); they are exclusive and each contains
the whole edge, so nothing the hardware does in a cycle is optional.

`UartDriver` is software: a step of `uart_write` is one access to a variable it
shares with the ISR or to a device, and `at` is its program counter.  The ISR
interrupts between two such steps and is not interrupted itself, because trap entry
clears MIE (`Trap`, `HandlerUninterrupted`); the transmitter moves at any moment.

`Trap` lies between the two.  A step is an edge at which an instruction leaves MEM
(`Enter`), WB (`Leave`) or both (`Follow`), so that an interrupt, which needs an
instruction in MEM to return to, meets every situation of WB; the cycles in between
change nothing it speaks of.  The kit's handler is the list of its accesses to CSRs
and devices.  Two history variables follow the program: `due` is the instruction that is
next to leave WB, and `performed` the one that left MEM last, where accesses are made.
`ResumesInOrder` compares them: an interrupt that finds an instruction in MEM lets its access through
and then resumes with it, so the program is at `due` with the access of `due` made or not,
and never with a later one made or an earlier one left out.  Left out: the one-cycle registers between a source and its line,
which settle long before the handler has restored the registers.

`UartHost` is hardware with its environment: the bytes of the PC arrive with a
least distance, `RxTime` cycles, the transmitter needs `TxTime` for one, and the bus
has up to `MaxWait` wait states.  `Reset` is a whole reset, at any moment, also in the
middle of a message, behind which the PC starts anew, as `UartDownload.py` asks its
user to; the memory keeps what was written.  `arriving`, `image` and `cut` are history
variables: the last whole command on the line; the memory the PC has asked for since power-up,
which a reset leaves alone; and the addresses whose last write a reset has cut off, in the
message, the pipe or the FIFO (`UnderWay`), till they are written again.  `core_en`, the board's switch that
holds the core, has any value at every edge.
The refinement to `MemoryLoader` says where each command is - in the registers, in
the FIFO, on the bus - and where each byte of an answer is.

`Divider` has arbitrary operands and requests; `request` remembers the division that
was accepted last.  `Power[n]` is 2^n given by its recursion, so that the proofs
need no exponentiation.

`CoreMark` is one sequential program.  Its functions on text, matrices and numbers
are operators, evaluated on the real sizes of the block; its loops over the
list, where pointers are relinked, are steps: an insertion, one index, a find with its
reversal, one choice of a merge with the benchmark its comparison may call, one CRC.
The steps of the sort are the actions of `MergeSort`; what a comparison does to the data
is added in `Compare`.  The kernels of the text and matrix benchmarks - the initial text and
matrices, what is counted, and what is left behind - are constant operators of `CoreMark`:
`MCCoreMark` gives them `core_init_state`, `CountsOfBench`, `matrix_test` and so on of
`CoreState` and `CoreMatrix`, and the theorems hold for any kernels that undo what they do to
their input (`KernelsAssumption`).  `srt.from`, a history variable, is the order of the
headers at the call of a sort; `hist` is what was initialised.

### 2.1 Assumptions each module makes of the other, and where they are discharged

| assumption | made in | shown in |
|---|---|---|
| decode gets the program in order | `Pipeline` (uses `FetchStream`) | `Ifu`, `ImplementsFetchStream` |
| an instruction is presented again and again | `Pipeline`, fairness | `Ifu`, `FetchProgress` |
| the fetch unit keeps its address while it waits, but may withdraw the read | `Cache`, `Host` | `Ifu`, `BusAddressStable` |
| a read is answered one cycle later with the word | `Ifu`, `readData` | `Cache`, `ReadReturnsWord` |
| a host keeps its request while it waits, except for withdrawn reads | `Bus`, `HostsNext` | `Pipeline`, `DbusRequestStable`; `Cache`, `MemRequestStable` |
| a multiply or divide is the function of its operand, some cycles later | `Pipeline`, `DivResult` | `Divider`, `ResultCorrect` |
| no interrupt in the cycle in which `mret` or a write of mepc is in WB | `PipelineProofs`, `Apart` | for the kit's handler, which has MIE clear: `Trap`, `HandlerUninterrupted` |
| no interrupt in the cycle in which an exception is in WB | `PipelineProofs`, `Apart` | nowhere: `TrapException` shows what happens |
| a read of the bus is answered one cycle later | `Cache`, `Pipeline` | `Bus`, `ImplementsSharedMemory` |

`DbusRequestStable` fails for some programs (run `PipelineLostLoad`); `Bus` lets the
instruction bus withdraw reads, which is the weaker assumption of the two hosts that
the SoC can meet when it is built without the cache.

### 2.2 Abstraction of data

An instruction word is the address it was read from: the property "the word stored
at its pc" becomes an equation.  In `Pipeline` an instruction has a class, a
destination, a source and a target; the ALU, the multiplier and the divider are
three different functions of one operand, so that a stale operand or a lost result
gives a different register.  The device on the data bus numbers its accesses and
answers a load with the number: a lost, repeated or reordered access changes what
the program reads.  In `Bus` a datum is the pair of its writer and the half word, so
a torn word is visible.

## 3. Runs

A run's configuration is `MC<run>.cfg`.  A passing run has explored the whole state
space of its instance; "v" marks a run that violates one property (section 4).  The
sizes are distinct states.

| run | instance | states | shows |
|---|---|---|---|
| `Ifu` | queue of 4, 8 addresses, 2 targets | 112 942 | decode gets the program in order across any redirect; the queue does not overflow; it always gets the next one |
| `Pipeline` | 1 672 programs, 3 registers, 2 interrupts | 459 651 | the core is the sequential machine, keeps its bus requests stable and reaches the end, for programs without the cases of section 7 |
| `PipelineLostLoad` | a load with a multiply behind it | v | finding 1 |
| `Cache` | 2 lines of 2 ways, 5 words | 1 514 976 | a read returns the word of memory; requests are stable |
| `Bus` | 3 hosts, SRAM and RAM | 10 288 | one memory with atomic accesses; hosts are served |
| `Uart` | ring of 4, FIFO of 3, watermark 2 | 26 000 | bytes in order, each once; no lost wake-up; `uart_write` returns; everything is sent |
| `UartWrap` | the same, an index that wraps during an interrupt | v | finding 2 |
| `Trap` | 3 sources, 2 external interrupts, time up to 2 | 96 174 | the handler is alone, serves what is pending and resumes in order, at most the access it resumes with done twice; every interrupt is served |
| `TrapException` | programs with an exception under interrupts | v | finding 3 |
| `Divider` | 4 bits, all operands | 11 245 | the results of the M extension |
| `UartHost` | 2-byte words, 9 messages, 1 reset | 664 192 | commands once and in order, answers in order, FIFOs with space for what is pushed; when the core runs, nothing is under way and every word asked for is in memory, but for those a reset cut off |
| `CoreMark` | 5 known runs, 4 small or seeded ones | 21 933 | the expected CRCs; lists, blocks and inputs stay whole; sorts are right and stable |

### 3.1 The bounds, and why they are enough

* **Ifu.**  The SoC has a queue of 16; four entries are the default of `ifu.sv` and
  the smallest ring in which almost full, full minus one in flight, half full and
  empty differ.  Eight addresses are twice the queue, so a stale entry never looks like a
  right one; of the two targets one lies in the stream of the other, so a redirect
  can go to an address that is in the queue or on the bus.  The proofs (section 6)
  remove these bounds for the safety properties.
* **Pipeline.**  Three registers (x0 among them), and values modulo 10.  Hazards in this pipeline
  reach at most from WB to ID, three instructions; bodies have three instructions
  and the interrupt and data programs a fourth, so each stage can hold an instruction
  of any class at the same time.  Two interrupts are enough for one that hits the
  handler's return.  Two divider steps instead of one per bit keep a
  stall that is longer than the other stalls.  Wait states are not bounded: each cycle may or may
  not have one.  The programs are split into three families, because their product is out of reach:
  data hazards; exceptions - an illegal instruction, a misaligned access, a jump to a misaligned
  address - among M instructions, CSR and bus accesses; interrupts, which meet bus accesses,
  M instructions, jumps and CSR reads.  `MCSeparated` is evaluated for all of them; what the
  families leave out is listed in section 7.
* **Cache.**  Two ways as in the SoC; two lines, of which one has three
  addresses, more than ways, and so evictions; the other has a cacheable word and
  a peripheral, which returns one of two values, changing at any time.
* **Bus.**  The three hosts of the SoC.  Requests are chosen so that all three meet
  on the SRAM and two on the other device, whole words and single lanes are written, and the only host that
  may withdraw (the fetch unit) does.
* **Uart.**  The ring is larger than the FIFO, the FIFO larger than the watermark,
  as in the SoC (64, 8, 7).  `Overlapping` calls meet the ISR of the one before;
  `Filling` calls fill the ring and wait for space; `Separate` ones start at every
  index.  The programs never wrap the index while the interrupt is enabled, since
  that fails (`UartWrap`).  `ByteFirst` says that the compiled push stores the byte
  before the index; C leaves that open, and with `ByteFirst = FALSE` the refinement
  fails too, because the ISR can send a byte that is not there yet.  It is an
  assumption about the build.
* **Trap.**  All three sources, enabled as `_init` does; three instructions behind
  the boot sequence, so that WB and MEM hold a setting instruction while an interrupt of an earlier one is
  taken or returned from.  The time stops at twice the compare value and the timer
  ISR switches the timer off at its second interrupt; two external interrupts, so one can come during
  the handler of the other.
* **Divider.**  Four bits and all operands: the overflow of the most negative number
  by -1, every division by zero, all signs.  A flush and a new request are possible in every
  cycle.  The theorems are for every width.
* **UartHost.**  Words of two bytes instead of four, so that a message is four bytes; low
  and high byte, address and word still differ.  Nine messages are a write and a
  read session of two commands each and a ninth that begins something else; one reset at any moment.
  A byte takes four cycles and an answer's byte six; in the SoC it is 160 or more, against
  the same host pipeline of three cycles, so four is the hardest case, and six the slowest
  transmitter that keeps up with it.  `TimingAssumption` says what line, bus and
  transmitter must respect: an access ends before the next message does, and answers keep
  up with reads.  The theorems are for every timing within it.  The
  PC is the one of the tools: it sends no key as a command and waits for nothing else.  A
  reset can cut a write in its message, between line and FIFO, in the FIFO and on the bus, and there are messages enough to write the
  word again.
* **CoreMark.**  The block sizes and seeds of the builds of the makefile whose CRCs
  `core_main.c` knows, with one or two iterations instead of a thousand - an
  iteration that restores its input is like the next one - and three small
  blocks.  Lists have between 4 and 97 headers, so runs of the merge sort are whole, short,
  alone or without a second half, and equal keys meet.  The theorems
  are for lists of any length that `ParametersAssumption` admits.

### 3.2 Fairness

* **The clock runs**, so one step of a hardware module always follows another.
* **Ifu**: the bus accepts again and again, the pipeline does not stall for ever, a
  branch held in EX is released.  The first is what `Cache`/`Bus` give (next item),
  the others hold because every stall of the hazard unit ends (`ReachesHalt`).
* **Bus**: only the clock is assumed.  `HostsServed` promises service to a host
  under the premise `Gap(h)`: the hosts before it are idle, again and again, at a
  moment at which the controller takes a request.  The debug host is idle
  but for downloads, and the data bus cannot ask without the instruction bus for
  ever, since the queue runs empty; for a loop of stores the code has no more than
  this argument.
* **Pipeline**: the data bus answers again and again (it is second in priority, after
  the debug host), and a fetch stage that could present again and again
  does so (`FetchProgress`).
* **Trap**: the clock runs and an instruction arrives again and again (`ReachesHalt`), that
  is, `Processor` is weakly fair.  Neither the timer nor any device is.
* **Cache**, **Divider**, **CoreMark**: no liveness is stated.  A division ends by its
  counter (`ResultCorrect` looks at its end); CoreMark is sequential, and the loops it
  could hang in are the ones `NoHeaderLost` and `ScanStaysInBlock` exclude.
* **UartHost**: the clock runs with the board's switch on (`WF(Clock(TRUE))`; it may be off
  in between), with wait states bounded by `MaxWait`; nothing is
  assumed of the PC, which may stop at any byte.
* **Uart**: the processor executes, an asserted interrupt is taken
  in the end, and the transmitter shifts.  Each is a separate weak fairness; a
  disabled interrupt is not helped by it, which is what makes `EverythingSent` worth
  checking.

### 3.3 Properties

* `ImplementsFetchStream`, `ImplementsIsa`, `ImplementsSharedMemory`,
  `ImplementsByteStream` are the refinements; the mappings are the definitions above
  them.  The one of `Pipeline` defines the architectural state: an instruction counts as executed when it leaves MEM, because that
  is where it accesses devices; what it has still to do in WB is applied by
  `ArchRegs`, `ArchMepc`, `ArchMie`, `ArchMpie` and `ArchMeie`.  One that raises an exception
  is executed when its trap is taken.
* `Isa` promises what the core does, which is less than the ISA manual in two points.
  `MisalignedJump` traps and has written its link register.  `Exception` may, and `Interrupt`
  does, perform the access that stands at the point of the trap (`Reached`), which the
  program repeats when the handler returns to it.  No other access is lost, repeated or
  reordered, and no access of a wrong path is made.
* `mret` writes its own pc to mepc in `Isa`, because `mcsr.sv` writes mepc at every
  `trap_take`.  Software of the kit writes mepc before `mret`, and does not notice.
* `LoadedWhenRunning` is about the two cycles between the end key and the release of the
  core, in which the last write has to leave FIFO and bus, and about what resets leave
  behind: `image` goes on through them, so every word the PC has sent must be in
  memory, unless its write was under way at the reset.  It does not
  say that a program is complete; after a reset in the middle of a download the core is
  released on what was written so far (section 4).
* `ResultCorrect` compares with a definition of division by what it means (`dividend
  = quotient * divisor + rest`, with signs, and the special cases of the M extension).
* `NoHeaderLost` speaks of every moment of a merge: the merged part and the two
  parts that are being merged are disjoint and together the whole list.
  `InputsRestored` is the claim of a comment at `core_list_join.c:156`, about the
  values that `cmp_complex` caches in the list, too.  `KnownCrcs` ties the whole model
  to the real program: with one wrong detail in any benchmark the CRCs of
  `core_main.c` do not come out.
* `BufferedIsEnabled` is the lost-wake-up property: bytes in the ring
  buffer while nobody runs imply an enabled interrupt.

## 4. Findings

1. `PipelineLostLoad`: `ex_bubble` is raised without looking at the bus, so a multiply
   or divide in EX clears EX/MEM while the access there waits: the access is lost.
2. `UartWrap`: `_tx_buffer_end` is out of range between increment and wrap, and an ISR
   that runs then sends old bytes.
3. `TrapException`: with an exception in WB and an enabled interrupt in the same
   cycle, `interrupt_enter` decides mcause and mepc.  The handler returns behind the
   faulting instruction, whose exception nobody sees.

Each is quoted, with the line it contradicts, in `PROJECT.json`, `findings`.  The
passing runs avoid the situations concerned (`Separated`, which `MCPipeline`
asserts of its programs, `Overlapping` in `MCUart`, the programs of `MCTrap`), and so
do the hypotheses of the theorems (`Separated` and `Apart`, `WrapMasked`, `EarlyExceptions`).  Nothing in the
code sees to any of these conditions.

Met while modelling, and without a run of their own:

* Hardware.  A load-use bubble clears ID/EX while a multiply is held there by
  `muldiv_stall_req` (`hdu.sv:86`).  An access in MEM is performed in
  the cycle that flushes it, because the LSU is not gated by the flush (`MEM.sv:149`, and the FIXME
  at `trap_ctrl.sv:15`): behind an exception it may be made, in front of an interrupt it is
  made and then repeated, which `Isa` says (`Reached`); behind `mret` it can even be withdrawn while the bus
  waits, which `Separated` excludes.  A jump to a misaligned address writes its link register
  although it traps, since `MEM.sv:77` masks the write for misaligned loads only (`MisalignedJump`).
  A CSR write of mepc in WB wins over an interrupt taken in the same cycle
  (`mcsr.sv:215`), whose resume address is lost; `Apart` excludes it.  `ibus_avalon_req.read` can fall while `waitrequest` is
  high, which `ifu.sv:178` excludes; the address stays, and `Cache` and `Bus` let
  their host do it without loss.  A word fetched again while it is being filled is
  filled into the second way too, after which all its not-recently-used bits can
  be zero.  The vector of an interrupt is the base plus eight times the cause where
  the comment says four.  After `mret`, mepc holds the address of the `mret`.
* UART host.  Its header says that only writing is supported; reads work.  After a reset in
  the middle of a download no session is open, so the core is released on a partial image
  until the PC starts anew.  A start key
  inside a session is pushed as a command, and a lost byte shifts the framing until
  the next reset.  `UartDownload.py` takes the highest byte of an address as
  `addr >> 25`.
* Drivers.  The kit writes only the low half of the timer's compare value.  The timer ISR prints
  (`trap.c:105`) and can wait for ever for space in the ring buffer, with interrupts off.
* CoreMark.  A run with seeds that have no known CRC sets `total_errors` to -1, to which a
  run shorter than ten seconds adds 1: it reports "Correct operation validated"
  (`core_main.c:318`, `:377`, `:401`).  The text is not restored when a seed turns a
  byte of a pattern into a comma (`core_state.c:99`), the items of long lists do not all have
  different indices (`core_list_join.c:301`), a block of less than 120 bytes makes a
  list whose first removal follows a null pointer, and a matrix block of 8 N * N + 1
  bytes is overrun by two.  `core_portme.c:47` reads the two halves of mcycle without
  a check for a carry between them.

## 5. Mutants

A definition named `X_Something` is `X` with a plausible error.  `PROJECT.json`,
`mutants`, pairs each checked property with one such definition; with `X_Something`
in place of `X` the property does not hold in its run.

## 6. Proofs

A run shows its properties on one instance; the theorems state them for every value of
the constants that satisfies the assumptions named in the modules.  Every safety
property of the hardware and driver modules is proved (`ImplementsByteStream` under two
conditions only), and of CoreMark all but two.

| module | theorem | states |
|---|---|---|
| `IfuProofs` | `TypeCorrect`, `NoOverflow`, `StaleIsolated`, `AddressStable` | `Spec => []` of `TypeOK`, `IfqNeverOverflows`, `StaleReadIsolated`, `BusAddressStable` |
| | `FetchStreamImplemented` | `Spec => ImplementsFetchStream` |
| `PipelineProofs` | `PipelineTypes` | `Spec => []TypeOK` |
| | `RequestStable` | `Spec => []DbusRequestStable`, for programs that are `Separated` (6.2) |
| | `IsaImplemented` | `Spec /\ []Apart => ImplementsIsa`, for programs that are `Separated` |
| | `QuietImplemented` | `Spec => ImplementsIsa`, for programs that are `Separated`, without interrupts |
| `CacheProofs` | `CacheTypes`, `CacheTransparent`, `MissKept` | `Spec => []` of `TypeOK`, `ReadReturnsWord`, `MemRequestStable` |
| `BusProofs` | `BusTypes`, `CapturedGranted` | `Spec => []` of `TypeOK`, `CapturedIsGranted` |
| | `SharedMemoryImplemented` | `Spec => ImplementsSharedMemory` |
| `UartProofs` | `UartTypes`, `NoLostWakeup` | `Spec => []` of `TypeOK`, `BufferedIsEnabled` |
| | `ByteStreamIfMasked` | a conditional lemma: `Spec /\ [][WrapMasked]_vars => ImplementsByteStream`, with `ByteFirst`, neither of which the C code guarantees (6.5) |
| `TrapProofs` | `TrapTypes`, `Uninterrupted` | `Spec => []` of `TypeOK`, `HandlerUninterrupted` |
| | `InOrder` | `Spec => []ResumesInOrder`, if exceptions come before interrupts are enabled |
| | `Served` | `Spec => []ServedIsPending`, if `MieValue = Sources` |
| `AlgorithmProofs` | `DividerTypes`, `DividerCorrect` | `DivSpec => []` of `DivTypeOK`, `ResultCorrect` |
| | `CoreTypeOK`, `CoreBlocksDisjoint` | `Spec => []` of `TypeOK`, `BlocksDisjoint` |
| | `CoreNoHeaderLost`, `CoreReturnsSorted` | `Spec => []` of `NoHeaderLost`, `ReturnsSorted` |
| | `CoreInputsRestored` | `Spec => []InputsRestored` |
| `UartHostProofs` | `HostTypes`, `LoadedCorrect`, `PushesAlwaysFit` | `Spec => []` of `TypeOK`, `LoadedWhenRunning`, `PushesFit` |
| | `LoaderImplemented` | `Spec => ImplementsLoader` |

### 6.1 The fetch unit

For any positive address space, a queue of any depth, a threshold of at least one and
less than the depth, any set of targets.  Nothing needs the depth to be a power of two.

The inductive invariant is `Inv == TypeOK /\ Room /\ Presented /\ Redirecting /\
Queued`.  `ImplementsFetchStream` speaks only of the output register, so it says
nothing about what will be presented next; `Queued` does: the words in the queue, the
word on its way and the fetch address continue the stream decode takes, each at its
distance from the head.  It has the premise that no branch is held in EX (`held`):
while the data bus keeps a taken branch in EX, pc is redirected already and
words of both streams come in; the flush that must follow drops them all.
`Redirecting` says that this flush finds the unit in one of two states only, with
`pending_pc` waiting for the bus and everything empty, or with pc at the target.
`Room` counts the word in flight, without which the queue's level is not inductive.

`FillEdge` and `FlushedFill` follow the pointers through one edge;
the lemmas in front of them say what `%` does to sums and differences, with no
induction.  A cycle without redirect (`Run`) preserves each
conjunct, one lemma each; a branch that is held in EX is `HeldStep`, and the two
flushes share `FlushStep`.

### 6.2 The pipeline

For every program, number of registers, width of values, length of a division, number
of interrupts and all wait states.  Two conditions exclude what the code does not get
right:

* `Separated(p)`: no multiply or divide directly behind an access, no access directly
  behind an `mret`.
* `Apart`: an interrupt that can be taken finds in WB no exception, no `mret` and no write of
  mepc.  It is an assumption about when interrupts come; with MIE clear, as in the kit's handler,
  it holds by itself.

The core sees to neither, so the theorems say nothing of other programs, compiled ones among them.
TLC finds both true of every program and state of run `Pipeline`.  What a trap does to the
access it stands at is not excluded but part of `Isa` (3.3).

`Inv` is what the types and the stable requests need: `InOrder` (neighbouring stages hold
neighbours of the program, each stage the class of its word), `Held` (where the
data of the load in WB are), `Muldiv` (nothing is in MEM while a unit works).  `IsaInv`
adds what each stage owes the sequential machine.  `Forwards`: what EX would forward
is the operand in program order, that is, the register file with the write of WB
and the result of MEM applied.  It holds from the cycle in which the instruction
enters EX until a multiply or divide has taken its operand; `Works` takes over from
there.  `Executed`: what is in MEM is the result of its instruction.  `Available`:
nothing in EX needs what MEM does not have yet - this is what the load-use and CSR
stalls are for.  `Continues`: the oldest instruction behind MEM is the one that program
order asks for.  `Misjumped`: behind a jump to a misaligned address the pipeline is empty, and
what it links is in WB when it traps.  `Decodes`: destinations and targets are the program's.

An edge is one of four kinds (`FlushIs`): the bus holds everything (`HoldEdge`), a trap or
an interrupt flushes (`FlushEdge`), a multiply or divide keeps EX (`StallEdge`), or the
pipeline moves (`MoveEdge`); each has its lemma for the invariant.  `DecodedForwards` is the
heart: the flags computed in ID are right one cycle later, whatever moves in
between.  In the refinement a held edge, an `mret` in WB and a bubble in MEM change
nothing the software sees, and an instruction that leaves MEM is its step of
`Isa` (`Executes`), unless it raises an exception.  The edge that takes a trap is `Exception` or
`MisalignedJump` (`Excepted`), or `Interrupt` (`Interrupted`); `ReachedIs` says which access
it lets through.

### 6.3 The UART host

For words of any number of bytes, any set of commands that are not keys, and any number of
messages and resets; `TimingAssumption` is the only premise about time.

Nothing in the host waits for the PC, nor the PC for the host.  That no command is
lost is therefore an argument about time, and the inductive invariant `HostInv` carries it
along with the data:

* `Assembled`: the last bytes of `cmd` and the bytes still to send are the message
  of the PC, and `dataCount` is the number of bytes already shifted in.  Framing survives a
  reset in the middle of a message because both sides start at zero.
* `SessionShown`: the flags `writing`, `reading` and `cmdType` are the session of
  the PC as of the last message that has arrived.  A key and the command behind it
  are apart by a message, so the flags have settled when a command needs them.
* `Piped`: the three cycles from the last byte to the FIFO (`rxValid`, `cmdCmpl`,
  `cmdFifoPush`) exclude one another, hold the command in `arriving`, and find the FIFO
  empty: a command is on the bus for at most `MaxWait` cycles, and the next is a
  message away (`Margins`).
* `Held`: the core is in reset from the start key till the last access is done.
* `ImageIs`: the memory, with the command in the pipe and the one on the line performed
  (`Completed`), is what the PC has asked for, at every address whose last write was not cut
  off (`cut`).
* `KeepsUp`: `Work`, the cycles the sender needs for the answers that are read or
  asked for, is less than two answers, and at most what is left till the next message is
  complete, one answer and the way over the bus.  A word takes the sender `W * (TxTime + 1) + 2`
  cycles, a message the line `2 * W * RxTime`; this is what `TxTime + 2 <= 2 * RxTime` is
  for, and why a word that is read finds the read FIFO empty.

An edge moves three parts that the invariant keeps apart: the line (`EdgeLine`: idle, a message
begins, a byte goes on, ends, or ends its message), the bus (`EdgeBus`: idle, takes a
command, waits, reads, writes) and the sender (`EdgeSender`: idle, pops, sends, waits,
ends); each conjunct has its lemma over these cases.  In the refinement `Todo` and `Owed`
are where each command and each byte of an answer is: `TodoStep` and `OwedStep` say that an
edge appends what has arrived, takes the head for an access, and sends the head of the bytes owed.
A reset changes neither memory nor `image`: that they agree behind it is a fact
about the state before (`CutIs`), since the invariant knows which addresses are still under
way; everything else is idle (`ResetInv`).

### 6.4 CoreMark

For any set of builds, so for lists of any length, and any kernels.  Two assumptions, which
TLC evaluates for the builds of its run:

* `ParametersAssumption`: seeds are not negative, the third looks for something, and there are
  iterations.  The memory has 360 bytes at least (below, the first removal follows a null
  pointer), no two items have the same index, so that there is one order to which the
  list can be restored, the indices stay below that of the fake tail, and no matrix block has
  8 N * N + 1 bytes.  What happens outside of it is said in section 4.
* `KernelsAssumption`: with equal seeds the state machine and the matrix benchmark leave
  their input as they found it, for each of the sixteen steps an item can ask for.  It is about the
  kernels alone, and about the initial text and matrices alone, not about the program.

`Inv` is the inductive invariant; `InvHolds` has a step for each action.

* `Types` and `Running`: types, the parameters in use, the number of iterations.
* `UnderWay`: while the list is built, which headers exist, in which order they are linked
  (`Built`) and which of them have their index.
* `InList`: from then on there is, at every step, an order `f` of all headers in which the
  list is, or will be when the sort has linked what is left (`Somewhere`).  Searches and
  reversals change the order and nothing else.  `AtCrc` is the list without the removed
  header, whose data have gone to its neighbour; `Undo` puts it behind, and the next sort
  does the rest.
* `History`: the list that was initialised is the list in order of the indices, with the
  low byte of each item as its high byte (`Clean`).  Nothing in an iteration changes indices
  or high bytes, so when the last sort has put the list in order of the indices
  (`AtRest`) and `cmp_idx` has seen every item, it is the initial one again: `Ascending`
  orders are unique because indices are.  This is why `res->list`, which is never
  written again, is still its first header.

`Somewhere` is the invariant of the merge sort.  The links are in no single order during a merge -
the tail still points to where it was - so it names two places in `f`, `m` behind the headers merged
in this pass and `b` where the merge began, and `AtPass`, `AtMerge`, `AtAlong`, `AtPick`
say for each loop which links are in place and what the five pointers point to.

* `Ordered(c, d)`: the sort has looked at both headers and they are in the order wanted.
  A header that was looked at (`Known`) keeps what is compared of it: by index, its low
  byte is regenerated and the same at every comparison; by value, it is cached.  So keys that a
  comparison computes while the sort is under way are as good as constant ones
  (`OrderKept`).  After a sort all headers are known, which gives stability, the cleaned
  list and the cached values at once.
* `Runs(f, w, b, e)`: from place `b` to place `e`, runs of `w` headers are in order, and the
  headers of a run were in front of those of the next.  The second half is what makes
  the sort stable: within a merge a header of p came before one of q (`Precede`), so
  `<=` between their keys is the order wanted.
* `MergePlaces` is the arithmetic of `psize` and `qsize`: the run of q ends at `End(b)`, which
  is the end of the list if that is shorter.  With it the four tests of the inner loop
  mean "p is not empty" and "q is not empty" (`MergeFields`).
* `Counted` ties `nmerges` to the place: after one merge the pass is at twice `insize`
  or at the end of the list.  So a pass that ends with one merge had one pair of
  runs, and the list is one run.

Taking from p leaves `f` as it is (`TakePStep`); taking from q moves one header of `f` in
front of what is left of p, and `RotatedOrder` says that this is an order again
(`TakeQStep`).  Two runs that are merged make one of twice the length (`OneMoreRun`).
Nothing is an induction over the list: the invariant is carried by the steps.  Only `Chain`,
which walks along the links, is a recursive function; `ChainWalks` says that links in an order give
that order.

`CoreBlocksDisjoint` needs that the loop of `core_init_matrix` stops (`MatrixOrderFits`, by
the least element of a set of numbers) and what rounding up to a word adds (`MatricesEnd`).

### 6.5 The other modules

* **Cache.**  For any number of lines and ways, replacement bits of any value, any set of uncached
  addresses.  `Coherent` adds to the two properties: a valid line holds the word
  of its tag (`LinesAreMemory`), the word that arrives belongs to the address registered
  when it was asked for, and the cache does not retrieve for an uncached read.
  Nothing depends on which way is the victim.
* **Bus.**  For any number of hosts and any requests.  `Captured`: what the
  controller holds is the request of a host that the arbiter keeps granted.
  The refinement is half by half: `Cell` is a half word as the hosts see it, where a
  write counts as performed when its second half reaches the pins, and a
  cycle changes it only by the one access that a device accepts (`AcceptedIs`).
* **Transmit driver.**  For any size of ring, FIFO and watermark.  `Wakeup` follows the
  interrupt enable through the ISR.  `Streaming` counts bytes: the indices with their wrap
  bits are the numbers of bytes taken and written modulo two laps (`Start`, `End`), the ring holds
  exactly the bytes between them (`Held`), and there is space where a byte is pushed although
  the ISR ran between the two reads that decided it (`Room`).  `NoLostWakeup` is about the
  moments at which neither `uart_write` nor the ISR is under way.  `ByteStreamIfMasked` is a
  conditional result: `ByteFirst` is the order of
  two stores, `WrapMasked` says that no interrupt comes between the increment and the wrap of
  the index and its wrap byte, and with these two the driver is right, for every
  interleaving.  The C code guarantees neither (`uart.c:200`: the byte is no volatile store and
  no interrupt is masked), so of the program as it is, the lemma says no more than that there is
  no third flaw.
* **Trap.**  For every program that starts like the kit's, any number of interrupts and times.
  `Started` and `Handling` say what is enabled where; in the handler the frame
  leads back behind the start-up code.  `InOrder` follows the return address from
  mepc to the frame and back, and what `performed` is meanwhile (`Ordered`).  `Served` needs that the served source asks from the trap to the
  dispatch: nothing but its own routine takes the request back.
* **Divider.**  For every width.  `LongDivision`: dividend = quotient * shifted divisor +
  rest, the rest below twice the shifted divisor; `OneIteration` is the step, and the signs follow from the
  definition of the quotient by its uniqueness.

### 6.6 What is only model-checked

* Liveness (`FetchProgress`, `ReachesHalt`, `HostsServed`, `EverythingSent`,
  `EveryInterruptServed`, `EndReleasesCore`), which needs fairness and ENABLED.
* `ScanStaysInBlock` and `KnownCrcs` of `CoreMark`, which are about what the kernels compute
  for the seeds of the builds: the kernels are recursive, and the expected CRCs are
  numbers that only an evaluation gives.

## 7. What is not modelled

* In `Trap`: mip, mtval, mscratch, the cycle counter, vectored mode, the halves of the
  timer's compare value, sources the kit leaves disabled (a disabled line that is
  high names the cause of another one, so `ServedIsPending` needs `mie = 0x888`), and a write
  to mstatus or mie while interrupts are on, which the kit does not do.
* In `Pipeline`: `jalr` (a `jal` whose target is a register; `jmis` stands for a jump of either
  kind to a misaligned address, and with x0 as its link register for a branch taken to one), byte
  lanes and sign extension, the arithmetic of ALU and multiplier, CSR `mscratch`.
* Not in the programs of run `Pipeline`, and outside `ImplementsIsa`: a multiply or divide
  behind an access, an access behind `mret` (`Separated`), and exceptions and CSR writes of mepc
  while interrupts are on (`Apart`).  Run `PipelineLostLoad` shows what the first does, run
  `TrapException` what an exception does; no run shows the other two.
* The write path of the cache, which the instruction bus cannot reach and which
  the SoC does not build for data.
* The receive half of the UART device, bit timing, `uart_open`/`uart_close` (not called by
  the kit), a second caller of `uart_write` in an ISR, the GPIO, memories other than by
  their answers.
* In `UartHost`: bytes lost or changed on the line (the host has no means to notice), and
  a PC that breaks the protocol.
* In `CoreMark`: time, the calibration of the number of iterations, what is printed,
  `MULTITHREAD`, floating point (`cvt.c`).
* The start-up code, system calls other than `_write`, test benches, FPGA and
  simulation wrappers, the other example programs.

## 8. What could come next

1. `UartDriver`: a second caller, the timer ISR that prints, and a second PLIC source.
2. `Trap`: a program that switches sources on and off while interrupts are on; the
   timer's halves.
3. `UartHost` with the UART receiver bit by bit, and lines that lose bytes.
4. Byte lanes of the load/store unit against a memory of bytes.
