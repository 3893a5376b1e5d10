-------------------------------- MODULE Bus --------------------------------
(***************************************************************************)
(* The Avalon crossbar (avalon_s_crossbar.sv: a decoder per host and an    *)
(* arbiter per device), the SRAM controller that splits a word into two    *)
(* half-word accesses (avalon_sram_controller.sv, x2) and the devices that *)
(* never wait (avalon_ram_1rw.sv, the peripherals).                        *)
(*                                                                         *)
(* A step is one rising clock edge; the hosts choose the next requests.    *)
(* Hosts are numbered as on the main bus: 0 debug, 1 data bus, 2           *)
(* instruction bus.  Device "sram" is behind the controller, device "ram"  *)
(* answers at once.  A lane stands for half a word; data is what a host    *)
(* writes, and its half for a lane is Half(d, l).                          *)
(***************************************************************************)
EXTENDS Integers

CONSTANTS
  NH,        \* number of hosts
  Requests,  \* Requests[h]: the accesses host h can ask for
  Withdraws, \* hosts that may withdraw a read while they wait
  SramWords, \* word addresses of the SRAM ...
  RamWords,  \* ... and of the other device
  Reset,     \* data of a word that was never written
  NoData     \* readdata when the device has nothing to say

Hosts == 0 .. NH - 1
Words == SramWords \cup RamWords
Devices == {"sram", "ram"}
Idle == [op |-> "idle"]   \* no request

ASSUME HostsAssumption == NH \in Nat \ {0} /\ Withdraws \subseteq Hosts
ASSUME WordsAssumption == SramWords \cap RamWords = {}
ASSUME RequestsAssumption ==
  \A h \in Hosts : \A r \in Requests[h] :
    r.op \in {"read", "write"} /\ r.addr \in Words

VARIABLES
  req,          \* request each host presents
  pending,      \* arbiters: the granted request is held off ...
  pendingHosts, \* ... and who was asking when it was granted
  prevHit,      \* decoders: device addressed in the previous cycle
  sramState,    \* SRAM controller
  sramAcc,      \*   the access on the SRAM pins
  readdata1st,  \*   first half of a read
  sramMem,      \* the SRAM chip
  ramMem,       \* the other device
  ramData,      \*   its readdata register
  served        \* history: request of each host accepted in the last step

sramVars == <<sramState, sramAcc, readdata1st, sramMem>>
ramVars  == <<ramMem, ramData>>
vars == <<req, pending, pendingHosts, prevHit, sramVars, ramVars, served>>

-----------------------------------------------------------------------------
\* Arbiters and decoders

DeviceOf(r) == IF r.addr \in SramWords THEN "sram" ELSE "ram"

\* hosts_request of the arbiter of device d.
HostsRequest(d) == {h \in Hosts : req[h] # Idle /\ DeviceOf(req[h]) = d}
ArbiterRequest(d) == IF pending[d] THEN pendingHosts[d] ELSE HostsRequest(d)

\* bus_arbiter with base 1: the lowest number wins.
Grant(d) == {h \in ArbiterRequest(d) : \A g \in ArbiterRequest(d) : h <= g}

\* device_avn_waitrequest
Wait(d) == d = "sram" /\ sramState \in {"IDLE", "ACCESS2"}

\* The host whose request reaches device d: none if it was withdrawn.
Selected(d) == Grant(d) \cap HostsRequest(d)
DeviceRequest(d) == IF Selected(d) = {} THEN Idle
                    ELSE req[CHOOSE h \in Selected(d) : TRUE]

\* Mutant: a host that is not granted sees only the device's waitrequest.
Accepted_NoGrant(h) ==
  \E d \in Devices : h \in HostsRequest(d) /\ ~Wait(d)

\* The host's waitrequest is low: its access is done from the host's view.
Accepted(h) == \E d \in Devices : h \in Selected(d) /\ ~Wait(d)

\* readdata as host h sees it.
HostReaddata(h) ==
  IF prevHit[h] = "ram" THEN ramData
  ELSE IF sramState = "ACCESS2" /\ sramAcc.op = "read"
       THEN [l \in {0, 1} |-> IF l = 0 THEN readdata1st ELSE sramMem[sramAcc.addr][1]]
       ELSE NoData

\* Mutant: the set of requests is not kept while the device holds off.
Arbiters_NoLatch ==
  /\ pending' = [d \in Devices |-> FALSE]
  /\ pendingHosts' = [d \in Devices |-> HostsRequest(d)]

\* Mutant: the grant is not released when the device accepts.
Arbiters_NoRelease ==
  /\ pending' = [d \in Devices |-> pending[d] \/ (HostsRequest(d) # {} /\ Wait(d))]
  /\ pendingHosts' = [d \in Devices |->
       IF pending[d] THEN pendingHosts[d] ELSE HostsRequest(d)]

Arbiters ==
  /\ pending' = [d \in Devices |->
       IF pending[d] THEN Wait(d) ELSE HostsRequest(d) # {} /\ Wait(d)]
  /\ pendingHosts' = [d \in Devices |->
       IF pending[d] THEN pendingHosts[d] ELSE HostsRequest(d)]

Decoders ==
  prevHit' = [h \in Hosts |-> IF req[h] = Idle THEN prevHit[h] ELSE DeviceOf(req[h])]

-----------------------------------------------------------------------------
\* SRAM controller and chip.  In ACCESS1 the pins show the first half of the
\* access, in ACCESS2 the second; the chip writes while the pins say so.

TakeNewRequest == sramState \in {"IDLE", "ACCESS2"}

\* Mutant: the state counts on after ACCESS2.
SramStateNext_NoReturn ==
  IF sramState = "IDLE" /\ DeviceRequest("sram") # Idle THEN "ACCESS1"
  ELSE IF sramState = "ACCESS1" THEN "ACCESS2"
  ELSE IF sramState = "ACCESS2" THEN "ACCESS3"
  ELSE sramState

SramStateNext ==
  IF TakeNewRequest /\ DeviceRequest("sram") # Idle THEN "ACCESS1"
  ELSE IF sramState = "ACCESS1" THEN "ACCESS2"
  ELSE "IDLE"

Lane == IF sramState = "ACCESS1" THEN 0 ELSE 1

Sram ==
  /\ sramState' = SramStateNext
  /\ sramAcc' = IF TakeNewRequest THEN DeviceRequest("sram") ELSE sramAcc
  /\ readdata1st' = IF sramState = "ACCESS1" /\ sramAcc.op = "read"
                    THEN sramMem[sramAcc.addr][0] ELSE readdata1st
  /\ sramMem' = IF sramAcc.op = "write" /\ Lane \in sramAcc.lanes
                THEN [sramMem EXCEPT ![sramAcc.addr][Lane] = <<sramAcc.data, Lane>>]
                ELSE sramMem

\* avalon_ram_1rw.sv
Ram ==
  LET r == DeviceRequest("ram")
  IN /\ ramMem' = IF r.op = "write"
                  THEN [ramMem EXCEPT ![r.addr] =
                          [l \in {0, 1} |-> IF l \in r.lanes THEN <<r.data, l>> ELSE @[l]]]
                  ELSE ramMem
     /\ ramData' = IF r = Idle THEN NoData ELSE ramMem[r.addr]

-----------------------------------------------------------------------------
\* Hosts

HostRequests ==
  {f \in [Hosts -> (UNION {Requests[h] : h \in Hosts}) \cup {Idle}] :
     \A h \in Hosts : f[h] \in Requests[h] \cup {Idle}}

\* A host whose access was accepted presents anything; one that waits keeps its
\* request, or withdraws a read.
HostsNext(accepted) ==
  /\ served' = [h \in Hosts |-> IF h \in accepted THEN req[h] ELSE Idle]
  /\ req' \in HostRequests
  /\ \A h \in Hosts :
       \/ h \in accepted \/ req[h] = Idle \/ req'[h] = req[h]
       \/ h \in Withdraws /\ req[h].op = "read" /\ req'[h] = Idle

Init ==
  /\ req = [h \in Hosts |-> Idle]
  /\ pending = [d \in Devices |-> FALSE]
  /\ pendingHosts = [d \in Devices |-> {}]
  /\ prevHit = [h \in Hosts |-> "sram"]
  /\ sramState = "IDLE" /\ sramAcc = Idle /\ readdata1st = <<Reset, 0>>
  /\ sramMem = [a \in SramWords |-> [l \in {0, 1} |-> <<Reset, l>>]]
  /\ ramMem = [a \in RamWords |-> [l \in {0, 1} |-> <<Reset, l>>]]
  /\ ramData = NoData
  /\ served = [h \in Hosts |-> Idle]

Cycle ==
  /\ Arbiters
  /\ Decoders
  /\ Sram
  /\ Ram
  /\ HostsNext({h \in Hosts : Accepted(h)})

\* The cycles of the SRAM controller.
Quiet   == TakeNewRequest /\ DeviceRequest("sram") = Idle /\ Cycle
Capture == TakeNewRequest /\ DeviceRequest("sram") # Idle /\ Cycle
Access  == sramState = "ACCESS1" /\ Cycle

Next == Quiet \/ Capture \/ Access

Spec == Init /\ [][Next]_vars

\* The clock runs.
FairSpec == Spec /\ WF_vars(Next)

-----------------------------------------------------------------------------
\* Properties

TypeOK ==
  /\ req \in HostRequests /\ served \in HostRequests
  /\ pending \in [Devices -> BOOLEAN]
  /\ pendingHosts \in [Devices -> SUBSET Hosts]
  /\ prevHit \in [Hosts -> Devices]
  /\ sramState \in {"IDLE", "ACCESS1", "ACCESS2"}
  /\ sramAcc \in (UNION {Requests[h] : h \in Hosts}) \cup {Idle}
  /\ DOMAIN sramMem = SramWords /\ DOMAIN ramMem = RamWords

\* The access on the SRAM pins is still the one the arbiter lets the controller
\* accept: a more urgent host that shows up in between does not take over.
CapturedIsGranted ==
  sramState = "ACCESS1" /\ Selected("sram") # {} => DeviceRequest("sram") = sramAcc

\* The contents as the hosts see them: a write counts as performed when its
\* second half reaches the pins.
SecondHalf(a) ==
  /\ sramState = "ACCESS2" /\ sramAcc.op = "write"
  /\ sramAcc.addr = a /\ 1 \in sramAcc.lanes
AbstractMem ==
  [a \in Words |->
     IF a \in RamWords THEN ramMem[a]
     ELSE IF SecondHalf(a) THEN [sramMem[a] EXCEPT ![1] = <<sramAcc.data, 1>>]
     ELSE sramMem[a]]

Memory == INSTANCE SharedMemory WITH
            mem <- AbstractMem,
            answer <- [h \in Hosts |->
                         IF served[h].op = "read" THEN HostReaddata(h) ELSE NoData]

\* To the hosts the crossbar, the controller and the devices are one memory with
\* atomic accesses: each accepted access is performed exactly once, on the word
\* it names, and each reader gets its own answer in the next cycle, although
\* words are accessed in two halves, accesses overlap and hosts interleave.
ImplementsSharedMemory == Memory!Spec

\* The arbitration is by fixed priority: a host is served as long as the hosts
\* before it leave a gap at a moment at which the devices take requests again
\* and again, and the first host always.
Gap(h) == TakeNewRequest /\ \A g \in Hosts : g < h => req[g] = Idle
HostsServed ==
  \A h \in Hosts :
    []<>Gap(h) => (req[h] # Idle ~> (served[h] # Idle \/ req[h] = Idle))
=============================================================================
