------------------------------ MODULE BusProofs -----------------------------
(***************************************************************************)
(* What holds of the crossbar, the arbiters and the SRAM controller for    *)
(* every number of hosts, every set of requests and every memory.          *)
(***************************************************************************)
EXTENDS Bus, TLAPS

LEMMA HostsAreNumbers == Hosts \subseteq Int
BY HostsAssumption DEF Hosts

Requested == (UNION {Requests[h] : h \in Hosts}) \cup {Idle}

\* A request that is none of Idle is a read or a write of a word.
LEMMA RequestIs ==
  ASSUME NEW r \in Requested, r # Idle
  PROVE  r.op \in {"read", "write"} /\ r.addr \in Words
<1>1. PICK h \in Hosts : r \in Requests[h]
  BY DEF Requested
<1> QED  BY <1>1, RequestsAssumption

LEMMA HostRequestTyped ==
  ASSUME NEW f \in HostRequests, NEW h \in Hosts
  PROVE  f[h] \in Requested /\ f[h] \in Requests[h] \cup {Idle}
BY DEF HostRequests, Requested

LEMMA IdleIs == Idle.op = "idle"
BY DEF Idle

-----------------------------------------------------------------------------
\* Arbitration

\* At most one host is granted a device, and it is its request that comes through.
LEMMA GrantOne ==
  ASSUME NEW d \in Devices, NEW g \in Selected(d), NEW h \in Selected(d)
  PROVE  g = h
<1>1. g \in Hosts /\ h \in Hosts /\ g <= h /\ h <= g
  BY DEF Selected, Grant, HostsRequest
<1> QED  BY <1>1, HostsAreNumbers

LEMMA SelectedIs ==
  ASSUME NEW d \in Devices, NEW h \in Selected(d)
  PROVE  h \in Hosts /\ DeviceRequest(d) = req[h] /\ req[h] # Idle /\ DeviceOf(req[h]) = d
<1>1. h \in Hosts /\ req[h] # Idle /\ DeviceOf(req[h]) = d
  BY DEF Selected, HostsRequest
<1>2. (CHOOSE x \in Selected(d) : TRUE) \in Selected(d)
  OBVIOUS
<1>3. (CHOOSE x \in Selected(d) : TRUE) = h
  BY <1>2, GrantOne
<1> QED  BY <1>1, <1>3 DEF DeviceRequest

LEMMA NotSelected ==
  ASSUME NEW d \in Devices, DeviceRequest(d) # Idle
  PROVE  \E h \in Selected(d) : TRUE
BY DEF DeviceRequest

\* What reaches a device is a request for it, or none.
LEMMA DeviceRequestTyped ==
  ASSUME TypeOK, NEW d \in Devices
  PROVE  /\ DeviceRequest(d) \in Requested
         /\ DeviceRequest(d) # Idle =>
              DeviceRequest(d).addr \in Words /\ DeviceOf(DeviceRequest(d)) = d
<1>1. CASE DeviceRequest(d) = Idle
  BY <1>1 DEF Requested
<1>2. CASE DeviceRequest(d) # Idle
  <2>1. PICK h \in Selected(d) : TRUE
    BY <1>2, NotSelected
  <2>2. h \in Hosts /\ DeviceRequest(d) = req[h] /\ DeviceOf(req[h]) = d
    BY <2>1, SelectedIs
  <2>3. req[h] \in Requested
    BY <2>2, HostRequestTyped DEF TypeOK
  <2>4. req[h].addr \in Words
    BY <1>2, <2>2, <2>3, RequestIs
  <2> QED  BY <2>2, <2>3, <2>4
<1> QED  BY <1>1, <1>2

-----------------------------------------------------------------------------
\* Types

\* Words are made of two halves.
Halves ==
  /\ sramMem = [a \in SramWords |-> [l \in {0, 1} |-> sramMem[a][l]]]
  /\ ramMem = [a \in RamWords |-> [l \in {0, 1} |-> ramMem[a][l]]]

LEMMA InitTypes == Init => TypeOK /\ Halves
<1> SUFFICES ASSUME Init PROVE TypeOK /\ Halves
  OBVIOUS
<1>1. req \in HostRequests /\ served \in HostRequests
  BY DEF Init, HostRequests
<1>2. Halves
  BY DEF Init, Halves
<1>3. sramAcc \in (UNION {Requests[h] : h \in Hosts}) \cup {Idle}
  BY DEF Init
<1> QED  BY <1>1, <1>2, <1>3 DEF Init, TypeOK, Devices

LEMMA CycleTypes == TypeOK /\ Cycle => TypeOK'
<1> SUFFICES ASSUME TypeOK, Cycle PROVE TypeOK'
  OBVIOUS
<1> USE DEF Cycle
<1>1. req' \in HostRequests
  BY DEF HostsNext
<1>2. served' \in HostRequests
  <2> DEFINE accepted == {h \in Hosts : Accepted(h)}
  <2>1. served' = [h \in Hosts |-> IF h \in accepted THEN req[h] ELSE Idle]
    BY DEF HostsNext
  <2>2. req \in HostRequests
    BY DEF TypeOK
  <2> HIDE DEF accepted
  <2> QED  BY <2>1, <2>2 DEF HostRequests
<1>3. pending' \in [Devices -> BOOLEAN]
  BY DEF Arbiters, Wait
<1>4. pendingHosts' \in [Devices -> SUBSET Hosts]
  BY DEF Arbiters, HostsRequest, TypeOK
<1>5. prevHit' \in [Hosts -> Devices]
  BY DEF Decoders, DeviceOf, Devices, TypeOK
<1>6. sramState' \in {"IDLE", "ACCESS1", "ACCESS2"}
  BY DEF Sram, SramStateNext
<1>7. sramAcc' \in Requested
  BY DeviceRequestTyped DEF Sram, Devices, TypeOK, Requested
<1>8. DOMAIN sramMem' = SramWords /\ DOMAIN ramMem' = RamWords
  BY DEF Sram, Ram, TypeOK
<1> QED  BY <1>1, <1>2, <1>3, <1>4, <1>5, <1>6, <1>7, <1>8 DEF TypeOK, Requested

LEMMA NextIsCycle == Next => Cycle
BY DEF Next, Quiet, Capture, Access

LEMMA NextTypes == TypeOK /\ [Next]_vars => TypeOK'
<1>1. TypeOK /\ UNCHANGED vars => TypeOK'
  BY DEF TypeOK, vars, sramVars, ramVars
<1> QED  BY <1>1, CycleTypes, NextIsCycle

\* Requests, grants and the state of the controller keep their types.
THEOREM BusTypes == Spec => []TypeOK
BY InitTypes, NextTypes, PTL DEF Spec

-----------------------------------------------------------------------------
\* Captured requests

\* The controller shows a request on the pins only while the arbiter holds the
\* grant for the host it came from, and that host keeps it, or withdrew a read.
CapturedFrom(h) ==
  /\ h \in pendingHosts["sram"] /\ \A g \in pendingHosts["sram"] : h <= g
  /\ req[h] = sramAcc \/ (req[h] = Idle /\ sramAcc.op = "read")
Captured ==
  /\ sramState = "ACCESS1" => pending["sram"] /\ \E h \in Hosts : CapturedFrom(h)
  /\ sramState \in {"ACCESS1", "ACCESS2"} => sramAcc # Idle /\ DeviceOf(sramAcc) = "sram"
  /\ sramState = "IDLE" => sramAcc = Idle

LEMMA CycleCaptured == TypeOK /\ Captured /\ Cycle => Captured'
<1> SUFFICES ASSUME TypeOK, Captured, Cycle PROVE Captured'
  OBVIOUS
<1> USE DEF Cycle
<1>1. "sram" \in Devices /\ sramState \in {"IDLE", "ACCESS1", "ACCESS2"}
  BY DEF Devices, TypeOK
<1>2. CASE TakeNewRequest /\ DeviceRequest("sram") # Idle
  <2>1. PICK h \in Selected("sram") : TRUE
    BY <1>1, <1>2, NotSelected
  <2>2. h \in Hosts /\ DeviceRequest("sram") = req[h] /\ req[h] # Idle
        /\ DeviceOf(req[h]) = "sram"
    BY <1>1, <2>1, SelectedIs
  <2>3. sramState' = "ACCESS1" /\ sramAcc' = req[h]
    BY <1>2, <2>2 DEF Sram, SramStateNext
  <2>4. Wait("sram")
    BY <1>2 DEF Wait, TakeNewRequest
  <2>5. h \in Grant("sram") /\ h \in HostsRequest("sram")
    BY <2>1 DEF Selected
  <2>6. pending'["sram"] /\ pendingHosts'["sram"] = ArbiterRequest("sram")
    BY <1>1, <2>4, <2>5 DEF Arbiters, ArbiterRequest
  <2>7. h \in pendingHosts'["sram"] /\ \A g \in pendingHosts'["sram"] : h <= g
    BY <2>5, <2>6 DEF Grant
  <2>8. ~Accepted(h)
    BY <2>2, <2>4 DEF Accepted, Selected, HostsRequest
  <2>9. req'[h] = req[h] \/ (req'[h] = Idle /\ req[h].op = "read")
    BY <2>2, <2>8 DEF HostsNext
  <2> QED  BY <2>2, <2>3, <2>6, <2>7, <2>9 DEF Captured, CapturedFrom
<1>3. CASE TakeNewRequest /\ DeviceRequest("sram") = Idle
  BY <1>3 DEF Sram, SramStateNext, Captured, TakeNewRequest
<1>4. CASE ~TakeNewRequest
  BY <1>1, <1>4 DEF Sram, SramStateNext, Captured, TakeNewRequest
<1> QED  BY <1>2, <1>3, <1>4

LEMMA CapturedSelected ==
  ASSUME TypeOK, Captured, sramState = "ACCESS1"
  PROVE  /\ Selected("sram") # {} => DeviceRequest("sram") = sramAcc
         /\ sramAcc.op = "write" => Selected("sram") # {}
<1>1. PICK h \in Hosts : CapturedFrom(h)
  BY DEF Captured
<1>2. Grant("sram") = {h}
  <2>1. ArbiterRequest("sram") = pendingHosts["sram"]
    BY DEF Captured, ArbiterRequest
  <2>2. h \in Grant("sram")
    BY <1>1, <2>1 DEF Grant, CapturedFrom
  <2>3. ASSUME NEW g \in Grant("sram") PROVE g = h
    <3>1. g <= h /\ h <= g /\ g \in pendingHosts["sram"]
      BY <1>1, <2>1, <2>3 DEF Grant, CapturedFrom
    <3>2. g \in Int /\ h \in Int
      BY <3>1, HostsAreNumbers DEF TypeOK, Devices
    <3> QED  BY <3>1, <3>2
  <2> QED  BY <2>2, <2>3
<1>3. Selected("sram") # {} => h \in Selected("sram")
  BY <1>2 DEF Selected
<1>4. ASSUME h \in Selected("sram") PROVE DeviceRequest("sram") = sramAcc
  <2>1. DeviceRequest("sram") = req[h] /\ req[h] # Idle
    BY <1>4, SelectedIs DEF Devices
  <2> QED  BY <1>1, <2>1 DEF CapturedFrom
<1>5. ASSUME sramAcc.op = "write" PROVE h \in Selected("sram")
  <2>1. req[h] = sramAcc /\ sramAcc # Idle /\ DeviceOf(sramAcc) = "sram"
    BY <1>1, <1>5 DEF CapturedFrom, Captured
  <2> QED  BY <1>2, <2>1 DEF Selected, HostsRequest
<1> QED  BY <1>3, <1>4, <1>5

LEMMA NextCaptured == TypeOK /\ Captured /\ [Next]_vars => Captured'
<1>1. Captured /\ UNCHANGED vars => Captured'
  BY DEF Captured, CapturedFrom, vars, sramVars
<1> QED  BY <1>1, CycleCaptured, NextIsCycle

LEMMA CapturedAlways == Spec => [](TypeOK /\ Captured)
<1>1. Init => Captured
  BY DEF Init, Captured
<1> QED  BY <1>1, InitTypes, NextTypes, NextCaptured, PTL DEF Spec

\* The controller accepts the request it captured, whoever else asks meanwhile.
THEOREM CapturedGranted == Spec => []CapturedIsGranted
<1>1. TypeOK /\ Captured => CapturedIsGranted
  BY CapturedSelected DEF CapturedIsGranted
<1> QED  BY <1>1, CapturedAlways, PTL

-----------------------------------------------------------------------------
\* The shared memory

LEMMA CycleHalves == TypeOK /\ Halves /\ Cycle => Halves'
<1> SUFFICES ASSUME TypeOK, Halves, Cycle PROVE Halves'
  OBVIOUS
<1> USE DEF Cycle
<1>1. sramMem' = [a \in SramWords |-> [l \in {0, 1} |-> sramMem'[a][l]]]
  <2>1. Lane \in {0, 1}
    BY DEF Lane
  <2>2. \/ sramMem' = sramMem
        \/ sramMem' = [sramMem EXCEPT ![sramAcc.addr][Lane] = <<sramAcc.data, Lane>>]
    BY DEF Sram
  <2>3. sramMem = [a \in SramWords |-> [l \in {0, 1} |-> sramMem[a][l]]]
    BY DEF Halves
  <2> QED  BY <2>1, <2>2, <2>3
<1>2. ramMem' = [a \in RamWords |-> [l \in {0, 1} |-> ramMem'[a][l]]]
  <2> DEFINE r == DeviceRequest("ram")
  <2>1. \/ ramMem' = ramMem
        \/ ramMem' = [ramMem EXCEPT ![r.addr] =
                        [l \in {0, 1} |-> IF l \in r.lanes THEN <<r.data, l>> ELSE @[l]]]
    BY DEF Ram
  <2>2. ramMem = [a \in RamWords |-> [l \in {0, 1} |-> ramMem[a][l]]]
    BY DEF Halves
  <2> HIDE DEF r
  <2> QED  BY <2>1, <2>2
<1> QED  BY <1>1, <1>2 DEF Halves

\* The half of a word as the hosts see it.
Cell(a, l) ==
  IF a \in RamWords THEN ramMem[a][l]
  ELSE IF SecondHalf(a) /\ l = 1 THEN <<sramAcc.data, 1>>
  ELSE sramMem[a][l]

LEMMA AbstractCells ==
  Halves => AbstractMem = [a \in Words |-> [l \in {0, 1} |-> Cell(a, l)]]
<1> SUFFICES ASSUME Halves, NEW a \in Words
             PROVE  AbstractMem[a] = [l \in {0, 1} |-> Cell(a, l)]
  BY DEF AbstractMem
<1>1. CASE a \in RamWords
  BY <1>1 DEF AbstractMem, Cell, Halves
<1>2. CASE a \notin RamWords
  <2>1. a \in SramWords
    BY <1>2 DEF Words
  <2>2. sramMem[a] = [l \in {0, 1} |-> sramMem[a][l]]
    BY <2>1 DEF Halves
  <2> QED  BY <1>2, <2>2 DEF AbstractMem, Cell
<1> QED  BY <1>1, <1>2

\* A host whose write of a half is accepted.
Writes(h, a, l) ==
  /\ Accepted(h)
  /\ req[h].op = "write" /\ req[h].addr = a /\ l \in req[h].lanes

\* Whose request a device accepts.
LEMMA AcceptedIs ==
  ASSUME TypeOK, NEW h \in Hosts, Accepted(h)
  PROVE  /\ req[h] # Idle /\ req[h].op \in {"read", "write"} /\ req[h].addr \in Words
         /\ DeviceRequest(DeviceOf(req[h])) = req[h] /\ ~Wait(DeviceOf(req[h]))
         /\ h \in Selected(DeviceOf(req[h])) /\ DeviceOf(req[h]) \in Devices
<1>1. PICK d \in Devices : h \in Selected(d) /\ ~Wait(d)
  BY DEF Accepted
<1>2. DeviceRequest(d) = req[h] /\ req[h] # Idle /\ DeviceOf(req[h]) = d
  BY <1>1, SelectedIs
<1>3. req[h].op \in {"read", "write"} /\ req[h].addr \in Words
  <2>1. req[h] \in Requested
    BY HostRequestTyped DEF TypeOK
  <2> QED  BY <1>2, <2>1, RequestIs
<1> QED  BY <1>1, <1>2, <1>3

LEMMA RamCell ==
  ASSUME TypeOK, Halves, Cycle, NEW a \in RamWords, NEW l \in {0, 1}
  PROVE  /\ \A h \in Hosts : Writes(h, a, l) => ramMem'[a][l] = <<req[h].data, l>>
         /\ (\A h \in Hosts : ~Writes(h, a, l)) => ramMem'[a][l] = ramMem[a][l]
<1> DEFINE r == DeviceRequest("ram")
<1>1. ramMem' = IF r.op = "write"
                THEN [ramMem EXCEPT ![r.addr] =
                        [m \in {0, 1} |-> IF m \in r.lanes THEN <<r.data, m>> ELSE @[m]]]
                ELSE ramMem
  BY DEF Cycle, Ram
<1>2. ramMem'[a][l] = IF r.op = "write" /\ r.addr = a /\ l \in r.lanes
                      THEN <<r.data, l>> ELSE ramMem[a][l]
  <2> HIDE DEF r
  <2>1. a \in DOMAIN ramMem
    BY DEF TypeOK
  <2> QED  BY <1>1, <2>1
<1>3. ASSUME NEW h \in Hosts, Writes(h, a, l)
      PROVE  ramMem'[a][l] = <<req[h].data, l>>
  <2>1. DeviceOf(req[h]) = "ram"
    BY <1>3, WordsAssumption DEF Writes, DeviceOf
  <2>2. r = req[h]
    BY <1>3, <2>1, AcceptedIs DEF Writes
  <2> QED  BY <1>2, <1>3, <2>2 DEF Writes
<1>4. ASSUME r.op = "write", r.addr = a, l \in r.lanes
      PROVE  \E h \in Hosts : Writes(h, a, l)
  <2>1. r # Idle
    BY <1>4, IdleIs
  <2>2. PICK h \in Selected("ram") : TRUE
    BY <2>1, NotSelected DEF Devices
  <2>3. h \in Hosts /\ r = req[h] /\ Accepted(h)
    BY <2>2, SelectedIs DEF Accepted, Devices, Wait
  <2> QED  BY <1>4, <2>3 DEF Writes
<1> QED  BY <1>2, <1>3, <1>4

LEMMA SramCell ==
  ASSUME TypeOK, Halves, Captured, Cycle, NEW a \in SramWords, NEW l \in {0, 1}
  PROVE  /\ \A h \in Hosts : Writes(h, a, l) => Cell(a, l)' = <<req[h].data, l>>
         /\ (\A h \in Hosts : ~Writes(h, a, l)) => Cell(a, l)' = Cell(a, l)
<1> USE DEF Cycle
<1> DEFINE writing == sramAcc.op = "write" /\ sramAcc.addr = a /\ l \in sramAcc.lanes
<1>1. a \notin RamWords
  BY WordsAssumption
<1>2. sramMem'[a][l] = IF writing /\ l = Lane THEN <<sramAcc.data, l>> ELSE sramMem[a][l]
  <2>1. sramMem' = IF sramAcc.op = "write" /\ Lane \in sramAcc.lanes
                   THEN [sramMem EXCEPT ![sramAcc.addr][Lane] = <<sramAcc.data, Lane>>]
                   ELSE sramMem
    BY DEF Sram
  <2>2. sramMem[a] = [m \in {0, 1} |-> sramMem[a][m]] /\ a \in DOMAIN sramMem
    BY DEF Halves, TypeOK
  <2> QED  BY <2>1, <2>2
<1>3. ASSUME NEW h \in Hosts, Writes(h, a, l)
      PROVE  sramState = "ACCESS1" /\ DeviceRequest("sram") = req[h]
             /\ h \in Selected("sram")
  <2>1. DeviceOf(req[h]) = "sram"
    BY <1>3 DEF Writes, DeviceOf
  <2>2. ~Wait("sram") /\ DeviceRequest("sram") = req[h] /\ h \in Selected("sram")
    BY <1>3, <2>1, AcceptedIs DEF Writes
  <2> QED  BY <2>2 DEF Wait, TypeOK
<1>4. CASE sramState = "ACCESS1"
  <2>1. sramState' = "ACCESS2" /\ sramAcc' = sramAcc /\ Lane = 0
    BY <1>4 DEF Sram, SramStateNext, TakeNewRequest, Lane
  <2>2. Cell(a, l) = sramMem[a][l]
    BY <1>1, <1>4 DEF Cell, SecondHalf
  <2>3. Cell(a, l)' = IF writing THEN <<sramAcc.data, l>> ELSE sramMem[a][l]
    <3>1. Cell(a, l)' = IF writing /\ l = 1 THEN <<sramAcc.data, 1>> ELSE sramMem'[a][l]
      BY <1>1, <2>1 DEF Cell, SecondHalf
    <3> QED  BY <1>2, <2>1, <3>1
  <2>4. ASSUME NEW h \in Hosts, Writes(h, a, l) PROVE Cell(a, l)' = <<req[h].data, l>>
    <3>1. req[h] = sramAcc
      BY <1>3, <1>4, <2>4, CapturedSelected
    <3>2. writing
      BY <2>4, <3>1 DEF Writes
    <3> QED  BY <2>3, <3>1, <3>2
  <2>5. ASSUME writing PROVE \E h \in Hosts : Writes(h, a, l)
    <3>1. DeviceRequest("sram") = sramAcc /\ Selected("sram") # {}
      BY <1>4, <2>5, CapturedSelected
    <3>2. PICK h \in Selected("sram") : TRUE
      BY <3>1
    <3>3. h \in Hosts /\ req[h] = sramAcc
      BY <3>1, <3>2, SelectedIs DEF Devices
    <3>4. Accepted(h)
      BY <1>4, <3>2 DEF Accepted, Wait, Devices
    <3> QED  BY <2>5, <3>3, <3>4 DEF Writes
  <2> QED  BY <2>2, <2>3, <2>4, <2>5
<1>5. CASE sramState # "ACCESS1"
  <2>1. sramState \in {"IDLE", "ACCESS2"} /\ sramState' # "ACCESS2" /\ Lane = 1
    BY <1>5 DEF Sram, SramStateNext, Lane, TypeOK
  <2>2. Cell(a, l)' = sramMem'[a][l]
    BY <1>1, <2>1 DEF Cell, SecondHalf
  <2>3. sramState = "IDLE" => ~writing
    BY IdleIs DEF Captured
  <2>4. Cell(a, l) = IF writing /\ l = 1 THEN <<sramAcc.data, 1>> ELSE sramMem[a][l]
    BY <1>1, <2>1, <2>3 DEF Cell, SecondHalf
  <2>5. Cell(a, l)' = Cell(a, l)
    BY <1>2, <2>1, <2>2, <2>4
  <2> QED  BY <1>3, <1>5, <2>5
<1> QED  BY <1>4, <1>5

\* Accepted accesses that are served together are for different words.
LEMMA AcceptedApart ==
  ASSUME TypeOK, NEW g \in Hosts, NEW h \in Hosts, Accepted(g), Accepted(h),
         req[g].addr = req[h].addr
  PROVE  g = h
<1>1. DeviceOf(req[g]) = DeviceOf(req[h])
  BY DEF DeviceOf
<1> QED  BY <1>1, AcceptedIs, GrantOne

\* What readdata shows in the cycle after a read was accepted.
LEMMA Readdata ==
  ASSUME TypeOK, Halves, Captured, Cycle, NEW h \in Hosts, Accepted(h), req[h].op = "read"
  PROVE  HostReaddata(h)' = AbstractMem[req[h].addr]
<1> USE DEF Cycle
<1> DEFINE r == req[h]
<1>1. r # Idle /\ r.addr \in Words /\ DeviceRequest(DeviceOf(r)) = r /\ ~Wait(DeviceOf(r))
      /\ h \in Selected(DeviceOf(r))
  BY AcceptedIs
<1>2. prevHit'[h] = DeviceOf(r)
  BY <1>1 DEF Decoders
<1>3. CASE DeviceOf(r) = "ram"
  <2>1. r.addr \in RamWords
    BY <1>1, <1>3 DEF DeviceOf, Words
  <2>2. ramData' = ramMem[r.addr]
    BY <1>1, <1>3 DEF Ram
  <2>3. AbstractMem[r.addr] = ramMem[r.addr]
    BY <1>1, <2>1 DEF AbstractMem
  <2> QED  BY <1>2, <1>3, <2>2, <2>3 DEF HostReaddata
<1>4. CASE DeviceOf(r) = "sram"
  <2>1. sramState = "ACCESS1" /\ r.addr \in SramWords /\ r.addr \notin RamWords
    BY <1>1, <1>4, WordsAssumption DEF DeviceOf, Wait, TypeOK
  <2>2. sramAcc = r
    BY <1>1, <1>4, <2>1, CapturedSelected
  <2>3. sramState' = "ACCESS2" /\ sramAcc' = r
    BY <2>1, <2>2 DEF Sram, SramStateNext, TakeNewRequest
  <2>4. sramMem' = sramMem /\ readdata1st' = sramMem[r.addr][0]
    BY <2>1, <2>2 DEF Sram
  <2>5. HostReaddata(h)' = [l \in {0, 1} |-> IF l = 0 THEN sramMem[r.addr][0]
                                                      ELSE sramMem[r.addr][1]]
    BY <1>2, <1>4, <2>3, <2>4 DEF HostReaddata
  <2>6. AbstractMem[r.addr] = sramMem[r.addr]
    BY <1>1, <2>1 DEF AbstractMem, SecondHalf
  <2>7. sramMem[r.addr] = [l \in {0, 1} |-> sramMem[r.addr][l]]
    BY <2>1 DEF Halves
  <2> QED  BY <2>5, <2>6, <2>7
<1> QED  BY <1>1, <1>3, <1>4 DEF DeviceOf

LEMMA MemoryStep ==
  ASSUME TypeOK, Halves, Captured, Cycle
  PROVE  Memory!Next
<1> USE DEF Cycle
<1>1. /\ \A h \in Hosts : Accepted(h) => served'[h] = req[h]
      /\ \A h \in Hosts : ~Accepted(h) => served'[h] = Idle
      /\ \A h \in Hosts : ~Accepted(h) =>
           req[h] = Idle \/ req'[h] = req[h] \/ req[h].op = "read"
  BY DEF HostsNext
<1>2. Idle = Memory!Idle
  BY DEF Idle, Memory!Idle
<1>3. \A h \in Hosts : Memory!Serve(h)
  BY <1>1, <1>2 DEF Memory!Serve
<1>4. ASSUME NEW h \in Hosts, served'[h].op \in {"read", "write"}
      PROVE  Accepted(h) /\ served'[h] = req[h]
  BY <1>1, <1>4, IdleIs
<1>5. ASSUME NEW g \in Hosts, NEW h \in Hosts, NEW a \in Words,
             \E op, oq \in {"read", "write"} :
               Memory!Performs(g, op, a) /\ Memory!Performs(h, oq, a)
      PROVE  g = h
  BY <1>4, <1>5, AcceptedApart DEF Memory!Performs
<1>6. AbstractMem' = [a \in Words |-> [l \in Memory!Lanes |->
        LET writers == {h \in Hosts : Memory!Performs(h, "write", a)
                                      /\ l \in served'[h].lanes}
        IN IF writers = {} THEN AbstractMem[a][l]
           ELSE Memory!Half(served'[CHOOSE h \in writers : TRUE].data, l)]]
  <2>1. AbstractMem' = [a \in Words |-> [l \in {0, 1} |-> Cell(a, l)']]
    <3>1. Halves'
      BY CycleHalves
    <3>2. (Halves => AbstractMem = [a \in Words |-> [l \in {0, 1} |-> Cell(a, l)]])'
      BY AbstractCells, PTL
    <3> QED  BY <3>1, <3>2
  <2>2. ASSUME NEW a \in Words, NEW l \in {0, 1}
        PROVE  Cell(a, l)' =
                 LET writers == {h \in Hosts : Memory!Performs(h, "write", a)
                                               /\ l \in served'[h].lanes}
                 IN IF writers = {} THEN AbstractMem[a][l]
                    ELSE Memory!Half(served'[CHOOSE h \in writers : TRUE].data, l)
    <3> DEFINE writers == {h \in Hosts : Memory!Performs(h, "write", a)
                                         /\ l \in served'[h].lanes}
    <3>1. AbstractMem[a][l] = Cell(a, l)
      BY AbstractCells
    <3>2. \A h \in Hosts : h \in writers <=> Writes(h, a, l)
      BY <1>1, <1>4 DEF Memory!Performs, Writes
    <3>3. /\ \A h \in Hosts : Writes(h, a, l) => Cell(a, l)' = <<req[h].data, l>>
          /\ (\A h \in Hosts : ~Writes(h, a, l)) => Cell(a, l)' = Cell(a, l)
      <4>1. CASE a \in RamWords
        BY <4>1, RamCell DEF Cell
      <4>2. CASE a \notin RamWords
        BY <4>2, SramCell DEF Words
      <4> QED  BY <4>1, <4>2
    <3>4. CASE writers = {}
      BY <3>1, <3>2, <3>3, <3>4
    <3>5. CASE writers # {}
      <4> DEFINE w == CHOOSE h \in writers : TRUE
      <4>1. w \in writers
        BY <3>5
      <4>2. w \in Hosts /\ Writes(w, a, l) /\ served'[w] = req[w]
        BY <1>1, <3>2, <4>1 DEF Writes
      <4> QED  BY <3>3, <3>5, <4>2 DEF Memory!Half
    <3> QED  BY <3>4, <3>5
  <2> QED  BY <2>1, <2>2 DEF Memory!Lanes
<1>7. ASSUME NEW h \in Hosts, served'[h].op = "read"
      PROVE  HostReaddata(h)' = AbstractMem[served'[h].addr]
  BY <1>4, <1>7, Readdata
<1> QED  BY <1>3, <1>5, <1>6, <1>7 DEF Memory!Next, Memory!Perform

LEMMA MemoryInit == Init => Memory!Init
<1> SUFFICES ASSUME Init PROVE Memory!Init
  OBVIOUS
<1>1. Idle = Memory!Idle
  BY DEF Idle, Memory!Idle
<1>2. AbstractMem = [a \in Words |-> [l \in Memory!Lanes |-> Memory!Half(Reset, l)]]
  BY DEF Init, AbstractMem, SecondHalf, Words, Memory!Lanes, Memory!Half
<1>3. [h \in Hosts |-> IF served[h].op = "read" THEN HostReaddata(h) ELSE NoData]
        = [h \in Hosts |-> NoData]
  BY IdleIs DEF Init
<1> QED  BY <1>1, <1>2, <1>3 DEF Init, Memory!Init

\* Crossbar, arbiters, controller and devices are one memory with atomic
\* accesses: every accepted access is performed once and whole, and each reader
\* gets its own answer, for any number of hosts and any accesses.
THEOREM SharedMemoryImplemented == Spec => ImplementsSharedMemory
<1>1. TypeOK /\ Halves /\ [Next]_vars => Halves'
  <2>1. Halves /\ UNCHANGED vars => Halves'
    BY DEF Halves, vars, sramVars, ramVars
  <2> QED  BY <2>1, CycleHalves, NextIsCycle
<1>2. TypeOK /\ Halves /\ Captured /\ [Next]_vars => [Memory!Next]_(Memory!vars)
  <2>1. UNCHANGED vars => UNCHANGED Memory!vars
    BY DEF vars, sramVars, ramVars, Memory!vars, AbstractMem, SecondHalf, HostReaddata
  <2> QED  BY <2>1, MemoryStep, NextIsCycle
<1> QED
  BY <1>1, <1>2, InitTypes, MemoryInit, CapturedAlways, PTL
     DEF Spec, ImplementsSharedMemory, Memory!Spec
=============================================================================
