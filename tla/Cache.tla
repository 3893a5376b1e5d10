------------------------------- MODULE Cache -------------------------------
(***************************************************************************)
(* The instruction cache (src/rtl/cache/cache.sv, cache_set.sv and the two *)
(* RAMs) between the fetch unit and the instruction bus.                   *)
(*                                                                         *)
(* A step is one rising clock edge.  The fetch unit only reads, so no line *)
(* is ever dirty and the states FLUSH and WRITE are not reachable: they    *)
(* are left out with the rest of the write path, which only the data cache *)
(* (USE_DCACHE, not defined) would use.                                    *)
(*                                                                         *)
(* A line is one word.  The word at a cacheable address is represented by  *)
(* the address; a word of the peripherals (address bit 31 set) changes at  *)
(* any time.  The host keeps its address while waitrequest is high, as Ifu *)
(* does (BusAddressStable), but may withdraw the read.                     *)
(***************************************************************************)
EXTENDS Integers

CONSTANTS
  CACHE_SET_DEPTH,  \* lines of a way
  CACHE_WAYS,
  AddrMod,          \* number of word addresses
  Uncached,         \* the addresses that are not cacheable
  IoWords,          \* what a peripheral can answer
  NoWord            \* bus data that answers no read, no address

ASSUME DepthAssumption   == CACHE_SET_DEPTH \in Nat \ {0}
ASSUME WaysAssumption    == CACHE_WAYS \in Nat \ {0}
ASSUME AddressAssumption == AddrMod \in Nat \ {0} /\ Uncached \subseteq 0 .. AddrMod - 1
ASSUME WordsAssumption   == NoWord \notin (0 .. AddrMod - 1) \cup IoWords

VARIABLES
  state,           \* "IDLE" or "RETRIVE"
  valid, tag, data,\* the lines: functions of way and index
  nru,             \* not-recently-used bits
  setReaddata,     \* output registers of the data RAMs, one per way
  addressS1,       \* address, hit and victim way of the previous cycle
  hitSetIdS1,
  victimSetIdS1,
  readFromMemory,  \* the bus took a read in the previous cycle
  coreRead,        \* the host's request
  coreAddress,
  memData,         \* readdata of the instruction bus
  io,              \* current word of the peripherals
  want,            \* history: the word the host has to get in this cycle
  openRead         \* history: cacheable address of a read the bus holds off

lineVars == <<valid, tag, data, nru, setReaddata>>
regs == <<state, lineVars, addressS1, hitSetIdS1, victimSetIdS1, readFromMemory>>
env  == <<coreRead, coreAddress, memData, io, want, openRead>>
vars == <<regs, env>>

Addrs   == 0 .. AddrMod - 1
Ways    == 0 .. CACHE_WAYS - 1
Indices == 0 .. CACHE_SET_DEPTH - 1

IndexOf(a) == a % CACHE_SET_DEPTH
TagOf(a)   == a \div CACHE_SET_DEPTH

\* The word at address a: of the memory, or of a peripheral.
Word(a) == IF a \in Uncached THEN io ELSE a

-----------------------------------------------------------------------------
\* Wires

Index == IndexOf(coreAddress)
nonCacheable == coreAddress \in Uncached

\* Mutant: the tag is not compared.
SetHit_NoTag == {w \in Ways : valid[<<w, Index>>]}

SetHit == {w \in Ways : valid[<<w, Index>>] /\ tag[<<w, Index>>] = TagOf(coreAddress)}
SetNru == {w \in Ways : nru[<<w, Index>>]}

cacheMiss == coreRead /\ SetHit = {}
cacheHit  == coreRead /\ SetHit # {}

\* onehot2binary, 0 of an empty set; the highest way wins.
HitSetId == IF SetHit = {} THEN 0
            ELSE CHOOSE w \in SetHit : \A x \in SetHit : x <= w

\* bit_scan(set_nru): the lowest way not recently used, as a set.
VictimSet == {w \in SetNru : \A x \in SetNru : w <= x}
\* Mutant: counts ways from one.
VictimSetId_FromOne == IF VictimSet = {} THEN 0 ELSE (CHOOSE w \in VictimSet : TRUE) + 1

VictimSetId == IF VictimSet = {} THEN 0 ELSE CHOOSE w \in VictimSet : TRUE

\* Mutant: in RETRIVE the bus request follows the host's.
MemRead_FollowsHost ==
  \/ state = "IDLE" /\ nonCacheable /\ coreRead
  \/ state = "IDLE" /\ ~nonCacheable /\ cacheMiss
  \/ state = "RETRIVE" /\ coreRead

\* mem_avn_req.read; its address is coreAddress.
MemRead ==
  \/ state = "IDLE" /\ nonCacheable /\ coreRead
  \/ state = "IDLE" /\ ~nonCacheable /\ cacheMiss
  \/ state = "RETRIVE"
MemFire(wait) == MemRead /\ ~wait

\* core_avn_resp.waitrequest
CoreWait(wait) ==
  /\ wait
  /\ \/ state = "IDLE" /\ (nonCacheable \/ cacheMiss)
     \/ state = "RETRIVE"
CoreFire(wait) == coreRead /\ ~CoreWait(wait)

CoreReaddata == IF readFromMemory THEN memData ELSE setReaddata[hitSetIdS1]

-----------------------------------------------------------------------------
\* Registers

StateNext(wait) ==
  IF state = "IDLE" /\ ~nonCacheable /\ cacheMiss /\ wait THEN "RETRIVE"
  ELSE IF state = "RETRIVE" /\ ~wait THEN "IDLE"
  ELSE state

\* The word the bus took a read for is stored one cycle later, in every case.
Fill ==
  LET line == <<victimSetIdS1, IndexOf(addressS1)>>
  IN /\ valid' = IF readFromMemory THEN [valid EXCEPT ![line] = TRUE] ELSE valid
     /\ tag' = IF readFromMemory THEN [tag EXCEPT ![line] = TagOf(addressS1)] ELSE tag
     /\ data' = IF readFromMemory THEN [data EXCEPT ![line] = memData] ELSE data

\* Ways whose bit at Index is cleared, and set: on a hit in IDLE, and when the
\* bus has taken the read in RETRIVE.  Clearing wins.
ClrNru(wait) == CASE state = "IDLE" /\ cacheHit -> SetHit
                  [] state = "RETRIVE" /\ ~wait -> VictimSet
                  [] OTHER                      -> {}
SetSetNru(wait) == CASE state = "IDLE" /\ cacheHit /\ SetNru = SetHit -> Ways \ SetHit
                     [] state = "RETRIVE" /\ ~wait /\ SetNru = VictimSet -> Ways \ VictimSet
                     [] OTHER -> {}

NruNext(wait) ==
  [l \in Ways \X Indices |->
     IF l[2] # Index THEN nru[l]
     ELSE l[1] \notin ClrNru(wait) /\ (l[1] \in SetSetNru(wait) \/ nru[l])]

Edge(wait) ==
  /\ state' = StateNext(wait)
  /\ Fill
  /\ nru' = NruNext(wait)
  /\ setReaddata' = [w \in Ways |-> data[<<w, Index>>]]
  /\ addressS1' = coreAddress
  /\ hitSetIdS1' = HitSetId
  /\ victimSetIdS1' = VictimSetId
  /\ readFromMemory' = MemFire(wait)

-----------------------------------------------------------------------------
\* The instruction bus answers one cycle after it took the read.
Bus(wait) ==
  /\ memData' = IF MemFire(wait) THEN Word(coreAddress) ELSE NoWord
  /\ openRead' = IF MemRead /\ wait /\ ~nonCacheable THEN coreAddress ELSE NoWord

\* The fetch unit.
Host(wait) ==
  /\ coreRead' \in BOOLEAN
  /\ coreAddress' \in Addrs
  /\ CoreWait(wait) => coreAddress' = coreAddress
  /\ want' = IF CoreFire(wait) THEN Word(coreAddress) ELSE NoWord

Init ==
  /\ state = "IDLE"
  /\ valid = [l \in Ways \X Indices |-> FALSE]
  /\ tag = [l \in Ways \X Indices |-> 0]
  /\ data = [l \in Ways \X Indices |-> NoWord]
  /\ nru = [l \in Ways \X Indices |-> TRUE]
  /\ setReaddata = [w \in Ways |-> NoWord]
  /\ addressS1 = 0 /\ hitSetIdS1 = 0 /\ victimSetIdS1 = 0 /\ readFromMemory = FALSE
  /\ coreRead = FALSE /\ coreAddress = 0
  /\ memData = NoWord /\ io \in IoWords /\ want = NoWord /\ openRead = NoWord

Cycle(wait) == Edge(wait) /\ Bus(wait) /\ Host(wait) /\ io' \in IoWords

\* What a cycle can be.
Bypass   == \E wait \in BOOLEAN : state = "IDLE" /\ coreRead /\ nonCacheable /\ Cycle(wait)
Hit      == \E wait \in BOOLEAN : state = "IDLE" /\ ~nonCacheable /\ cacheHit /\ Cycle(wait)
Miss     == \E wait \in BOOLEAN : state = "IDLE" /\ ~nonCacheable /\ cacheMiss /\ Cycle(wait)
Retrieve == \E wait \in BOOLEAN : state = "RETRIVE" /\ Cycle(wait)
NoAccess == \E wait \in BOOLEAN : state = "IDLE" /\ ~coreRead /\ Cycle(wait)

Next == Bypass \/ Hit \/ Miss \/ Retrieve \/ NoAccess

Spec == Init /\ [][Next]_vars

-----------------------------------------------------------------------------
\* Properties

Words == Addrs \cup IoWords \cup {NoWord}

TypeOK ==
  /\ state \in {"IDLE", "RETRIVE"}
  /\ valid \in [Ways \X Indices -> BOOLEAN]
  /\ tag \in [Ways \X Indices -> {TagOf(a) : a \in Addrs}]
  /\ data \in [Ways \X Indices -> Words]
  /\ nru \in [Ways \X Indices -> BOOLEAN]
  /\ setReaddata \in [Ways -> Words]
  /\ addressS1 \in Addrs /\ hitSetIdS1 \in Ways /\ victimSetIdS1 \in Ways
  /\ readFromMemory \in BOOLEAN /\ coreRead \in BOOLEAN /\ coreAddress \in Addrs
  /\ memData \in Words /\ io \in IoWords
  /\ want \in Words /\ openRead \in Words

\* Every read the cache takes is answered in the next cycle with the word at
\* its address - from a line, from the bus in the same cycle, or for a
\* peripheral always from the bus - whatever was filled, evicted, withdrawn or
\* requested meanwhile: to the fetch unit the cache is the memory it assumes.
ReadReturnsWord == want # NoWord => CoreReaddata = want

\* The request of a miss on the instruction bus stays until it is taken, also
\* when the fetch unit withdraws its read.
MemRequestStable == openRead # NoWord => MemRead /\ coreAddress = openRead
=============================================================================
