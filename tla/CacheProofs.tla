----------------------------- MODULE CacheProofs ----------------------------
(***************************************************************************)
(* What holds of the instruction cache for every number of ways and lines, *)
(* every address space and every set of addresses that are not cached.     *)
(***************************************************************************)
EXTENDS Cache, TLAPS, WellFoundedInduction

-----------------------------------------------------------------------------
\* Remainders

\* Quotient and remainder make up the number.
LEMMA ModSplit ==
  ASSUME NEW M \in Nat \ {0}, NEW a \in Int
  PROVE  /\ a \div M \in Int
         /\ a % M \in 0 .. M - 1
         /\ a = M * (a \div M) + (a % M)
  OBVIOUS

\* The cycles: everything below is about any of them.
LEMMA NextIsCycle == Next => \E wait \in BOOLEAN : Cycle(wait)
BY DEF Next, Bypass, Hit, Miss, Retrieve, NoAccess

-----------------------------------------------------------------------------
\* Addresses and ways

\* Index and tag make up the address.
LEMMA TagAndIndex ==
  ASSUME NEW a \in Addrs, NEW b \in Addrs, TagOf(a) = TagOf(b), IndexOf(a) = IndexOf(b)
  PROVE  a = b
<1> DEFINE D == CACHE_SET_DEPTH
<1>1. D \in Nat \ {0} /\ a \in Int /\ b \in Int
  BY DepthAssumption, AddressAssumption DEF Addrs
<1>2. a \div D = b \div D /\ a % D = b % D
  BY DEF TagOf, IndexOf
<1> HIDE DEF D
<1>3. a = D * (a \div D) + (a % D) /\ b = D * (b \div D) + (b % D)
  BY ONLY <1>1, ModSplit
<1> QED  BY <1>2, <1>3

LEMMA IndexTyped == \A a \in Addrs : IndexOf(a) \in Indices
<1> SUFFICES ASSUME NEW a \in Addrs PROVE IndexOf(a) \in Indices
  OBVIOUS
<1>1. CACHE_SET_DEPTH \in Nat \ {0} /\ a \in Int
  BY DepthAssumption, AddressAssumption DEF Addrs
<1> QED  BY <1>1, ModSplit DEF IndexOf, Indices

\* A set of natural numbers has a least element, one that is bounded a greatest.
LEMMA LeastElement ==
  ASSUME NEW T, T \subseteq Nat, T # {}
  PROVE  \E x \in T : \A y \in T : x <= y
<1> DEFINE R == {ss \in Nat \X Nat : ss[1] < ss[2]}
<1>1. IsWellFoundedOn(R, Nat)
  BY NatLessThanWellFounded DEF OpToRel
<1> HIDE DEF R
<1>2. PICK x \in T : \A y \in T : ~(<<y, x>> \in R)
  BY <1>1, WFMin
<1>3. ASSUME NEW y \in T PROVE x <= y
  <2>1. x \in Nat /\ y \in Nat /\ ~(<<y, x>> \in R)
    BY <1>2
  <2> QED  BY <2>1 DEF R
<1> QED  BY <1>3

LEMMA GreatestElement ==
  ASSUME NEW n \in Nat, NEW T, T \subseteq 0 .. n, T # {}
  PROVE  \E x \in T : \A y \in T : y <= x
<1> DEFINE U == {n - x : x \in T}
<1>1. U \subseteq Nat /\ U # {}
  <2>1. ASSUME NEW x \in T PROVE n - x \in Nat
    BY x \in 0 .. n
  <2> QED  BY <2>1
<1>2. \E u \in U : \A v \in U : u <= v
  <2> HIDE DEF U
  <2> QED  BY <1>1, LeastElement
<1>3. PICK x \in T : \A y \in T : n - x <= n - y
  BY <1>2
<1> QED  BY <1>3

\* The way of a hit is a way, and one that hits if any does.
LEMMA HitSetIdIs == HitSetId \in Ways /\ (SetHit # {} => HitSetId \in SetHit)
<1>1. 0 \in Ways /\ SetHit \subseteq Ways /\ CACHE_WAYS - 1 \in Nat /\ Ways = 0 .. CACHE_WAYS - 1
  BY WaysAssumption DEF Ways, SetHit
<1>2. SetHit # {} => \E w \in SetHit : \A x \in SetHit : x <= w
  BY <1>1, GreatestElement
<1> QED  BY <1>1, <1>2 DEF HitSetId

\* The victim is a way.
LEMMA VictimIs == VictimSetId \in Ways
BY WaysAssumption DEF VictimSetId, VictimSet, SetNru, Ways

-----------------------------------------------------------------------------
\* Types

LEMMA InitTypes == Init => TypeOK
<1>1. 0 \in Addrs /\ 0 \in Ways /\ IndexOf(0) \in Indices
  BY IndexTyped, AddressAssumption, WaysAssumption DEF Addrs, Ways
<1>2. TagOf(0) = 0
  <2>1. CACHE_SET_DEPTH \in Nat \ {0} /\ 0 \in 0 .. CACHE_SET_DEPTH - 1
    BY DepthAssumption
  <2> QED  BY <2>1 DEF TagOf
<1>3. 0 \in {TagOf(a) : a \in Addrs}
  BY <1>1, <1>2
<1> QED  BY <1>1, <1>3 DEF Init, TypeOK, Words

LEMMA CycleTypes ==
  ASSUME TypeOK, NEW wait \in BOOLEAN, Cycle(wait)
  PROVE  TypeOK'
<1> USE DEF Cycle
<1>1. coreAddress \in Addrs /\ Index \in Indices
  BY IndexTyped DEF TypeOK, Index
<1>2. coreRead' \in BOOLEAN /\ coreAddress' \in Addrs /\ io' \in IoWords
  BY DEF Host
<1>3. Word(coreAddress) \in Words /\ NoWord \in Words
  BY <1>1 DEF Word, Words, TypeOK
<1>4. want' \in Words /\ memData' \in Words
  BY <1>3 DEF Host, Bus
<1>5. openRead' \in Words
  BY <1>1 DEF Bus, Words
<1>6. state' \in {"IDLE", "RETRIVE"}
  BY DEF Edge, StateNext, TypeOK
<1>7. addressS1' \in Addrs /\ hitSetIdS1' \in Ways /\ victimSetIdS1' \in Ways
  BY <1>1, HitSetIdIs, VictimIs DEF Edge
<1>8. readFromMemory' \in BOOLEAN
  BY DEF Edge, MemFire
<1>9. setReaddata' \in [Ways -> Words]
  BY <1>1 DEF Edge, TypeOK
<1>10. nru' \in [Ways \X Indices -> BOOLEAN]
  BY DEF Edge, NruNext, TypeOK
<1>11. /\ valid' \in [Ways \X Indices -> BOOLEAN]
       /\ tag' \in [Ways \X Indices -> {TagOf(a) : a \in Addrs}]
       /\ data' \in [Ways \X Indices -> Words]
  <2>1. addressS1 \in Addrs /\ IndexOf(addressS1) \in Indices /\ victimSetIdS1 \in Ways
        /\ memData \in Words
    BY IndexTyped DEF TypeOK
  <2>2. TagOf(addressS1) \in {TagOf(a) : a \in Addrs}
    BY <2>1
  <2> QED  BY <2>1, <2>2 DEF Edge, Fill, TypeOK
<1> QED
  BY <1>2, <1>4, <1>5, <1>6, <1>7, <1>8, <1>9, <1>10, <1>11 DEF TypeOK, Words

LEMMA NextTypes == TypeOK /\ [Next]_vars => TypeOK'
<1>1. TypeOK /\ UNCHANGED vars => TypeOK'
  BY DEF TypeOK, vars, regs, lineVars, env
<1> QED  BY <1>1, NextIsCycle, CycleTypes

\* The registers, the lines and the request keep their types.
THEOREM CacheTypes == Spec => []TypeOK
BY InitTypes, NextTypes, PTL DEF Spec

-----------------------------------------------------------------------------
\* What the cache returns

\* What ReadReturnsWord does not say: a line with the tag of a cacheable address
\* holds its word, also in a way that no read looks at now; so does the word
\* that is being filled; and the miss that is being retrieved is cacheable.
LinesAreMemory ==
  \A a \in Addrs \ Uncached, w \in Ways :
    valid[<<w, IndexOf(a)>>] /\ tag[<<w, IndexOf(a)>>] = TagOf(a) => data[<<w, IndexOf(a)>>] = a
FillIsMemory == readFromMemory /\ addressS1 \notin Uncached => memData = addressS1
RetrieveCacheable == state = "RETRIVE" => ~nonCacheable

Coherent == LinesAreMemory /\ FillIsMemory /\ RetrieveCacheable
            /\ ReadReturnsWord /\ MemRequestStable

LEMMA InitCoherent == Init => Coherent
BY IndexTyped DEF Init, Coherent, LinesAreMemory, FillIsMemory, RetrieveCacheable,
  ReadReturnsWord, MemRequestStable

LEMMA CycleCoherent ==
  ASSUME TypeOK, Coherent, NEW wait \in BOOLEAN, Cycle(wait)
  PROVE  Coherent'
<1> USE DEF Cycle
<1>1. coreAddress \in Addrs /\ Index \in Indices /\ coreAddress # NoWord
  BY IndexTyped, WordsAssumption DEF TypeOK, Index, Addrs
<1>2. LinesAreMemory'
  <2> SUFFICES ASSUME NEW a \in Addrs \ Uncached, NEW w \in Ways,
                      valid'[<<w, IndexOf(a)>>], tag'[<<w, IndexOf(a)>>] = TagOf(a)
               PROVE  data'[<<w, IndexOf(a)>>] = a
    BY DEF LinesAreMemory
  <2>1. IndexOf(a) \in Indices /\ IndexOf(addressS1) \in Indices /\ addressS1 \in Addrs
        /\ victimSetIdS1 \in Ways
    BY IndexTyped DEF TypeOK
  <2>2. CASE readFromMemory /\ w = victimSetIdS1 /\ IndexOf(a) = IndexOf(addressS1)
    <3>1. tag'[<<w, IndexOf(a)>>] = TagOf(addressS1) /\ data'[<<w, IndexOf(a)>>] = memData
      BY <2>1, <2>2 DEF Edge, Fill, TypeOK
    <3>2. a = addressS1
      BY <2>1, <2>2, <3>1, TagAndIndex
    <3> QED  BY <2>2, <3>1, <3>2 DEF Coherent, FillIsMemory
  <2>3. CASE ~(readFromMemory /\ w = victimSetIdS1 /\ IndexOf(a) = IndexOf(addressS1))
    <3>1. /\ valid'[<<w, IndexOf(a)>>] = valid[<<w, IndexOf(a)>>]
          /\ tag'[<<w, IndexOf(a)>>] = tag[<<w, IndexOf(a)>>]
          /\ data'[<<w, IndexOf(a)>>] = data[<<w, IndexOf(a)>>]
      BY <2>1, <2>3 DEF Edge, Fill, TypeOK
    <3> QED  BY <3>1 DEF Coherent, LinesAreMemory
  <2> QED  BY <2>2, <2>3
<1>3. FillIsMemory'
  BY DEF FillIsMemory, Edge, Bus, Word
<1>4. RetrieveCacheable' /\ MemRequestStable'
  <2>1. state \in {"IDLE", "RETRIVE"}
    BY DEF TypeOK
  <2>2. ASSUME wait, state = "RETRIVE" \/ (~nonCacheable /\ cacheMiss)
        PROVE  state' = "RETRIVE" /\ coreAddress' = coreAddress /\ ~nonCacheable
    BY <2>1, <2>2 DEF Edge, StateNext, Host, CoreWait, Coherent, RetrieveCacheable
  <2>3. ASSUME state' = "RETRIVE"
        PROVE  wait /\ (state = "RETRIVE" \/ (~nonCacheable /\ cacheMiss))
    BY <2>1, <2>3 DEF Edge, StateNext
  <2>4. ASSUME openRead' # NoWord
        PROVE  /\ wait /\ openRead' = coreAddress
               /\ state = "RETRIVE" \/ (~nonCacheable /\ cacheMiss)
    BY <2>1, <2>4 DEF Bus, MemRead
  <2>5. RetrieveCacheable'
    BY <2>2, <2>3 DEF RetrieveCacheable, nonCacheable
  <2>6. MemRequestStable'
    BY <2>2, <2>4 DEF MemRequestStable, MemRead
  <2> QED  BY <2>5, <2>6
<1>5. ReadReturnsWord'
  <2> SUFFICES ASSUME want' # NoWord PROVE CoreReaddata' = want'
    BY DEF ReadReturnsWord
  <2>1. coreRead /\ ~CoreWait(wait) /\ want' = Word(coreAddress)
    BY DEF Host, CoreFire
  <2>2. readFromMemory' = MemFire(wait) /\ (MemFire(wait) => memData' = Word(coreAddress))
    BY DEF Edge, Bus
  <2>3. CASE MemFire(wait)
    BY <2>1, <2>2, <2>3 DEF CoreReaddata
  <2>4. CASE ~MemFire(wait)
    <3>1. state \in {"IDLE", "RETRIVE"}
      BY DEF TypeOK
    <3>2. ~nonCacheable /\ SetHit # {}
      BY <2>1, <2>4, <3>1 DEF MemFire, MemRead, CoreWait, cacheMiss
    <3>3. HitSetId \in Ways /\ HitSetId \in SetHit
      BY <3>2, HitSetIdIs
    <3>4. data[<<HitSetId, Index>>] = coreAddress
      BY <1>1, <3>2, <3>3 DEF SetHit, Index, nonCacheable, Coherent, LinesAreMemory
    <3>5. setReaddata'[hitSetIdS1'] = coreAddress
      BY <3>3, <3>4 DEF Edge
    <3> QED  BY <2>1, <2>2, <2>4, <3>2, <3>5 DEF CoreReaddata, Word, nonCacheable
  <2> QED  BY <2>3, <2>4
<1> QED  BY <1>2, <1>3, <1>4, <1>5 DEF Coherent

LEMMA NextCoherent == TypeOK /\ Coherent /\ [Next]_vars => Coherent'
<1>1. Coherent /\ UNCHANGED vars => Coherent'
  BY DEF Coherent, LinesAreMemory, FillIsMemory, RetrieveCacheable, nonCacheable,
    ReadReturnsWord, CoreReaddata, MemRequestStable, MemRead, cacheMiss, SetHit, Index,
    vars, regs, lineVars, env
<1> QED  BY <1>1, NextIsCycle, CycleCoherent

LEMMA CoherentAlways == Spec => []Coherent
BY InitTypes, NextTypes, InitCoherent, NextCoherent, PTL DEF Spec

\* To the fetch unit the cache is the memory: each read that is taken gets the
\* word at its address, whatever is filled, evicted or withdrawn meanwhile.
THEOREM CacheTransparent == Spec => []ReadReturnsWord
BY CoherentAlways, PTL DEF Coherent

\* A miss that the bus holds off is asked for until it is taken.
THEOREM MissKept == Spec => []MemRequestStable
BY CoherentAlways, PTL DEF Coherent
=============================================================================
