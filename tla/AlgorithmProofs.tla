--------------------------- MODULE AlgorithmProofs ---------------------------
(***************************************************************************)
(* Theorems about the two components that compute.                         *)
(*                                                                         *)
(* Divider, for every width: the long division keeps                       *)
(* dividend = quotient * divisor + rest, and the output is therefore the   *)
(* result the RISC-V M extension specifies.                                *)
(*                                                                         *)
(* CoreMark, for every set of builds within ParametersAssumption and any   *)
(* kernels of the other two benchmarks within KernelsAssumption: no header *)
(* of the list is ever lost, each of the three sorts of an iteration       *)
(* returns a sorted list and is stable, every iteration begins with the    *)
(* list the program was initialised with, and the blocks of the three      *)
(* algorithms do not overlap.                                              *)
(***************************************************************************)
EXTENDS Divider, CoreMark, TLAPS, WellFoundedInduction, SequenceTheorems, FiniteSetTheorems

-----------------------------------------------------------------------------
(***************************************************************************)
(* The divider                                                             *)
(***************************************************************************)

-----------------------------------------------------------------------------
\* Remainders

\* A remainder is determined by any way to write the number.
LEMMA ModUnique ==
  ASSUME NEW M \in Nat \ {0}, NEW q \in Int, NEW r \in 0 .. M - 1
  PROVE  (M * q + r) % M = r
  OBVIOUS

\* Quotient and remainder make up the number.
LEMMA ModSplit ==
  ASSUME NEW M \in Nat \ {0}, NEW a \in Int
  PROVE  /\ a \div M \in Int
         /\ a % M \in 0 .. M - 1
         /\ a = M * (a \div M) + (a % M)
  OBVIOUS

\* A multiple of the modulus does not matter.
LEMMA ModShift ==
  ASSUME NEW M \in Nat \ {0}, NEW q \in Int, NEW a \in Int
  PROVE  (M * q + a) % M = a % M
<1> DEFINE d == a \div M
           e == a % M
<1>1. d \in Int /\ e \in 0 .. M - 1 /\ a = M * d + e
  BY ModSplit
<1> HIDE DEF d, e
<1>2. (M * (q + d) + e) % M = e
  <2>1. q + d \in Int  BY <1>1
  <2> QED  BY <1>1, <2>1, ModUnique
<1>3. M * q + a = M * (q + d) + e
  BY <1>1
<1>4. (M * q + a) % M = e
  BY <1>2, <1>3
<1> QED  BY <1>4 DEF e

-----------------------------------------------------------------------------
\* Powers, registers and signs

\* The powers are positive, and 2^WIDTH is twice the sign bit.
LEMMA Powers ==
  /\ WIDTH \in Nat \ {0}
  /\ \A n \in 0 .. WIDTH : Power[n] \in Nat \ {0}
  /\ \A n \in 0 .. WIDTH - 1 : Power[n + 1] = 2 * Power[n]
  /\ Power[0] = 1
  /\ Power[WIDTH] = 2 * Power[WIDTH - 1]
<1>1. WIDTH - 1 \in 0 .. WIDTH - 1 /\ (WIDTH - 1) + 1 = WIDTH
  BY WidthAssumption
<1> QED  BY <1>1, WidthAssumption, PowerAssumption

\* Negation modulo 2^WIDTH stays in a register.
LEMMA NegateWord ==
  ASSUME NEW x \in Words
  PROVE  /\ Negate(x) \in Words
         /\ Negate(x) = (-x) % Power[WIDTH]
<1> DEFINE M == Power[WIDTH]
           y == -x
<1>1. M \in Nat \ {0} /\ 1 \in Int
  BY Powers
<1>2. x \in Int /\ y \in Int /\ M - x \in Int /\ M - x = M * 1 + y
  BY <1>1 DEF Words
<1> HIDE DEF M, y
<1>3. (M * 1 + y) % M = y % M
  BY ONLY <1>1, <1>2, ModShift
<1>4. (M - x) % M \in 0 .. M - 1
  BY <1>1, <1>2, ModSplit
<1>5. (M - x) % M = y % M
  BY ONLY <1>2, <1>3
<1> QED  BY <1>4, <1>5 DEF Negate, Words, M, y

\* A word is its own remainder.
LEMMA WordMod ==
  ASSUME NEW x \in Words
  PROVE  x % Power[WIDTH] = x
<1>1. Power[WIDTH] \in Nat \ {0} /\ x = Power[WIDTH] * 0 + x
  BY Powers DEF Words
<1> QED  BY <1>1, ModUnique DEF Words

\* What is converted to an unsigned number is the absolute value.
LEMMA UnsignedAbs ==
  ASSUME NEW opcode \in Opcodes, NEW x \in Words
  PROVE  /\ Unsigned(opcode, x) \in Words
         /\ Signed(x) \in Int
         /\ Negative(x) <=> Signed(x) < 0
         /\ Signed(x) = 0 <=> x = 0
         /\ Unsigned(opcode, x) = 0 <=> x = 0
         /\ opcode \in SignedOpcodes => Unsigned(opcode, x) = Abs(Signed(x))
         /\ opcode \notin SignedOpcodes => Unsigned(opcode, x) = x
<1> DEFINE M == Power[WIDTH]
           H == Power[WIDTH - 1]
<1>1. M \in Nat \ {0} /\ H \in Nat \ {0} /\ M = 2 * H
  BY Powers
<1>2. x \in 0 .. M - 1
  BY DEF Words
<1>3. CASE Negative(x)
  <2>1. x >= H  BY <1>3 DEF Negative
  <2> HIDE DEF M, H
  <2>2. M - x \in 0 .. M - 1 /\ M - x = M * 0 + (M - x) /\ M - x > 0
    BY <1>1, <1>2, <2>1
  <2>3. (M - x) % M = M - x
    BY <1>1, <2>2, ModUnique
  <2>4. Negate(x) = M - x
    BY <2>3 DEF Negate, M
  <2>5. Signed(x) = x - M
    BY <1>3 DEF Signed, M
  <2>6. Abs(Signed(x)) = M - x /\ Signed(x) < 0
    BY <1>2, <2>2, <2>5, <1>1 DEF Abs
  <2> QED
    BY <1>1, <1>2, <1>3, <2>2, <2>4, <2>5, <2>6 DEF Unsigned, Words, M
<1>4. CASE ~Negative(x)
  <2>1. Signed(x) = x /\ Unsigned(opcode, x) = x /\ Abs(x) = x
    BY <1>2, <1>4 DEF Signed, Unsigned, Abs
  <2> QED  BY <1>2, <1>4, <2>1 DEF Words
<1> QED  BY <1>3, <1>4

-----------------------------------------------------------------------------
\* The long division

\* The inductive invariant of the divider.
IInv == DivTypeOK /\ LongDivision

\* One iteration: with s the divisor one position further down, the quotient
\* gets the bit that says whether s fits, and what fits is taken away.
LEMMA OneIteration ==
  ASSUME NEW n \in Nat, NEW q \in Nat, NEW d \in Nat, NEW s \in Nat \ {0},
         n = q * (2 * s) + d, d < 2 * s
  PROVE  /\ d >= s => /\ d - s < s /\ d - s \in Nat
                      /\ n = (2 * q + 1) * s + (d - s)
         /\ d < s => n = (2 * q) * s + d
         /\ d >= s => 2 * q + 1 <= n
         /\ 2 * q <= n
<1>1. q * (2 * s) = (2 * q) * s /\ (2 * q + 1) * s = (2 * q) * s + s
  OBVIOUS
<1>2. (2 * q) * s >= 2 * q
  <2> DEFINE t == 2 * q
             u == s - 1
  <2>1. t \in Nat /\ u \in Nat /\ s = u + 1  OBVIOUS
  <2> HIDE DEF t, u
  <2>2. t * (u + 1) = t * u + t /\ t * u \in Nat  BY <2>1
  <2> QED  BY <2>1, <2>2 DEF t
<1>3. (2 * q) * s \in Nat  OBVIOUS
<1> DEFINE w == (2 * q) * s
<1>4. n = w + d /\ (2 * q + 1) * s = w + s /\ w >= 2 * q /\ w \in Nat
  BY <1>1, <1>2, <1>3
<1> HIDE DEF w
<1> QED  BY <1>4 DEF w

\* The position moves down by one in each iteration.
LEMMA PositionStep ==
  ASSUME NEW i \in 0 .. WIDTH - 1, Power[i] * Power[WIDTH - i] = Power[WIDTH]
  PROVE  /\ Power[i + 1] = 2 * Power[i]
         /\ Power[WIDTH - i] = 2 * Power[WIDTH - 1 - i]
         /\ Power[i + 1] * Power[WIDTH - (i + 1)] = Power[WIDTH]
         /\ Power[i + 1] <= Power[WIDTH]
<1>1. /\ i + 1 \in 0 .. WIDTH /\ i \in 0 .. WIDTH /\ WIDTH - 1 - i \in 0 .. WIDTH - 1
      /\ (WIDTH - 1 - i) + 1 = WIDTH - i /\ WIDTH - (i + 1) = WIDTH - 1 - i
  BY Powers
<1> DEFINE p == Power[i]
           r == Power[WIDTH - 1 - i]
           M == Power[WIDTH]
<1>2. p \in Nat \ {0} /\ r \in Nat \ {0} /\ Power[i + 1] = 2 * p /\ Power[WIDTH - i] = 2 * r /\ M \in Nat
  BY <1>1, Powers
<1>3. p * (2 * r) = M
  BY <1>2
<1> HIDE DEF p, r, M
<1>4. (2 * p) * r = M /\ (2 * p) <= (2 * p) * r
  <2>1. p * (2 * r) = (2 * p) * r  BY <1>2
  <2> DEFINE t == 2 * p
             u == r - 1
  <2>2. t \in Nat /\ u \in Nat /\ r = u + 1  BY <1>2
  <2> HIDE DEF t, u
  <2>3. t * (u + 1) = t * u + t /\ t * u \in Nat  BY <2>2
  <2> QED  BY <1>3, <2>1, <2>2, <2>3 DEF t
<1> QED  BY <1>1, <1>2, <1>4 DEF p, r, M

\* The subtraction never leaves the dividend's register.
LEMMA ReduceWord ==
  ASSUME DivTypeOK, Reduce
  PROVE  dividend' \in Words
<1>1. /\ divisor \in Nat /\ dividend \in 0 .. Power[WIDTH] - 1 /\ iterations \in 0 .. WIDTH + 1
      /\ Power[WIDTH] \in Nat \ {0} /\ WIDTH \in Nat
  BY Powers DEF DivTypeOK, Words
<1>2. ShiftedDivisor \in Nat
  <2>1. CASE iterations < WIDTH
    <3>1. WIDTH - 1 - iterations \in 0 .. WIDTH
      BY <1>1, <2>1
    <3>2. Power[WIDTH - 1 - iterations] \in Nat
      BY <3>1, Powers
    <3> DEFINE p == Power[WIDTH - 1 - iterations]
    <3> HIDE DEF p
    <3>3. divisor * p \in Nat
      BY <1>1, <3>2 DEF p
    <3> QED  BY <2>1, <3>3 DEF ShiftedDivisor, p
  <2>2. CASE ~(iterations < WIDTH)
    BY <1>1, <2>2 DEF ShiftedDivisor
  <2> QED  BY <2>1, <2>2
<1> DEFINE s == ShiftedDivisor
<1>3. s \in Nat  BY <1>2
<1>4. dividend' = IF dividend >= s THEN dividend - s ELSE dividend
  BY DEF Reduce, Fits
<1> HIDE DEF s
<1> QED  BY <1>1, <1>3, <1>4 DEF Words

\* The divider begins with it.
LEMMA InitIInv == DivInit => IInv
<1>1. Power[WIDTH] \in Nat \ {0} /\ WIDTH \in Nat
  BY Powers
<1> SUFFICES ASSUME DivInit PROVE IInv
  OBVIOUS
<1>2. 0 \in Words /\ 0 \in Opcodes /\ 0 \in 0 .. WIDTH + 1
  BY <1>1 DEF Words, Opcodes
<1>3. request \in Requests
  BY <1>2 DEF DivInit, Requests
<1>4. DivTypeOK
  BY <1>2, <1>3 DEF DivInit, DivTypeOK
<1> QED  BY <1>4 DEF DivInit, IInv, LongDivision

\* Accepting a division establishes the equation: nothing is divided yet.
LEMMA AcceptIInv ==
  ASSUME DivTypeOK, NEW opcode \in Opcodes, NEW a \in Words, NEW b \in Words,
         Accept(opcode, a, b)
  PROVE  IInv'
<1> USE DEF Accept
<1>1. WIDTH \in Nat /\ Power[WIDTH] \in Nat \ {0} /\ Power[0] = 1
  BY Powers
<1>2. /\ Unsigned(opcode, a) \in Words /\ Unsigned(opcode, b) \in Words
      /\ Unsigned(opcode, b) = 0 <=> b = 0
  BY UnsignedAbs
<1>3. DivTypeOK'
  <2>1. quotient' \in Words /\ iterations' \in 0 .. WIDTH + 1
    BY <1>1 DEF Words
  <2>2. is_rem' \in BOOLEAN /\ quotient_negate' \in BOOLEAN /\ remainder_negate' \in BOOLEAN
    BY DEF QuotientNegate
  <2> QED  BY <1>2, <2>1, <2>2 DEF DivTypeOK, Requests
<1>4. LongDivision'
  <2>1. iterations' = 0 /\ WIDTH - iterations' = WIDTH /\ iterations' \in 0 .. WIDTH
    BY <1>1
  <2>2. Position' = Power[WIDTH]
    BY <2>1 DEF Position
  <2> DEFINE M == Power[WIDTH]
             n == Unsigned(opcode, a)
             D == Unsigned(opcode, b)
  <2>3. n \in 0 .. M - 1 /\ D \in 0 .. M - 1 /\ M \in Nat \ {0}
    BY <1>1, <1>2 DEF Words
  <2>4. Power[iterations'] * Position' = M /\ quotient' < Power[iterations']
    BY <1>1, <2>1, <2>2
  <2>5. D = 0 => dividend' = n /\ quotient' = Power[iterations'] - 1
    BY <1>1, <2>1
  <2>6. D # 0 => dividend' < D * M /\ n = quotient' * (D * M) + dividend'
    <3>1. quotient' = 0 /\ dividend' = n  OBVIOUS
    <3> HIDE DEF M, n, D
    <3>2. D # 0 => n < D * M
      <4> DEFINE u == D - 1
      <4>1. D # 0 => u \in Nat /\ D = u + 1  BY <2>3
      <4> HIDE DEF u
      <4>2. D # 0 => (u + 1) * M = u * M + M /\ u * M \in Nat  BY <2>3, <4>1
      <4> QED  BY <2>3, <4>1, <4>2
    <3>3. 0 * (D * M) = 0
      BY <2>3
    <3> QED  BY <2>3, <3>1, <3>2, <3>3
  <2> QED  BY <2>1, <2>2, <2>4, <2>5, <2>6 DEF LongDivision, M
<1> QED  BY <1>3, <1>4 DEF IInv

\* One more bit: the equation holds at the next position.
LEMMA IterateIInv ==
  ASSUME IInv, Iterate
  PROVE  IInv'
<1> USE DEF IInv
<1>1. WIDTH \in Nat /\ Power[WIDTH] \in Nat \ {0}
  BY Powers
<1>2. /\ running /\ iterations \in 0 .. WIDTH /\ iterations' = iterations + 1
      /\ running' = (iterations # WIDTH) /\ (running' => iterations # WIDTH)
      /\ UNCHANGED <<divisor, signs, request>>
  BY DEF Iterate, done, LongDivision
<1>3. DivTypeOK'
  <2>1. dividend' \in Words
    BY ReduceWord DEF Iterate
  <2>2. quotient' \in Words
    <3>1. 2 * quotient + (IF Fits THEN 1 ELSE 0) \in Int
      BY <1>1 DEF DivTypeOK, Words
    <3> DEFINE x == 2 * quotient + (IF Fits THEN 1 ELSE 0)
    <3>2. quotient' = x % Power[WIDTH]
      BY DEF Iterate
    <3> HIDE DEF x
    <3>3. x \in Int
      BY <3>1 DEF x
    <3> QED  BY <1>1, <3>2, <3>3, ModSplit DEF Words
  <2> QED  BY <1>1, <1>2, <2>1, <2>2 DEF DivTypeOK, signs
<1>4. LongDivision'
  <2> SUFFICES ASSUME running' PROVE LongDivision'
    BY DEF LongDivision
  <2>1. iterations \in 0 .. WIDTH - 1
    BY <1>1, <1>2
  <2>2. Power[iterations] * Power[WIDTH - iterations] = Power[WIDTH]
    BY <1>2 DEF LongDivision, Position
  <2> DEFINE M == Power[WIDTH]
             P == Power[iterations]
             R == Power[WIDTH - 1 - iterations]
             D == divisor
             q == quotient
             d == dividend
             s == D * R
             n == Unsigned(request.opcode, request.a)
  <2>3. /\ Power[iterations'] = 2 * P /\ Position = 2 * R /\ Position' = R
        /\ Power[iterations'] * Position' = M /\ 2 * P <= M
    <3>1. WIDTH - iterations' = WIDTH - 1 - iterations
      BY <1>1, <1>2
    <3> QED  BY <1>2, <2>1, <2>2, <3>1, PositionStep DEF Position
  <2>4. R \in Nat \ {0} /\ P \in Nat \ {0} /\ M \in Nat \ {0}
    <3>1. WIDTH - 1 - iterations \in 0 .. WIDTH /\ iterations \in 0 .. WIDTH
      BY <1>1, <2>1
    <3> QED  BY <3>1, Powers
  <2>5. /\ D \in Nat /\ q \in 0 .. M - 1 /\ d \in 0 .. M - 1 /\ n \in 0 .. M - 1
        /\ q < P
        /\ D = 0 => d = n /\ q = P - 1
        /\ D # 0 => d < D * (2 * R) /\ n = q * (D * (2 * R)) + d
    <3>1. n \in Words
      BY UnsignedAbs DEF DivTypeOK, Requests
    <3> QED  BY <1>2, <2>3, <3>1 DEF DivTypeOK, Words, LongDivision
  <2>6. /\ dividend' = IF d >= s THEN d - s ELSE d
        /\ quotient' = (IF d >= s THEN 2 * q + 1 ELSE 2 * q) % M
    <3>1. ShiftedDivisor = s
      BY <1>1, <2>1 DEF ShiftedDivisor
    <3> HIDE DEF s
    <3>2. 2 * q + 0 = 2 * q
      BY <2>5
    <3> QED  BY <3>1, <3>2 DEF Iterate, Reduce, Fits
  <2> HIDE DEF M, P, R, D, q, d, s, n
  <2>7. CASE D = 0
    <3>1. s = 0
      BY <2>4, <2>7 DEF s
    <3>2. dividend' = n /\ quotient' = (2 * q + 1) % M
      BY <2>5, <2>6, <2>7, <3>1
    <3>3. 2 * q + 1 = 2 * P - 1 /\ 2 * P - 1 \in 0 .. M - 1
      BY <2>3, <2>4, <2>5, <2>7
    <3>4. quotient' = 2 * P - 1
      BY <2>4, <3>2, <3>3, WordMod DEF M, Words
    <3>5. quotient' < 2 * P
      BY <2>4, <3>4
    <3> QED
      BY <1>1, <1>2, <2>1, <2>3, <2>7, <3>2, <3>4, <3>5
      DEF LongDivision, signs, D, n, M
  <2>8. CASE D # 0
    <3>1. s \in Nat \ {0} /\ D * (2 * R) = 2 * s
      <4> DEFINE u == D - 1
      <4>1. u \in Nat /\ D = u + 1  BY <2>5, <2>8
      <4> HIDE DEF u
      <4>2. (u + 1) * R = u * R + R /\ u * R \in Nat  BY <2>4, <4>1
      <4>3. D * (2 * R) = 2 * (D * R)  BY <2>4, <2>5
      <4> QED  BY <2>4, <4>1, <4>2, <4>3 DEF s
    <3>2. n = q * (2 * s) + d /\ d < 2 * s
      BY <2>5, <2>8, <3>1
    <3>3. /\ d >= s => /\ d - s < s /\ d - s \in Nat
                       /\ n = (2 * q + 1) * s + (d - s)
          /\ d < s => n = (2 * q) * s + d
          /\ d >= s => 2 * q + 1 <= n
          /\ 2 * q <= n
      <4>1. n \in Nat /\ q \in Nat /\ d \in Nat
        BY <2>4, <2>5
      <4> QED  BY ONLY <3>1, <3>2, <4>1, OneIteration
    <3>4. quotient' = IF d >= s THEN 2 * q + 1 ELSE 2 * q
      <4> DEFINE x == IF d >= s THEN 2 * q + 1 ELSE 2 * q
      <4>1. x \in 0 .. M - 1
        BY <2>4, <2>5, <3>1, <3>3
      <4>2. quotient' = x % M
        BY <2>6
      <4> HIDE DEF x
      <4>3. quotient' = x
        BY <4>1, <4>2, WordMod DEF M, Words
      <4> QED  BY <4>3 DEF x
    <3>5. quotient' < 2 * P
      BY <2>4, <2>5, <3>4
    <3>6. dividend' < s /\ n = quotient' * s + dividend'
      BY <2>5, <2>6, <3>1, <3>3, <3>4
    <3> QED
      BY <1>1, <1>2, <2>1, <2>3, <2>8, <3>5, <3>6
      DEF LongDivision, signs, D, n, M, s
  <2> QED  BY <2>7, <2>8
<1> QED  BY <1>3, <1>4

\* A step that leaves the divider idle only has to keep the types.
LEMMA StoppedIInv ==
  ASSUME IInv, Flush \/ Idle
  PROVE  IInv'
<1>1. dividend' \in Words
  BY ReduceWord DEF Flush, Idle, IInv
<1>2. 0 \in Words /\ 0 \in 0 .. WIDTH + 1
  BY Powers DEF Words
<1>3. DivTypeOK' /\ running' = FALSE
  BY <1>1, <1>2 DEF IInv, DivTypeOK, Flush, Idle, signs
<1> QED  BY <1>3 DEF IInv, LongDivision

\* And every clock edge keeps it.
LEMMA NextIInv == IInv /\ [DivNext]_divVars => IInv'
<1> SUFFICES ASSUME IInv, [DivNext]_divVars PROVE IInv'
  OBVIOUS
<1>1. ASSUME NEW opcode \in Opcodes, NEW a \in Words, NEW b \in Words, Accept(opcode, a, b)
      PROVE  IInv'
  BY <1>1, AcceptIInv DEF IInv
<1>2. CASE Iterate
  BY <1>2, IterateIInv
<1>3. CASE Flush \/ Idle
  BY <1>3, StoppedIInv
<1>4. CASE UNCHANGED divVars
  BY <1>4 DEF IInv, DivTypeOK, LongDivision, Position, divVars, signs
<1> QED  BY <1>1, <1>2, <1>3, <1>4 DEF DivNext

-----------------------------------------------------------------------------
\* The result

\* Quotient and remainder are determined by the equation of the division.
LEMMA DivisionUnique ==
  ASSUME NEW n \in Nat, NEW D \in Nat \ {0}, NEW q \in Nat, NEW d \in 0 .. D - 1,
         n = q * D + d
  PROVE  n \div D = q /\ n % D = d
<1>1. n = D * q + d
  OBVIOUS
<1>2. n % D = d
  BY ONLY <1>1, ModUnique, q \in Nat, D \in Nat \ {0}, d \in 0 .. D - 1
<1>3. n \div D \in Int /\ n = D * (n \div D) + (n % D)
  BY ModSplit
<1> DEFINE e == n \div D
<1>4. e \in Int /\ D * e = D * q
  BY <1>1, <1>2, <1>3
<1> HIDE DEF e
<1>5. e = q
  BY <1>4
<1> QED  BY <1>2, <1>5 DEF e

\* What the registers hold when the last bit is there.
LEMMA DoneRegisters ==
  ASSUME IInv, running, done
  PROVE  LET n == Unsigned(request.opcode, request.a)
             D == Unsigned(request.opcode, request.b)
         IN /\ D = 0 => dividend = n /\ quotient = Power[WIDTH] - 1
            /\ D # 0 => quotient = n \div D /\ dividend = n % D
<1> DEFINE n == Unsigned(request.opcode, request.a)
           D == Unsigned(request.opcode, request.b)
<1>1. iterations = WIDTH /\ Position = 1 /\ divisor = D
  BY Powers DEF IInv, LongDivision, Position, done
<1>2. n \in Nat /\ D \in Nat /\ quotient \in Nat /\ dividend \in Nat
  BY <1>1, UnsignedAbs, Powers DEF IInv, DivTypeOK, Requests, Words
<1>3. /\ D = 0 => dividend = n /\ quotient = Power[WIDTH] - 1
      /\ D # 0 => dividend < D * 1 /\ n = quotient * (D * 1) + dividend
  BY <1>1 DEF IInv, LongDivision
<1> HIDE DEF n, D
<1>4. D # 0 => quotient = n \div D /\ dividend = n % D
  <2> SUFFICES ASSUME D # 0 PROVE quotient = n \div D /\ dividend = n % D
    OBVIOUS
  <2>1. dividend \in 0 .. D - 1 /\ n = quotient * D + dividend /\ D \in Nat \ {0}
    BY <1>2, <1>3
  <2> QED  BY <1>2, <2>1, DivisionUnique
<1> QED  BY <1>3, <1>4 DEF n, D

\* Post-processing: the signs turn the unsigned results into Result.
LEMMA DoneResult == IInv => ResultCorrect
<1> SUFFICES ASSUME IInv, running, done
             PROVE  o = Result(request.opcode, request.a, request.b)
  BY DEF ResultCorrect
<1> DEFINE c == request.opcode
           M == Power[WIDTH]
           n == Unsigned(c, request.a)
           D == Unsigned(c, request.b)
           x == IF c \in SignedOpcodes THEN Signed(request.a) ELSE request.a
           y == IF c \in SignedOpcodes THEN Signed(request.b) ELSE request.b
<1>1. M \in Nat \ {0} /\ quotient \in Words /\ dividend \in Words
      /\ c \in Opcodes /\ request.a \in Words /\ request.b \in Words
  BY Powers DEF IInv, DivTypeOK, Requests
<1>2. /\ x \in Int /\ y \in Int /\ n = Abs(x) /\ D = Abs(y) /\ n \in Words /\ D \in Words
      /\ y = 0 <=> D = 0
      /\ y = 0 <=> request.b = 0
  <2>1. CASE c \in SignedOpcodes
    BY <1>1, <2>1, UnsignedAbs
  <2>2. CASE c \notin SignedOpcodes
    <3>1. n = request.a /\ D = request.b /\ x = request.a /\ y = request.b
      BY <1>1, <2>2, UnsignedAbs
    <3> QED  BY <1>1, <3>1 DEF Words, Abs
  <2> QED  BY <2>1, <2>2
<1>3. /\ quotient_negate <=> (x < 0) # (y < 0) /\ y # 0
      /\ remainder_negate <=> x < 0
      /\ is_rem <=> c \in RemOpcodes
  <2>1. /\ quotient_negate = QuotientNegate(c, request.a, request.b)
        /\ remainder_negate = (c \in SignedOpcodes /\ Negative(request.a))
        /\ is_rem = (c \in RemOpcodes)
    BY DEF IInv, LongDivision
  <2> DEFINE na == Negative(request.a)
             nb == Negative(request.b)
             p == x < 0
             r == y < 0
             zero == y = 0
  <2>2. /\ quotient_negate <=> c \in SignedOpcodes /\ (na # nb) /\ ~zero
        /\ remainder_negate <=> c \in SignedOpcodes /\ na
    <3>1. zero <=> request.b = 0
      BY <1>2
    <3> HIDE DEF na, nb, zero, c, x, y
    <3> QED  BY <2>1, <3>1, Zenon DEF QuotientNegate, na, nb
  <2>3. c \in SignedOpcodes => (na <=> p) /\ (nb <=> r)
    BY <1>1, UnsignedAbs
  <2>4. c \notin SignedOpcodes => ~p /\ ~r
    BY <1>1 DEF Words
  <2>5. /\ na \in BOOLEAN /\ nb \in BOOLEAN /\ p \in BOOLEAN /\ r \in BOOLEAN
    BY DEF Negative
  <2>6. (p # r /\ y # 0) <=> (c \in SignedOpcodes /\ (na # nb) /\ ~zero)
    <3> HIDE DEF na, nb, p, r, c, x, y
    <3> QED  BY <2>3, <2>4, <2>5
  <2>7. p <=> c \in SignedOpcodes /\ na
    <3> HIDE DEF na, nb, p, r, c, x, y
    <3> QED  BY <2>3, <2>4
  <2> QED  BY <2>1, <2>2, <2>6, <2>7
<1>4. /\ D = 0 => dividend = n /\ quotient = M - 1
      /\ D # 0 => quotient = n \div D /\ dividend = n % D
  BY DoneRegisters
<1>5. /\ quotient % M = quotient /\ Negate(quotient) = (-quotient) % M
      /\ dividend % M = dividend /\ Negate(dividend) = (-dividend) % M
  BY <1>1, WordMod, NegateWord
<1>6. Result(c, request.a, request.b) =
        (IF c \in RemOpcodes THEN (IF y = 0 THEN x ELSE RemOf(x, y))
         ELSE (IF y = 0 THEN -1 ELSE Trunc(x, y))) % M
  BY DEF Result
<1> HIDE DEF c, M, n, D, x, y
<1>7. CASE c \in RemOpcodes
  <2>1. o = (IF x < 0 THEN -dividend ELSE dividend) % M
    BY <1>3, <1>5, <1>7 DEF o, remainder_post
  <2>2. CASE y = 0
    <3>1. dividend = Abs(x)
      BY <1>2, <1>4, <2>2
    <3>2. (IF x < 0 THEN -dividend ELSE dividend) = x
      BY <1>2, <3>1 DEF Abs
    <3> QED  BY <1>6, <1>7, <2>1, <2>2, <3>2 DEF c
  <2>3. CASE y # 0
    <3>1. (IF x < 0 THEN -dividend ELSE dividend) = RemOf(x, y)
      BY <1>2, <1>4, <2>3 DEF RemOf
    <3> QED  BY <1>6, <1>7, <2>1, <2>3, <3>1 DEF c
  <2> QED  BY <2>2, <2>3
<1>8. CASE c \notin RemOpcodes
  <2>1. o = (IF (x < 0) # (y < 0) /\ y # 0 THEN -quotient ELSE quotient) % M
    BY <1>3, <1>5, <1>8 DEF o, quotient_post
  <2>2. CASE y = 0
    <3>1. o = (M - 1) % M
      BY <1>2, <1>4, <2>1, <2>2
    <3>2. (M - 1) % M = (-1) % M
      <4> DEFINE e == -1
      <4>1. M - 1 = M * 1 + e /\ e \in Int /\ 1 \in Int
        BY <1>1
      <4> HIDE DEF e
      <4>2. (M * 1 + e) % M = e % M
        BY ONLY <1>1, <4>1, ModShift
      <4> QED  BY ONLY <4>1, <4>2 DEF e
    <3> QED  BY <1>6, <1>8, <2>2, <3>1, <3>2 DEF c
  <2>3. CASE y # 0
    <3>1. (IF (x < 0) # (y < 0) /\ y # 0 THEN -quotient ELSE quotient) = Trunc(x, y)
      BY <1>2, <1>4, <2>3 DEF Trunc
    <3> QED  BY <1>6, <1>8, <2>1, <2>3, <3>1 DEF c
  <2> QED  BY <2>2, <2>3
<1> QED  BY <1>7, <1>8

-----------------------------------------------------------------------------
\* The registers keep their ranges, and no division runs past WIDTH iterations
\* (divider.sv, done).
THEOREM DividerTypes == DivSpec => []DivTypeOK
<1>1. IInv => DivTypeOK
  BY DEF IInv
<1> QED  BY <1>1, InitIInv, NextIInv, PTL DEF DivSpec

\* For every width the divider's answers are those of the RISC-V M extension:
\* signs, zero divisors and the overflowing quotient included (divider.sv).
THEOREM DividerCorrect == DivSpec => []ResultCorrect
  BY InitIInv, NextIInv, DoneResult, PTL DEF DivSpec

\* Of a set of natural numbers one is the least.
LEMMA LeastElement ==
  ASSUME NEW T, T \subseteq Nat, T # {}
  PROVE  \E x \in T : \A y \in T : x <= y
<1> DEFINE R == {ss \in Nat \X Nat : ss[1] < ss[2]}
<1>1. IsWellFoundedOn(R, Nat)
  BY NatLessThanWellFounded DEF OpToRel
<1> HIDE DEF R
<1>2. PICK x \in T : \A y \in T : ~(<<y, x>> \in R)
  BY <1>1, WFMin
<1>3. ASSUME NEW y \in T PROVE x <= y
  <2>1. x \in Nat /\ y \in Nat /\ ~(<<y, x>> \in R)
    BY <1>2
  <2> QED  BY <2>1 DEF R
<1> QED  BY <1>3

\* What has been walked after k headers.
Walked(s, m, n) == [k \in 1..n |-> SubSeq(s, 1, IF k <= m THEN k ELSE m)]

\* The first k elements of a sequence, and one more.
LEMMA FirstsOf ==
  ASSUME NEW S, NEW s \in Seq(S), NEW k \in 1..Len(s)
  PROVE  /\ SubSeq(s, 1, k) \in Seq(S) /\ Len(SubSeq(s, 1, k)) = k
         /\ \A j \in 1..k : SubSeq(s, 1, k)[j] = s[j]
         /\ k + 1 \in 1..Len(s) => Append(SubSeq(s, 1, k), s[k + 1]) = SubSeq(s, 1, k + 1)
<1>1. ASSUME NEW l \in 1..Len(s)
      PROVE  /\ SubSeq(s, 1, l) \in Seq(S) /\ Len(SubSeq(s, 1, l)) = l
             /\ \A j \in 1..l : SubSeq(s, 1, l)[j] = s[j]
  <2>1. \A i \in 1..l : s[i] \in S
    BY ElementOfSeq, LenProperties
  <2>2. /\ SubSeq(s, 1, l) \in Seq(S)
        /\ Len(SubSeq(s, 1, l)) = IF 1 <= l THEN l - 1 + 1 ELSE 0
        /\ \A j \in 1..l - 1 + 1 : SubSeq(s, 1, l)[j] = s[1 + j - 1]
    BY <2>1, SubSeqProperties
  <2>3. Len(s) \in Nat
    BY LenProperties
  <2> QED  BY <2>2, <2>3
<1>2. ASSUME k + 1 \in 1..Len(s)
      PROVE  Append(SubSeq(s, 1, k), s[k + 1]) = SubSeq(s, 1, k + 1)
  <2>0. Len(s) \in Nat /\ s[k + 1] \in S
    BY <1>2, LenProperties, ElementOfSeq
  <2>1. /\ Append(SubSeq(s, 1, k), s[k + 1]) \in Seq(S)
        /\ Len(Append(SubSeq(s, 1, k), s[k + 1])) = k + 1
        /\ \A j \in 1..k : Append(SubSeq(s, 1, k), s[k + 1])[j] = s[j]
        /\ Append(SubSeq(s, 1, k), s[k + 1])[k + 1] = s[k + 1]
    BY <1>1, <2>0
  <2>2. /\ SubSeq(s, 1, k + 1) \in Seq(S) /\ Len(SubSeq(s, 1, k + 1)) = k + 1
        /\ \A j \in 1..k + 1 : SubSeq(s, 1, k + 1)[j] = s[j]
    BY <1>1, <1>2
  <2>3. \A j \in 1..k + 1 : Append(SubSeq(s, 1, k), s[k + 1])[j] = SubSeq(s, 1, k + 1)[j]
    BY <2>0, <2>1, <2>2
  <2> QED  BY <2>1, <2>2, <2>3, SeqEqual
<1> QED  BY <1>1, <1>2

\* Chain walks along a list that the next fields link.
LEMMA ChainWalks ==
  ASSUME NEW next, NEW s \in Seq(DOMAIN next), s # <<>>, NEW n \in Nat \ {0},
         \A k \in 1..Len(s) : s[k] # Null,
         \A k \in 1..Len(s) - 1 : next[s[k]] = s[k + 1],
         n <= Len(s) \/ next[s[Len(s)]] = Null
  PROVE  Chain(next, s[1], n) = SubSeq(s, 1, IF n <= Len(s) THEN n ELSE Len(s))
<1> DEFINE m == Len(s)
           S == DOMAIN next
           follow == [cells \in Seq(S) |->
                        LET at == next[cells[Len(cells)]]
                        IN  IF at = Null THEN cells ELSE Append(cells, at)]
           Rule(w) == [k \in 1..n |-> IF k = 1 THEN <<s[1]>> ELSE follow[w[k - 1]]]
           walk == CHOOSE w : w = Rule(w)
           g == Walked(s, m, n)
<1>0. m \in Nat \ {0} /\ 1 \in 1..m
  BY EmptySeq, LenProperties
<1>1. g = Rule(g)
  <2>1. ASSUME NEW k \in 1..n
        PROVE  g[k] = IF k = 1 THEN <<s[1]>> ELSE follow[g[k - 1]]
    <3>1. CASE k = 1
      <4>1. g[k] = SubSeq(s, 1, 1)
        BY <1>0, <3>1 DEF Walked
      <4>2. SubSeq(s, 1, 1) \in Seq(S) /\ Len(SubSeq(s, 1, 1)) = 1 /\ SubSeq(s, 1, 1)[1] = s[1]
        BY <1>0, FirstsOf
      <4>3. <<s[1]>> \in Seq(S) /\ Len(<<s[1]>>) = 1 /\ <<s[1]>>[1] = s[1]
        BY <1>0, ElementOfSeq
      <4>5. \A i \in 1..Len(<<s[1]>>) : <<s[1]>>[i] = SubSeq(s, 1, 1)[i]
        BY <4>2, <4>3
      <4>4. SubSeq(s, 1, 1) = <<s[1]>>
        BY <4>2, <4>3, <4>5, SeqEqual
      <4> QED  BY <3>1, <4>1, <4>4
    <3>2. CASE k # 1
      <4>0. k - 1 \in 1..n
        BY <3>2
      <4>1. CASE k <= m
        <5>1. g[k] = SubSeq(s, 1, k) /\ g[k - 1] = SubSeq(s, 1, k - 1) /\ k - 1 \in 1..m - 1 /\ k - 1 \in 1..m
          BY <1>0, <3>2, <4>0, <4>1 DEF Walked
        <5>2. Len(SubSeq(s, 1, k - 1)) = k - 1 /\ SubSeq(s, 1, k - 1)[k - 1] = s[k - 1]
              /\ Append(SubSeq(s, 1, k - 1), s[k]) = SubSeq(s, 1, k)
          BY <1>0, <4>1, <5>1, FirstsOf
        <5>3. next[s[k - 1]] = s[k] /\ s[k] # Null
          BY <1>0, <4>1, <5>1
        <5>4. SubSeq(s, 1, k - 1) \in Seq(S)
          BY <1>0, <5>1, FirstsOf
        <5> QED  BY <3>2, <5>1, <5>2, <5>3, <5>4
      <4>2. CASE ~(k <= m)
        <5>1. g[k] = SubSeq(s, 1, m) /\ g[k - 1] = SubSeq(s, 1, m)
          BY <1>0, <3>2, <4>0, <4>2 DEF Walked
        <5>2. Len(SubSeq(s, 1, m)) = m /\ SubSeq(s, 1, m)[m] = s[m]
          BY <1>0, FirstsOf
        <5>3. next[s[m]] = Null
          BY <1>0, <4>2
        <5>4. SubSeq(s, 1, m) \in Seq(S)
          BY <1>0, FirstsOf
        <5> QED  BY <3>2, <5>1, <5>2, <5>3, <5>4
      <4> QED  BY <4>1, <4>2
    <3> QED  BY <3>1, <3>2
  <2>2. g = [k \in 1..n |-> g[k]]
    BY DEF Walked
  <2> HIDE DEF g
  <2> QED  BY <2>1, <2>2
<1>2. walk = Rule(walk)
  <2> HIDE DEF Rule, g, follow
  <2> QED  BY <1>1
<1> HIDE DEF walk, g, follow
<1>3. \A k \in 1..n : walk[k] = g[k]
  <2> SUFFICES ASSUME NEW k0 \in 1..n, walk[k0] # g[k0] PROVE FALSE
    OBVIOUS
  <2> DEFINE T == {k \in 1..n : walk[k] # g[k]}
  <2>1. PICK k \in T : \A j \in T : k <= j
    <3>1. T \subseteq Nat /\ k0 \in T
      OBVIOUS
    <3> HIDE DEF T
    <3> QED  BY <3>1, LeastElement
  <2>2. k \in 1..n /\ walk[k] # g[k]
    OBVIOUS
  <2>3. /\ walk[k] = IF k = 1 THEN <<s[1]>> ELSE follow[walk[k - 1]]
        /\ g[k] = IF k = 1 THEN <<s[1]>> ELSE follow[g[k - 1]]
    BY <1>1, <1>2, <2>2
  <2>4. CASE k = 1
    BY <2>2, <2>3, <2>4
  <2>5. CASE k # 1
    <3>1. k - 1 \in 1..n /\ ~(k <= k - 1)
      BY <2>2, <2>5
    <3>2. walk[k - 1] = g[k - 1]
      BY <2>1, <3>1
    <3> QED  BY <2>2, <2>3, <2>5, <3>2
  <2> QED  BY <2>4, <2>5
<1>4. Chain(next, s[1], n) = walk[n]
  <2>1. s[1] # Null /\ n # 0
    BY <1>0
  <2> QED  BY <2>1 DEF Chain, walk, follow
<1>5. g[n] = SubSeq(s, 1, IF n <= m THEN n ELSE m)
  BY DEF g, Walked
<1> QED  BY <1>3, <1>4, <1>5

-----------------------------------------------------------------------------
\* The order the headers are in

\* The number of headers, and what a link can be.
count == Used(heap)
Pointers == Headers \union {Null}

\* The headers are the first places of the block.
ListOK == /\ count \in Nat \ {0} /\ Headers = 0 .. count - 1
          /\ links \in [Headers -> Pointers]

\* The orders of the headers.
Orders == {f \in [1 .. count -> Headers] :
             /\ \A i, j \in 1 .. count : f[i] = f[j] => i = j
             /\ \A c \in Headers : \E i \in 1 .. count : f[i] = c}

\* The header at place i, or none behind the last; and the links of the
\* places i to j lead to the next place.
Place(f, i) == IF i \in 1 .. count THEN f[i] ELSE Null
Linked(f, i, j) == \A k \in i .. j : links[f[k]] = Place(f, k + 1)

-----------------------------------------------------------------------------
(***************************************************************************)
(* core_list_mergesort                                                     *)
(***************************************************************************)

\* The inductive invariant of the merge sort.  The order f is the one the
\* headers are in, or will be in when what is left is linked behind what is
\* merged: first the m headers merged in this pass, then the rest of the run
\* of p, then those from q on (Somewhere).

\* A header that a comparison has seen: its result is cached, or the result is
\* removed again.  What is compared of it no longer changes.
Known(c) == IF srt.cmp = "complex" THEN Cached(DataOf(heap, c))
            ELSE DataOf(heap, c).lo = DataOf(heap, c).hi

\* Two headers that are known to be in order.
Ordered(c, d) == /\ c \in Headers /\ d \in Headers /\ Known(c) /\ Known(d)
                 /\ Before(c, d)

\* The locals of core_list_mergesort.  The runs are never longer than the list,
\* so doubling insize does not overflow.
Locals == [p : Pointers, q : Pointers, list : Pointers, tail : Pointers,
           insize : 1 .. count, psize : 0 .. count, qsize : 0 .. count,
           nmerges : 0 .. count, cmp : {"idx", "complex"},
           to : {"inits", "remove", "recrc"}, from : Orders]

\* The sort that compares values is the one core_bench_list does in between.
SortOK == ListOK /\ srt \in Locals /\ (srt.cmp = "complex" <=> srt.to = "remove")

\* The headers of the places i to j are in order.
InOrder(f, i, j) == \A k, l \in i .. j : k < l => Ordered(f[k], f[l])

\* Those up to place i came before those of the places up to j.
Precede(f, h, i, j) == \A k \in h .. i, l \in i + 1 .. j : PlaceOf(f[k]) < PlaceOf(f[l])

\* From place b to place e, runs of w headers are in order, and the headers of
\* a run were in front of those of the next.
Runs(f, w, b, e) ==
  \A k \in Nat : \A i, j \in b + 1 .. e :
    /\ b + k * w < i /\ i < j /\ j <= b + (k + 1) * w => Ordered(f[i], f[j])
    /\ i <= b + k * w /\ b + k * w < j => PlaceOf(f[i]) < PlaceOf(f[j])

\* The pass has linked the first m headers.
Merged(f, m) ==
  /\ srt.list = IF m = 0 THEN Null ELSE f[1]
  /\ srt.tail = IF m = 0 THEN Null ELSE f[m]
  /\ Linked(f, 1, m - 1)

\* The length of the runs the pass makes.
Double == 2 * srt.insize

\* After c merges the pass has come to place m.
Counted(m, c) ==
  /\ c <= m
  /\ c = 0 => m = 0
  /\ c = 1 => m = Double \/ (m = count /\ m <= Double)
  /\ c > 1 => count > Double

\* The first m headers are in runs of twice the length, those behind them not yet.
HalfWay(f, m) ==
  /\ m < count => \E c \in Nat : m = c * Double
  /\ Runs(f, Double, 0, m) /\ Precede(f, 1, m, count)

\* A pass begins: the list is whole, in runs of insize.
AtPass(f) == srt.list = f[1] /\ Linked(f, 1, count) /\ Runs(f, srt.insize, 0, count)

\* Between two merges: p is the header behind those that are merged.
AtMerge(f, m) ==
  /\ HalfWay(f, m) /\ Runs(f, srt.insize, m, count) /\ Counted(m, srt.nmerges)
  /\ Merged(f, m) /\ srt.p = Place(f, m + 1) /\ Linked(f, m + 1, count)

\* On the way along: q is psize headers ahead of p.
AtAlong(f, m) ==
  /\ HalfWay(f, m) /\ Runs(f, srt.insize, m, count)
  /\ m < count /\ srt.nmerges > 0 /\ Counted(m, srt.nmerges - 1)
  /\ Merged(f, m) /\ srt.p = f[m + 1] /\ Linked(f, m + 1, count)
  /\ srt.psize < srt.insize
  /\ m + srt.psize + 1 <= count /\ srt.q = f[m + srt.psize + 1]

\* The merge began behind place b; m headers are merged, the run of q ends at e.
End(b) == IF b + Double <= count THEN b + Double ELSE count
Behind(m) == m + srt.psize   \* the place in front of q

\* The arithmetic of psize and qsize: both runs end where they should.
MergePlaces(m, b) ==
  /\ b < count /\ srt.nmerges > 0 /\ Counted(b, srt.nmerges - 1)
  /\ b <= m /\ Behind(m) <= End(b)
  /\ \/ Behind(m) + srt.qsize = b + Double
     \/ End(b) = count /\ Behind(m) + srt.qsize >= count

\* Three lists: what is merged, the rest of the run of p, and the list from q on.
MergeLinks(f, m) ==
  /\ Merged(f, m)
  /\ srt.psize > 0 => srt.p = f[m + 1]
  /\ Linked(f, m + 1, Behind(m) - 1)
  /\ srt.q = Place(f, Behind(m) + 1) /\ Linked(f, Behind(m) + 1, count)

\* What is merged is in order, and before all that is not; so are the two
\* runs, and the one of p was in front of the one of q.
MergeOrder(f, m, b) ==
  /\ HalfWay(f, b) /\ Runs(f, srt.insize, End(b), count) /\ Precede(f, 1, End(b), count)
  /\ InOrder(f, b + 1, m) /\ InOrder(f, m + 1, Behind(m)) /\ InOrder(f, Behind(m) + 1, End(b))
  /\ \A i \in b + 1 .. m, j \in m + 1 .. End(b) : Ordered(f[i], f[j])
  /\ Precede(f, m + 1, Behind(m), End(b))

\* In the middle of a merge.
AtPick(f, m, b) == MergePlaces(m, b) /\ MergeLinks(f, m) /\ MergeOrder(f, m, b)

\* The sort has returned.
AtReturn(f) == srt.list = f[1] /\ Linked(f, 1, count) /\ InOrder(f, 1, count)

\* The order f, and the places m and b, at each loop of the sort.
SortPlace(f, m, b) ==
  /\ pc = "pass"  => AtPass(f)
  /\ pc = "merge" => AtMerge(f, m)
  /\ pc = "along" => AtAlong(f, m)
  /\ pc = "pick"  => AtPick(f, m, b)
  /\ pc \notin {"pass", "merge", "along", "pick"} => AtReturn(f)

Somewhere == \E f \in Orders, m \in 0 .. count, b \in 0 .. count : SortPlace(f, m, b)

-----------------------------------------------------------------------------
\* Orders and runs

\* Ordered is transitive: with it runs can be put together.
OrderedTransitive == \A x, y, z : Ordered(x, y) /\ Ordered(y, z) => Ordered(x, z)

\* What a step of the sort leaves of the order: headers known to be in order
\* stay so.
OrderKept == /\ Headers' = Headers /\ count' = count
             /\ srt'.cmp = srt.cmp /\ srt'.to = srt.to /\ srt'.from = srt.from
             /\ \A c, d : Ordered(c, d) => Ordered(c, d)'
             /\ OrderedTransitive'

\* Where runs begin and end.
LEMMA Multiples ==
  ASSUME NEW w \in Nat, NEW k \in Nat
  PROVE  /\ 0 * w = 0 /\ 1 * w = w /\ k * w \in Nat
         /\ (k + 1) * w = k * w + w /\ (k + 2) * w = k * w + 2 * w
         /\ \A c \in Nat : c <= k => c * w <= k * w
<1>1. /\ 0 * w = 0 /\ 1 * w = w
      /\ (k + 1) * w = k * w + w /\ (k + 2) * w = k * w + 2 * w
  OBVIOUS
<1>3. k * w \in Nat
  OBVIOUS
<1>2. ASSUME NEW c \in Nat, c <= k
      PROVE  c * w <= k * w
  <2>1. PICK d \in Nat : k = c + d
    BY <1>2
  <2>2. k * w = c * w + d * w /\ d * w \in Nat /\ c * w \in Nat
    BY <2>1
  <2> QED  BY <2>2
<1> QED  BY <1>1, <1>2, <1>3

\* The first two of the runs from place b on, and the others.
LEMMA FirstRuns ==
  ASSUME NEW f, NEW w \in Nat, NEW b \in Nat, NEW e \in Nat, Runs(f, w, b, e)
  PROVE  /\ \A i, j \in b + 1 .. e : i < j /\ j <= b + w => Ordered(f[i], f[j])
         /\ \A i, j \in b + 1 .. e : i <= b + w /\ b + w < j => PlaceOf(f[i]) < PlaceOf(f[j])
         /\ \A i, j \in b + 1 .. e : b + w < i /\ i < j /\ j <= b + 2 * w => Ordered(f[i], f[j])
         /\ \A i, j \in b + 1 .. e : i <= b + 2 * w /\ b + 2 * w < j => PlaceOf(f[i]) < PlaceOf(f[j])
         /\ Runs(f, w, b + 2 * w, e)
<1> DEFINE R(k) == \A i, j \in b + 1 .. e :
             /\ b + k * w < i /\ i < j /\ j <= b + (k + 1) * w => Ordered(f[i], f[j])
             /\ i <= b + k * w /\ b + k * w < j => PlaceOf(f[i]) < PlaceOf(f[j])
<1>1. \A k \in Nat : R(k)
  BY DEF Runs
<1>2. R(0) /\ R(1) /\ R(2)
  <2> HIDE DEF R
  <2> QED  BY <1>1
<1>3. 0 * w = 0 /\ (0 + 1) * w = w /\ 1 * w = w /\ (1 + 1) * w = 2 * w
  OBVIOUS
<1>4. /\ \A i, j \in b + 1 .. e : i < j /\ j <= b + w => Ordered(f[i], f[j])
      /\ \A i, j \in b + 1 .. e : i <= b + w /\ b + w < j => PlaceOf(f[i]) < PlaceOf(f[j])
      /\ \A i, j \in b + 1 .. e : b + w < i /\ i < j /\ j <= b + 2 * w => Ordered(f[i], f[j])
      /\ \A i, j \in b + 1 .. e : i <= b + 2 * w /\ b + 2 * w < j => PlaceOf(f[i]) < PlaceOf(f[j])
  BY <1>2, <1>3
<1>5. ASSUME NEW k \in Nat, NEW i \in b + 2 * w + 1 .. e, NEW j \in b + 2 * w + 1 .. e
      PROVE  /\ b + 2 * w + k * w < i /\ i < j /\ j <= b + 2 * w + (k + 1) * w => Ordered(f[i], f[j])
             /\ i <= b + 2 * w + k * w /\ b + 2 * w + k * w < j => PlaceOf(f[i]) < PlaceOf(f[j])
  <2>1. R(k + 2)
    <3> HIDE DEF R
    <3> QED  BY <1>1
  <2>2. /\ b + (k + 2) * w = b + 2 * w + k * w
        /\ b + (k + 2 + 1) * w = b + 2 * w + (k + 1) * w
    OBVIOUS
  <2>3. i \in b + 1 .. e /\ j \in b + 1 .. e
    OBVIOUS
  <2> HIDE DEF R
  <2> DEFINE u == b + (k + 2) * w
             v == b + (k + 2 + 1) * w
  <2>4. /\ u < i /\ i < j /\ j <= v => Ordered(f[i], f[j])
        /\ i <= u /\ u < j => PlaceOf(f[i]) < PlaceOf(f[j])
    BY <2>1, <2>3 DEF R
  <2> QED  BY <2>2, <2>4
<1>6. Runs(f, w, b + 2 * w, e)
  BY <1>5 DEF Runs
<1> QED  BY <1>4, <1>6

\* A run that is put behind whole runs.
LEMMA OneMoreRun ==
  ASSUME NEW f, NEW w \in Nat, NEW c \in Nat, NEW b \in Nat, NEW e \in Nat,
         b = c * w, Runs(f, w, 0, b), b <= e, e <= b + w,
         InOrder(f, b + 1, e), Precede(f, 1, b, e)
  PROVE  Runs(f, w, 0, e)
<1>1. b \in Nat
  OBVIOUS
<1> SUFFICES ASSUME NEW k \in Nat, NEW i \in 0 + 1 .. e, NEW j \in 0 + 1 .. e
             PROVE  /\ 0 + k * w < i /\ i < j /\ j <= 0 + (k + 1) * w => Ordered(f[i], f[j])
                    /\ i <= 0 + k * w /\ 0 + k * w < j => PlaceOf(f[i]) < PlaceOf(f[j])
  BY DEF Runs
<1>2. /\ k * w \in Nat /\ (k + 1) * w = k * w + w /\ (c + 1) * w = b + w
      /\ c <= k => b <= k * w
      /\ k + 1 <= c => k * w + w <= b
      /\ c + 1 <= k => b + w <= k * w
  BY Multiples
<1>3. CASE j <= b
  <2>1. j \in 0 + 1 .. b /\ (i <= b => i \in 0 + 1 .. b)
    BY <1>1, <1>3
  <2>2. i <= b => /\ 0 + k * w < i /\ i < j /\ j <= 0 + (k + 1) * w => Ordered(f[i], f[j])
                  /\ i <= 0 + k * w /\ 0 + k * w < j => PlaceOf(f[i]) < PlaceOf(f[j])
    BY <2>1 DEF Runs
  <2>3. ~(i <= b) => ~(i < j) /\ ~(i <= 0 + k * w /\ 0 + k * w < j)
    BY <1>1, <1>2, <1>3
  <2> QED  BY <2>2, <2>3
<1>4. CASE ~(j <= b)
  <2>1. j \in b + 1 .. e /\ (i <= b => i \in 1 .. b) /\ (~(i <= b) => i \in b + 1 .. e)
    BY <1>1, <1>4
  <2>2. i <= b => PlaceOf(f[i]) < PlaceOf(f[j])
    BY <2>1 DEF Precede
  <2>3. ~(i <= b) /\ i < j => Ordered(f[i], f[j])
    BY <2>1 DEF InOrder
  <2>4. 0 + k * w < i /\ i < j /\ j <= 0 + (k + 1) * w => ~(i <= b)
    BY <1>1, <1>2, <1>4
  <2>5. i <= 0 + k * w /\ 0 + k * w < j => i <= b
    BY <1>1, <1>2, <1>4
  <2> QED  BY <2>2, <2>3, <2>4, <2>5
<1> QED  BY <1>3, <1>4

\* What is said of the places b + 1 to e depends on the order there.
LEMMA SameRuns ==
  ASSUME NEW f, NEW g, NEW w, NEW b \in Nat, NEW e \in Nat, Runs(f, w, b, e),
         \A i \in b + 1 .. e : g[i] = f[i]
  PROVE  Runs(g, w, b, e)
BY DEF Runs

-----------------------------------------------------------------------------
\* The passes

\* What is said of an order of the headers stays while what the headers
\* know of each other does.
LEMMA SameOrder ==
  ASSUME OrderKept
  PROVE  /\ Orders' = Orders /\ Headers' = Headers /\ Pointers' = Pointers /\ count' = count
         /\ \A f, i : Place(f, i)' = Place(f, i)
         /\ \A f, i, j : InOrder(f, i, j) => InOrder(f, i, j)'
         /\ \A f, w, b, e : Runs(f, w, b, e) => Runs(f, w, b, e)'
         /\ \A f, h, i, j : Precede(f, h, i, j)' = Precede(f, h, i, j)
<1>1. /\ Orders' = Orders /\ Headers' = Headers /\ Pointers' = Pointers
      /\ count' = count
  BY DEF Orders, Pointers, OrderKept
<1>2. \A c : PlaceOf(c)' = PlaceOf(c)
  BY DEF PlaceOf, OrderKept
<1>3. \A f, i : Place(f, i)' = Place(f, i)
  BY DEF Place, OrderKept
<1>4. \A f, i, j : InOrder(f, i, j) => InOrder(f, i, j)'
  BY DEF InOrder, OrderKept
<1>5. \A f, w, b, e : Runs(f, w, b, e) => Runs(f, w, b, e)'
  BY <1>2 DEF Runs, OrderKept
<1>6. \A f, h, i, j : Precede(f, h, i, j)' = Precede(f, h, i, j)
  BY <1>2 DEF Precede
<1> QED  BY <1>1, <1>3, <1>4, <1>5, <1>6

\* The types, taken apart.
LEMMA Fields ==
  ASSUME SortOK
  PROVE  /\ count \in Nat \ {0} /\ Null \notin Headers /\ Null \notin Nat
         /\ Pointers = Headers \cup {Null} /\ srt \in Locals
         /\ srt.p \in Pointers /\ srt.q \in Pointers
         /\ srt.list \in Pointers /\ srt.tail \in Pointers
         /\ srt.insize \in 1 .. count /\ srt.nmerges \in 0 .. count
         /\ srt.psize \in 0 .. count /\ srt.qsize \in 0 .. count
         /\ Double \in Nat /\ Double = srt.insize + srt.insize
         /\ links \in [Headers -> Pointers]
<1>1. count \in Nat \ {0} /\ Null \notin Nat /\ Headers = 0 .. count - 1
  BY DEF Null, SortOK, ListOK
<1>2. Pointers = Headers \cup {Null} /\ links \in [Headers -> Pointers] /\ srt \in Locals
  BY DEF Pointers, SortOK, ListOK
<1>3. /\ srt.p \in Pointers /\ srt.q \in Pointers
      /\ srt.list \in Pointers /\ srt.tail \in Pointers
      /\ srt.insize \in 1 .. count /\ srt.nmerges \in 0 .. count
      /\ srt.psize \in 0 .. count /\ srt.qsize \in 0 .. count
  BY <1>2 DEF Locals
<1>4. Double \in Nat /\ Double = srt.insize + srt.insize
  BY <1>1, <1>3 DEF Double
<1> QED  BY <1>1, <1>2, <1>3, <1>4

\* Only links and locals need be typed again.
LEMMA TypesKept ==
  ASSUME SortOK, OrderKept, srt' \in Locals, links' \in [Headers -> Pointers]
  PROVE  SortOK'
<1>1. Headers' = Headers /\ Pointers' = Pointers /\ Orders' = Orders
  BY SameOrder
<1>2. srt' \in Locals'
  BY <1>1 DEF Locals, OrderKept
<1> QED  BY <1>1, <1>2 DEF SortOK, ListOK, OrderKept

\* An order has every header at one place.
LEMMA OrderOfHeaders ==
  ASSUME SortOK, NEW f \in Orders
  PROVE  /\ \A i \in 1 .. count : f[i] \in Headers /\ f[i] # Null
         /\ \A i, j \in 1 .. count : f[i] = f[j] => i = j
         /\ \A i \in 1 .. count : Place(f, i) = f[i]
         /\ Place(f, count + 1) = Null
         /\ \A i : Place(f, i) \in Pointers
<1>1. \A i \in 1 .. count : f[i] \in Headers
  BY DEF Orders
<1>2. \A i \in 1 .. count : f[i] # Null
  BY <1>1, Fields
<1>3. \A i, j \in 1 .. count : f[i] = f[j] => i = j
  BY DEF Orders
<1>4. \A i \in 1 .. count : Place(f, i) = f[i]
  BY DEF Place
<1>5. Place(f, count + 1) = Null
  BY Fields DEF Place
<1>6. \A i : Place(f, i) \in Pointers
  BY <1>1 DEF Place, Pointers
<1> QED  BY <1>1, <1>2, <1>3, <1>4, <1>5, <1>6

\* The whole list is in runs of insize, and nothing is merged yet.
LEMMA BeginPassStep ==
  ASSUME SortOK, NEW f \in Orders, AtPass(f), BeginPass, OrderKept
  PROVE  SortOK' /\ Somewhere'
<1>1. /\ srt'.p = srt.list /\ srt'.list = Null /\ srt'.tail = Null /\ srt'.nmerges = 0
      /\ srt'.insize = srt.insize /\ links' = links /\ pc' = "merge"
  BY DEF BeginPass, SortOK, Locals
<1>2. SortOK'
  <2>1. srt \in Locals /\ links \in [Headers -> Pointers]
    BY Fields
  <2>2. srt.list \in Pointers /\ Null \in Pointers /\ 0 \in 0 .. count
    BY Fields
  <2>3. srt' \in Locals
    BY <2>1, <2>2 DEF BeginPass, Locals
  <2> QED  BY <2>1, <2>3, <1>1, TypesKept
<1>3. count \in Nat \ {0} /\ Double \in Nat /\ Double' = Double /\ srt.insize \in Nat
  BY <1>1, Fields DEF Double
<1>4. HalfWay(f, 0)'
  <2>1. Runs(f, Double, 0, 0)
    BY DEF Runs
  <2>2. Precede(f, 1, 0, count)
    BY DEF Precede
  <2>3. 0 = 0 * Double
    BY <1>3
  <2> QED  BY <2>1, <2>2, <2>3, <1>3, SameOrder DEF HalfWay
<1>5. Runs(f, srt.insize, 0, count)'
  BY <1>1, SameOrder DEF AtPass
<1>6. Counted(0, srt.nmerges)'
  BY <1>1 DEF Counted
<1>7. Merged(f, 0)'
  BY <1>1 DEF Merged, Linked
<1>8. srt'.p = Place(f, 0 + 1)'
  BY <1>1, <1>3, OrderOfHeaders, SameOrder DEF AtPass
<1>9. Linked(f, 0 + 1, count)'
  BY <1>1, SameOrder DEF AtPass, Linked
<1>10. AtMerge(f, 0)'
  BY <1>4, <1>5, <1>6, <1>7, <1>8, <1>9 DEF AtMerge
<1>11. SortPlace(f, 0, 0)'
  BY <1>1, <1>10 DEF SortPlace
<1>12. f \in Orders' /\ 0 \in (0 .. count)'
  BY <1>3, SameOrder
<1> QED  BY <1>2, <1>11, <1>12 DEF Somewhere

\* The run of p begins behind the headers merged so far.
LEMMA BeginMergeStep ==
  ASSUME SortOK, NEW f \in Orders, NEW m \in 0 .. count, AtMerge(f, m), BeginMerge,
         OrderKept
  PROVE  SortOK' /\ Somewhere'
<1>1. /\ srt'.p = srt.p /\ srt'.q = srt.p /\ srt'.list = srt.list /\ srt'.tail = srt.tail
      /\ srt'.nmerges = srt.nmerges + 1 /\ srt'.psize = 0 /\ srt'.insize = srt.insize
      /\ links' = links /\ pc' = "along"
  BY DEF BeginMerge, SortOK, Locals
<1>2. /\ count \in Nat \ {0} /\ Double \in Nat /\ Double' = Double /\ srt.nmerges \in Nat
      /\ srt.insize \in 1 .. count
  BY <1>1, Fields DEF Double
<1>3. m < count
  BY <1>2, OrderOfHeaders DEF BeginMerge, AtMerge
<1>4. srt.p = f[m + 1] /\ m + 1 \in 1 .. count
  BY <1>2, <1>3, OrderOfHeaders DEF AtMerge
<1>5. HalfWay(f, m)' /\ Runs(f, srt.insize, m, count)'
  BY <1>1, <1>2, SameOrder DEF AtMerge, HalfWay
<1>6. Counted(m, srt.nmerges - 1)'
  BY <1>1, <1>2, SameOrder DEF AtMerge, Counted
<1>7. Merged(f, m)' /\ Linked(f, m + 1, count)'
  BY <1>1, SameOrder DEF AtMerge, Merged, Linked
<1>8. AtAlong(f, m)'
  BY <1>1, <1>2, <1>3, <1>4, <1>5, <1>6, <1>7, SameOrder DEF AtAlong
<1>9. SortOK'
  <2>1. srt.nmerges + 1 \in 0 .. count
    BY <1>2, <1>3 DEF AtMerge, Counted
  <2>2. srt \in Locals /\ links \in [Headers -> Pointers]
    BY Fields
  <2>3. srt.p \in Pointers /\ 0 \in 0 .. count
    BY Fields
  <2>4. srt' \in Locals
    BY <2>1, <2>2, <2>3 DEF BeginMerge, Locals
  <2> QED  BY <2>2, <2>4, <1>1, TypesKept
<1>10. SortPlace(f, m, 0)'
  BY <1>1, <1>8 DEF SortPlace
<1>11. f \in Orders' /\ 0 \in (0 .. count)' /\ m \in (0 .. count)'
  BY <1>2, SameOrder
<1> QED  BY <1>9, <1>10, <1>11 DEF Somewhere

\* All headers are merged: they are in runs of twice the length, or in one run.
LEMMA EndPassStep ==
  ASSUME SortOK, NEW f \in Orders, NEW m \in 0 .. count, AtMerge(f, m), EndPass,
         OrderKept
  PROVE  SortOK' /\ Somewhere'
<1>1. count \in Nat \ {0} /\ Double \in Nat /\ srt.nmerges \in Nat /\ srt.insize \in 1 .. count
  BY Fields
<1>2. m = count
  BY <1>1, OrderOfHeaders DEF EndPass, AtMerge
<1>3. srt.list = f[1] /\ srt.tail = f[count] /\ f[count] \in Headers
  BY <1>1, <1>2, OrderOfHeaders DEF AtMerge, Merged
<1>4. /\ links' = [links EXCEPT ![f[count]] = Null] /\ links \in [Headers -> Pointers]
  BY <1>3, Fields DEF EndPass
<1>5. links' \in [Headers -> Pointers]
  BY <1>4 DEF Pointers
<1>6. Linked(f, 1, count)'
  <2> SUFFICES ASSUME NEW k \in 1 .. count
               PROVE  links'[f[k]] = Place(f, k + 1)
    BY SameOrder DEF Linked
  <2>1. CASE k = count
    BY <2>1, <1>3, <1>4, OrderOfHeaders
  <2>2. CASE k # count
    <3>1. k \in 1 .. m - 1 /\ count \in 1 .. count
      BY <2>2, <1>1, <1>2
    <3>2. links[f[k]] = Place(f, k + 1) /\ f[k] # f[count]
      BY <2>2, <3>1, OrderOfHeaders DEF AtMerge, Merged, Linked
    <3>3. f[k] \in Headers
      BY OrderOfHeaders
    <3> QED  BY <3>2, <3>3, <1>3, <1>4
  <2> QED  BY <2>1, <2>2
<1>7. Runs(f, Double, 0, count)
  BY <1>2 DEF AtMerge, HalfWay
<1>8. f \in Orders' /\ 0 \in (0 .. count)'
  BY <1>1, SameOrder
<1>9. CASE srt.nmerges <= 1
  <2>1. pc' = srt.to /\ srt' = srt
    BY <1>9 DEF EndPass
  <2>2. count <= Double
    BY <1>1, <1>2, <1>9 DEF AtMerge, Counted
  <2>3. InOrder(f, 1, count)
    <3>1. \A i, j \in 0 + 1 .. count : i < j /\ j <= 0 + Double => Ordered(f[i], f[j])
      BY <1>1, <1>7, FirstRuns
    <3> QED  BY <1>1, <2>2, <3>1 DEF InOrder
  <2>4. AtReturn(f)'
    BY <1>3, <1>6, <2>1, <2>3, SameOrder DEF AtReturn
  <2>5. SortPlace(f, 0, 0)'
    <3>1. pc' \notin {"pass", "merge", "along", "pick"}
      BY <2>1, Fields DEF Locals
    <3> QED  BY <2>4, <3>1 DEF SortPlace
  <2>6. SortOK'
    BY <2>1, <1>5, Fields, TypesKept
  <2> QED  BY <2>5, <2>6, <1>8 DEF Somewhere
<1>10. CASE ~(srt.nmerges <= 1)
  <2>1. pc' = "pass" /\ srt' = [srt EXCEPT !.insize = 2 * srt.insize]
    BY <1>10 DEF EndPass
  <2>2. srt'.insize = Double /\ srt'.list = srt.list
    BY <2>1, Fields DEF Locals, Double
  <2>3. Double \in 1 .. count
    BY <1>1, <1>10, Fields DEF AtMerge, Counted
  <2>4. AtPass(f)'
    BY <1>3, <1>6, <1>7, <2>2, SameOrder DEF AtPass
  <2>5. SortPlace(f, 0, 0)'
    BY <2>1, <2>4 DEF SortPlace
  <2>6. SortOK'
    <3>1. srt' \in Locals
      BY <2>1, <2>3, Fields DEF Double, Locals
    <3> QED  BY <1>5, <3>1, TypesKept
  <2> QED  BY <2>5, <2>6, <1>8 DEF Somewhere
<1> QED  BY <1>9, <1>10

\* q follows the list; when it stops, the two runs are where p and q point to.
LEMMA StepAlongStep ==
  ASSUME SortOK, NEW f \in Orders, NEW m \in 0 .. count, AtAlong(f, m), StepAlong,
         OrderKept
  PROVE  SortOK' /\ Somewhere'
<1>0. PICK w, r : w = srt.insize /\ r = m + srt.psize + 1
  OBVIOUS
<1>1. /\ count \in Nat \ {0} /\ Double \in Nat /\ Double = w + w /\ w \in 1 .. count
      /\ srt.psize \in 0 .. count /\ srt.nmerges \in Nat /\ m \in Nat
      /\ r \in Nat /\ r <= count /\ m < r /\ r <= m + w /\ r \in 1 .. count
  BY <1>0, Fields DEF AtAlong
<1>2. links[srt.q] = Place(f, r + 1)
  BY <1>0, <1>1 DEF AtAlong, Linked
<1>3. /\ srt'.p = srt.p /\ srt'.q = Place(f, r + 1) /\ srt'.list = srt.list /\ srt'.tail = srt.tail
      /\ srt'.nmerges = srt.nmerges /\ srt'.psize = srt.psize + 1 /\ srt'.insize = w
      /\ srt'.qsize \in {srt.qsize, w} /\ links' = links
      /\ srt \in Locals /\ links \in [Headers -> Pointers]
  BY <1>0, <1>2, Fields DEF StepAlong, Locals
<1>4. Double' = Double
  BY <1>0, <1>3 DEF Double
<1>5. SortOK'
  <2>1. srt.psize + 1 \in 0 .. count /\ w \in 0 .. count /\ Place(f, r + 1) \in Pointers
    BY <1>0, <1>1, OrderOfHeaders
  <2>2. srt' \in Locals
    BY <1>0, <1>2, <1>3, <2>1 DEF StepAlong, Locals
  <2> QED  BY <1>3, <2>2, TypesKept
<1>6. HalfWay(f, m)' /\ Merged(f, m)' /\ Counted(m, srt.nmerges - 1)'
  BY <1>3, <1>4, SameOrder DEF AtAlong, HalfWay, Merged, Linked, Counted
<1>7. f \in Orders' /\ m \in (0 .. count)'
  BY SameOrder
<1>8. CASE srt.psize + 1 = srt.insize \/ links[srt.q] = Null
  <2>1. pc' = "pick" /\ srt'.qsize = w
    BY <1>0, <1>8, Fields DEF StepAlong, Locals
  <2>2. r = m + w \/ (r = count /\ r < m + w)
    <3>1. links[srt.q] = Null => r = count
      BY <1>1, <1>2, OrderOfHeaders
    <3> QED  BY <1>0, <1>1, <1>8, <3>1
  <2>3. Behind(m)' = r
    BY <1>0, <1>1, <1>3 DEF Behind
  <2>4. End(m)' = End(m) /\ End(m) \in m .. count /\ r <= End(m)
    BY <1>1, <1>4, SameOrder DEF End
  <2>5. MergePlaces(m, m)'
    <3>1. m < count /\ srt.nmerges > 0
      BY DEF AtAlong
    <3>2. \/ r + w = m + Double
          \/ End(m) = count /\ r + w >= count
      BY <1>1, <2>2 DEF End
    <3> QED  BY <1>1, <1>3, <1>4, <1>6, <2>1, <2>3, <2>4, <3>1, <3>2, SameOrder DEF MergePlaces
  <2>6. MergeLinks(f, m)'
    <3>1. srt.p = f[m + 1] /\ Linked(f, m + 1, count)
      BY DEF AtAlong
    <3>2. Linked(f, m + 1, r - 1)' /\ Linked(f, r + 1, count)'
      BY <1>1, <1>3, <3>1, SameOrder DEF Linked
    <3>3. srt'.q = Place(f, r + 1)'
      BY <1>3, SameOrder
    <3> QED  BY <1>3, <1>6, <2>3, <3>1, <3>2, <3>3 DEF MergeLinks
  <2>7. /\ \A i, j \in m + 1 .. count : i < j /\ j <= m + w => Ordered(f[i], f[j])
        /\ \A i, j \in m + 1 .. count : i <= m + w /\ m + w < j => PlaceOf(f[i]) < PlaceOf(f[j])
        /\ \A i, j \in m + 1 .. count : m + w < i /\ i < j /\ j <= m + 2 * w => Ordered(f[i], f[j])
        /\ \A i, j \in m + 1 .. count : i <= m + 2 * w /\ m + 2 * w < j => PlaceOf(f[i]) < PlaceOf(f[j])
        /\ Runs(f, w, m + 2 * w, count)
    <3>1. Runs(f, w, m, count) /\ w \in Nat
      BY <1>0, <1>1 DEF AtAlong
    <3> QED  BY <1>1, <3>1, FirstRuns
  <2>8. End(m) = m + 2 * w \/ (End(m) = count /\ count < m + 2 * w)
    BY <1>1 DEF End
  <2>9. Runs(f, w, End(m), count)
    <3>1. Runs(f, w, count, count)
      BY <1>1 DEF Runs
    <3> QED  BY <2>7, <2>8, <3>1
  <2>10. Precede(f, 1, End(m), count)
    <3> SUFFICES ASSUME NEW k \in 1 .. End(m), NEW l \in End(m) + 1 .. count
                 PROVE  PlaceOf(f[k]) < PlaceOf(f[l])
      BY DEF Precede
    <3>1. End(m) = m + 2 * w /\ l \in m + 1 .. count
      BY <1>1, <2>4, <2>8
    <3>2. CASE k <= m
      BY <1>1, <3>1, <3>2 DEF AtAlong, HalfWay, Precede
    <3>3. CASE ~(k <= m)
      <4>1. k \in m + 1 .. count /\ k <= m + 2 * w /\ m + 2 * w < l
        BY <1>1, <2>4, <3>1, <3>3
      <4> QED  BY <2>7, <3>1, <4>1
    <3> QED  BY <3>2, <3>3
  <2>11. InOrder(f, m + 1, m) /\ InOrder(f, m + 1, r)
    BY <1>1, <2>7 DEF InOrder
  <2>12. InOrder(f, r + 1, End(m))
    BY <1>1, <2>2, <2>4, <2>7, <2>8 DEF InOrder
  <2>13. Precede(f, m + 1, r, End(m))
    BY <1>1, <2>2, <2>4, <2>7, <2>8 DEF Precede
  <2>14. MergeOrder(f, m, m)'
    <3>1. \A i \in m + 1 .. m, j \in m + 1 .. End(m)' : Ordered(f[i], f[j])'
      BY <1>1
    <3>3. /\ Runs(f, srt.insize, End(m), count)' /\ Precede(f, 1, End(m), count)'
          /\ InOrder(f, m + 1, m)' /\ InOrder(f, m + 1, Behind(m))'
          /\ InOrder(f, Behind(m) + 1, End(m))' /\ Precede(f, m + 1, Behind(m), End(m))'
      BY <1>0, <1>3, <2>3, <2>4, <2>9, <2>10, <2>11, <2>12, <2>13, SameOrder
    <3> QED  BY <1>6, <3>1, <3>3 DEF MergeOrder
  <2>15. SortPlace(f, m, m)'
    BY <2>1, <2>5, <2>6, <2>14 DEF SortPlace, AtPick
  <2> QED  BY <1>5, <1>7, <2>15 DEF Somewhere
<1>9. CASE ~(srt.psize + 1 = srt.insize \/ links[srt.q] = Null)
  <2>1. pc' = "along"
    BY <1>9 DEF StepAlong
  <2>2. r < count /\ srt.psize + 1 < srt.insize
    BY <1>0, <1>1, <1>2, <1>9, OrderOfHeaders DEF AtAlong
  <2>3. srt'.q = f[m + srt'.psize + 1] /\ m + srt'.psize + 1 <= count
    BY <1>0, <1>1, <1>3, <2>2, OrderOfHeaders
  <2>4. /\ Runs(f, srt.insize, m, count)' /\ m < count' /\ srt'.nmerges > 0
        /\ srt'.p = f[m + 1] /\ Linked(f, m + 1, count)' /\ srt'.psize < srt'.insize
    BY <1>0, <1>3, <2>2, SameOrder DEF AtAlong, Linked
  <2>5. AtAlong(f, m)'
    BY <1>6, <2>3, <2>4, SameOrder DEF AtAlong
  <2>6. SortPlace(f, m, m)'
    BY <2>1, <2>5 DEF SortPlace
  <2> QED  BY <1>5, <1>7, <2>6 DEF Somewhere
<1> QED  BY <1>8, <1>9

-----------------------------------------------------------------------------
\* The merges

\* During a merge: places, and what the tests of the loop mean.
LEMMA MergeFields ==
  ASSUME SortOK, NEW f \in Orders, NEW m \in 0 .. count, NEW b \in 0 .. count, AtPick(f, m, b)
  PROVE  /\ m \in Nat /\ b \in Nat /\ Behind(m) \in m .. count /\ Behind(m) = m + srt.psize
         /\ End(b) \in Behind(m) .. count /\ b < End(b) /\ b <= m
         /\ End(b) <= b + Double /\ (End(b) = b + Double \/ End(b) = count)
         /\ PLeft <=> m < Behind(m)
         /\ QLeft <=> Behind(m) < End(b)
         /\ PLeft => m + 1 \in 1 .. count /\ srt.p = f[m + 1]
         /\ QLeft => Behind(m) + 1 \in 1 .. count /\ srt.q = f[Behind(m) + 1]
<1>1. /\ count \in Nat \ {0} /\ Double \in Nat \ {0} /\ m \in Nat /\ b \in Nat
      /\ srt.psize \in 0 .. count /\ srt.qsize \in 0 .. count
  BY Fields
<1>2. /\ b < count /\ b <= m /\ Behind(m) <= End(b)
      /\ \/ Behind(m) + srt.qsize = b + Double
         \/ End(b) = count /\ Behind(m) + srt.qsize >= count
      /\ srt.psize > 0 => srt.p = f[m + 1]
      /\ srt.q = Place(f, Behind(m) + 1)
  BY DEF AtPick, MergePlaces, MergeLinks
<1>3. /\ End(b) \in Nat /\ b < End(b) /\ End(b) <= count
      /\ End(b) <= b + Double /\ (End(b) = b + Double \/ End(b) = count)
  BY <1>1, <1>2 DEF End
<1>4. Behind(m) = m + srt.psize
  BY DEF Behind
<1>5. /\ Behind(m) \in m .. count /\ End(b) \in Behind(m) .. count
      /\ PLeft <=> m < Behind(m)
      /\ PLeft => m + 1 \in 1 .. count /\ srt.p = f[m + 1]
  BY <1>1, <1>2, <1>3, <1>4 DEF PLeft
<1>6. /\ Behind(m) < count => srt.q = f[Behind(m) + 1] /\ srt.q # Null
      /\ Behind(m) = count => srt.q = Null
  BY <1>1, <1>2, <1>5, OrderOfHeaders
<1>7. QLeft <=> Behind(m) < End(b)
  BY <1>1, <1>2, <1>3, <1>5, <1>6 DEF QLeft
<1>8. QLeft => Behind(m) + 1 \in 1 .. count /\ srt.q = f[Behind(m) + 1]
  BY <1>1, <1>3, <1>5, <1>6, <1>7
<1> QED  BY <1>1, <1>2, <1>3, <1>4, <1>5, <1>7, <1>8

\* Two runs have become one of twice the length, or what is left of it.
LEMMA MergeDoneStep ==
  ASSUME SortOK, NEW f \in Orders, NEW m \in 0 .. count, NEW b \in 0 .. count, AtPick(f, m, b),
         MergeDone, OrderKept
  PROVE  SortOK' /\ Somewhere'
<1>1. /\ srt'.p = srt.q /\ srt'.list = srt.list /\ srt'.tail = srt.tail
      /\ srt'.nmerges = srt.nmerges /\ srt'.insize = srt.insize
      /\ links' = links /\ pc' = "merge" /\ srt \in Locals /\ links \in [Headers -> Pointers]
  BY Fields DEF MergeDone, Locals
<1>2. SortOK'
  <2>1. srt' \in Locals
    BY <1>1 DEF MergeDone, Locals
  <2> QED  BY <1>1, <2>1, TypesKept
<1>3. /\ m \in Nat /\ b \in Nat /\ count \in Nat \ {0} /\ Double \in Nat \ {0}
      /\ m = End(b) /\ Behind(m) = m /\ b < m /\ m <= b + Double /\ m <= count
      /\ m = b + Double \/ m = count
      /\ srt.nmerges \in Nat
  BY Fields, MergeFields DEF MergeDone
<1>4. Double' = Double
  BY <1>1 DEF Double
<1>5. PICK c \in Nat : b = c * Double
  BY <1>3 DEF AtPick, MergeOrder, HalfWay, MergePlaces
<1>6. Runs(f, Double, 0, m)
  <2>1. Runs(f, Double, 0, b) /\ InOrder(f, b + 1, m)
    BY DEF AtPick, MergeOrder, HalfWay
  <2>2. Precede(f, 1, b, m)
    BY <1>3 DEF AtPick, MergeOrder, HalfWay, Precede
  <2>3. m \in Nat /\ b \in Nat /\ Double \in Nat /\ b <= m /\ m <= b + Double
    BY <1>3
  <2> QED  BY <1>5, <2>1, <2>2, <2>3, OneMoreRun
<1>7. m < count => \E d \in Nat : m = d * Double
  <2>1. (c + 1) * Double = c * Double + Double
    BY <1>3
  <2>2. m < count => m = (c + 1) * Double
    BY <1>3, <1>5, <2>1
  <2> QED  BY <2>2
<1>8. HalfWay(f, m)'
  BY <1>3, <1>4, <1>6, <1>7, SameOrder DEF HalfWay, AtPick, MergeOrder
<1>9. Counted(m, srt.nmerges)
  <2>1. srt.nmerges > 0 /\ Counted(b, srt.nmerges - 1) /\ b < count
    BY DEF AtPick, MergePlaces
  <2> QED  BY <1>3, <2>1 DEF Counted
<1>10. Counted(m, srt.nmerges)'
  BY <1>1, <1>4, <1>9, SameOrder DEF Counted
<1>11. Runs(f, srt.insize, m, count)'
  BY <1>1, <1>3, SameOrder DEF AtPick, MergeOrder
<1>12. Merged(f, m)' /\ srt'.p = Place(f, m + 1)' /\ Linked(f, m + 1, count)'
  BY <1>1, <1>3, SameOrder DEF AtPick, MergeLinks, Merged, Linked
<1>13. SortPlace(f, m, b)'
  BY <1>1, <1>8, <1>10, <1>11, <1>12 DEF SortPlace, AtMerge
<1>14. f \in Orders' /\ m \in (0 .. count)' /\ b \in (0 .. count)'
  BY SameOrder
<1> QED  BY <1>2, <1>13, <1>14 DEF Somewhere

\* The header that is taken is linked to the m that are.
LEMMA LinkStep ==
  ASSUME SortOK, NEW f \in Orders, NEW m \in 0 .. count, Merged(f, m),
         NEW e \in Headers, LinkToTail(e)
  PROVE  /\ links' \in [Headers -> Pointers]
         /\ \A i \in 1 .. count : i # m => links'[f[i]] = links[f[i]]
         /\ m > 0 => links'[f[m]] = e
<1>1. /\ links \in [Headers -> Pointers] /\ e \in Pointers
      /\ m > 0 => m \in 1 .. count
  BY Fields DEF SortOK
<1>2. CASE m = 0
  BY <1>1, <1>2 DEF LinkToTail, Merged
<1>3. CASE m # 0
  <2>1. m \in 1 .. count /\ srt.tail = f[m] /\ f[m] # Null /\ f[m] \in Headers
    BY <1>3, OrderOfHeaders DEF Merged
  <2>2. links' = [links EXCEPT ![f[m]] = e]
    BY <2>1 DEF LinkToTail
  <2>3. \A i \in 1 .. count : f[i] \in Headers /\ (i # m => f[i] # f[m])
    BY <2>1, OrderOfHeaders
  <2> QED  BY <1>1, <2>1, <2>2, <2>3
<1> QED  BY <1>2, <1>3

\* The header of p is the next in the order: it was in front of all of q.
LEMMA TakePStep ==
  ASSUME SortOK, NEW f \in Orders, NEW m \in 0 .. count, NEW b \in 0 .. count, AtPick(f, m, b),
         PLeft, NEW x \in Headers, NEW y \in Headers, srt.p = x,
         QLeft => srt.q = y /\ Ordered(x, y)', TakeP, pc = "pick", UNCHANGED pc, OrderKept
  PROVE  SortOK' /\ Somewhere'
<1>0. PICK r, e : r = Behind(m) /\ e = End(b)
  OBVIOUS
<1>1. /\ count \in Nat \ {0} /\ m \in Nat /\ b \in Nat /\ r \in Nat /\ e \in Nat
      /\ b <= m /\ m < r /\ r <= e /\ e <= count /\ b < e
      /\ m + 1 \in 1 .. count /\ srt.p = f[m + 1] /\ f[m + 1] \in Headers
      /\ srt.psize \in 1 .. count /\ srt.qsize \in 0 .. count /\ r = m + srt.psize
  BY <1>0, Fields, MergeFields, OrderOfHeaders DEF PLeft
<1>2. /\ srt'.p = links[srt.p] /\ srt'.q = srt.q /\ srt'.psize = srt.psize - 1
      /\ srt'.tail = f[m + 1] /\ srt'.list = (IF srt.tail = Null THEN f[m + 1] ELSE srt.list)
      /\ srt'.nmerges = srt.nmerges /\ srt'.insize = srt.insize /\ srt'.qsize = srt.qsize
      /\ srt \in Locals
  BY <1>1, Fields DEF TakeP, Locals
<1>3. Merged(f, m) /\ LinkToTail(f[m + 1])
  BY <1>1 DEF AtPick, MergeLinks, TakeP
<1>4. /\ links' \in [Headers -> Pointers]
      /\ \A i \in 1 .. count : i # m => links'[f[i]] = links[f[i]]
      /\ m > 0 => links'[f[m]] = f[m + 1]
  BY <1>1, <1>3, LinkStep
<1>5. SortOK'
  <2>1. links[srt.p] \in Pointers /\ srt.psize - 1 \in 0 .. count
    <3>1. links \in [Headers -> Pointers] /\ srt.p \in Headers
      BY <1>1, Fields
    <3>2. srt.psize \in 1 .. count /\ count \in Nat
      BY <1>1
    <3> QED  BY <3>1, <3>2
  <2>2. srt.p \in Pointers
    BY Fields
  <2>3. srt' \in Locals
    BY <1>2, <2>1, <2>2 DEF TakeP, Locals
  <2> QED  BY <1>4, <2>3, TypesKept
<1>6. Double' = Double /\ Behind(m + 1)' = r /\ End(b)' = e
  BY <1>0, <1>1, <1>2, SameOrder DEF Double, Behind, End
<1>7. MergePlaces(m + 1, b)'
  <2>1. MergePlaces(m, b)
    BY DEF AtPick
  <2>2. Counted(b, srt.nmerges - 1)'
    BY <1>2, <1>6, <2>1, SameOrder DEF MergePlaces, Counted
  <2> QED  BY <1>0, <1>1, <1>2, <1>6, <2>1, <2>2, SameOrder DEF MergePlaces
<1>8. MergeLinks(f, m + 1)'
  <2>1. /\ Linked(f, 1, m - 1) /\ Linked(f, m + 1, r - 1) /\ Linked(f, r + 1, count)
        /\ srt.list = (IF m = 0 THEN Null ELSE f[1]) /\ srt.tail = (IF m = 0 THEN Null ELSE f[m])
        /\ srt.q = Place(f, r + 1)
    BY <1>0 DEF AtPick, MergeLinks, Merged
  <2>2. Linked(f, 1, m)'
    <3> SUFFICES ASSUME NEW k \in 1 .. m
                 PROVE  links'[f[k]] = Place(f, k + 1)
      BY SameOrder DEF Linked
    <3>1. CASE k = m
      BY <1>1, <1>4, <3>1, OrderOfHeaders
    <3>2. CASE k # m
      BY <1>1, <1>4, <2>1, <3>2 DEF Linked
    <3> QED  BY <3>1, <3>2
  <2>3. Linked(f, m + 2, r - 1)' /\ Linked(f, r + 1, count)'
    BY <1>1, <1>4, <2>1, SameOrder DEF Linked
  <2>4. Merged(f, m + 1)'
    <3>1. srt'.list = f[1]
      BY <1>1, <1>2, <2>1, OrderOfHeaders
    <3> QED  BY <1>1, <1>2, <2>2, <3>1 DEF Merged
  <2>5. srt'.psize > 0 => srt'.p = f[m + 2]
    BY <1>1, <1>2, <2>1, OrderOfHeaders DEF Linked
  <2>6. srt'.q = Place(f, r + 1)'
    BY <1>2, <2>1, SameOrder
  <2> QED  BY <1>1, <1>6, <2>3, <2>4, <2>5, <2>6 DEF MergeLinks
<1>9. /\ InOrder(f, b + 1, m) /\ InOrder(f, m + 1, r) /\ InOrder(f, r + 1, e)
      /\ \A i \in b + 1 .. m, j \in m + 1 .. e : Ordered(f[i], f[j])
      /\ Precede(f, m + 1, r, e)
  BY <1>0 DEF AtPick, MergeOrder
<1>10. InOrder(f, b + 1, m + 1) /\ InOrder(f, m + 2, r) /\ Precede(f, m + 2, r, e)
  BY <1>1, <1>9 DEF InOrder, Precede
<1>11. ASSUME NEW i \in b + 1 .. m + 1, NEW j \in m + 2 .. e
       PROVE  Ordered(f[i], f[j])'
  <2>1. CASE i <= m
    BY <1>1, <1>9, <2>1 DEF OrderKept
  <2>2. CASE i = m + 1 /\ j <= r
    BY <1>1, <1>9, <2>2 DEF InOrder, OrderKept
  <2>3. CASE i = m + 1 /\ ~(j <= r)
    <3>1. r < e /\ r + 1 \in 1 .. count /\ j \in r + 1 .. e /\ r + 1 \in r + 1 .. e
      BY <1>1, <2>3
    <3>2. QLeft /\ srt.q = f[r + 1]
      BY <1>0, <3>1, MergeFields
    <3>3. Ordered(f[m + 1], f[r + 1])'
      BY <1>1, <3>2
    <3>4. j = r + 1 \/ Ordered(f[r + 1], f[j])'
      BY <1>1, <1>9, <3>1 DEF InOrder, OrderKept
    <3> QED  BY <2>3, <3>3, <3>4 DEF OrderKept, OrderedTransitive
  <2> QED  BY <1>1, <2>1, <2>2, <2>3
<1>12. MergeOrder(f, m + 1, b)'
  <2>1. HalfWay(f, b)' /\ Runs(f, srt.insize, End(b), count)' /\ Precede(f, 1, End(b), count)'
    BY <1>0, <1>2, <1>6, SameOrder DEF AtPick, MergeOrder, HalfWay
  <2>2. \A i \in b + 1 .. m + 1, j \in m + 1 + 1 .. End(b)' : Ordered(f[i], f[j])'
    BY <1>1, <1>6, <1>11
  <2>3. InOrder(f, r + 1, e)
    BY <1>9
  <2>4. m + 1 + 1 = m + 2
    BY <1>1
  <2> QED  BY <1>6, <1>10, <2>1, <2>2, <2>3, <2>4, SameOrder DEF MergeOrder
<1>13. SortPlace(f, m + 1, b)'
  BY <1>7, <1>8, <1>12 DEF SortPlace, AtPick
<1>14. f \in Orders' /\ m + 1 \in (0 .. count)' /\ b \in (0 .. count)'
  BY <1>1, SameOrder
<1> QED  BY <1>5, <1>13, <1>14 DEF Somewhere

\* The order in which place r + 1 comes to place m + 1, in front of those between.
Rotated(f, m, r) ==
  [i \in 1 .. count |-> IF i = m + 1 THEN f[r + 1]
                     ELSE IF m + 1 < i /\ i <= r + 1 THEN f[i - 1] ELSE f[i]]

\* The order after it is one again.
LEMMA RotatedOrder ==
  ASSUME SortOK, NEW f \in Orders, NEW m \in Nat, NEW r \in Nat, m <= r, r < count
  PROVE  /\ Rotated(f, m, r) \in Orders
         /\ Rotated(f, m, r)[m + 1] = f[r + 1]
         /\ \A i \in 1 .. count : i <= m \/ i > r + 1 => Rotated(f, m, r)[i] = f[i]
         /\ \A i \in m + 2 .. r + 1 : Rotated(f, m, r)[i] = f[i - 1]
         /\ \A i \in m + 1 .. r : Rotated(f, m, r)[i + 1] = f[i]
<1>0. PICK g : g = Rotated(f, m, r)
  OBVIOUS
<1> DEFINE At(i) == IF i = m + 1 THEN r + 1 ELSE IF m + 1 < i /\ i <= r + 1 THEN i - 1 ELSE i
           Back(x) == IF x = r + 1 THEN m + 1 ELSE IF m < x /\ x <= r THEN x + 1 ELSE x
<1>1. count \in Nat \ {0}
  BY Fields
<1>2. /\ f \in [1 .. count -> Headers]
      /\ \A i, j \in 1 .. count : f[i] = f[j] => i = j
      /\ \A c \in Headers : \E i \in 1 .. count : f[i] = c
  BY DEF Orders
<1>3. ASSUME NEW i \in 1 .. count
      PROVE  /\ At(i) \in 1 .. count /\ Back(i) \in 1 .. count
             /\ Back(At(i)) = i /\ At(Back(i)) = i
             /\ g[i] = f[At(i)]
  <2>2. g[i] = IF i = m + 1 THEN f[r + 1]
               ELSE IF m + 1 < i /\ i <= r + 1 THEN f[i - 1] ELSE f[i]
    BY <1>0 DEF Rotated
  <2>3. g[i] = f[At(i)]
    BY <2>2
  <2>4. At(i) \in 1 .. count /\ Back(i) \in 1 .. count
    BY <1>1
  <2>5. Back(At(i)) = i
    BY <1>1
  <2>6. At(Back(i)) = i
    BY <1>1
  <2> QED  BY <2>3, <2>4, <2>5, <2>6
<1>4. /\ g[m + 1] = f[r + 1]
      /\ \A i \in 1 .. count : i <= m \/ i > r + 1 => g[i] = f[i]
      /\ \A i \in m + 2 .. r + 1 : g[i] = f[i - 1]
      /\ \A i \in m + 1 .. r : g[i + 1] = f[i]
  <2>1. /\ m + 1 \in 1 .. count /\ At(m + 1) = r + 1
    BY <1>1
  <2>2. \A i \in 1 .. count : i <= m \/ i > r + 1 => At(i) = i
    BY <1>1
  <2>3. \A i \in m + 2 .. r + 1 : i \in 1 .. count /\ At(i) = i - 1
    BY <1>1
  <2>4. \A i \in m + 1 .. r : i + 1 \in 1 .. count /\ At(i + 1) = i
    BY <1>1
  <2> HIDE DEF At, Back
  <2> QED  BY <1>3, <2>1, <2>2, <2>3, <2>4
<1> HIDE DEF At, Back
<1>5. g = [i \in 1 .. count |-> g[i]]
  BY <1>0 DEF Rotated
<1>6. \A i \in 1 .. count : g[i] \in Headers
  BY <1>1, <1>2, <1>3
<1>7. \A i, j \in 1 .. count : g[i] = g[j] => i = j
  <2> SUFFICES ASSUME NEW i \in 1 .. count, NEW j \in 1 .. count, g[i] = g[j]
               PROVE  i = j
    OBVIOUS
  <2>1. /\ At(i) \in 1 .. count /\ At(j) \in 1 .. count /\ Back(At(i)) = i /\ Back(At(j)) = j
        /\ g[i] = f[At(i)] /\ g[j] = f[At(j)]
    BY <1>1, <1>3
  <2>2. At(i) = At(j)
    BY <1>2, <2>1
  <2> QED  BY <2>1, <2>2
<1>8. \A c \in Headers : \E i \in 1 .. count : g[i] = c
  <2> SUFFICES ASSUME NEW c \in Headers
               PROVE  \E i \in 1 .. count : g[i] = c
    OBVIOUS
  <2>1. PICK x \in 1 .. count : f[x] = c
    BY <1>2
  <2>2. Back(x) \in 1 .. count /\ At(Back(x)) = x
    BY <1>1, <1>3
  <2>3. g[Back(x)] = c
    BY <1>1, <1>3, <2>1, <2>2
  <2> QED  BY <2>2, <2>3
<1>9. g \in [1 .. count -> Headers]
  BY <1>5, <1>6
<1>10. g \in Orders
  BY <1>7, <1>8, <1>9 DEF Orders
<1> QED  BY <1>0, <1>4, <1>10

\* The header of q moves in front of what is left of p.
LEMMA TakeQStep ==
  ASSUME SortOK, NEW f \in Orders, NEW m \in 0 .. count, NEW b \in 0 .. count, AtPick(f, m, b),
         QLeft, NEW x \in Headers, NEW y \in Headers, srt.q = y,
         PLeft => srt.p = x /\ Ordered(y, x)', TakeQ, pc = "pick", UNCHANGED pc, OrderKept
  PROVE  SortOK' /\ Somewhere'
<1>0. PICK r, e, g : r = Behind(m) /\ e = End(b) /\ g = Rotated(f, m, Behind(m))
  OBVIOUS
<1>1. /\ count \in Nat \ {0} /\ m \in Nat /\ b \in Nat /\ r \in Nat /\ e \in Nat
      /\ b <= m /\ m <= r /\ r < e /\ e <= count /\ b < e
      /\ r + 1 \in 1 .. count /\ srt.q = f[r + 1] /\ f[r + 1] \in Headers
      /\ srt.psize \in 0 .. count /\ srt.qsize \in 1 .. count /\ r = m + srt.psize
  <2>1. /\ m \in Nat /\ b \in Nat /\ r \in m .. count /\ r = m + srt.psize
        /\ e \in r .. count /\ b < e /\ b <= m /\ r < e
        /\ r + 1 \in 1 .. count /\ srt.q = f[r + 1]
    BY <1>0, MergeFields
  <2>2. count \in Nat \ {0} /\ srt.psize \in 0 .. count /\ srt.qsize \in 0 .. count
    BY Fields
  <2>3. srt.qsize \in 1 .. count
    BY <2>2 DEF QLeft
  <2>4. f[r + 1] \in Headers
    BY <2>1, OrderOfHeaders
  <2> QED  BY <2>1, <2>2, <2>3, <2>4
<1>2. /\ srt'.p = srt.p /\ srt'.q = links[srt.q] /\ srt'.qsize = srt.qsize - 1
      /\ srt'.tail = f[r + 1] /\ srt'.list = (IF srt.tail = Null THEN f[r + 1] ELSE srt.list)
      /\ srt'.nmerges = srt.nmerges /\ srt'.insize = srt.insize /\ srt'.psize = srt.psize
      /\ srt \in Locals
  BY <1>1, Fields DEF TakeQ, Locals
<1>3. Merged(f, m) /\ LinkToTail(f[r + 1])
  BY <1>1 DEF AtPick, MergeLinks, TakeQ
<1>4. /\ links' \in [Headers -> Pointers]
      /\ \A i \in 1 .. count : i # m => links'[f[i]] = links[f[i]]
      /\ m > 0 => links'[f[m]] = f[r + 1]
  BY <1>1, <1>3, LinkStep
<1>5. SortOK'
  <2>1. links[srt.q] \in Pointers /\ srt.qsize - 1 \in 0 .. count
    <3>1. links \in [Headers -> Pointers] /\ srt.q \in Headers
      BY <1>1, Fields
    <3>2. srt.qsize \in 1 .. count /\ count \in Nat
      BY <1>1
    <3> QED  BY <3>1, <3>2
  <2>2. srt.q \in Pointers
    BY Fields
  <2>3. srt' \in Locals
    BY <1>2, <2>1, <2>2 DEF TakeQ, Locals
  <2> QED  BY <1>4, <2>3, TypesKept
<1>6. Double' = Double /\ Behind(m + 1)' = r + 1 /\ End(b)' = e
  BY <1>0, <1>1, <1>2, SameOrder DEF Double, Behind, End
<1>7. MergePlaces(m + 1, b)'
  <2>1. MergePlaces(m, b)
    BY DEF AtPick
  <2>2. Counted(b, srt.nmerges - 1)'
    BY <1>2, <1>6, <2>1, SameOrder DEF MergePlaces, Counted
  <2>3. b < count /\ srt'.nmerges > 0 /\ b <= m + 1 /\ r + 1 <= e /\ count' = count
    BY <1>0, <1>1, <1>2, <2>1, SameOrder DEF MergePlaces
  <2>4. \/ r + srt.qsize = b + Double
        \/ e = count /\ r + srt.qsize >= count
    BY <1>0, <2>1 DEF MergePlaces
  <2>5. \/ r + 1 + srt'.qsize = b + Double
        \/ e = count /\ r + 1 + srt'.qsize >= count
    <3>1. r + 1 + srt'.qsize = r + srt.qsize
      BY <1>1, <1>2
    <3> QED  BY <2>4, <3>1
  <2> QED  BY <1>6, <2>2, <2>3, <2>5 DEF MergePlaces
<1>8. /\ g \in Orders /\ g[m + 1] = f[r + 1]
      /\ \A i \in 1 .. count : i <= m \/ i > r + 1 => g[i] = f[i]
      /\ \A i \in m + 2 .. r + 1 : g[i] = f[i - 1]
      /\ \A i \in m + 1 .. r : g[i + 1] = f[i]
  <2>1. m \in Nat /\ r \in Nat /\ m <= r /\ r < count /\ g = Rotated(f, m, r)
    BY <1>0, <1>1
  <2> QED  BY <2>1, RotatedOrder
<1>9. MergeLinks(g, m + 1)'
  <2>1. /\ Linked(f, 1, m - 1) /\ Linked(f, m + 1, r - 1) /\ Linked(f, r + 1, count)
        /\ srt.list = (IF m = 0 THEN Null ELSE f[1]) /\ srt.tail = (IF m = 0 THEN Null ELSE f[m])
        /\ srt.psize > 0 => srt.p = f[m + 1]
    BY <1>0 DEF AtPick, MergeLinks, Merged
  <2>2. Linked(g, 1, m)'
    <3> SUFFICES ASSUME NEW k \in 1 .. m
                 PROVE  links'[g[k]] = Place(g, k + 1)
      BY SameOrder DEF Linked
    <3>1. CASE k = m
      BY <1>1, <1>4, <1>8, <3>1, OrderOfHeaders
    <3>2. CASE k # m
      <4>1. g[k] = f[k] /\ Place(g, k + 1) = f[k + 1]
        <5>1. k \in 1 .. count /\ k + 1 \in 1 .. count /\ k <= m /\ k + 1 <= m
          BY <1>1, <3>2
        <5>2. g[k] = f[k] /\ g[k + 1] = f[k + 1]
          BY <1>8, <5>1
        <5> QED  BY <1>8, <5>1, <5>2, OrderOfHeaders
      <4>2. links'[f[k]] = Place(f, k + 1) /\ Place(f, k + 1) = f[k + 1]
        BY <1>1, <1>4, <2>1, <3>2, OrderOfHeaders DEF Linked
      <4> QED  BY <4>1, <4>2
    <3> QED  BY <3>1, <3>2
  <2>3. Linked(g, m + 2, r)'
    <3> SUFFICES ASSUME NEW k \in m + 2 .. r
                 PROVE  links'[g[k]] = Place(g, k + 1)
      BY SameOrder DEF Linked
    <3>1. k - 1 \in m + 1 .. r - 1 /\ k - 1 \in 1 .. count /\ k - 1 # m /\ k \in 1 .. count
          /\ k + 1 \in 1 .. count /\ k - 1 + 1 = k
      BY <1>1
    <3>2. g[k] = f[k - 1] /\ Place(g, k + 1) = f[k]
      <4>1. k \in m + 2 .. r + 1 /\ k + 1 \in m + 2 .. r + 1 /\ k + 1 - 1 = k
        BY <1>1
      <4>2. g[k] = f[k - 1] /\ g[k + 1] = f[k]
        BY <1>8, <4>1
      <4> QED  BY <1>8, <3>1, <4>2, OrderOfHeaders
    <3>3. links'[f[k - 1]] = Place(f, k) /\ Place(f, k) = f[k]
      BY <1>4, <2>1, <3>1, OrderOfHeaders DEF Linked
    <3> QED  BY <3>2, <3>3
  <2>4. Linked(g, r + 2, count)'
    <3> SUFFICES ASSUME NEW k \in r + 2 .. count
                 PROVE  links'[g[k]] = Place(g, k + 1)
      BY SameOrder DEF Linked
    <3>1. g[k] = f[k] /\ Place(g, k + 1) = Place(f, k + 1) /\ k # m /\ k \in 1 .. count
      <4>1. k \in 1 .. count /\ k > r + 1 /\ k # m /\ (k + 1 \in 1 .. count => k + 1 > r + 1)
        BY <1>1
      <4> QED  BY <1>1, <1>8, <4>1 DEF Place
    <3>2. links'[f[k]] = Place(f, k + 1)
      BY <1>1, <1>4, <2>1, <3>1 DEF Linked
    <3> QED  BY <3>1, <3>2
  <2>5. Merged(g, m + 1)'
    <3>1. srt'.list = g[1]
      BY <1>1, <1>2, <1>8, <2>1, OrderOfHeaders
    <3> QED  BY <1>1, <1>2, <1>8, <2>2, <3>1 DEF Merged
  <2>6. srt'.psize > 0 => srt'.p = g[m + 2]
    BY <1>1, <1>2, <1>8, <2>1
  <2>7. srt'.q = Place(g, r + 2)
    <3>1. links[f[r + 1]] = Place(f, r + 2)
      BY <1>1, <2>1 DEF Linked
    <3>2. Place(g, r + 2) = Place(f, r + 2)
      <4>1. r + 2 \in 1 .. count => r + 2 > r + 1
        BY <1>1
      <4> QED  BY <1>1, <1>8, <4>1 DEF Place
    <3> QED  BY <1>1, <1>2, <3>1, <3>2
  <2>8. srt'.q = Place(g, r + 2)'
    BY <2>7, SameOrder
  <2>9. m + 1 + 1 = m + 2 /\ r + 1 + 1 = r + 2 /\ r + 1 - 1 = r
    BY <1>1
  <2>10. Linked(g, (m + 1) + 1, (r + 1) - 1)' /\ Linked(g, (r + 1) + 1, count)'
    <3>1. Linked(g, (m + 1) + 1, (r + 1) - 1)'
      <4>1. (m + 1) + 1 .. (r + 1) - 1 = m + 2 .. r
        BY <1>1
      <4> QED  BY <2>3, <4>1 DEF Linked
    <3>2. Linked(g, (r + 1) + 1, count)'
      BY <2>4, <2>9 DEF Linked
    <3> QED  BY <3>1, <3>2
  <2>11. srt'.psize > 0 => srt'.p = g[(m + 1) + 1]
    BY <2>6, <2>9
  <2>12. srt'.q = Place(g, (r + 1) + 1)'
    BY <2>8, <2>9
  <2> QED  BY <1>6, <2>5, <2>10, <2>11, <2>12 DEF MergeLinks
<1>10. /\ InOrder(f, b + 1, m) /\ InOrder(f, m + 1, r) /\ InOrder(f, r + 1, e)
       /\ \A i \in b + 1 .. m, j \in m + 1 .. e : Ordered(f[i], f[j])
       /\ Precede(f, m + 1, r, e)
  BY <1>0 DEF AtPick, MergeOrder
<1>11. /\ InOrder(g, b + 1, m + 1) /\ InOrder(g, m + 2, r + 1)
       /\ InOrder(g, r + 2, e) /\ Precede(g, m + 2, r + 1, e)
  <2>1. InOrder(g, b + 1, m + 1)
    <3> SUFFICES ASSUME NEW k \in b + 1 .. m + 1, NEW l \in b + 1 .. m + 1, k < l
                 PROVE  Ordered(g[k], g[l])
      BY DEF InOrder
    <3>1. CASE l = m + 1
      <4>1. g[k] = f[k] /\ g[l] = f[r + 1] /\ k \in b + 1 .. m /\ r + 1 \in m + 1 .. e
        BY <1>1, <1>8, <3>1
      <4> QED  BY <1>10, <4>1
    <3>2. CASE l # m + 1
      <4>1. g[k] = f[k] /\ g[l] = f[l] /\ k \in b + 1 .. m /\ l \in b + 1 .. m
        BY <1>1, <1>8, <3>2
      <4> QED  BY <1>10, <4>1 DEF InOrder
    <3> QED  BY <3>1, <3>2
  <2>2. InOrder(g, m + 2, r + 1)
    <3> SUFFICES ASSUME NEW k \in m + 2 .. r + 1, NEW l \in m + 2 .. r + 1, k < l
                 PROVE  Ordered(g[k], g[l])
      BY DEF InOrder
    <3>1. g[k] = f[k - 1] /\ g[l] = f[l - 1]
      BY <1>8
    <3>2. k - 1 \in m + 1 .. r /\ l - 1 \in m + 1 .. r /\ k - 1 < l - 1
      BY <1>1
    <3> QED  BY <1>10, <3>1, <3>2 DEF InOrder
  <2>3. InOrder(g, r + 2, e)
    <3> SUFFICES ASSUME NEW k \in r + 2 .. e, NEW l \in r + 2 .. e, k < l
                 PROVE  Ordered(g[k], g[l])
      BY DEF InOrder
    <3>1. \A i \in r + 2 .. e : i \in 1 .. count /\ i > r + 1 /\ i \in r + 1 .. e
      <4>1. r \in Nat /\ e \in Nat /\ count \in Nat /\ e <= count
        BY <1>1
      <4> QED  BY <4>1
    <3>2. g[k] = f[k] /\ g[l] = f[l]
      BY <1>8, <3>1
    <3> QED  BY <1>10, <3>1, <3>2 DEF InOrder
  <2>4. Precede(g, m + 2, r + 1, e)
    <3> SUFFICES ASSUME NEW k \in m + 2 .. r + 1, NEW l \in r + 1 + 1 .. e
                 PROVE  PlaceOf(g[k]) < PlaceOf(g[l])
      BY DEF Precede
    <3>1. k - 1 \in m + 1 .. r /\ l \in r + 1 .. e /\ l \in 1 .. count /\ l > r + 1
      BY <1>1
    <3>2. g[k] = f[k - 1] /\ g[l] = f[l]
      BY <1>8, <3>1
    <3> QED  BY <1>10, <3>1, <3>2 DEF Precede
  <2> QED  BY <2>1, <2>2, <2>3, <2>4
<1>12. ASSUME NEW j \in m + 2 .. e
       PROVE  Ordered(f[r + 1], g[j])'
  <2>1. CASE j <= r + 1
    <3>1. PLeft /\ srt.p = f[m + 1] /\ m + 1 \in m + 1 .. r /\ j - 1 \in m + 1 .. r
      BY <1>0, <1>1, <2>1, MergeFields
    <3>2. Ordered(f[r + 1], f[m + 1])'
      BY <1>1, <3>1
    <3>3. g[j] = f[j - 1]
      BY <1>8, <2>1
    <3>4. j - 1 = m + 1 \/ Ordered(f[m + 1], f[j - 1])'
      BY <1>1, <1>10, <3>1 DEF InOrder, OrderKept
    <3> QED  BY <3>2, <3>3, <3>4 DEF OrderKept, OrderedTransitive
  <2>2. CASE ~(j <= r + 1)
    <3>1. g[j] = f[j] /\ j \in r + 1 .. e /\ r + 1 \in r + 1 .. e /\ r + 1 < j
      BY <1>1, <1>8, <2>2
    <3> QED  BY <1>10, <3>1 DEF InOrder, OrderKept
  <2> QED  BY <2>1, <2>2
<1>13. ASSUME NEW i \in b + 1 .. m + 1, NEW j \in m + 2 .. e
       PROVE  Ordered(g[i], g[j])'
  <2>1. CASE i = m + 1
    BY <1>8, <1>12, <2>1
  <2>2. CASE i # m + 1
    <3>1. g[i] = f[i] /\ i \in b + 1 .. m
      BY <1>1, <1>8, <2>2
    <3>2. PICK z \in m + 1 .. e : g[j] = f[z]
      <4>1. CASE j <= r + 1
        BY <1>1, <1>8, <4>1
      <4>2. CASE ~(j <= r + 1)
        BY <1>1, <1>8, <4>2
      <4> QED  BY <4>1, <4>2
    <3> QED  BY <1>10, <3>1, <3>2 DEF OrderKept
  <2> QED  BY <2>1, <2>2
<1>14. \A i \in 1 .. count : i <= b \/ i > e => g[i] = f[i]
  BY <1>1, <1>8
<1>15. \A i \in b + 1 .. e : \E z \in b + 1 .. e : g[i] = f[z]
  <2> SUFFICES ASSUME NEW i \in b + 1 .. e
               PROVE  \E z \in b + 1 .. e : g[i] = f[z]
    OBVIOUS
  <2>1. CASE i <= m \/ i > r + 1
    BY <1>1, <1>8, <2>1
  <2>2. CASE i = m + 1
    BY <1>1, <1>8, <2>2
  <2>3. CASE i \in m + 2 .. r + 1
    BY <1>1, <1>8, <2>3
  <2> QED  BY <1>1, <2>1, <2>2, <2>3
<1>16. HalfWay(g, b) /\ Runs(g, srt.insize, e, count) /\ Precede(g, 1, e, count)
  <2>1. HalfWay(f, b) /\ Runs(f, srt.insize, e, count) /\ Precede(f, 1, e, count)
    BY <1>0 DEF AtPick, MergeOrder
  <2>2. Runs(g, Double, 0, b)
    BY <1>1, <1>14, <2>1, SameRuns DEF HalfWay
  <2>3. Runs(g, srt.insize, e, count)
    BY <1>1, <1>14, <2>1, SameRuns
  <2>4. Precede(g, 1, b, count)
    <3> SUFFICES ASSUME NEW k \in 1 .. b, NEW l \in b + 1 .. count
                 PROVE  PlaceOf(g[k]) < PlaceOf(g[l])
      BY DEF Precede
    <3>1. g[k] = f[k]
      <4>1. k \in 1 .. count /\ k <= b
        BY <1>1
      <4> QED  BY <1>14, <4>1
    <3>2. PICK z \in b + 1 .. count : g[l] = f[z]
      <4>1. CASE l <= e
        <5>1. l \in b + 1 .. e /\ \A z \in b + 1 .. e : z \in b + 1 .. count
          BY <1>1, <4>1
        <5> QED  BY <1>15, <5>1
      <4>2. CASE ~(l <= e)
        <5>1. l \in 1 .. count /\ l > e
          BY <1>1, <4>2
        <5> QED  BY <1>14, <5>1
      <4> QED  BY <4>1, <4>2
    <3> QED  BY <2>1, <3>1, <3>2 DEF HalfWay, Precede
  <2>5. Precede(g, 1, e, count)
    <3> SUFFICES ASSUME NEW k \in 1 .. e, NEW l \in e + 1 .. count
                 PROVE  PlaceOf(g[k]) < PlaceOf(g[l])
      BY DEF Precede
    <3>1. g[l] = f[l]
      <4>1. l \in 1 .. count /\ l > e
        BY <1>1
      <4> QED  BY <1>14, <4>1
    <3>2. PICK z \in 1 .. e : g[k] = f[z]
      <4>1. CASE k <= b
        <5>1. k \in 1 .. count /\ k \in 1 .. e
          BY <1>1
        <5> QED  BY <1>14, <4>1, <5>1
      <4>2. CASE ~(k <= b)
        <5>1. k \in b + 1 .. e
          BY <1>1, <4>2
        <5>2. PICK z \in b + 1 .. e : g[k] = f[z]
          BY <1>15, <5>1
        <5>3. z \in 1 .. e
          BY <1>1
        <5> QED  BY <5>2, <5>3
      <4> QED  BY <4>1, <4>2
    <3> QED  BY <2>1, <3>1, <3>2 DEF Precede
  <2> QED  BY <2>1, <2>2, <2>3, <2>4, <2>5 DEF HalfWay
<1>17. MergeOrder(g, m + 1, b)'
  <2>1. HalfWay(g, b)' /\ Runs(g, srt.insize, End(b), count)' /\ Precede(g, 1, End(b), count)'
    BY <1>2, <1>6, <1>16, SameOrder DEF HalfWay
  <2>2. \A i \in b + 1 .. m + 1, j \in m + 1 + 1 .. End(b)' : Ordered(g[i], g[j])'
    BY <1>1, <1>6, <1>13
  <2>3. m + 1 + 1 = m + 2 /\ r + 1 + 1 = r + 2
    BY <1>1
  <2> QED  BY <1>6, <1>11, <2>1, <2>2, <2>3, SameOrder DEF MergeOrder
<1>18. SortPlace(g, m + 1, b)'
  BY <1>7, <1>9, <1>17 DEF SortPlace, AtPick
<1>19. g \in Orders' /\ m + 1 \in (0 .. count)' /\ b \in (0 .. count)'
  BY <1>1, <1>8, SameOrder
<1> QED  BY <1>5, <1>18, <1>19 DEF Somewhere

\* The bounds of the data types.
LEMMA Widths ==
  /\ MaxU8 \in Int /\ MaxU16 \in Int /\ MaxS16 \in Int
  /\ 255 <= MaxU8 /\ MaxU8 <= 255
  /\ 65535 <= MaxU16 /\ MaxU16 <= 65535
  /\ 32767 <= MaxS16 /\ MaxS16 <= 32767
  /\ \A x : x \in Bytes <=> x \in Int /\ 0 <= x /\ x <= 255
  /\ \A x : x \in Halfwords <=> x \in Int /\ 0 <= x /\ x <= 65535
  /\ \A x : x \in Shorts <=> x \in Int /\ 0 <= x /\ x <= 32767
<1>1. /\ MaxU8 \in Int /\ 255 <= MaxU8 /\ MaxU8 <= 255
      /\ MaxU16 \in Int /\ 65535 <= MaxU16 /\ MaxU16 <= 65535
      /\ MaxS16 \in Int /\ 32767 <= MaxS16 /\ MaxS16 <= 32767
  BY DEF MaxU8, MaxU16, MaxS16
<1>2. \A x : x \in Bytes <=> x \in Int /\ 0 <= x /\ x <= 255
  BY <1>1 DEF Bytes
<1>3. \A x : x \in Halfwords <=> x \in Int /\ 0 <= x /\ x <= 65535
  BY <1>1 DEF Halfwords
<1>4. \A x : x \in Shorts <=> x \in Int /\ 0 <= x /\ x <= 32767
  BY <1>1 DEF Shorts
<1> QED  BY <1>1, <1>2, <1>3, <1>4

\* The two bits of the polynomial are flipped within 16 bits.
LEMMA FlipOfWord ==
  ASSUME NEW n \in Halfwords
  PROVE  Flip(n, 2) \in Halfwords /\ Flip(n, 16384) \in Halfwords
<1>1. n \in Int /\ 0 <= n /\ n <= 65535
  BY Widths
<1> DEFINE h == n \div 2
           g == n \div 16384
<1>2. h \in Int /\ 2 * h <= n /\ n < 2 * h + 2 /\ g \in Int /\ 16384 * g <= n /\ n < 16384 * g + 16384
  BY <1>1
<1>3. /\ Flip(n, 2) = IF h % 2 = 1 THEN n - 2 ELSE n + 2
      /\ Flip(n, 16384) = IF g % 2 = 1 THEN n - 16384 ELSE n + 16384
  BY DEF Flip
<1> HIDE DEF h, g
<1>4. ASSUME h % 2 = 1 PROVE Flip(n, 2) \in Halfwords
  <2>1. h >= 1
    BY <1>1, <1>2, <1>4
  <2>2. n - 2 \in Int /\ 0 <= n - 2 /\ n - 2 <= 65535
    BY <1>1, <1>2, <2>1
  <2> QED  BY <1>3, <1>4, <2>2, Widths
<1>5. ASSUME h % 2 # 1 PROVE Flip(n, 2) \in Halfwords
  <2>1. h # 32767
    BY <1>1, <1>2, <1>5
  <2>2. n + 2 \in Int /\ 0 <= n + 2 /\ n + 2 <= 65535
    BY <1>1, <1>2, <2>1
  <2> QED  BY <1>3, <1>5, <2>2, Widths
<1>6. ASSUME g % 2 = 1 PROVE Flip(n, 16384) \in Halfwords
  <2>1. g >= 1
    BY <1>1, <1>2, <1>6
  <2>2. n - 16384 \in Int /\ 0 <= n - 16384 /\ n - 16384 <= 65535
    BY <1>1, <1>2, <2>1
  <2> QED  BY <1>3, <1>6, <2>2, Widths
<1>7. ASSUME g % 2 # 1 PROVE Flip(n, 16384) \in Halfwords
  <2>1. g # 3
    BY <1>1, <1>2, <1>7
  <2>2. n + 16384 \in Int /\ 0 <= n + 16384 /\ n + 16384 <= 65535
    BY <1>1, <1>2, <2>1
  <2> QED  BY <1>3, <1>7, <2>2, Widths
<1> QED  BY <1>4, <1>5, <1>6, <1>7

\* A round of the CRC stays in 16 bits.
LEMMA RoundOfWord ==
  ASSUME NEW data, NEW w, NEW c \in Halfwords
  PROVE  crcround(data, w, c) \in Halfwords
<1>1. PICK x : x = Flip(Flip(c, 2), 16384)
  OBVIOUS
<1>2. x \in Halfwords
  BY <1>1, FlipOfWord
<1>3. x \in Int /\ 0 <= x /\ x <= 65535 /\ c \in Int /\ 0 <= c /\ c <= 65535
  BY <1>2, Widths
<1>4. /\ x \div 2 + 32768 \in Int /\ 0 <= x \div 2 + 32768 /\ x \div 2 + 32768 <= 65535
      /\ c \div 2 \in Int /\ 0 <= c \div 2 /\ c \div 2 <= 65535
  BY <1>3
<1>5. x \div 2 + 32768 \in Halfwords /\ c \div 2 \in Halfwords
  BY <1>4, Widths
<1> QED  BY <1>1, <1>5 DEF crcround

\* A CRC of any data is a 16-bit value.
LEMMA CrcOfWord ==
  ASSUME NEW data, NEW c \in Halfwords
  PROVE  crcu8(data, c) \in Halfwords /\ crcu16(data, c) \in Halfwords /\ crc16(data, c) \in Halfwords
         /\ crcu32(data, c) \in Halfwords
<1>1. ASSUME NEW d, NEW x \in Halfwords
      PROVE  crcu8(d, x) \in Halfwords
  <2> DEFINE round(w) == [y \in Halfwords |-> crcround(d, w, y)]
  <2>1. \A w : \A y \in Halfwords : round(w)[y] \in Halfwords
    BY RoundOfWord
  <2>2. crcu8(d, x) = round(128)[round(64)[round(32)[round(16)[round(8)[round(4)[round(2)[round(1)[x]]]]]]]]
    BY DEF crcu8
  <2> HIDE DEF round
  <2> DEFINE two(v, w, y) == round(v)[round(w)[y]]
  <2>3. \A v, w : \A y \in Halfwords : two(v, w, y) \in Halfwords
    BY <2>1
  <2>4. crcu8(d, x) = two(128, 64, two(32, 16, two(8, 4, two(2, 1, x))))
    BY <2>2
  <2> HIDE DEF two
  <2>5. two(128, 64, two(32, 16, two(8, 4, two(2, 1, x)))) \in Halfwords
    BY <2>3
  <2> QED  BY <2>4, <2>5
<1>2. ASSUME NEW d, NEW x \in Halfwords
      PROVE  crcu16(d, x) \in Halfwords
  BY <1>1 DEF crcu16
<1> QED  BY <1>1, <1>2 DEF crc16, crcu32

\* The operations on bits give numbers.
LEMMA BitsAreNumbers ==
  ASSUME NEW a \in Int, NEW b \in Int
  PROVE  BitOr(a, b) \in Int /\ BitXor(a, b) \in Int
BY DEF BitOr, BitXor, BitByBit

\* The pattern of an item fits in both bytes of its data.
LEMMA PatternIsByte ==
  ASSUME NEW s \in Nat, NEW i \in Nat
  PROVE  ItemPattern(s, i) \in Bytes
<1>1. PICK x : x = BitXor(U16(s), i)
  OBVIOUS
<1>2. x \in Int
  BY <1>1, BitsAreNumbers DEF U16
<1>3. /\ (x % 16) * 8 + (i % 8) \in Int
      /\ 0 <= (x % 16) * 8 + (i % 8) /\ (x % 16) * 8 + (i % 8) <= 255
  BY <1>2
<1> QED  BY <1>1, <1>3, Widths DEF ItemPattern

\* The indices of the first fifth are below that of the fake tail.
ShortIndices(n) == n \div 5 <= 16384

\* An index is a number of 15 bits, below that of the fake tail.
LEMMA IndexIsShort ==
  ASSUME NEW n \in Int, 4 <= n, ShortIndices(n), NEW s \in Nat, NEW i \in Nat
  PROVE  /\ IndexOf(n, s, i) \in Shorts
         /\ IndexOf(n, s, i) < 16384
<1>1. BitXor(i, U16(s)) \in Int
  BY BitsAreNumbers DEF U16
<1>2. PICK x : x = BitOr(((i + 1) % 8) * 256, BitXor(i, U16(s)))
  OBVIOUS
<1>3. x \in Int
  BY <1>1, <1>2, BitsAreNumbers
<1>4. /\ x % 16384 \in Int /\ 0 <= x % 16384 /\ x % 16384 < 16384
      /\ i < n \div 5 => i < 16384
  BY <1>3 DEF ShortIndices
<1>5. IndexOf(n, s, i) = IF i < n \div 5 THEN i ELSE x % 16384
  BY <1>2 DEF IndexOf
<1> QED  BY <1>4, <1>5, Widths

-----------------------------------------------------------------------------
\* The parameters as the program works with them.
Blocks == {Block(p) : p \in Parameters}

\* What the assumption on the parameters says of a block and of its list.
LEMMA BlockFacts ==
  ASSUME NEW p \in Parameters, NEW b, b = Block(p)
  PROVE  /\ b \in [seed1 : Shorts, seed2 : Shorts, seed3 : Shorts, size : Nat, iterations : Nat \ {0}]
         /\ b.seed3 > 0 /\ b.iterations = p.iterations
         /\ 120 <= b.size
         /\ ListSize(b.size) \in Int /\ 4 <= ListSize(b.size) /\ ShortIndices(ListSize(b.size))
         /\ 12 * ListSize(b.size) <= b.size
         /\ \A n \in 0 .. b.size : b.size # 8 * n * n + 1
         /\ \A i \in 1 .. ListSize(b.size) - 3 : IndexOf(ListSize(b.size), b.seed1, i) > 0
         /\ \A i, j \in 1 .. ListSize(b.size) - 3 :
               IndexOf(ListSize(b.size), b.seed1, i) = IndexOf(ListSize(b.size), b.seed1, j)
                 => i = j
<1>2. /\ p \in [seed1 : Shorts, seed2 : Shorts, seed3 : Shorts, size : Nat, iterations : Nat \ {0}]
      /\ 360 <= p.size /\ ShortIndices(ListSize(b.size))
      /\ SeedsUsed(p).seed3 > 0
      /\ \A n \in 0 .. b.size : b.size # 8 * n * n + 1
      /\ \A i \in 1 .. ListSize(b.size) - 3 : IndexOf(ListSize(b.size), b.seed1, i) > 0
      /\ \A i, j \in 1 .. ListSize(b.size) - 3 :
            IndexOf(ListSize(b.size), b.seed1, i) = IndexOf(ListSize(b.size), b.seed1, j)
              => i = j
  BY ParametersAssumption DEF ShortIndices
<1>3. /\ 102 \in Shorts /\ \h3415 \in Shorts
  BY Widths
<1>4. /\ SeedsUsed(p) \in [seed1 : Shorts, seed2 : Shorts, seed3 : Shorts, size : Nat, iterations : Nat \ {0}]
      /\ SeedsUsed(p).size = p.size /\ SeedsUsed(p).iterations = p.iterations
  <2>1. p \in [seed1 : Shorts, seed2 : Shorts, seed3 : Shorts, size : Nat, iterations : Nat \ {0}]
    BY <1>2
  <2>2. CASE p.seed1 = 0 /\ p.seed2 = 0 /\ p.seed3 = 0
    <3>1. SeedsUsed(p) = [p EXCEPT !.seed3 = 102]
      BY <2>2 DEF SeedsUsed
    <3> QED  BY <1>3, <2>1, <3>1
  <2>3. CASE ~(p.seed1 = 0 /\ p.seed2 = 0 /\ p.seed3 = 0) /\ p.seed1 = 1 /\ p.seed2 = 0 /\ p.seed3 = 0
    <3>0. PICK u \in Shorts, v \in Shorts : u = \h3415 /\ v = 102
      BY <1>3
    <3>1. SeedsUsed(p) = [p EXCEPT !.seed1 = u, !.seed2 = u, !.seed3 = v]
      BY <2>3, <3>0 DEF SeedsUsed
    <3>2. ASSUME NEW s \in Shorts, NEW t \in Shorts,
                 NEW q, q = [p EXCEPT !.seed1 = s, !.seed2 = s, !.seed3 = t]
          PROVE  /\ q \in [seed1 : Shorts, seed2 : Shorts, seed3 : Shorts, size : Nat, iterations : Nat \ {0}]
                 /\ q.size = p.size /\ q.iterations = p.iterations
      BY <2>1, <3>2
    <3> QED  BY <3>1, <3>2
  <2>4. CASE SeedsUsed(p) = p
    BY <2>1, <2>4
  <2> QED  BY <2>2, <2>3, <2>4 DEF SeedsUsed
<1>5. /\ b.seed3 = SeedsUsed(p).seed3 /\ b.size = p.size \div 3 /\ b.iterations = p.iterations
  BY <1>4 DEF Block
<1>7. b \in [seed1 : Shorts, seed2 : Shorts, seed3 : Shorts, size : Nat, iterations : Nat \ {0}]
  BY <1>2, <1>4 DEF Block
<1>8. b.size \in Int /\ 120 <= b.size
  BY <1>2, <1>5
<1>6. /\ ListSize(b.size) \in Int /\ 4 <= ListSize(b.size) /\ ShortIndices(ListSize(b.size))
      /\ 12 * ListSize(b.size) <= b.size
  BY <1>2, <1>8 DEF ListSize
<1> QED  BY <1>2, <1>5, <1>6, <1>7, <1>8

-----------------------------------------------------------------------------
(***************************************************************************)
(* The program                                                             *)
(***************************************************************************)

\* The info fields when each header has the data cell of its place, and the
\* types of items, res and loc.
Identity == [c \in Headers |-> c]
DataCells == [idx : Shorts, hi : Bytes, lo : Bytes]
Items == [info : [Headers -> Headers], data : [Headers -> DataCells]]
Results == [crc : Halfwords, crclist : Halfwords, crcmatrix : Halfwords, crcstate : Halfwords,
            list : Pointers, err : Nat,
            verdict : {"none", "validated", "errors", "cannot validate"}]
BenchLocals == [list : Pointers, finder_idx : {-1, 0, 1}, idx : Int, data16 : Int, i : Nat,
                retval : Halfwords, found : Int, missed : Int, finder : Pointers,
                remover : Pointers]

\* The variables have their types.
Types == ListOK /\ items \in Items /\ res \in Results /\ loc \in BenchLocals

\* Where the sort is under way, and where core_list_init builds the list.
Sorting  == {"pass", "merge", "along", "pick"}
Building == {"main", "insert", "index"}

\* The benchmark runs with the parameters of a block, and no iteration too many.
InIteration == \/ pc \in {"again", "find", "remove", "crc", "recrc"}
               \/ pc \in Sorting /\ srt.to # "inits"
Running ==
  /\ IF pc = "main" THEN par \in Parameters /\ iter = 0
                    ELSE \E p \in Parameters : par = Block(p)
  /\ iter \in 0 .. par.iterations
  /\ InIteration => iter < par.iterations

\* core_list_init: every header is inserted behind the head, so the later it
\* came the earlier it is in the list.
Size == ListSize(par.size)
Built == [k \in 1 .. count |-> IF k = 1 THEN 0 ELSE count + 1 - k]
Inserting ==
  /\ loc.i \in 0 .. Size
  /\ count = IF loc.i + 3 <= Size THEN loc.i + 2 ELSE Size - 1
  /\ \A c \in 1 .. count - 1 : items.data[c].idx = MaxS16
Indexing ==
  /\ count = Size - 1 /\ loc.i \in 1 .. count - 1 /\ loc.finder = Built[loc.i + 1]
  /\ \A k \in 2 .. loc.i : items.data[Built[k]].idx = IndexOf(Size, par.seed1, k - 1)
  /\ \A k \in loc.i + 1 .. count : items.data[Built[k]].idx = MaxS16

\* The list while it is built.
UnderWay ==
  /\ pc \in Building => srt = NoSort /\ res = NoResult
  /\ pc \in {"insert", "index"} =>
       /\ loc.list = 0 /\ Linked(Built, 1, count)
       /\ items.info = Identity /\ items.data[0].idx = 0
       /\ pc = "insert" => Inserting
       /\ pc = "index" => Indexing

\* No two items have the same index, and that of the head is 0.
Indexed ==
  /\ 3 <= count /\ count < Size /\ items.data[0].idx = 0
  /\ \A c, d \in Headers : items.data[c].idx = items.data[d].idx => c = d

\* The list from a header on, and in order when a sort has returned.
ListFromTo(f, head) == head = f[1] /\ Linked(f, 1, count)
AtWalk(f) == ListFromTo(f, loc.list) /\ (pc = srt.to => InOrder(f, 1, count))
AtRest(f) == ListFromTo(f, res.list) /\ InOrder(f, 1, count)

\* The last header of the order is removed, its data left with the second.
AtCrc(f) ==
  /\ loc.list = f[1] /\ loc.remover = f[count]
  /\ Linked(f, 1, count - 2) /\ links[f[count - 1]] = Null
  /\ items.info = [Identity EXCEPT ![f[2]] = f[count], ![f[count]] = f[2]]

\* The list once it is built: at every step there is an order the headers are in.
InList ==
  pc \notin Building =>
    /\ SortOK /\ Indexed
    /\ pc # "crc" => items.info = Identity
    /\ pc \in Sorting => Somewhere
    /\ pc \in {"inits", "find", "remove", "recrc"} => \E f \in Orders : AtWalk(f)
    /\ pc = "crc" => \E f \in Orders : AtCrc(f)
    /\ pc \in {"iterate", "again", "done"} => \E f \in Orders : AtRest(f)
    /\ pc \in {"inits", "recrc"} => srt.to = pc
    /\ pc \in {"iterate", "again", "done", "find"} => srt.to # "remove"

\* The order of the indices, and the items in an order, without cached results.
Ascending(f) == \A i, j \in 1 .. count : i < j => items.data[f[i]].idx < items.data[f[j]].idx
Clean(f) == [k \in 1 .. count |-> [items.data[f[k]] EXCEPT !.lo = items.data[f[k]].hi]]

\* What the blocks were initialised with is what they still hold.
Initialising == pc \in Building \cup {"inits"} \/ (pc \in Sorting /\ srt.to = "inits")
History ==
  IF Initialising THEN text = hist.text /\ mat = hist.mat
  ELSE /\ res.list = 0
       /\ \A f \in Orders : Ascending(f) => hist.list = Clean(f)
       /\ hist.text = InitState(par.size, par.seed1)
       /\ hist.mat = InitMatrix(par.size, par.seed1 + par.seed2 * 65536)
       /\ par.seed1 = par.seed2 => text = hist.text /\ mat = hist.mat

\* The inductive invariant of CoreMark.
Inv == Types /\ Running /\ UnderWay /\ InList /\ History

-----------------------------------------------------------------------------
\* Lists

\* The order as a sequence of places.
LEMMA OrderIsSeq ==
  ASSUME NEW n \in Nat \ {0}, NEW S, NEW f \in [1 .. n -> S]
  PROVE  /\ f \in Seq(S) /\ Len(f) = n /\ f # <<>> /\ DOMAIN f = 1 .. n
         /\ SubSeq(f, 1, n) = f
<1>1. f \in Seq(S) /\ Len(f) = n
  BY IsASeq, LenProperties
<1>2. SubSeq(f, 1, Len(f)) = f
  BY <1>1, SubSeqFull
<1> QED  BY <1>1, <1>2, EmptySeq, LenProperties

\* The headers of an order and their places.
LEMMA Order ==
  ASSUME ListOK, NEW f \in Orders
  PROVE  /\ count \in Nat \ {0} /\ Headers = 0 .. count - 1 /\ DOMAIN links = Headers
         /\ Null \notin Headers /\ 0 \in Headers /\ f \in [1 .. count -> Headers]
         /\ \A i \in 1 .. count : f[i] \in Headers /\ f[i] # Null /\ Place(f, i) = f[i]
         /\ \A i, j \in 1 .. count : f[i] = f[j] => i = j
         /\ \A c \in Headers : \E i \in 1 .. count : f[i] = c
         /\ Place(f, count + 1) = Null
         /\ \A i : Place(f, i) \in Pointers
<1>1. /\ count \in Nat \ {0} /\ Headers = 0 .. count - 1 /\ links \in [Headers -> Pointers]
  BY DEF ListOK
<1>2. Null \notin Headers /\ 0 \in Headers
  BY <1>1 DEF Null
<1>3. /\ f \in [1 .. count -> Headers]
      /\ \A i, j \in 1 .. count : f[i] = f[j] => i = j
      /\ \A c \in Headers : \E i \in 1 .. count : f[i] = c
  BY DEF Orders
<1>4. \A i \in 1 .. count : f[i] \in Headers
  BY <1>3
<1>5. Place(f, count + 1) = Null /\ \A i \in 1 .. count : Place(f, i) = f[i]
  BY <1>1 DEF Place
<1>6. \A i : Place(f, i) \in Pointers
  BY <1>4 DEF Place, Pointers
<1> QED  BY <1>1, <1>2, <1>3, <1>4, <1>5, <1>6

\* The places i to j of a list that is linked there, from the header at i on.
LEMMA PartOfList ==
  ASSUME ListOK, NEW f \in Orders, NEW next, DOMAIN next = Headers,
         NEW i \in 1 .. count, NEW j \in i .. count,
         \A k \in i .. j - 1 : next[f[k]] = f[k + 1],
         NEW n \in Nat \ {0}, n = j + 1 - i \/ (n >= j + 1 - i /\ next[f[j]] = Null)
  PROVE  Chain(next, f[i], n) = SubSeq(f, i, j)
<1>1. PICK s : s = SubSeq(f, i, j)
  OBVIOUS
<1>2. /\ count \in Nat \ {0} /\ Null \notin Headers /\ f \in [1 .. count -> Headers]
      /\ f \in Seq(Headers) /\ Len(f) = count
  BY Order, OrderIsSeq
<1>3. /\ s \in Seq(Headers) /\ Len(s) = j + 1 - i
      /\ \A k \in 1 .. j + 1 - i : s[k] = f[i + k - 1]
  BY <1>1, <1>2, SubSeqProperties
<1>4. /\ s # <<>> /\ s[1] = f[i] /\ s[Len(s)] = f[j]
  <2>1. 1 \in 1 .. j + 1 - i /\ j + 1 - i \in 1 .. j + 1 - i
        /\ i + 1 - 1 = i /\ i + (j + 1 - i) - 1 = j /\ j + 1 - i # 0
    <3>1. i \in Nat /\ j \in Nat /\ i <= j
      BY <1>2
    <3>2. j + 1 - i \in Nat /\ 1 <= j + 1 - i
      BY <3>1
    <3>3. i + 1 - 1 = i /\ i + (j + 1 - i) - 1 = j
      BY <3>1
    <3> QED  BY <3>2, <3>3
  <2> QED  BY <1>3, <2>1, EmptySeq
<1>5. \A k \in 1 .. Len(s) : s[k] # Null
  BY <1>2, <1>3, ElementOfSeq
<1>6. \A k \in 1 .. Len(s) - 1 : next[s[k]] = s[k + 1]
  <2> SUFFICES ASSUME NEW k \in 1 .. Len(s) - 1
               PROVE  next[s[k]] = s[k + 1]
    OBVIOUS
  <2>1. /\ k \in 1 .. j + 1 - i /\ k + 1 \in 1 .. j + 1 - i /\ i + k - 1 \in i .. j - 1
        /\ i + (k + 1) - 1 = (i + k - 1) + 1
    BY <1>2, <1>3
  <2>2. s[k] = f[i + k - 1] /\ s[k + 1] = f[(i + k - 1) + 1]
    BY <1>3, <2>1
  <2> QED  BY <2>1, <2>2
<1>7. n <= Len(s) \/ next[s[Len(s)]] = Null
  BY <1>2, <1>3, <1>4
<1>8. Chain(next, s[1], n) = SubSeq(s, 1, IF n <= Len(s) THEN n ELSE Len(s))
  BY <1>3, <1>4, <1>5, <1>6, <1>7, ChainWalks
<1>9. (IF n <= Len(s) THEN n ELSE Len(s)) = Len(s)
  BY <1>2, <1>3
<1>10. SubSeq(s, 1, Len(s)) = s
  BY <1>3, SubSeqFull
<1> QED  BY <1>1, <1>4, <1>8, <1>9, <1>10

\* A list that is linked in an order is that order.
LEMMA WholeList ==
  ASSUME ListOK, NEW f \in Orders, Linked(f, 1, count)
  PROVE  Chain(links, f[1], count) = f /\ Chain(links, f[1], count + 1) = f
<1>1. /\ count \in Nat \ {0} /\ DOMAIN links = Headers /\ Null \notin Headers
      /\ f \in [1 .. count -> Headers]
  BY Order
<1>2. \A k \in 1 .. count - 1 : links[f[k]] = f[k + 1]
  <2> SUFFICES ASSUME NEW k \in 1 .. count - 1
               PROVE  links[f[k]] = f[k + 1]
    OBVIOUS
  <2>1. k \in 1 .. count /\ k + 1 \in 1 .. count
    BY <1>1
  <2> QED  BY <2>1, Order DEF Linked
<1>3. links[f[count]] = Null
  BY <1>1, Order DEF Linked
<1>4. /\ 1 \in 1 .. count /\ count \in 1 .. count /\ count + 1 \in Nat \ {0}
      /\ count = count + 1 - 1 /\ count + 1 >= count + 1 - 1
  BY <1>1
<1>5. PICK i, z, n : i = 1 /\ z = count /\ n = count + 1
  OBVIOUS
<1>6. /\ DOMAIN links = Headers /\ i \in 1 .. count /\ z \in i .. count
      /\ n \in Nat \ {0} /\ z \in Nat \ {0} /\ z = z + 1 - i /\ n >= z + 1 - i
      /\ \A k \in i .. z - 1 : links[f[k]] = f[k + 1]
      /\ links[f[z]] = Null
  BY <1>1, <1>2, <1>3, <1>4, <1>5
<1>7. Chain(links, f[i], z) = SubSeq(f, i, z)
  BY <1>6, PartOfList
<1>8. Chain(links, f[i], n) = SubSeq(f, i, z)
  BY <1>6, PartOfList
<1> QED  BY <1>1, <1>5, <1>7, <1>8, OrderIsSeq

\* Headers that change their places.
LEMMA Moved ==
  ASSUME ListOK, NEW f \in Orders, NEW at \in [1 .. count -> 1 .. count],
         NEW back \in [1 .. count -> 1 .. count],
         \A i \in 1 .. count : back[at[i]] = i /\ at[back[i]] = i,
         NEW g \in [1 .. count -> Headers], \A i \in 1 .. count : g[i] = f[at[i]]
  PROVE  g \in Orders
<1>2. /\ f \in [1 .. count -> Headers]
      /\ \A i, j \in 1 .. count : f[i] = f[j] => i = j
      /\ \A c \in Headers : \E i \in 1 .. count : f[i] = c
  BY DEF Orders
<1>3. \A i \in 1 .. count : at[i] \in 1 .. count /\ back[i] \in 1 .. count /\ g[i] = f[at[i]]
  OBVIOUS
<1>5. \A i, j \in 1 .. count : g[i] = g[j] => i = j
  <2> SUFFICES ASSUME NEW i \in 1 .. count, NEW j \in 1 .. count, g[i] = g[j]
               PROVE  i = j
    OBVIOUS
  <2>1. at[i] = at[j]
    BY <1>2, <1>3
  <2> QED  BY <2>1
<1>6. \A c \in Headers : \E i \in 1 .. count : g[i] = c
  <2> SUFFICES ASSUME NEW c \in Headers
               PROVE  \E i \in 1 .. count : g[i] = c
    OBVIOUS
  <2>1. PICK x \in 1 .. count : f[x] = c
    BY <1>2
  <2>2. back[x] \in 1 .. count /\ g[back[x]] = c
    BY <1>3, <2>1
  <2> QED  BY <2>2
<1> QED  BY <1>5, <1>6 DEF Orders

\* Two orders by ascending index are the same.
LEMMA OneOrder ==
  ASSUME ListOK, items \in Items, NEW f \in Orders, NEW g \in Orders, Ascending(f), Ascending(g)
  PROVE  f = g
<1> DEFINE T == {k \in 1 .. count : f[k] # g[k]}
<1>1. /\ count \in Nat \ {0} /\ f \in [1 .. count -> Headers] /\ g \in [1 .. count -> Headers]
  BY Order
<1>2. SUFFICES ASSUME T # {}
               PROVE  FALSE
  BY <1>1
<1>3. T \subseteq Nat
  BY <1>1
<1>4. PICK k \in T : \A y \in T : k <= y
  BY <1>2, <1>3, LeastElement
<1>5. k \in 1 .. count /\ f[k] # g[k] /\ f[k] \in Headers /\ g[k] \in Headers
  BY <1>1, <1>4
<1>6. \A i \in 1 .. count : i < k => f[i] = g[i]
  BY <1>4, <1>5
<1>7. \A c \in Headers : items.data[c].idx \in Int
  BY Widths DEF Items, DataCells
<1>8. items.data[g[k]].idx < items.data[f[k]].idx
  <2>1. PICK j \in 1 .. count : g[j] = f[k]
    BY <1>5, Order
  <2>2. j # k
    BY <1>5, <2>1
  <2>3. j < k => f[j] = g[j]
    BY <1>6
  <2>3a. ~(j < k)
    BY <1>5, <2>1, <2>2, <2>3, Order
  <2>4. k < j
    BY <1>5, <2>2, <2>3a
  <2> QED  BY <1>5, <2>1, <2>4 DEF Ascending
<1>9. items.data[f[k]].idx < items.data[g[k]].idx
  <2>1. PICK j \in 1 .. count : f[j] = g[k]
    BY <1>5, Order
  <2>2. j # k
    BY <1>5, <2>1
  <2>3. j < k => f[j] = g[j]
    BY <1>6
  <2>3a. ~(j < k)
    BY <1>5, <2>1, <2>2, <2>3, Order
  <2>4. k < j
    BY <1>5, <2>2, <2>3a
  <2> QED  BY <1>5, <2>1, <2>4 DEF Ascending
<1> QED  BY <1>5, <1>7, <1>8, <1>9

\* The number of headers is that of the places they are.
LEMMA CountOf ==
  ASSUME NEW n \in Nat \ {0}
  PROVE  Cardinality(0 .. n - 1) = n
<1>1. Cardinality(0 .. n - 1) = IF 0 > n - 1 THEN 0 ELSE n - 1 - 0 + 1
  BY FS_Interval
<1> QED  BY <1>1

-----------------------------------------------------------------------------
\* What a step keeps

\* What is said of the headers only depends on which there are.
LEMMA SameHeaders ==
  ASSUME Headers' = Headers
  PROVE  /\ count' = count /\ Orders' = Orders /\ Pointers' = Pointers /\ Identity' = Identity
         /\ \A f, i : Place(f, i)' = Place(f, i)
<1>1. count' = count
  BY DEF count, Used, heap, Headers
<1>2. Orders' = Orders /\ Pointers' = Pointers /\ Identity' = Identity
  BY <1>1 DEF Orders, Pointers, Identity
<1>3. \A f, i : Place(f, i)' = Place(f, i)
  BY <1>1 DEF Place
<1> QED  BY <1>1, <1>2, <1>3

\* The order in which the headers came to the sort.
LEMMA PlacesAreNumbers ==
  ListOK /\ srt.from \in Orders =>
    \A c \in Headers : PlaceOf(c) \in 1 .. count /\ srt.from[PlaceOf(c)] = c
<1> SUFFICES ASSUME ListOK, srt.from \in Orders, NEW c \in Headers
             PROVE  PlaceOf(c) \in 1 .. count /\ srt.from[PlaceOf(c)] = c
  OBVIOUS
<1>1. Len(srt.from) = count
  BY Order, OrderIsSeq
<1>2. \E i \in 1 .. count : srt.from[i] = c
  BY Order
<1> QED  BY <1>1, <1>2 DEF PlaceOf

\* What a sort compares of a header is a number.
LEMMA KeysAreNumbers ==
  ListOK /\ items \in Items => \A c \in Headers : DataOf(heap, c) \in DataCells /\ Key(c) \in Int
<1> SUFFICES ASSUME ListOK, items \in Items, NEW c \in Headers
             PROVE  DataOf(heap, c) \in DataCells /\ Key(c) \in Int
  OBVIOUS
<1>1. DataOf(heap, c) = items.data[items.info[c]]
  BY DEF DataOf, heap
<1>2. DataOf(heap, c) \in DataCells
  BY <1>1 DEF Items
<1>3. DataOf(heap, c).idx \in Int /\ DataOf(heap, c).lo \in Int
  BY <1>2, Widths DEF DataCells
<1>4. DataOf(heap, c).lo % 128 \in Int
  BY <1>3
<1> QED  BY <1>2, <1>3, <1>4 DEF Key

\* Headers that are known to be in order are in a strict order.
LEMMA Transitive ==
  ListOK /\ items \in Items /\ srt.from \in Orders => OrderedTransitive
<1> SUFFICES ASSUME ListOK, items \in Items, srt.from \in Orders,
                    NEW x, NEW y, NEW z, Ordered(x, y), Ordered(y, z)
             PROVE  Ordered(x, z)
  BY DEF OrderedTransitive
<1>1. /\ x \in Headers /\ y \in Headers /\ z \in Headers /\ Known(x) /\ Known(z)
      /\ Before(x, y) /\ Before(y, z)
  BY DEF Ordered
<1>2. /\ Key(x) \in Int /\ Key(y) \in Int /\ Key(z) \in Int
      /\ PlaceOf(x) \in 1 .. count /\ PlaceOf(y) \in 1 .. count /\ PlaceOf(z) \in 1 .. count
      /\ count \in Nat
  BY <1>1, KeysAreNumbers, PlacesAreNumbers DEF ListOK
<1>3. Before(x, z)
  BY <1>1, <1>2 DEF Before
<1> QED  BY <1>1, <1>3 DEF Ordered

\* While indexes and patterns stay, so does what is said of them.
DataStay ==
  /\ Headers' = Headers /\ par' = par
  /\ items' \in Items'
  /\ \A c \in Headers : /\ items'.data[c].idx = items.data[c].idx
                        /\ items'.data[c].hi = items.data[c].hi

\* Which items have which index, and the list without cached results, stay.
LEMMA SameIndexes ==
  ASSUME ListOK, items \in Items, DataStay
  PROVE  /\ Indexed => Indexed'
         /\ \A f \in Orders : Ascending(f)' = Ascending(f) /\ Clean(f)' = Clean(f)
<1>1. count' = count /\ count \in Nat \ {0} /\ 0 \in Headers /\ Size' = Size
  BY SameHeaders DEF DataStay, Size, ListOK
<1>2. /\ items'.data \in [Headers -> DataCells] /\ items.data \in [Headers -> DataCells]
  BY DEF DataStay, Items
<1>3. Indexed => Indexed'
  BY <1>1 DEF Indexed, DataStay
<1>4. ASSUME NEW f \in Orders
      PROVE  Ascending(f)' = Ascending(f) /\ Clean(f)' = Clean(f)
  <2>1. \A k \in 1 .. count : f[k] \in Headers
    BY Order
  <2>2. \A k \in 1 .. count : items'.data[f[k]].idx = items.data[f[k]].idx
    BY <2>1 DEF DataStay
  <2>3. Ascending(f)' = Ascending(f)
    BY <1>1, <2>2 DEF Ascending
  <2>4. ASSUME NEW k \in 1 .. count
        PROVE  [items'.data[f[k]] EXCEPT !.lo = items'.data[f[k]].hi]
                = [items.data[f[k]] EXCEPT !.lo = items.data[f[k]].hi]
    <3>1. PICK d, e : d = items.data[f[k]] /\ e = items'.data[f[k]]
      OBVIOUS
    <3>2. d \in DataCells /\ e \in DataCells /\ e.idx = d.idx /\ e.hi = d.hi
      BY <1>2, <2>1, <3>1 DEF DataStay
    <3>3. [e EXCEPT !.lo = e.hi] = [d EXCEPT !.lo = d.hi]
      BY <3>2 DEF DataCells
    <3> QED  BY <3>1, <3>3
  <2>5. Clean(f)' = Clean(f)
    BY <1>1, <2>4 DEF Clean
  <2> QED  BY <2>3, <2>5
<1> QED  BY <1>3, <1>4

\* What the blocks were initialised with, in a step that comes after that.
LEMMA HistoryKept ==
  ASSUME ListOK, items \in Items, DataStay, History, ~Initialising, ~Initialising', hist' = hist,
         res'.list = res.list, par.seed1 = par.seed2 => text' = text /\ mat' = mat
  PROVE  History'
<1>1. par' = par /\ Orders' = Orders
  BY SameHeaders DEF DataStay
<1>2. /\ res.list = 0
      /\ \A f \in Orders : Ascending(f) => hist.list = Clean(f)
      /\ hist.text = InitState(par.size, par.seed1)
      /\ hist.mat = InitMatrix(par.size, par.seed1 + par.seed2 * 65536)
      /\ par.seed1 = par.seed2 => text = hist.text /\ mat = hist.mat
  BY DEF History
<1>3. \A f \in Orders : Ascending(f)' => hist.list = Clean(f)'
  BY <1>2, SameIndexes
<1> QED  BY <1>1, <1>2, <1>3 DEF History

\* And in one that comes before.
LEMMA HistoryBefore ==
  ASSUME History, Initialising, Initialising', UNCHANGED <<hist, text, mat>>
  PROVE  History'
BY DEF History

-----------------------------------------------------------------------------
\* The steps of the sort

\* A sort begins with the headers in the order they have.
LEMMA Begun ==
  ASSUME ListOK', NEW f \in Orders', Linked(f, 1, count)', pc' = "pass",
         NEW cmp \in {"idx", "complex"}, NEW to \in {"inits", "remove", "recrc"},
         cmp = "complex" <=> to = "remove",
         srt' = [NoSort EXCEPT !.list = f[1], !.cmp = cmp, !.to = to, !.from = f]
  PROVE  SortOK' /\ Somewhere'
<1>1. PICK n, H, O : n = count' /\ H = Headers' /\ O = Orders'
  OBVIOUS
<1>2. /\ n \in Nat \ {0} /\ H = 0 .. n - 1
      /\ O = {h \in [1 .. n -> H] : /\ \A i, j \in 1 .. n : h[i] = h[j] => i = j
                                    /\ \A c \in H : \E i \in 1 .. n : h[i] = c}
  BY <1>1 DEF ListOK, Orders
<1>3. /\ f \in [1 .. n -> H] /\ f[1] \in H /\ \A i, j \in 1 .. n : f[i] = f[j] => i = j
  BY <1>1, <1>2
<1>4. /\ srt'.p = Null /\ srt'.q = Null /\ srt'.list = f[1] /\ srt'.tail = Null
      /\ srt'.insize = 1 /\ srt'.psize = 0 /\ srt'.qsize = 0 /\ srt'.nmerges = 0
      /\ srt'.cmp = cmp /\ srt'.to = to /\ srt'.from = f
      /\ srt' = [p |-> Null, q |-> Null, list |-> f[1], tail |-> Null, insize |-> 1,
                 psize |-> 0, qsize |-> 0, nmerges |-> 0, cmp |-> cmp, to |-> to, from |-> f]
  BY DEF NoSort
<1>5. SortOK'
  <2>1. /\ Pointers' = H \cup {Null} /\ 1 \in 1 .. n /\ 0 \in 0 .. n
    BY <1>1, <1>2 DEF Pointers
  <2>2. srt' \in Locals'
    BY <1>1, <1>3, <1>4, <2>1 DEF Locals
  <2> QED  BY <1>4, <2>2 DEF SortOK
<1>6. Len(f) = n
  BY <1>2, <1>3, OrderIsSeq
<1>7. \A i \in 1 .. n : PlaceOf(f[i])' = i
  <2> SUFFICES ASSUME NEW i \in 1 .. n
               PROVE  PlaceOf(f[i])' = i
    OBVIOUS
  <2>1. PlaceOf(f[i])' = CHOOSE k \in 1 .. n : f[k] = f[i]
    BY <1>4, <1>6 DEF PlaceOf
  <2> QED  BY <1>3, <2>1
<1>8. Runs(f, 1, 0, n)'
  <2> SUFFICES ASSUME NEW k \in Nat, NEW i \in 0 + 1 .. n, NEW j \in 0 + 1 .. n
               PROVE  /\ 0 + k * 1 < i /\ i < j /\ j <= 0 + (k + 1) * 1 => Ordered(f[i], f[j])'
                      /\ i <= 0 + k * 1 /\ 0 + k * 1 < j => PlaceOf(f[i])' < PlaceOf(f[j])'
    BY <1>1 DEF Runs
  <2>1. i \in 1 .. n /\ j \in 1 .. n /\ 0 + k * 1 = k /\ 0 + (k + 1) * 1 = k + 1
    BY <1>2
  <2> QED  BY <1>7, <2>1
<1>9. AtPass(f)'
  BY <1>1, <1>4, <1>8 DEF AtPass
<1>10. SortPlace(f, 0, 0)'
  BY <1>9 DEF SortPlace
<1>11. 0 \in (0 .. count)'
  BY <1>1, <1>2
<1> QED  BY <1>5, <1>10, <1>11 DEF Somewhere

\* The steps that look at no data.
LEMMA OrderStays ==
  ASSUME SortOK, items \in Items, items' = items, Headers' = Headers,
         srt'.cmp = srt.cmp, srt'.to = srt.to, srt'.from = srt.from
  PROVE  OrderKept
<1>1. \A c, d : Ordered(c, d)' = Ordered(c, d)
  <2>1. \A c : DataOf(heap, c)' = DataOf(heap, c)
    BY DEF DataOf, heap
  <2>2. \A c : Known(c)' = Known(c) /\ Key(c)' = Key(c) /\ PlaceOf(c)' = PlaceOf(c)
    BY <2>1 DEF Known, Key, PlaceOf
  <2> QED  BY <2>2 DEF Ordered, Before
<1>2. OrderedTransitive
  BY Transitive DEF SortOK, Locals
<1>3. OrderedTransitive'
  BY <1>1, <1>2 DEF OrderedTransitive
<1> QED  BY <1>1, <1>3, SameHeaders DEF OrderKept

\* The steps of the sort that look at no data keep its invariant.
LEMMA SortMoves ==
  ASSUME SortOK, items \in Items, items' = items, Somewhere,
         BeginPass \/ BeginMerge \/ StepAlong \/ PickOnly \/ MergeDone \/ EndPass
  PROVE  /\ SortOK' /\ Somewhere' /\ Headers' = Headers
         /\ srt'.cmp = srt.cmp /\ srt'.to = srt.to /\ srt'.from = srt.from
<1>1. Headers' = Headers
  BY DEF Headers, BeginPass, BeginMerge, StepAlong, PickOnly, MergeDone, EndPass, TakeP, TakeQ,
         LinkToTail
<1>2. srt \in Locals
  BY DEF SortOK
<1>3. srt'.cmp = srt.cmp /\ srt'.to = srt.to /\ srt'.from = srt.from
  BY <1>2 DEF Locals, BeginPass, BeginMerge, StepAlong, PickOnly, MergeDone, EndPass, TakeP, TakeQ
<1>4. OrderKept
  BY <1>1, <1>3, OrderStays
<1>5. PICK f \in Orders, m \in 0 .. count, b \in 0 .. count : SortPlace(f, m, b)
  BY DEF Somewhere
<1>6. CASE BeginPass
  BY <1>4, <1>5, <1>6, BeginPassStep, <1>1, <1>3 DEF SortPlace, BeginPass
<1>7. CASE BeginMerge
  BY <1>4, <1>5, <1>7, BeginMergeStep, <1>1, <1>3 DEF SortPlace, BeginMerge
<1>8. CASE StepAlong
  BY <1>4, <1>5, <1>8, StepAlongStep, <1>1, <1>3 DEF SortPlace, StepAlong
<1>9. CASE MergeDone
  BY <1>4, <1>5, <1>9, MergeDoneStep, <1>1, <1>3 DEF SortPlace, MergeDone
<1>10. CASE EndPass
  BY <1>4, <1>5, <1>10, EndPassStep, <1>1, <1>3 DEF SortPlace, EndPass
<1>11. CASE PickOnly
  <2>1. AtPick(f, m, b) /\ pc = "pick" /\ pc' = pc
    BY <1>5, <1>11 DEF SortPlace, PickOnly
  <2>2. /\ PLeft => srt.p \in Headers
        /\ QLeft => srt.q \in Headers
    BY <2>1, MergeFields, OrderOfHeaders
  <2>3. CASE PLeft /\ ~QLeft /\ TakeP
    BY <1>4, <2>1, <2>2, <2>3, TakePStep, <1>1, <1>3
  <2>4. CASE ~PLeft /\ QLeft /\ TakeQ
    BY <1>4, <2>1, <2>2, <2>4, TakeQStep, <1>1, <1>3
  <2> QED  BY <1>11, <2>3, <2>4 DEF PickOnly
<1> QED  BY <1>6, <1>7, <1>8, <1>9, <1>10, <1>11

-----------------------------------------------------------------------------
\* The comparison

\* A data cell after calc_func: the result is cached, the rest stays.
CachedFrom(d, e) ==
  /\ e \in DataCells /\ e.idx = d.idx /\ e.hi = d.hi /\ Cached(e)
  /\ Cached(d) => e = d

\* What calc_func and cmp_idx work on.
Inputs(s) == /\ s.heap.next = links /\ s.heap.info = items.info
             /\ s.heap.data \in [Headers -> DataCells] /\ s.res \in Results
             /\ s = [heap |-> s.heap, res |-> s.res, text |-> s.text, mat |-> s.mat]
             /\ s.heap = [next |-> s.heap.next, info |-> s.heap.info, data |-> s.heap.data]

\* The text and the matrices y that calc_func makes of x.
TextFrom(x, y) ==
  y = x \/ \E d \in DataCells : d.lo % 8 = 0 /\ y = TextAfter(x, par.seed1, par.seed2, Step(d))
MatricesFrom(x, y) ==
  y = x \/ \E d \in DataCells : d.lo % 8 = 1 /\ y = MatrixAfter(x, Step(d))

\* The counts of the state machine are added to a CRC.
LEMMA CrcOfCountsIsWord ==
  ASSUME NEW counts, NEW crc \in Halfwords
  PROVE  CrcOfCounts(counts, crc) \in Halfwords
<1> DEFINE four(i) == [c \in Halfwords |-> CrcOf4(counts, i, c)]
<1>1. \A i, c : c \in Halfwords => CrcOf4(counts, i, c) \in Halfwords
  BY CrcOfWord DEF CrcOf4
<1>2. \A i : \A c \in Halfwords : four(i)[c] \in Halfwords
  BY <1>1
<1>3. CrcOfCounts(counts, crc) = four(13)[four(9)[four(5)[four(1)[crc]]]]
  BY DEF CrcOfCounts
<1> HIDE DEF four
<1> QED  BY <1>2, <1>3

\* What calc_func caches is a number, and a CRC when it has run a benchmark.
LEMMA ResultIsNumber ==
  ASSUME NEW s, s.res.crc \in Halfwords, NEW d \in DataCells
  PROVE  /\ CalcResult(d, s) \in Int
         /\ d.lo % 8 = 0 \/ d.lo % 8 = 1 => CalcResult(d, s) \in Halfwords
<1>1. d.hi \in Int /\ d.lo \in Int
  BY Widths DEF DataCells
<1>2. CASE d.lo % 8 = 0
  <2>1. CalcResult(d, s) = core_bench_state(s.text, par.seed1, Step(d), s.res.crc)
    BY <1>2 DEF CalcResult
  <2>2. CalcResult(d, s) \in Halfwords
    BY <2>1, CrcOfCountsIsWord DEF core_bench_state
  <2> QED  BY <2>2, Widths
<1>3. CASE d.lo % 8 = 1
  <2>1. CalcResult(d, s) = core_bench_matrix(s.mat, Step(d), s.res.crc)
    BY <1>3 DEF CalcResult
  <2>2. CalcResult(d, s) \in Halfwords
    BY <2>1, CrcOfWord DEF core_bench_matrix
  <2> QED  BY <2>2, Widths
<1>4. CASE d.lo % 8 # 0 /\ d.lo % 8 # 1
  BY <1>1, <1>4 DEF CalcResult, Data16
<1> QED  BY <1>2, <1>3, <1>4

\* calc_func on a header.
LEMMA CalcStep ==
  ASSUME ListOK, items.info = Identity, NEW s, Inputs(s), NEW c \in Headers,
         NEW t, t = calc_func(c, s)
  PROVE  /\ Inputs(t) /\ t.res.list = s.res.list
         /\ CachedFrom(s.heap.data[c], t.heap.data[c])
         /\ \A e \in Headers : e # c => t.heap.data[e] = s.heap.data[e]
         /\ TextFrom(s.text, t.text) /\ MatricesFrom(s.mat, t.mat)
<1>1. PICK h, d, r, byte : /\ h = s.heap /\ d = h.data[c] /\ r = CalcResult(d, s)
                           /\ byte = CacheByte(r)
  OBVIOUS
<1>2. DataOf(s.heap, c) = d /\ s.heap.info[c] = c /\ d \in DataCells
  BY <1>1 DEF DataOf, Inputs, Identity
<1>3. CASE Cached(d)
  <2>1. t = s
    BY <1>2, <1>3 DEF calc_func
  <2> QED  BY <1>1, <1>2, <1>3, <2>1 DEF CachedFrom, TextFrom, MatricesFrom
<1>4. CASE ~Cached(d)
  <2>1. t = [heap |-> [h EXCEPT !.data[c].lo = byte],
             res |-> [s.res EXCEPT
                        !.crc = crcu16(r, @),
                        !.crcstate = IF d.lo % 8 = 0 /\ @ = 0 THEN r ELSE @,
                        !.crcmatrix = IF d.lo % 8 = 1 /\ @ = 0 THEN r ELSE @],
             text |-> IF d.lo % 8 = 0
                      THEN TextAfter(s.text, par.seed1, par.seed2, Step(d)) ELSE s.text,
             mat |-> IF d.lo % 8 = 1 THEN MatrixAfter(s.mat, Step(d)) ELSE s.mat]
    BY <1>1, <1>2, <1>4 DEF calc_func
  <2>2. /\ h.data \in [Headers -> DataCells] /\ s.res \in Results
        /\ h = [next |-> links, info |-> items.info, data |-> h.data]
    BY <1>1 DEF Inputs
  <2>3. r \in Int /\ (d.lo % 8 = 0 \/ d.lo % 8 = 1 => r \in Halfwords)
    BY <1>1, <1>2, <2>2, ResultIsNumber DEF Results
  <2>4. byte \in Bytes /\ byte >= 128
    <3>1. r % 128 \in Int /\ 0 <= r % 128 /\ r % 128 <= 127
      BY <2>3
    <3>2. byte = 128 + (r % 128)
      BY <1>1 DEF CacheByte
    <3> QED  BY <3>1, <3>2, Widths
  <2>5. PICK g : g = [d EXCEPT !.lo = byte]
    OBVIOUS
  <2>6. g \in DataCells /\ g.idx = d.idx /\ g.hi = d.hi /\ g.lo = byte
    BY <1>2, <2>4, <2>5 DEF DataCells
  <2>7. t.heap = [next |-> links, info |-> items.info, data |-> [h.data EXCEPT ![c] = g]]
    BY <1>1, <2>1, <2>2, <2>5
  <2>8. /\ [h.data EXCEPT ![c] = g] \in [Headers -> DataCells]
        /\ [h.data EXCEPT ![c] = g][c] = g
        /\ \A e \in Headers : e # c => [h.data EXCEPT ![c] = g][e] = h.data[e]
    BY <2>2, <2>6
  <2>9. t.res \in Results /\ t.res.list = s.res.list
    <3>1. PICK crc, cs, cm : /\ crc = crcu16(r, s.res.crc)
                             /\ cs = IF d.lo % 8 = 0 /\ s.res.crcstate = 0 THEN r ELSE s.res.crcstate
                             /\ cm = IF d.lo % 8 = 1 /\ s.res.crcmatrix = 0 THEN r ELSE s.res.crcmatrix
      OBVIOUS
    <3>2. crc \in Halfwords /\ cs \in Halfwords /\ cm \in Halfwords
      BY <2>2, <2>3, <3>1, CrcOfWord DEF Results
    <3>3. t.res = [s.res EXCEPT !.crc = crc, !.crcstate = cs, !.crcmatrix = cm]
      <4>1. t.res = [s.res EXCEPT
                        !.crc = crcu16(r, @),
                        !.crcstate = IF d.lo % 8 = 0 /\ @ = 0 THEN r ELSE @,
                        !.crcmatrix = IF d.lo % 8 = 1 /\ @ = 0 THEN r ELSE @]
        BY <2>1
      <4> QED  BY <2>2, <3>1, <4>1 DEF Results
    <3> QED  BY <2>2, <3>2, <3>3 DEF Results
  <2>10. CachedFrom(d, g)
    BY <1>4, <2>4, <2>6, Widths DEF CachedFrom, Cached
  <2>11. Inputs(t)
    BY <2>1, <2>7, <2>8, <2>9 DEF Inputs
  <2>12. TextFrom(s.text, t.text)
    BY <1>2, <2>1 DEF TextFrom
  <2>13. MatricesFrom(s.mat, t.mat)
    BY <1>2, <2>1 DEF MatricesFrom
  <2> QED  BY <1>1, <2>7, <2>8, <2>9, <2>10, <2>11, <2>12, <2>13
<1> QED  BY <1>3, <1>4

\* With equal seeds the benchmarks that an item selects leave their input as
\* it was.
LEMMA KernelsUndo ==
  ASSUME NEW p \in Parameters, NEW b, b = Block(p), b.seed1 = b.seed2, NEW d \in DataCells
  PROVE  /\ d.lo % 8 = 0 => TextAfter(InitState(b.size, b.seed1), b.seed1, b.seed2, Step(d))
                              = InitState(b.size, b.seed1)
         /\ d.lo % 8 = 1 => MatrixAfter(InitMatrix(b.size, b.seed1 + b.seed2 * 65536), Step(d))
                              = InitMatrix(b.size, b.seed1 + b.seed2 * 65536)
<1>1. PICK k : k = (d.lo \div 8) % 16
  OBVIOUS
<1>2. k \in 0 .. 15
  <2>1. d.lo \in Int
    BY Widths DEF DataCells
  <2>2. d.lo \div 8 \in Int
    BY <2>1
  <2> QED  BY <1>1, <2>2
<1>3. d.lo % 8 = 1 => Step(d) = 17 * k
  BY <1>1, <1>2 DEF Step
<1>4. d.lo % 8 = 0 => Step(d) = IF 17 * k < 34 THEN 34 ELSE 17 * k
  BY <1>1, <1>2 DEF Step
<1>5. d.lo % 8 = 0 => Step(d) \in Periods
  BY <1>2, <1>4 DEF Periods
<1>6. /\ \A step \in Periods : TextAfter(InitState(b.size, b.seed1), b.seed1, b.seed2, step)
                                 = InitState(b.size, b.seed1)
      /\ \A x \in 0 .. 15 : MatrixAfter(InitMatrix(b.size, b.seed1 + b.seed2 * 65536), 17 * x)
                              = InitMatrix(b.size, b.seed1 + b.seed2 * 65536)
  BY KernelsAssumption
<1> QED  BY <1>2, <1>3, <1>5, <1>6

\* With equal seeds a run of the state machine leaves the text as it was.
LEMMA TextStays ==
  ASSUME NEW p \in Parameters, par = Block(p), par.seed1 = par.seed2,
         NEW x, x = InitState(par.size, par.seed1), NEW y,
         TextFrom(x, y)
  PROVE  y = x
BY KernelsUndo DEF TextFrom

\* With equal seeds a run of the matrix benchmark leaves the matrices as they were.
LEMMA MatricesStay ==
  ASSUME NEW p \in Parameters, par = Block(p), par.seed1 = par.seed2,
         NEW x, x = InitMatrix(par.size, par.seed1 + par.seed2 * 65536), NEW y,
         MatricesFrom(x, y)
  PROVE  y = x
BY KernelsUndo DEF MatricesFrom

\* cmp_idx on a header.
LEMMA RegenerateStep ==
  ASSUME ListOK, items.info = Identity, NEW h, h.info = items.info, h.next = links,
         h.data \in [Headers -> DataCells], h = [next |-> h.next, info |-> h.info, data |-> h.data],
         NEW c \in Headers, NEW g, g = Regenerate(h, c)
  PROVE  /\ g.info = items.info /\ g.next = links /\ g.data \in [Headers -> DataCells]
         /\ g = [next |-> g.next, info |-> g.info, data |-> g.data]
         /\ g.data[c].idx = h.data[c].idx /\ g.data[c].hi = h.data[c].hi
         /\ g.data[c].lo = h.data[c].hi
         /\ h.data[c].lo = h.data[c].hi => g.data[c] = h.data[c]
         /\ \A e \in Headers : e # c => g.data[e] = h.data[e]
<1>1. PICK d, e, D : d = h.data[c] /\ e = [d EXCEPT !.lo = d.hi] /\ D = [h.data EXCEPT ![c] = e]
  OBVIOUS
<1>2. h.info[c] = c /\ d \in DataCells
  BY <1>1 DEF Identity
<1>3. e \in DataCells /\ e.idx = d.idx /\ e.hi = d.hi /\ e.lo = d.hi /\ (d.lo = d.hi => e = d)
  BY <1>1, <1>2 DEF DataCells
<1>4. g = [next |-> h.next, info |-> h.info, data |-> D]
  BY <1>1, <1>2 DEF Regenerate, DataOf
<1>5. /\ D \in [Headers -> DataCells] /\ D[c] = e
      /\ \A x \in Headers : x # c => D[x] = h.data[x]
  BY <1>1, <1>3
<1> QED  BY <1>1, <1>3, <1>4, <1>5

-----------------------------------------------------------------------------
\* What the comparison leaves

\* A header that was known has not changed; the two that were compared are known.
Seen(p, q) ==
  /\ \A c \in Headers : Known(c) => items'.data[c] = items.data[c]
  /\ Known(p)' /\ Known(q)'

\* The text and the matrices are those of the initialisation.
Untouched == /\ text = InitState(par.size, par.seed1)
             /\ mat = InitMatrix(par.size, par.seed1 + par.seed2 * 65536)

\* A comparison writes data cells only.
Looked(h) == items' = [info |-> h.info, data |-> h.data]

\* While no info fields are exchanged each header has the data cell of its place.
LEMMA DataOfHeader ==
  ASSUME ListOK, items.info = Identity
  PROVE  \A c \in Headers : DataOf(heap, c) = items.data[c]
BY DEF DataOf, heap, Identity

\* cmp_complex caches the results of both headers, knows them from then on, and
\* changes neither an index nor a pattern.
LEMMA ComplexStep ==
  ASSUME ListOK, items \in Items, items.info = Identity, res \in Results,
         NEW b \in Parameters, par = Block(b), par' = par, Headers' = Headers,
         srt.cmp = "complex", srt'.cmp = "complex",
         NEW p \in Headers, NEW q \in Headers, p # q,
         NEW t, t = cmp_complex(p, q), Looked(t.heap), res' = t.res, text' = t.text, mat' = t.mat
  PROVE  /\ DataStay /\ items'.info = Identity /\ Seen(p, q)
         /\ res' \in Results /\ res'.list = res.list
         /\ par.seed1 = par.seed2 /\ Untouched => text' = text /\ mat' = mat
         /\ NotAbove(t.heap, srt.cmp, p, q) <=> Key(p)' <= Key(q)'
<1>1. PICK s, r : s = Now /\ r = calc_func(p, s)
  OBVIOUS
<1>2. t = calc_func(q, r)
  BY <1>1 DEF cmp_complex
<1>3. Inputs(s) /\ s.heap.data = items.data /\ s.res = res /\ s.text = text /\ s.mat = mat
  BY <1>1 DEF Inputs, Now, heap, Items
<1>4. /\ Inputs(r) /\ r.res.list = res.list /\ CachedFrom(items.data[p], r.heap.data[p])
      /\ \A e \in Headers : e # p => r.heap.data[e] = items.data[e]
      /\ TextFrom(text, r.text) /\ MatricesFrom(mat, r.mat)
  <2>1. /\ Inputs(r) /\ r.res.list = s.res.list /\ CachedFrom(s.heap.data[p], r.heap.data[p])
        /\ \A e \in Headers : e # p => r.heap.data[e] = s.heap.data[e]
        /\ TextFrom(s.text, r.text) /\ MatricesFrom(s.mat, r.mat)
    <3>1. Inputs(s) /\ r = calc_func(p, s)
      BY <1>1, <1>3
    <3> QED  BY <3>1, CalcStep
  <2> QED  BY <1>3, <2>1
<1>5. /\ Inputs(t) /\ t.res.list = r.res.list /\ CachedFrom(r.heap.data[q], t.heap.data[q])
      /\ \A e \in Headers : e # q => t.heap.data[e] = r.heap.data[e]
      /\ TextFrom(r.text, t.text) /\ MatricesFrom(r.mat, t.mat)
  BY <1>2, <1>4, CalcStep
<1>6. /\ items'.info = items.info /\ items'.data = t.heap.data
      /\ items'.data \in [Headers -> DataCells]
      /\ res' \in Results /\ res'.list = res.list
  BY <1>4, <1>5 DEF Inputs, Looked
<1>7. /\ CachedFrom(items.data[p], items'.data[p]) /\ CachedFrom(items.data[q], items'.data[q])
      /\ \A e \in Headers : e # p /\ e # q => items'.data[e] = items.data[e]
  BY <1>4, <1>5, <1>6
<1>8. \A c \in Headers : /\ items'.data[c].idx = items.data[c].idx
                         /\ items'.data[c].hi = items.data[c].hi
  BY <1>7 DEF CachedFrom
<1>9. DataStay /\ items'.info = Identity
  <2>1. items' \in Items'
    BY <1>6 DEF Items, Identity, Looked
  <2> QED  BY <1>6, <1>8, <2>1 DEF DataStay
<1>10. \A c \in Headers : DataOf(heap, c) = items.data[c] /\ DataOf(heap, c)' = items'.data[c]
  BY <1>6, DataOfHeader DEF DataOf, heap, Identity
<1>11. Seen(p, q)
  <2>1. \A c \in Headers : Known(c) <=> Cached(items.data[c])
    BY <1>10 DEF Known
  <2>2. \A c \in Headers : Known(c)' <=> Cached(items'.data[c])
    BY <1>10 DEF Known, Cached
  <2> QED  BY <1>7, <2>1, <2>2 DEF Seen, CachedFrom
<1>12. NotAbove(t.heap, srt.cmp, p, q) <=> Key(p)' <= Key(q)'
  <2>1. \A c \in Headers : DataOf(t.heap, c) = items'.data[c]
    BY <1>5, <1>6 DEF DataOf, Inputs, Identity
  <2>2. \A c \in Headers : Value(t.heap, c) = Key(c)'
    BY <1>10, <2>1 DEF Value, Key
  <2> QED  BY <2>2 DEF NotAbove
<1>13. ASSUME par.seed1 = par.seed2, Untouched
       PROVE  text' = text /\ mat' = mat
  <2>1. r.text = text
    BY <1>4, <1>13, TextStays DEF Untouched
  <2>2. t.text = text
    BY <1>5, <1>13, <2>1, TextStays DEF Untouched
  <2>3. r.mat = mat
    BY <1>4, <1>13, MatricesStay DEF Untouched
  <2>4. t.mat = mat
    BY <1>5, <1>13, <2>3, MatricesStay DEF Untouched
  <2> QED  BY <2>2, <2>4
<1> QED  BY <1>6, <1>9, <1>11, <1>12, <1>13

\* cmp_idx removes the cached results of both headers, and changes neither an
\* index nor a pattern.
LEMMA IdxStep ==
  ASSUME ListOK, items \in Items, items.info = Identity, res \in Results,
         par' = par, Headers' = Headers, srt.cmp = "idx", srt'.cmp = "idx",
         NEW p \in Headers, NEW q \in Headers, p # q,
         NEW t, t = cmp_idx(p, q), Looked(t.heap), res' = t.res, text' = t.text, mat' = t.mat
  PROVE  /\ DataStay /\ items'.info = Identity /\ Seen(p, q)
         /\ res' \in Results /\ res'.list = res.list /\ text' = text /\ mat' = mat
         /\ NotAbove(t.heap, srt.cmp, p, q) <=> Key(p)' <= Key(q)'
<1>1. PICK g, h : g = Regenerate(heap, p) /\ h = Regenerate(g, q)
  OBVIOUS
<1>2. t.heap = h /\ t.res = res /\ t.text = text /\ t.mat = mat
  BY <1>1 DEF cmp_idx, Now
<1>3. /\ heap.info = items.info /\ heap.next = links /\ heap.data = items.data
      /\ heap = [next |-> heap.next, info |-> heap.info, data |-> heap.data]
      /\ items.data \in [Headers -> DataCells]
  BY DEF heap, Items
<1>4. /\ g.info = items.info /\ g.next = links /\ g.data \in [Headers -> DataCells]
      /\ g = [next |-> g.next, info |-> g.info, data |-> g.data]
      /\ g.data[p].idx = items.data[p].idx /\ g.data[p].hi = items.data[p].hi
      /\ g.data[p].lo = items.data[p].hi
      /\ items.data[p].lo = items.data[p].hi => g.data[p] = items.data[p]
      /\ \A e \in Headers : e # p => g.data[e] = items.data[e]
  BY <1>1, <1>3, RegenerateStep
<1>5. /\ h.info = items.info /\ h.next = links /\ h.data \in [Headers -> DataCells]
      /\ h.data[q].idx = g.data[q].idx /\ h.data[q].hi = g.data[q].hi
      /\ h.data[q].lo = g.data[q].hi
      /\ g.data[q].lo = g.data[q].hi => h.data[q] = g.data[q]
      /\ \A e \in Headers : e # q => h.data[e] = g.data[e]
  BY <1>1, <1>4, RegenerateStep
<1>6. items'.info = items.info /\ items'.data = h.data
  BY <1>2, <1>5 DEF Looked
<1>7. \A c \in Headers : /\ items'.data[c].idx = items.data[c].idx
                         /\ items'.data[c].hi = items.data[c].hi
  BY <1>4, <1>5, <1>6
<1>8. DataStay /\ items'.info = Identity
  <2>1. items' \in Items'
    BY <1>2, <1>5 DEF Items, Identity, Looked
  <2> QED  BY <1>6, <1>7, <2>1 DEF DataStay
<1>9. \A c \in Headers : DataOf(heap, c) = items.data[c] /\ DataOf(heap, c)' = items'.data[c]
  BY <1>6, DataOfHeader DEF DataOf, heap, Identity
<1>10. Seen(p, q)
  <2>1. \A c \in Headers : Known(c) <=> items.data[c].lo = items.data[c].hi
    BY <1>9 DEF Known
  <2>2. \A c \in Headers : Known(c)' <=> items'.data[c].lo = items'.data[c].hi
    BY <1>9 DEF Known
  <2> QED  BY <1>4, <1>5, <1>6, <2>1, <2>2 DEF Seen
<1>11. NotAbove(t.heap, srt.cmp, p, q) <=> Key(p)' <= Key(q)'
  <2>1. \A c \in Headers : DataOf(t.heap, c) = items'.data[c]
    BY <1>2, <1>5, <1>6 DEF DataOf, Identity
  <2>2. \A c \in Headers : DataOf(t.heap, c).idx = Key(c)'
    BY <1>9, <2>1 DEF Key
  <2> QED  BY <2>2 DEF NotAbove
<1> QED  BY <1>2, <1>8, <1>10, <1>11

\* The two headers that are compared.
LEMMA PickedTwo ==
  ASSUME SortOK, NEW f \in Orders, NEW m \in 0 .. count, NEW b \in 0 .. count, AtPick(f, m, b),
         PLeft, QLeft
  PROVE  /\ srt.p \in Headers /\ srt.q \in Headers /\ srt.p # srt.q
         /\ PlaceOf(srt.p) < PlaceOf(srt.q)
<1>1. PICK r, e : r = Behind(m) /\ e = End(b)
  OBVIOUS
<1>2. /\ m \in Nat /\ r \in Nat /\ e \in Nat /\ m < r /\ r < e
      /\ m + 1 \in 1 .. count /\ srt.p = f[m + 1]
      /\ r + 1 \in 1 .. count /\ srt.q = f[r + 1]
  BY <1>1, MergeFields, Fields
<1>3. Precede(f, m + 1, r, e)
  BY <1>1 DEF AtPick, MergeOrder
<1>4. m + 1 \in m + 1 .. r /\ r + 1 \in r + 1 .. e /\ m + 1 # r + 1
  BY <1>2
<1>5. PlaceOf(f[m + 1]) < PlaceOf(f[r + 1])
  BY <1>3, <1>4 DEF Precede
<1> QED  BY <1>2, <1>4, <1>5, OrderOfHeaders

\* The lower of the two is taken, the first one of equals.
LEMMA CompareStep ==
  ASSUME Types, Running, SortOK, items.info = Identity, Somewhere, Compare
  PROVE  /\ SortOK' /\ Somewhere' /\ DataStay /\ items'.info = Identity
         /\ srt'.to = srt.to /\ pc = "pick" /\ pc' = "pick"
         /\ UNCHANGED <<par, iter, loc, hist>>
         /\ res' \in Results /\ res'.list = res.list
         /\ srt.to # "remove" => text' = text /\ mat' = mat
         /\ par.seed1 = par.seed2 /\ Untouched => text' = text /\ mat' = mat
<1>1. PICK f \in Orders, m \in 0 .. count, b \in 0 .. count : SortPlace(f, m, b)
  BY DEF Somewhere
<1>2. PICK x, y, t, first :
        /\ x = srt.p /\ y = srt.q
        /\ t = IF srt.cmp = "complex" THEN cmp_complex(x, y) ELSE cmp_idx(x, y)
        /\ first = NotAbove(t.heap, srt.cmp, x, y)
  OBVIOUS
<1>3. /\ pc = "pick" /\ pc' = "pick" /\ PLeft /\ QLeft /\ UNCHANGED <<par, iter, loc, hist>>
      /\ IF first THEN TakeP ELSE TakeQ
      /\ Looked(t.heap) /\ res' = t.res /\ text' = t.text /\ mat' = t.mat
  BY <1>2 DEF Compare, PickLower, Looked
<1>4. AtPick(f, m, b)
  BY <1>1, <1>3 DEF SortPlace
<1>5. x \in Headers /\ y \in Headers /\ x # y /\ PlaceOf(x) < PlaceOf(y)
  BY <1>2, <1>3, <1>4, PickedTwo
<1>6. /\ srt'.cmp = srt.cmp /\ srt'.to = srt.to /\ srt'.from = srt.from /\ Headers' = Headers
      /\ srt.cmp \in {"idx", "complex"} /\ (srt.cmp = "complex" <=> srt.to = "remove")
      /\ srt.from \in Orders
  <2>1. srt \in Locals
    BY DEF SortOK
  <2>2. Headers' = Headers
    BY <1>3 DEF TakeP, TakeQ, LinkToTail, Headers
  <2>3. srt'.cmp = srt.cmp /\ srt'.to = srt.to /\ srt'.from = srt.from
    BY <1>3, <2>1 DEF TakeP, TakeQ, Locals
  <2> QED  BY <2>1, <2>2, <2>3 DEF SortOK, Locals
<1>7. PICK a \in Parameters : par = Block(a)
  BY <1>3 DEF Running
<1>8. ListOK /\ items \in Items /\ res \in Results
  BY DEF Types
<1>9. /\ DataStay /\ items'.info = Identity /\ Seen(x, y)
      /\ res' \in Results /\ res'.list = res.list
      /\ srt.to # "remove" => text' = text /\ mat' = mat
      /\ par.seed1 = par.seed2 /\ Untouched => text' = text /\ mat' = mat
      /\ first <=> Key(x)' <= Key(y)'
  <2>1. CASE srt.cmp = "complex"
    <3>1. t = cmp_complex(x, y) /\ srt.to = "remove" /\ srt'.cmp = "complex"
      BY <1>2, <1>6, <2>1
    <3> QED  BY <1>2, <1>3, <1>5, <1>6, <1>7, <1>8, <2>1, <3>1, ComplexStep
  <2>2. CASE srt.cmp = "idx"
    <3>1. t = cmp_idx(x, y) /\ srt'.cmp = "idx"
      BY <1>2, <1>6, <2>2
    <3> QED  BY <1>2, <1>3, <1>5, <1>6, <1>8, <2>2, <3>1, IdxStep
  <2> QED  BY <1>6, <2>1, <2>2
<1>10. \A c \in Headers : DataOf(heap, c) = items.data[c] /\ DataOf(heap, c)' = items'.data[c]
  BY <1>6, <1>8, <1>9, DataOfHeader DEF DataOf, heap, Identity
<1>11. \A c \in Headers : PlaceOf(c)' = PlaceOf(c) /\ (Known(c) => Known(c)' /\ Key(c)' = Key(c))
  <2> SUFFICES ASSUME NEW c \in Headers
               PROVE  PlaceOf(c)' = PlaceOf(c) /\ (Known(c) => Known(c)' /\ Key(c)' = Key(c))
    OBVIOUS
  <2>1. PlaceOf(c)' = PlaceOf(c)
    BY <1>6 DEF PlaceOf
  <2>2. ASSUME Known(c)
        PROVE  Known(c)' /\ Key(c)' = Key(c)
    <3>1. DataOf(heap, c)' = DataOf(heap, c)
      BY <1>9, <1>10, <2>2 DEF Seen
    <3> QED  BY <1>6, <2>2, <3>1 DEF Known, Key
  <2> QED  BY <2>1, <2>2
<1>12. OrderKept
  <2>1. \A c, d : Ordered(c, d) => Ordered(c, d)'
    BY <1>6, <1>11 DEF Ordered, Before
  <2>2. ListOK' /\ items' \in Items' /\ srt'.from \in Orders'
    <3>1. links' \in [Headers -> Pointers]
      <4>1. links \in [Headers -> Pointers] /\ x \in Pointers /\ y \in Pointers
        BY <1>5, <1>8 DEF ListOK, Pointers
      <4> QED  BY <1>2, <1>3, <4>1 DEF TakeP, TakeQ, LinkToTail
    <3>2. ListOK'
      BY <1>6, <1>8, <3>1, SameHeaders DEF ListOK
    <3> QED  BY <1>6, <1>9, <3>2, SameHeaders DEF DataStay
  <2>3. OrderedTransitive'
    <3>1. (ListOK /\ items \in Items /\ srt.from \in Orders => OrderedTransitive)'
      BY Transitive, PTL
    <3> QED  BY <2>2, <3>1
  <2> QED  BY <1>6, <2>1, <2>3, SameHeaders DEF OrderKept
<1>13. Key(x)' \in Int /\ Key(y)' \in Int /\ PlaceOf(x) \in Int /\ PlaceOf(y) \in Int
  <2>1. DataOf(heap, x)' \in DataCells /\ DataOf(heap, y)' \in DataCells
    BY <1>5, <1>6, <1>9, <1>10, SameHeaders DEF DataStay, Items
  <2>2. \A d \in DataCells : d.idx \in Int /\ d.lo % 128 \in Int
    BY Widths DEF DataCells
  <2>3. Key(x)' \in Int /\ Key(y)' \in Int
    BY <2>1, <2>2 DEF Key
  <2>4. count \in Nat
    BY <1>8 DEF ListOK
  <2> QED  BY <1>5, <1>6, <1>8, <2>3, <2>4, PlacesAreNumbers
<1>14. /\ first => Ordered(x, y)'
       /\ ~first => Ordered(y, x)'
  <2>1. Known(x)' /\ Known(y)'
    BY <1>9 DEF Seen
  <2>2. first => Before(x, y)'
    BY <1>5, <1>9, <1>11, <1>13 DEF Before
  <2>3. ~first => Before(y, x)'
    BY <1>9, <1>13 DEF Before
  <2> QED  BY <1>5, <1>6, <2>1, <2>2, <2>3 DEF Ordered
<1>15. SortOK' /\ Somewhere'
  <2>1. CASE first
    <3>1. TakeP /\ Ordered(x, y)' /\ pc' = pc
      BY <1>3, <1>14, <2>1
    <3> QED  BY <1>2, <1>3, <1>4, <1>5, <1>12, <3>1, TakePStep
  <2>2. CASE ~first
    <3>1. TakeQ /\ Ordered(y, x)' /\ pc' = pc
      BY <1>3, <1>14, <2>2
    <3> QED  BY <1>2, <1>3, <1>4, <1>5, <1>12, <3>1, TakeQStep
  <2> QED  BY <2>1, <2>2
<1> QED  BY <1>3, <1>6, <1>9, <1>15

-----------------------------------------------------------------------------
\* core_list_init

\* The cleared results have their types.
LEMMA NoResultTyped == NoResult \in Results
<1>1. 0 \in Halfwords /\ Null \in Pointers
  BY Widths DEF Pointers
<1> QED  BY <1>1 DEF NoResult, Results

\* The program begins with the invariant.
LEMMA InitOK ==
  ASSUME Init
  PROVE  Inv
<1>1. /\ links = [c \in {0} |-> Null] /\ items = [info |-> HeadOnly.info, data |-> HeadOnly.data]
      /\ pc = "main" /\ srt = NoSort /\ res = NoResult /\ loc = NoLoc /\ iter = 0
      /\ par \in Parameters /\ text = hist.text /\ mat = hist.mat
  BY DEF Init, HeadOnly
<1>2. Headers = {0} /\ count = 1
  <2>1. Headers = {0}
    BY <1>1 DEF Headers
  <2> QED  BY <2>1, FS_Singleton DEF count, Used, heap, Headers
<1>3. ListOK
  BY <1>1, <1>2 DEF ListOK, Pointers
<1>4. items \in Items
  <2>1. [idx |-> 0, hi |-> 128, lo |-> 128] \in DataCells
    BY Widths DEF DataCells
  <2> QED  BY <1>1, <1>2, <2>1 DEF Items, HeadOnly
<1>5. res \in Results
  BY <1>1, NoResultTyped
<1>6. loc \in BenchLocals
  BY <1>1, Widths DEF NoLoc, BenchLocals, Pointers
<1>7. Running
  <2>1. par.iterations \in Nat
    BY <1>1, ParametersAssumption
  <2> QED  BY <1>1, <2>1 DEF Running, InIteration, Sorting
<1>8. UnderWay /\ InList /\ History
  BY <1>1 DEF UnderWay, InList, History, Building, Initialising
<1> QED  BY <1>3, <1>4, <1>5, <1>6, <1>7, <1>8 DEF Inv, Types

\* The links of a list that was built from the head on.
LEMMA BuiltLinks ==
  count \in Nat \ {0} =>
    (Linked(Built, 1, count) <=>
       \A k \in 1 .. count : links[IF k = 1 THEN 0 ELSE count + 1 - k]
                               = IF k + 1 <= count THEN count - k ELSE Null)
<1> SUFFICES ASSUME count \in Nat \ {0}
             PROVE  Linked(Built, 1, count) <=>
                      \A k \in 1 .. count : links[IF k = 1 THEN 0 ELSE count + 1 - k]
                               = IF k + 1 <= count THEN count - k ELSE Null
  OBVIOUS
<1>1. ASSUME NEW k \in 1 .. count
      PROVE  /\ Built[k] = IF k = 1 THEN 0 ELSE count + 1 - k
             /\ Place(Built, k + 1) = IF k + 1 <= count THEN count - k ELSE Null
  <2>1. k + 1 <= count => Built[k + 1] = count - k
    BY DEF Built
  <2> QED  BY <2>1 DEF Built, Place
<1> QED  BY <1>1 DEF Linked

\* The order the list is built in is one of the headers.
LEMMA BuiltIsOrder ==
  ASSUME ListOK
  PROVE  /\ Built \in Orders /\ Built[1] = 0
         /\ \A k \in 1 .. count : Built[k] = IF k = 1 THEN 0 ELSE count + 1 - k
         /\ \A c \in 1 .. count - 1 : count + 1 - c \in 2 .. count /\ Built[count + 1 - c] = c
<1>1. count \in Nat \ {0} /\ Headers = 0 .. count - 1
  BY DEF ListOK
<1>2. \A k \in 1 .. count : Built[k] = IF k = 1 THEN 0 ELSE count + 1 - k
  BY DEF Built
<1>3. \A c \in 1 .. count - 1 : count + 1 - c \in 2 .. count /\ Built[count + 1 - c] = c
  BY <1>1, <1>2
<1>4. Built[1] = 0 /\ 1 \in 1 .. count
  BY <1>1, <1>2
<1>5. Built \in [1 .. count -> Headers]
  <2>1. \A k \in 1 .. count : (IF k = 1 THEN 0 ELSE count + 1 - k) \in Headers
    BY <1>1
  <2> QED  BY <2>1 DEF Built
<1>6. \A i, j \in 1 .. count : Built[i] = Built[j] => i = j
  BY <1>1, <1>2
<1>7. \A c \in Headers : \E i \in 1 .. count : Built[i] = c
  <2> SUFFICES ASSUME NEW c \in Headers
               PROVE  \E i \in 1 .. count : Built[i] = c
    OBVIOUS
  <2>1. CASE c = 0
    BY <1>4, <2>1
  <2>2. CASE c # 0
    <3>1. c \in 1 .. count - 1 /\ count + 1 - c \in 1 .. count
      BY <1>1, <2>2
    <3> QED  BY <1>3, <3>1
  <2> QED  BY <2>1, <2>2
<1> QED  BY <1>2, <1>3, <1>4, <1>5, <1>6, <1>7 DEF Orders

\* The parameters of a run, and the indexes core_list_init gives.
LEMMA RunningBlock ==
  ASSUME Running, pc # "main"
  PROVE  /\ \E p \in Parameters : par = Block(p)
         /\ Size \in Int /\ 4 <= Size /\ ShortIndices(Size) /\ par.seed1 \in Nat
         /\ \A i \in 1 .. Size - 3 : IndexOf(Size, par.seed1, i) > 0
         /\ \A i, j \in 1 .. Size - 3 :
               IndexOf(Size, par.seed1, i) = IndexOf(Size, par.seed1, j) => i = j
         /\ par.iterations \in Nat \ {0} /\ par.seed3 \in Nat \ {0}
<1>1. PICK p \in Parameters : par = Block(p)
  BY DEF Running
<1>2. /\ par \in [seed1 : Shorts, seed2 : Shorts, seed3 : Shorts, size : Nat, iterations : Nat \ {0}]
      /\ par.seed3 > 0
      /\ Size \in Int /\ 4 <= Size /\ ShortIndices(Size)
      /\ \A i \in 1 .. Size - 3 : IndexOf(Size, par.seed1, i) > 0
      /\ \A i, j \in 1 .. Size - 3 :
            IndexOf(Size, par.seed1, i) = IndexOf(Size, par.seed1, j) => i = j
  BY <1>1, BlockFacts DEF Size
<1>3. par.seed1 \in Nat /\ par.seed3 \in Nat
  BY <1>2, Widths
<1> QED  BY <1>1, <1>2, <1>3

\* While the list is built only a few things can change.
LEMMA StillBuilding ==
  ASSUME Inv, pc \in Building, pc' \in {"insert", "index"}, srt' = srt,
         UNCHANGED <<text, mat, hist, res>>, iter' = iter,
         pc # "main" => par' = par, pc = "main" => par' = Block(par),
         ListOK', items' \in Items', loc' \in BenchLocals'
  PROVE  /\ Types' /\ Running' /\ InList' /\ History' /\ srt' = NoSort /\ res' = NoResult
<1>1. res' = NoResult /\ srt' = NoSort
  BY DEF Inv, UnderWay
<1>2. res' \in Results'
  <2>1. (NoResult \in Results)'
    BY NoResultTyped, PTL
  <2> QED  BY <1>1, <2>1
<1>3. Running'
  <2>1. /\ pc' # "main" /\ ~InIteration'
    BY DEF InIteration, Sorting
  <2>2. CASE pc = "main"
    <3>1. par \in Parameters /\ par' = Block(par) /\ iter' = 0
      BY <2>2 DEF Inv, Running
    <3>2. par'.iterations \in Nat \ {0}
      BY <3>1, BlockFacts
    <3> QED  BY <2>1, <3>1, <3>2 DEF Running
  <2>3. CASE pc # "main"
    BY <2>1, <2>3 DEF Inv, Running
  <2> QED  BY <2>2, <2>3
<1>4. InList' /\ Initialising' /\ Initialising
  BY DEF InList, Initialising, Building
<1>5. History'
  BY <1>4, HistoryBefore DEF Inv
<1> QED  BY <1>1, <1>2, <1>3, <1>4, <1>5 DEF Types

\* The list of the fake head and the fake tail.
LEMMA HeadAndTailIs ==
  ASSUME NEW n \in Int, 4 <= n
  PROVE  HeadAndTail(n) =
           [next |-> [c \in 0 .. 1 |-> IF c = 1 THEN Null ELSE 1],
            info |-> [c \in 0 .. 1 |-> c],
            data |-> [c \in 0 .. 1 |-> IF c = 1 THEN [idx |-> MaxS16, hi |-> MaxU8, lo |-> MaxU8]
                                                 ELSE [idx |-> 0, hi |-> 128, lo |-> 128]]]
<1>1. Used(HeadOnly) = 1
  BY FS_Singleton DEF Used, HeadOnly
<1>2. /\ HeadOnly.next[0] = Null /\ HeadOnly.info[0] = 0
      /\ HeadOnly.data[0] = [idx |-> 0, hi |-> 128, lo |-> 128]
  BY DEF HeadOnly
<1> DEFINE d == [idx |-> MaxS16, hi |-> MaxU8, lo |-> MaxU8]
<1>3. HeadAndTail(n) =
        [next |-> [c \in 0 .. 1 |-> IF c = 1 THEN HeadOnly.next[0]
                                     ELSE IF c = 0 THEN 1 ELSE HeadOnly.next[c]],
         info |-> [c \in 0 .. 1 |-> IF c = 1 THEN 1 ELSE HeadOnly.info[c]],
         data |-> [c \in 0 .. 1 |-> IF c = 1 THEN d ELSE HeadOnly.data[c]]]
  BY <1>1 DEF HeadAndTail, core_list_insert_new
<1>4. /\ [c \in 0 .. 1 |-> IF c = 1 THEN HeadOnly.next[0]
                            ELSE IF c = 0 THEN 1 ELSE HeadOnly.next[c]]
           = [c \in 0 .. 1 |-> IF c = 1 THEN Null ELSE 1]
      /\ [c \in 0 .. 1 |-> IF c = 1 THEN 1 ELSE HeadOnly.info[c]] = [c \in 0 .. 1 |-> c]
      /\ [c \in 0 .. 1 |-> IF c = 1 THEN d ELSE HeadOnly.data[c]]
           = [c \in 0 .. 1 |-> IF c = 1 THEN d ELSE [idx |-> 0, hi |-> 128, lo |-> 128]]
  <2>1. \A c \in 0 .. 1 : c = 0 \/ c = 1
    OBVIOUS
  <2> HIDE DEF d
  <2> QED  BY <1>2, <2>1
<1> QED  BY <1>3, <1>4

\* main splits the memory; the list has its head and its tail.
LEMMA SeedsStep ==
  ASSUME Inv, Seeds
  PROVE  Inv'
<1>1. /\ pc = "main" /\ pc' = "insert" /\ par' = Block(par) /\ par \in Parameters
      /\ HeapBecomes(HeadAndTail(ListSize(par'.size))) /\ loc' = [NoLoc EXCEPT !.list = 0]
      /\ UNCHANGED <<text, mat, res, iter, srt, hist>>
  BY DEF Seeds, Inv, Running
<1>2. PICK n : n = ListSize(par'.size)
  OBVIOUS
<1>3. n \in Int /\ 4 <= n /\ Size' = n
  BY <1>1, <1>2, BlockFacts DEF Size
<1>4. /\ links' = [c \in 0 .. 1 |-> IF c = 1 THEN Null ELSE 1]
      /\ items'.info = [c \in 0 .. 1 |-> c]
      /\ items'.data = [c \in 0 .. 1 |-> IF c = 1 THEN [idx |-> MaxS16, hi |-> MaxU8, lo |-> MaxU8]
                                                   ELSE [idx |-> 0, hi |-> 128, lo |-> 128]]
      /\ items' = [info |-> items'.info, data |-> items'.data]
  BY <1>1, <1>2, <1>3, HeadAndTailIs DEF HeapBecomes
<1>5. Headers' = 0 .. 1 /\ count' = 2
  <2>1. Headers' = 0 .. 1
    BY <1>4 DEF Headers
  <2>2. PICK z \in Nat \ {0} : z = 2
    OBVIOUS
  <2>3. Headers' = 0 .. z - 1
    BY <2>1, <2>2
  <2>4. count' = Cardinality(0 .. z - 1)
    BY <2>3 DEF count, Used, heap, Headers
  <2>5. count' = z
    BY <2>4, CountOf
  <2> QED  BY <2>1, <2>2, <2>5
<1>6. ListOK'
  <2>1. links' \in [Headers' -> Pointers']
    BY <1>4, <1>5 DEF Pointers
  <2> QED  BY <1>5, <2>1 DEF ListOK
<1>7. items' \in Items'
  <2>1. /\ [idx |-> MaxS16, hi |-> MaxU8, lo |-> MaxU8] \in DataCells
        /\ [idx |-> 0, hi |-> 128, lo |-> 128] \in DataCells
    BY Widths DEF DataCells
  <2>2. items'.info \in [Headers' -> Headers'] /\ items'.data \in [Headers' -> DataCells]
    BY <1>4, <1>5, <2>1
  <2> QED  BY <1>4, <2>2 DEF Items
<1>8. loc' \in BenchLocals'
  <2>1. loc' = [list |-> 0, finder_idx |-> 0, idx |-> 0, data16 |-> 0, i |-> 0, retval |-> 0,
                found |-> 0, missed |-> 0, finder |-> Null, remover |-> Null]
    BY <1>1 DEF NoLoc
  <2>2. 0 \in Halfwords /\ 0 \in Pointers' /\ Null \in Pointers'
    BY <1>5, Widths DEF Pointers
  <2> QED  BY <2>1, <2>2 DEF BenchLocals
<1>9. /\ Types' /\ Running' /\ InList' /\ History' /\ srt' = NoSort /\ res' = NoResult
  BY <1>1, <1>6, <1>7, <1>8, StillBuilding DEF Building
<1>10. UnderWay'
  <2>1. Linked(Built, 1, count)'
    <3>1. \A k \in 1 .. 2 : links'[IF k = 1 THEN 0 ELSE 2 + 1 - k]
                               = IF k + 1 <= 2 THEN 2 - k ELSE Null
      BY <1>4
    <3>2. (count \in Nat \ {0} =>
             (Linked(Built, 1, count) <=>
               \A k \in 1 .. count : links[IF k = 1 THEN 0 ELSE count + 1 - k]
                               = IF k + 1 <= count THEN count - k ELSE Null))'
      BY BuiltLinks, PTL
    <3> QED  BY <1>5, <3>1, <3>2
  <2>2. loc'.list = 0 /\ items'.info = Identity' /\ items'.data[0].idx = 0
    BY <1>1, <1>4, <1>5 DEF NoLoc, Identity
  <2>3. Inserting'
    <3>1. loc'.i = 0
      BY <1>1 DEF NoLoc
    <3>2. \A c \in 1 .. 1 : items'.data[c].idx = MaxS16
      BY <1>4
    <3> QED  BY <1>3, <1>5, <3>1, <3>2 DEF Inserting
  <2> QED  BY <1>1, <1>9, <2>1, <2>2, <2>3 DEF UnderWay
<1> QED  BY <1>9, <1>10 DEF Inv

-----------------------------------------------------------------------------
\* What is known while the list is built.
LEMMA BuildFacts ==
  ASSUME Inv, pc \in {"insert", "index"}
  PROVE  /\ count \in Nat \ {0} /\ Headers = 0 .. count - 1 /\ Null \notin Headers
         /\ ListOK /\ items \in Items /\ loc \in BenchLocals
         /\ Size \in Int /\ 4 <= Size /\ ShortIndices(Size) /\ par.seed1 \in Nat
         /\ loc.list = 0 /\ Linked(Built, 1, count) /\ items.info = Identity
         /\ items.data[0].idx = 0
         /\ heap.next = links /\ heap.info = items.info /\ heap.data = items.data
         /\ Used(heap) = count /\ pc \in Building
         /\ \A k \in 1 .. count : links[IF k = 1 THEN 0 ELSE count + 1 - k]
                               = IF k + 1 <= count THEN count - k ELSE Null
<1>1. ListOK /\ items \in Items /\ loc \in BenchLocals
  BY DEF Inv, Types
<1>2. /\ count \in Nat \ {0} /\ Headers = 0 .. count - 1 /\ Null \notin Headers
  BY <1>1 DEF ListOK, Null
<1>3. /\ Size \in Int /\ 4 <= Size /\ ShortIndices(Size) /\ par.seed1 \in Nat
  BY RunningBlock DEF Inv
<1>4. /\ loc.list = 0 /\ Linked(Built, 1, count) /\ items.info = Identity
      /\ items.data[0].idx = 0
  BY DEF Inv, UnderWay
<1>5. /\ heap.next = links /\ heap.info = items.info /\ heap.data = items.data
      /\ Used(heap) = count /\ pc \in Building
  BY DEF heap, count, Building
<1> QED  BY <1>1, <1>2, <1>3, <1>4, <1>5, BuiltLinks

\* An item is inserted behind the head.
LEMMA InsertItemStep ==
  ASSUME Inv, InsertItem
  PROVE  Inv'
<1>1. PICK dat, d, n : /\ dat = ItemPattern(par.seed1, loc.i) /\ n = count
                       /\ d = [idx |-> MaxS16, hi |-> dat, lo |-> dat]
  OBVIOUS
<1>2. /\ pc = "insert" /\ pc' = "insert" /\ loc.i < Size
      /\ HeapBecomes(core_list_insert_new(heap, loc.list, d, Size))
      /\ loc' = [loc EXCEPT !.i = @ + 1]
      /\ UNCHANGED <<par, text, mat, res, iter, srt, hist>>
  BY <1>1 DEF InsertItem, Size
<1>3. /\ n \in Nat \ {0} /\ Headers = 0 .. n - 1
      /\ items \in Items /\ loc \in BenchLocals /\ links \in [Headers -> Pointers]
      /\ Size \in Int /\ 4 <= Size /\ ShortIndices(Size) /\ par.seed1 \in Nat
      /\ loc.list = 0 /\ items.info = Identity /\ items.data[0].idx = 0
      /\ heap.next = links /\ heap.info = items.info /\ heap.data = items.data
      /\ Used(heap) = n
      /\ \A k \in 1 .. n : links[IF k = 1 THEN 0 ELSE n + 1 - k]
                               = IF k + 1 <= n THEN n - k ELSE Null
  BY <1>1, <1>2, BuildFacts DEF ListOK
<1>4. /\ loc.i \in 0 .. Size
      /\ n = IF loc.i + 3 <= Size THEN loc.i + 2 ELSE Size - 1
      /\ \A c \in 1 .. n - 1 : items.data[c].idx = MaxS16
  BY <1>1, <1>2 DEF Inv, UnderWay, Inserting
<1>5. /\ loc' \in BenchLocals /\ loc'.i = loc.i + 1 /\ loc'.list = 0 /\ loc'.i \in 0 .. Size
  <2>1. loc.i + 1 \in Nat /\ loc.i + 1 \in 0 .. Size
    BY <1>2, <1>3, <1>4
  <2> QED  BY <1>2, <1>3, <2>1 DEF BenchLocals
<1>6. Size' = Size
  BY <1>2 DEF Size
<1>7. CASE n + 1 >= Size
  <2>1. links' = links /\ items' = items
    <3>1. core_list_insert_new(heap, loc.list, d, Size) = heap
      BY <1>3, <1>7 DEF core_list_insert_new
    <3> QED  BY <1>2, <1>3, <3>1 DEF HeapBecomes, Items
  <2>2. Headers' = Headers
    BY <2>1 DEF Headers
  <2>3. count' = n /\ Pointers' = Pointers
    BY <1>1, <2>2, SameHeaders
  <2>4. ListOK' /\ items' \in Items' /\ loc' \in BenchLocals'
    BY <1>3, <1>5, <2>1, <2>2, <2>3 DEF ListOK, Items, BenchLocals
  <2>5. /\ Types' /\ Running' /\ InList' /\ History' /\ srt' = NoSort /\ res' = NoResult
    BY <1>2, <2>4, StillBuilding DEF Building
  <2>6. Linked(Built, 1, count)'
    <3>1. Linked(Built, 1, n) /\ Built' = Built
      BY <1>1, <1>2, <2>3, BuildFacts DEF Built
    <3> QED  BY <1>1, <2>1, <2>2, <2>3, <3>1, SameHeaders DEF Linked
  <2>7. Inserting'
    BY <1>3, <1>4, <1>5, <1>6, <1>7, <2>1, <2>3 DEF Inserting
  <2>8. UnderWay'
    BY <1>2, <1>3, <1>5, <2>1, <2>2, <2>5, <2>6, <2>7, SameHeaders DEF UnderWay
  <2> QED  BY <2>5, <2>8 DEF Inv
<1>8. CASE ~(n + 1 >= Size)
  <2>1. /\ links' = [c \in 0 .. n |-> IF c = n THEN links[0] ELSE IF c = 0 THEN n ELSE links[c]]
        /\ items'.info = [c \in 0 .. n |-> IF c = n THEN n ELSE items.info[c]]
        /\ items'.data = [c \in 0 .. n |-> IF c = n THEN d ELSE items.data[c]]
        /\ items' = [info |-> items'.info, data |-> items'.data]
    <3>1. core_list_insert_new(heap, loc.list, d, Size) =
            [next |-> [c \in 0 .. n |-> IF c = n THEN links[0] ELSE IF c = 0 THEN n ELSE links[c]],
             info |-> [c \in 0 .. n |-> IF c = n THEN n ELSE items.info[c]],
             data |-> [c \in 0 .. n |-> IF c = n THEN d ELSE items.data[c]]]
      BY <1>3, <1>8 DEF core_list_insert_new
    <3> QED  BY <1>2, <3>1 DEF HeapBecomes
  <2>2. Headers' = 0 .. n
    BY <2>1 DEF Headers
  <2>3. count' = n + 1
    <3>1. PICK z \in Nat \ {0} : z = n + 1
      BY <1>3
    <3>2. Headers' = 0 .. z - 1
      BY <1>3, <2>2, <3>1
    <3>3. count' = Cardinality(0 .. z - 1)
      BY <3>2 DEF count, Used, heap, Headers
    <3> QED  BY <3>1, <3>3, CountOf
  <2>4. /\ 0 \in 0 .. n /\ n \in 0 .. n /\ n # 0 /\ n - 1 + 1 = n /\ n >= 2
        /\ \A c \in 0 .. n : c # n => c \in Headers
        /\ Pointers' = (0 .. n) \cup {Null} /\ Pointers \subseteq Pointers'
        /\ 0 .. n = 0 .. (n + 1) - 1
    BY <1>3, <1>4, <2>2 DEF Pointers
  <2>5. ListOK'
    <3>1. \A c \in 0 .. n : (IF c = n THEN links[0] ELSE IF c = 0 THEN n ELSE links[c]) \in Pointers'
      <4>1. \A c \in Headers : links[c] \in Pointers'
        BY <1>3, <2>4
      <4>2. 0 \in Headers
        BY <1>3
      <4> QED  BY <2>4, <4>1, <4>2
    <3>2. links' \in [0 .. n -> Pointers']
      BY <2>1, <3>1
    <3> QED  BY <1>3, <2>2, <2>3, <2>4, <3>2 DEF ListOK
  <2>6. d \in DataCells /\ d.idx = MaxS16
    <3>1. dat \in Bytes /\ MaxS16 \in Shorts
      <4>1. loc.i \in Nat
        BY <1>3 DEF BenchLocals
      <4>2. dat \in Bytes
        BY <1>1, <1>3, <4>1, PatternIsByte
      <4>3. MaxS16 \in Shorts
        BY Widths
      <4> QED  BY <4>2, <4>3
    <3> QED  BY <1>1, <3>1 DEF DataCells
  <2>7. items' \in Items' /\ items'.info = Identity'
    <3>1. \A c \in 0 .. n : c # n => items.data[c] \in DataCells /\ items.info[c] = c
      BY <1>3, <2>4 DEF Items, Identity
    <3>2. items'.data \in [0 .. n -> DataCells]
      BY <2>1, <2>6, <3>1
    <3>3. items'.info = [c \in 0 .. n |-> c]
      BY <2>1, <3>1
    <3> QED  BY <2>1, <2>2, <3>2, <3>3 DEF Items, Identity
  <2>8. loc' \in BenchLocals'
    BY <1>5, <2>4 DEF BenchLocals
  <2>9. /\ Types' /\ Running' /\ InList' /\ History' /\ srt' = NoSort /\ res' = NoResult
    BY <1>2, <2>5, <2>7, <2>8, StillBuilding DEF Building
  <2>10. Linked(Built, 1, count)'
    <3>1. ASSUME NEW k \in 1 .. n + 1
          PROVE  links'[IF k = 1 THEN 0 ELSE (n + 1) + 1 - k]
                    = IF k + 1 <= n + 1 THEN (n + 1) - k ELSE Null
      <4>1. CASE k = 1
        BY <1>3, <2>1, <2>4, <4>1
      <4>2. CASE k = 2
        <5>1. links[0] = n - 1
          <6>1. 1 \in 1 .. n /\ 1 + 1 <= n
            BY <1>3, <2>4
          <6> QED  BY <1>3, <6>1
        <5>2. (n + 1) + 1 - k = n /\ links'[n] = links[0] /\ k + 1 <= n + 1
          BY <1>3, <2>1, <2>4, <4>2
        <5> QED  BY <1>3, <4>2, <5>1, <5>2
      <4>3. CASE k \notin {1, 2}
        <5>1. PICK j : j = k - 1
          OBVIOUS
        <5>2. /\ j \in 1 .. n /\ j # 1 /\ (n + 1) + 1 - k = n + 1 - j /\ k # 1
              /\ n + 1 - j \in 0 .. n /\ n + 1 - j # n /\ n + 1 - j # 0
              /\ (k + 1 <= n + 1 <=> j + 1 <= n) /\ (n + 1) - k = n - j
          BY <1>3, <4>3, <5>1
        <5>3. links'[n + 1 - j] = links[n + 1 - j]
          BY <2>1, <5>2
        <5>4. links[n + 1 - j] = IF j + 1 <= n THEN n - j ELSE Null
          BY <1>3, <5>2
        <5> QED  BY <5>2, <5>3, <5>4
      <4> QED  BY <4>1, <4>2, <4>3
    <3>2. (count \in Nat \ {0} =>
             (Linked(Built, 1, count) <=>
               \A k \in 1 .. count : links[IF k = 1 THEN 0 ELSE count + 1 - k]
                               = IF k + 1 <= count THEN count - k ELSE Null))'
      BY BuiltLinks, PTL
    <3>3. n + 1 \in Nat \ {0}
      BY <1>3
    <3> QED  BY <2>3, <3>1, <3>2, <3>3
  <2>11. Inserting'
    <3>1. n = loc.i + 2 /\ loc.i + 3 < Size
      BY <1>3, <1>4, <1>8
    <3>2. count' = IF loc'.i + 3 <= Size THEN loc'.i + 2 ELSE Size - 1
      BY <1>3, <1>4, <1>5, <2>3, <3>1
    <3>3. \A c \in 1 .. (n + 1) - 1 : items'.data[c].idx = MaxS16
      BY <1>3, <1>4, <2>1, <2>6
    <3> QED  BY <1>5, <1>6, <2>3, <3>2, <3>3 DEF Inserting
  <2>12. items'.data[0].idx = 0
    BY <1>3, <2>1, <2>4
  <2>13. UnderWay'
    BY <1>2, <1>5, <2>7, <2>9, <2>10, <2>11, <2>12 DEF UnderWay
  <2> QED  BY <2>9, <2>13 DEF Inv
<1> QED  BY <1>7, <1>8

\* All are inserted.
LEMMA InsertDoneStep ==
  ASSUME Inv, InsertDone
  PROVE  Inv'
<1>1. /\ pc = "insert" /\ pc' = "index" /\ loc.i = Size
      /\ loc' = [loc EXCEPT !.i = 1, !.finder = links[0]]
      /\ UNCHANGED <<par, links, items, text, mat, res, iter, srt, hist>>
  BY BuildFacts DEF InsertDone, Size
<1>2. PICK n : n = count
  OBVIOUS
<1>3. /\ n \in Nat \ {0} /\ Headers = 0 .. n - 1
      /\ items \in Items /\ loc \in BenchLocals /\ ListOK
      /\ Size \in Int /\ 4 <= Size
      /\ loc.list = 0 /\ items.info = Identity /\ items.data[0].idx = 0
      /\ Linked(Built, 1, n)
      /\ \A k \in 1 .. n : links[IF k = 1 THEN 0 ELSE n + 1 - k]
                               = IF k + 1 <= n THEN n - k ELSE Null
  BY <1>1, <1>2, BuildFacts
<1>4. /\ n = IF loc.i + 3 <= Size THEN loc.i + 2 ELSE Size - 1
      /\ \A c \in 1 .. n - 1 : items.data[c].idx = MaxS16
  BY <1>1, <1>2 DEF Inv, UnderWay, Inserting
<1>5. n = Size - 1 /\ n >= 3
  BY <1>1, <1>3, <1>4
<1>6. /\ Headers' = Headers /\ count' = n /\ Pointers' = Pointers /\ Size' = Size
      /\ Built' = Built /\ Identity' = Identity
  <2>1. Headers' = Headers
    BY <1>1 DEF Headers
  <2> QED  BY <1>1, <1>2, <2>1, SameHeaders DEF Size, Built
<1>7. ListOK' /\ items' \in Items'
  BY <1>1, <1>2, <1>3, <1>6 DEF ListOK, Items
<1>8. links[0] = n - 1 /\ links[0] \in Pointers
  <2>1. 1 \in 1 .. n /\ 1 + 1 <= n /\ 0 \in Headers
    BY <1>3, <1>5
  <2> QED  BY <1>3, <2>1 DEF ListOK
<1>9. loc' \in BenchLocals' /\ loc'.i = 1 /\ loc'.finder = n - 1 /\ loc'.list = 0
  BY <1>1, <1>3, <1>6, <1>8 DEF BenchLocals
<1>10. /\ Types' /\ Running' /\ InList' /\ History' /\ srt' = NoSort /\ res' = NoResult
  BY <1>1, <1>7, <1>9, StillBuilding DEF Building
<1>11. Linked(Built, 1, count)'
  BY <1>1, <1>3, <1>6, SameHeaders DEF Linked
<1>12. Indexing'
  <2>1. Built[1 + 1] = n - 1 /\ \A k \in 2 .. n : Built[k] \in 1 .. n - 1
    BY <1>2, <1>3, <1>5 DEF Built
  <2>2. \A k \in 1 + 1 .. n : items.data[Built[k]].idx = MaxS16
    BY <1>4, <2>1
  <2> QED  BY <1>1, <1>3, <1>5, <1>6, <1>9, <2>1, <2>2 DEF Indexing
<1>13. UnderWay'
  BY <1>1, <1>3, <1>6, <1>9, <1>10, <1>11, <1>12 DEF UnderWay
<1> QED  BY <1>10, <1>13 DEF Inv

-----------------------------------------------------------------------------
\* What is known while the items get their index.
LEMMA IndexFacts ==
  ASSUME Inv, pc = "index", NEW n, n = count
  PROVE  /\ n = Size - 1 /\ n >= 3 /\ n \in Nat \ {0} /\ loc.i \in 1 .. n - 1
         /\ Built \in Orders /\ Built[1] = 0 /\ loc.finder = Built[loc.i + 1]
         /\ \A k \in 1 .. n : Built[k] \in Headers /\ links[Built[k]] = Place(Built, k + 1)
         /\ \A k \in 2 .. loc.i : items.data[Built[k]].idx = IndexOf(Size, par.seed1, k - 1)
         /\ \A k \in loc.i + 1 .. n : items.data[Built[k]].idx = MaxS16
         /\ Place(Built, n + 1) = Null
         /\ \A k \in 1 .. n : Place(Built, k) = Built[k] /\ Built[k] # Null
         /\ \A j, k \in 1 .. n : Built[j] = Built[k] => j = k
<1>1. ListOK /\ Size \in Int /\ 4 <= Size /\ Linked(Built, 1, n)
  BY BuildFacts
<1>2. /\ n = Size - 1 /\ loc.i \in 1 .. n - 1 /\ loc.finder = Built[loc.i + 1]
      /\ \A k \in 2 .. loc.i : items.data[Built[k]].idx = IndexOf(Size, par.seed1, k - 1)
      /\ \A k \in loc.i + 1 .. n : items.data[Built[k]].idx = MaxS16
  BY DEF Inv, UnderWay, Indexing
<1>3. n \in Nat \ {0} /\ Built \in Orders /\ Built[1] = 0
  BY <1>1, BuiltIsOrder, Order
<1>4. n >= 3
  BY <1>1, <1>2
<1>5. /\ Place(Built, n + 1) = Null
      /\ \A k \in 1 .. n : Built[k] \in Headers /\ Place(Built, k) = Built[k] /\ Built[k] # Null
      /\ \A j, k \in 1 .. n : Built[j] = Built[k] => j = k
  BY <1>1, <1>3, Order
<1>6. \A k \in 1 .. n : links[Built[k]] = Place(Built, k + 1)
  BY <1>1 DEF Linked
<1> QED  BY <1>2, <1>3, <1>4, <1>5, <1>6

\* The next item gets its index.
LEMMA IndexItemStep ==
  ASSUME Inv, IndexItem
  PROVE  Inv'
<1>1. PICK n, i, x, c, d : /\ n = count /\ i = loc.i /\ x = IndexOf(Size, par.seed1, loc.i)
                           /\ c = loc.finder /\ d = [items.data[c] EXCEPT !.idx = x]
  OBVIOUS
<1>2. pc = "index"
  BY DEF IndexItem
<1>3. /\ n = Size - 1 /\ n >= 3 /\ n \in Nat \ {0} /\ i \in 1 .. n - 1
      /\ Built \in Orders /\ Built[1] = 0 /\ c = Built[i + 1]
      /\ \A k \in 1 .. n : Built[k] \in Headers /\ links[Built[k]] = Place(Built, k + 1)
      /\ \A k \in 2 .. i : items.data[Built[k]].idx = IndexOf(Size, par.seed1, k - 1)
      /\ \A k \in i + 1 .. n : items.data[Built[k]].idx = MaxS16
      /\ Place(Built, n + 1) = Null
      /\ \A k \in 1 .. n : Place(Built, k) = Built[k] /\ Built[k] # Null
      /\ \A j, k \in 1 .. n : Built[j] = Built[k] => j = k
  <2>1. /\ n = Size - 1 /\ n >= 3 /\ n \in Nat \ {0} /\ loc.i \in 1 .. n - 1
        /\ Built \in Orders /\ Built[1] = 0 /\ loc.finder = Built[loc.i + 1]
        /\ \A k \in 1 .. n : Built[k] \in Headers /\ links[Built[k]] = Place(Built, k + 1)
        /\ \A k \in 2 .. loc.i : items.data[Built[k]].idx = IndexOf(Size, par.seed1, k - 1)
        /\ \A k \in loc.i + 1 .. n : items.data[Built[k]].idx = MaxS16
        /\ Place(Built, n + 1) = Null
        /\ \A k \in 1 .. n : Place(Built, k) = Built[k] /\ Built[k] # Null
        /\ \A j, k \in 1 .. n : Built[j] = Built[k] => j = k
    BY <1>1, <1>2, IndexFacts
  <2> QED  BY <1>1, <2>1
<1>4. /\ Headers = 0 .. n - 1 /\ items \in Items /\ loc \in BenchLocals /\ ListOK
      /\ Size \in Int /\ 4 <= Size /\ ShortIndices(Size) /\ par.seed1 \in Nat
      /\ loc.list = 0 /\ items.info = Identity /\ items.data[0].idx = 0 /\ Linked(Built, 1, n)
      /\ heap.next = links /\ heap.info = items.info /\ heap.data = items.data
  BY <1>1, <1>2, BuildFacts
<1>5. c \in Headers /\ i + 1 \in 1 .. n /\ i \in Nat
  BY <1>3
<1>6. /\ pc' = "index" /\ links[c] # Null /\ links' = links
      /\ items' = [info |-> items.info, data |-> [items.data EXCEPT ![c] = d]]
      /\ loc' = [loc EXCEPT !.i = @ + 1, !.finder = links[c]]
      /\ UNCHANGED <<par, text, mat, res, iter, srt, hist>>
  <2>1. items.info[c] = c /\ c = loc.finder /\ x = IndexOf(Size, par.seed1, loc.i)
    BY <1>1, <1>4, <1>5 DEF Identity
  <2>2. items'.info = items.info
    BY <1>4 DEF IndexItem, HeapBecomes, heap
  <2> QED  BY <1>1, <1>2, <1>4, <2>1 DEF IndexItem, HeapBecomes, heap, Size
<1>7. links[c] = Place(Built, i + 2) /\ i + 2 \in 1 .. n /\ links[c] = Built[i + 2]
  <2>1. links[c] = Place(Built, i + 2)
    <3>1. (i + 1) + 1 = i + 2
      BY <1>5
    <3> QED  BY <1>3, <1>5, <3>1
  <2>2. i + 1 # n
    <3>1. i + 1 = n => i + 2 = n + 1
      BY <1>3
    <3> QED  BY <1>3, <1>6, <2>1, <3>1
  <2>3. i + 2 \in 1 .. n
    BY <1>3, <2>2
  <2> QED  BY <1>3, <2>1, <2>3
<1>8. /\ Headers' = Headers /\ count' = n /\ Pointers' = Pointers /\ Size' = Size
      /\ Built' = Built /\ Identity' = Identity
  <2>1. Headers' = Headers
    BY <1>6 DEF Headers
  <2> QED  BY <1>1, <1>6, <2>1, SameHeaders DEF Size, Built
<1>9. d \in DataCells /\ d.idx = x
  <2>1. x \in Shorts
    BY <1>1, <1>4, <1>5, IndexIsShort
  <2>2. items.data[c] \in DataCells
    BY <1>4, <1>5 DEF Items
  <2> QED  BY <1>1, <2>1, <2>2 DEF DataCells
<1>10. /\ items'.data[c].idx = x /\ \A e \in Headers : e # c => items'.data[e] = items.data[e]
       /\ items'.info = items.info /\ items'.data \in [Headers -> DataCells]
  BY <1>4, <1>5, <1>6, <1>9 DEF Items
<1>11. ListOK' /\ items' \in Items'
  <2>1. ListOK'
    BY <1>1, <1>4, <1>6, <1>8 DEF ListOK
  <2>2. items'.info \in [Headers -> Headers]
    BY <1>4, <1>10 DEF Items
  <2> QED  BY <1>6, <1>8, <1>10, <2>1, <2>2 DEF Items
<1>12. loc' \in BenchLocals' /\ loc'.i = i + 1 /\ loc'.finder = Built[i + 2] /\ loc'.list = 0
  <2>1. links[c] \in Pointers /\ i + 1 \in Nat
    BY <1>3, <1>4, <1>5 DEF ListOK
  <2> QED  BY <1>1, <1>4, <1>6, <1>7, <1>8, <2>1 DEF BenchLocals
<1>13. /\ Types' /\ Running' /\ InList' /\ History' /\ srt' = NoSort /\ res' = NoResult
  BY <1>2, <1>6, <1>11, <1>12, StillBuilding DEF Building
<1>14. Linked(Built, 1, count)'
  BY <1>4, <1>6, <1>8, SameHeaders DEF Linked
<1>15. Indexing'
  <2>1. i + 1 \in 1 .. n - 1 /\ (i + 1) + 1 = i + 2
    BY <1>3, <1>7
  <2>2. \A k \in 2 .. i + 1 : items'.data[Built[k]].idx = IndexOf(Size, par.seed1, k - 1)
    <3> SUFFICES ASSUME NEW k \in 2 .. i + 1
                 PROVE  items'.data[Built[k]].idx = IndexOf(Size, par.seed1, k - 1)
      OBVIOUS
    <3>1. CASE k = i + 1
      <4>1. k - 1 = i
        BY <1>5, <3>1
      <4> QED  BY <1>1, <1>3, <1>10, <3>1, <4>1
    <3>2. CASE k # i + 1
      <4>1. k \in 2 .. i /\ k \in 1 .. n
        BY <1>3, <3>2
      <4>2. Built[k] # c /\ Built[k] \in Headers
        BY <1>3, <1>5, <3>2, <4>1
      <4> QED  BY <1>3, <1>10, <4>1, <4>2
    <3> QED  BY <3>1, <3>2
  <2>3. \A k \in (i + 1) + 1 .. n : items'.data[Built[k]].idx = MaxS16
    <3> SUFFICES ASSUME NEW k \in (i + 1) + 1 .. n
                 PROVE  items'.data[Built[k]].idx = MaxS16
      OBVIOUS
    <3>1. k \in i + 1 .. n /\ k \in 1 .. n /\ k # i + 1
      BY <1>3
    <3>2. Built[k] # c /\ Built[k] \in Headers
      BY <1>3, <1>5, <3>1
    <3> QED  BY <1>3, <1>10, <3>1, <3>2
  <2> QED  BY <1>3, <1>6, <1>8, <1>12, <2>1, <2>2, <2>3 DEF Indexing
<1>16. items'.data[0].idx = 0
  <2>1. 0 # c /\ 0 \in Headers
    <3>1. 1 \in 1 .. n /\ 1 # i + 1
      BY <1>3
    <3> QED  BY <1>3, <1>5, <3>1
  <2> QED  BY <1>4, <1>10, <2>1
<1>17. UnderWay'
  BY <1>4, <1>6, <1>8, <1>10, <1>12, <1>13, <1>14, <1>15, <1>16 DEF UnderWay
<1> QED  BY <1>13, <1>17 DEF Inv

\* All have one, and the list is sorted by it.
LEMMA IndexDoneStep ==
  ASSUME Inv, IndexDone
  PROVE  Inv'
<1>1. PICK n, i : n = count /\ i = loc.i
  OBVIOUS
<1>2. /\ pc = "index" /\ links[loc.finder] = Null /\ Sort(links, loc.list, "idx", "inits")
      /\ UNCHANGED <<par, links, items, text, mat, res, iter, loc, hist>>
  BY DEF IndexDone, heap
<1>3. /\ n = Size - 1 /\ n >= 3 /\ n \in Nat \ {0} /\ i \in 1 .. n - 1
      /\ Built \in Orders /\ Built[1] = 0 /\ loc.finder = Built[i + 1]
      /\ \A k \in 1 .. n : Built[k] \in Headers /\ links[Built[k]] = Place(Built, k + 1)
      /\ \A k \in 2 .. i : items.data[Built[k]].idx = IndexOf(Size, par.seed1, k - 1)
      /\ \A k \in i + 1 .. n : items.data[Built[k]].idx = MaxS16
      /\ \A k \in 1 .. n : Place(Built, k) = Built[k] /\ Built[k] # Null
      /\ \A j, k \in 1 .. n : Built[j] = Built[k] => j = k
  <2>1. /\ n = Size - 1 /\ n >= 3 /\ n \in Nat \ {0} /\ loc.i \in 1 .. n - 1
        /\ Built \in Orders /\ Built[1] = 0 /\ loc.finder = Built[loc.i + 1]
        /\ \A k \in 1 .. n : Built[k] \in Headers /\ links[Built[k]] = Place(Built, k + 1)
        /\ \A k \in 2 .. loc.i : items.data[Built[k]].idx = IndexOf(Size, par.seed1, k - 1)
        /\ \A k \in loc.i + 1 .. n : items.data[Built[k]].idx = MaxS16
        /\ \A k \in 1 .. n : Place(Built, k) = Built[k] /\ Built[k] # Null
        /\ \A j, k \in 1 .. n : Built[j] = Built[k] => j = k
    BY <1>1, <1>2, IndexFacts
  <2> QED  BY <1>1, <2>1
<1>4. /\ Headers = 0 .. n - 1 /\ items \in Items /\ loc \in BenchLocals /\ ListOK
      /\ Size \in Int /\ 4 <= Size /\ ShortIndices(Size) /\ par.seed1 \in Nat
      /\ loc.list = 0 /\ items.info = Identity /\ items.data[0].idx = 0 /\ Linked(Built, 1, n)
  BY <1>1, <1>2, BuildFacts
<1>5. i = n - 1
  <2>1. i + 1 \in 1 .. n /\ (i + 1) + 1 = i + 2
    BY <1>3
  <2>2. Place(Built, i + 2) = Null
    BY <1>2, <1>3, <2>1
  <2>3. ~(i + 2 \in 1 .. n)
    BY <1>3, <2>2
  <2> QED  BY <1>3, <2>3
<1>6. /\ Headers' = Headers /\ count' = n /\ Pointers' = Pointers /\ Size' = Size
      /\ Orders' = Orders /\ Identity' = Identity
  <2>1. Headers' = Headers
    BY <1>2 DEF Headers
  <2> QED  BY <1>1, <1>2, <2>1, SameHeaders DEF Size
<1>7. /\ pc' = "pass"
      /\ srt' = [NoSort EXCEPT !.list = Built[1], !.cmp = "idx", !.to = "inits", !.from = Built]
  <2>1. Chain(links, loc.list, Cardinality(DOMAIN links)) = Built
    <3>1. Cardinality(DOMAIN links) = count
      BY DEF count, Used, heap
    <3> QED  BY <1>1, <1>3, <1>4, <3>1, WholeList
  <2> QED  BY <1>2, <1>3, <1>4, <2>1 DEF Sort
<1>8. SortOK' /\ Somewhere'
  <2>1. ListOK' /\ Linked(Built, 1, count)'
    <3>1. ListOK'
      BY <1>1, <1>2, <1>4, <1>6 DEF ListOK
    <3>2. \A k \in 1 .. n : links'[Built[k]] = Place(Built, k + 1)
      BY <1>2, <1>3
    <3>3. \A k \in 1 .. n : Built'[k] = Built[k]
      BY <1>1, <1>6 DEF Built
    <3>4. Built' = Built
      BY <1>1, <1>6 DEF Built
    <3> QED  BY <1>6, <3>1, <3>2, <3>4, SameHeaders DEF Linked
  <2>2. PICK f : f = Built
    OBVIOUS
  <2>3. Linked(f, 1, count)'
    <3>1. Built' = f
      BY <1>1, <1>6, <2>2 DEF Built
    <3> QED  BY <2>1, <3>1 DEF Linked
  <2> QED  BY <1>3, <1>6, <1>7, <2>1, <2>2, <2>3, Begun
<1>9. Indexed
  <2> DEFINE X(k) == IF k = 1 THEN 0 ELSE IF k = n THEN MaxS16 ELSE IndexOf(Size, par.seed1, k - 1)
  <2>1. ASSUME NEW k \in 1 .. n
        PROVE  items.data[Built[k]].idx = X(k)
    <3>1. CASE k = 1
      BY <1>3, <1>4, <3>1
    <3>2. CASE k = n
      <4>1. k \in i + 1 .. n
        BY <1>3, <1>5, <3>2
      <4> QED  BY <1>3, <3>2, <4>1
    <3>3. CASE k # 1 /\ k # n
      <4>1. k \in 2 .. i
        BY <1>3, <1>5, <3>3
      <4> QED  BY <1>3, <3>3, <4>1
    <3> QED  BY <3>1, <3>2, <3>3
  <2>2. ASSUME NEW j \in 1 .. n, NEW k \in 1 .. n, X(j) = X(k)
        PROVE  j = k
    <3>1. /\ \A l \in 1 .. Size - 3 : IndexOf(Size, par.seed1, l) > 0
          /\ \A l, m \in 1 .. Size - 3 :
                IndexOf(Size, par.seed1, l) = IndexOf(Size, par.seed1, m) => l = m
      BY <1>2, RunningBlock DEF Inv
    <3>2. \A l \in 1 .. Size - 3 : IndexOf(Size, par.seed1, l) < 16384
      <4> SUFFICES ASSUME NEW l \in 1 .. Size - 3
                   PROVE  IndexOf(Size, par.seed1, l) < 16384
        OBVIOUS
      <4>1. l \in Nat
        BY <1>4
      <4> QED  BY <1>4, <4>1, IndexIsShort
    <3>3. \A l \in 1 .. n : l # 1 /\ l # n => l - 1 \in 1 .. Size - 3
      BY <1>3, <1>4
    <3>4. /\ \A l \in 1 .. n : l # 1 /\ l # n => X(l) = IndexOf(Size, par.seed1, l - 1)
          /\ X(1) = 0 /\ X(n) = MaxS16
      BY <1>3
    <3>5. MaxS16 # 0 /\ \A l \in 1 .. Size - 3 :
            /\ IndexOf(Size, par.seed1, l) # 0 /\ IndexOf(Size, par.seed1, l) # MaxS16
      <4>1. \A l \in 1 .. Size - 3 : IndexOf(Size, par.seed1, l) \in Int
        <5> SUFFICES ASSUME NEW l \in 1 .. Size - 3
                     PROVE  IndexOf(Size, par.seed1, l) \in Int
          OBVIOUS
        <5>1. l \in Nat
          BY <1>4
        <5>2. IndexOf(Size, par.seed1, l) \in Shorts
          BY <1>4, <5>1, IndexIsShort
        <5> QED  BY <5>2, Widths
      <4> QED  BY <3>1, <3>2, <4>1, Widths
    <3> HIDE DEF X
    <3>6. CASE j = 1 \/ j = n
      BY <1>3, <2>2, <3>3, <3>4, <3>5, <3>6
    <3>7. CASE k = 1 \/ k = n
      BY <1>3, <2>2, <3>3, <3>4, <3>5, <3>7
    <3>8. CASE j # 1 /\ j # n /\ k # 1 /\ k # n
      <4>1. j - 1 \in 1 .. Size - 3 /\ k - 1 \in 1 .. Size - 3
        BY <3>3, <3>8
      <4>2. IndexOf(Size, par.seed1, j - 1) = IndexOf(Size, par.seed1, k - 1)
        BY <2>2, <3>4, <3>8
      <4>3. j - 1 = k - 1
        BY <3>1, <4>1, <4>2
      <4> QED  BY <4>3
    <3> QED  BY <3>6, <3>7, <3>8
  <2>3. \A c, d \in Headers : items.data[c].idx = items.data[d].idx => c = d
    <3> SUFFICES ASSUME NEW c \in Headers, NEW d \in Headers,
                        items.data[c].idx = items.data[d].idx
                 PROVE  c = d
      OBVIOUS
    <3>0. \A e \in Headers : \E l \in 1 .. n : Built[l] = e
      <4>1. PICK f : f = Built
        OBVIOUS
      <4>2. f \in Orders
        BY <1>3, <4>1
      <4>3. \A e \in Headers : \E l \in 1 .. count : f[l] = e
        BY <1>4, <4>2, Order
      <4> QED  BY <1>1, <4>1, <4>3
    <3>1. PICK j \in 1 .. n : Built[j] = c
      BY <3>0
    <3>2. PICK k \in 1 .. n : Built[k] = d
      BY <3>0
    <3>3. X(j) = X(k)
      BY <2>1, <3>1, <3>2
    <3> QED  BY <2>2, <3>1, <3>2, <3>3
  <2>4. 3 <= n /\ n < Size
    BY <1>3, <1>4
  <2> QED  BY <1>1, <1>4, <2>3, <2>4 DEF Indexed
<1>10. Types'
  <2>1. res \in Results
    BY DEF Inv, Types
  <2> QED  BY <1>2, <1>4, <1>6, <1>8, <2>1 DEF Types, SortOK, Items, Results, BenchLocals
<1>11. srt'.to = "inits"
  BY <1>7 DEF NoSort
<1>12. Running' /\ UnderWay'
  BY <1>2, <1>7, <1>11 DEF Inv, Running, UnderWay, InIteration, Sorting, Building
<1>13. InList'
  <2>1. Indexed'
    BY <1>1, <1>2, <1>6, <1>9 DEF Indexed
  <2> QED  BY <1>2, <1>4, <1>6, <1>7, <1>8, <2>1 DEF InList, Building, Sorting
<1>14. History'
  BY <1>2, <1>7, <1>11, HistoryBefore DEF Inv, Initialising, Building, Sorting
<1> QED  BY <1>10, <1>12, <1>13, <1>14 DEF Inv

-----------------------------------------------------------------------------
\* What is known once the list is built.
LEMMA AfterBuild ==
  ASSUME Inv, pc \notin Building
  PROVE  /\ ListOK /\ SortOK /\ Indexed /\ srt \in Locals
         /\ items \in Items /\ res \in Results /\ loc \in BenchLocals
         /\ count \in Nat \ {0} /\ 3 <= count /\ Headers = 0 .. count - 1
         /\ Null \notin Headers /\ 0 \in Headers /\ links \in [Headers -> Pointers]
         /\ heap.next = links /\ heap.info = items.info /\ heap.data = items.data
         /\ Used(heap) = count /\ DOMAIN heap.next = Headers
         /\ pc # "crc" => items.info = Identity
         /\ \E p \in Parameters : par = Block(p)
         /\ par.iterations \in Nat \ {0} /\ par.seed3 \in Nat \ {0}
         /\ iter \in 0 .. par.iterations
<1>1. ListOK /\ items \in Items /\ res \in Results /\ loc \in BenchLocals
  BY DEF Inv, Types
<1>2. SortOK /\ Indexed /\ srt \in Locals /\ (pc # "crc" => items.info = Identity)
  BY DEF Inv, InList, SortOK
<1>3. /\ count \in Nat \ {0} /\ 3 <= count /\ Headers = 0 .. count - 1
      /\ links \in [Headers -> Pointers]
  BY <1>1, <1>2 DEF ListOK, Indexed
<1>4. Null \notin Headers /\ 0 \in Headers
  BY <1>3 DEF Null
<1>5. /\ heap.next = links /\ heap.info = items.info /\ heap.data = items.data
      /\ Used(heap) = count /\ DOMAIN heap.next = Headers
  BY DEF heap, count, Headers
<1>6. /\ \E p \in Parameters : par = Block(p)
      /\ par.iterations \in Nat \ {0} /\ par.seed3 \in Nat \ {0}
  BY RunningBlock DEF Inv, Building
<1>7. iter \in 0 .. par.iterations
  BY DEF Inv, Running
<1> QED  BY <1>1, <1>2, <1>3, <1>4, <1>5, <1>6, <1>7

\* Results keep their types while the headers stay.
LEMMA ResultsStay ==
  ASSUME NEW r \in Results, Pointers' = Pointers
  PROVE  r \in Results'
BY DEF Results

\* A step that leaves indexes and inputs alone.
LEMMA DataKept ==
  ASSUME Inv, pc \notin Building, pc' \notin Building, SortOK', DataStay,
         res' \in Results, loc' \in BenchLocals, res'.list = res.list,
         iter' \in 0 .. par.iterations, InIteration' => iter' < par.iterations,
         hist' = hist, Initialising' <=> Initialising, Initialising => text' = text /\ mat' = mat,
         par.seed1 = par.seed2 /\ text = InitState(par.size, par.seed1)
           /\ mat = InitMatrix(par.size, par.seed1 + par.seed2 * 65536)
           => text' = text /\ mat' = mat
  PROVE  Types' /\ Running' /\ UnderWay' /\ Indexed' /\ History'
<1>1. /\ ListOK /\ items \in Items /\ Indexed /\ \E p \in Parameters : par = Block(p)
  BY AfterBuild
<1>2. par' = par /\ Headers' = Headers /\ items' \in Items' /\ Pointers' = Pointers
  BY SameHeaders DEF DataStay
<1>3. Types'
  <2>0. Pointers' = Pointers
    BY <1>2
  <2>1. res' \in Results'
    BY <2>0, ResultsStay
  <2>2. loc' \in BenchLocals'
    BY <2>0 DEF BenchLocals
  <2> QED  BY <1>2, <2>1, <2>2 DEF Types, SortOK
<1>4. Running'
  BY <1>1, <1>2 DEF Running, Building
<1>5. UnderWay'
  BY DEF UnderWay, Building
<1>6. Indexed'
  BY <1>1, SameIndexes
<1>7. History'
  <2>1. CASE Initialising
    BY <2>1, HistoryBefore DEF Inv
  <2>2. CASE ~Initialising
    <3>1. /\ hist.text = InitState(par.size, par.seed1)
          /\ hist.mat = InitMatrix(par.size, par.seed1 + par.seed2 * 65536)
          /\ par.seed1 = par.seed2 => text = hist.text /\ mat = hist.mat
      BY <2>2 DEF Inv, History
    <3>2. par.seed1 = par.seed2 => text' = text /\ mat' = mat
      BY <3>1
    <3> QED  BY <1>1, <2>2, <3>2, HistoryKept DEF Inv
  <2> QED  BY <2>1, <2>2
<1> QED  BY <1>3, <1>4, <1>5, <1>6, <1>7

\* A step within a sort.
LEMMA SortGoesOn ==
  ASSUME Inv, pc \in Sorting, pc' \in Sorting, SortOK', Somewhere', DataStay,
         items'.info = Identity, srt'.to = srt.to, UNCHANGED <<iter, loc, hist>>,
         res' \in Results, res'.list = res.list,
         srt.to = "inits" => text' = text /\ mat' = mat,
         par.seed1 = par.seed2 /\ text = InitState(par.size, par.seed1)
           /\ mat = InitMatrix(par.size, par.seed1 + par.seed2 * 65536)
           => text' = text /\ mat' = mat
  PROVE  Inv'
<1>1. pc \notin Building /\ pc' \notin Building
  BY DEF Sorting, Building
<1>2. loc \in BenchLocals /\ iter \in 0 .. par.iterations
  BY <1>1, AfterBuild
<1>3. (Initialising' <=> Initialising) /\ (Initialising => srt.to = "inits")
  BY <1>1 DEF Initialising, Sorting
<1>4. InIteration' => iter' < par.iterations
  BY DEF InIteration, Inv, Running, Sorting
<1>5. Types' /\ Running' /\ UnderWay' /\ Indexed' /\ History'
  BY <1>1, <1>2, <1>3, <1>4, DataKept
<1>6. Identity' = Identity
  BY SameHeaders DEF DataStay
<1>7. InList'
  BY <1>5, <1>6 DEF InList, Sorting
<1> QED  BY <1>5, <1>7 DEF Inv

\* A step that leaves the data cells as they are.
LEMMA ItemsStay ==
  ASSUME items \in Items, items' = items, Headers' = Headers, par' = par
  PROVE  DataStay
<1>1. items' \in Items'
  BY DEF Items
<1> QED  BY <1>1 DEF DataStay

\* The steps of a sort that look at no data.
LEMMA SortStepStep ==
  ASSUME Inv, SortStep
  PROVE  Inv'
<1>1. /\ BeginPass \/ BeginMerge \/ StepAlong \/ PickOnly \/ MergeDone
      /\ UNCHANGED <<par, items, text, mat, res, iter, loc, hist>>
  BY DEF SortStep
<1>2. pc \in Sorting /\ pc' \in Sorting
  BY <1>1 DEF Sorting, BeginPass, BeginMerge, StepAlong, PickOnly, MergeDone
<1>3. pc \notin Building
  BY <1>2 DEF Sorting, Building
<1>4. SortOK /\ items \in Items /\ items.info = Identity /\ res \in Results
  BY <1>2, <1>3, AfterBuild DEF Sorting
<1>5. Somewhere
  BY <1>2, <1>3 DEF Inv, InList
<1>6. SortOK' /\ Somewhere' /\ Headers' = Headers /\ srt'.to = srt.to
  BY <1>1, <1>4, <1>5, SortMoves
<1>7. DataStay
  BY <1>1, <1>4, <1>6, ItemsStay
<1> QED  BY <1>1, <1>2, <1>4, <1>6, <1>7, SortGoesOn

\* The comparison of two headers, with the benchmarks it runs.
LEMMA CompareKeepsInv ==
  ASSUME Inv, Compare
  PROVE  Inv'
<1>1. pc = "pick"
  BY DEF Compare
<1>2. pc \in Sorting /\ pc \notin Building
  BY <1>1 DEF Sorting, Building
<1>3. SortOK /\ items.info = Identity
  BY <1>1, <1>2, AfterBuild
<1>4. Somewhere /\ Types /\ Running
  BY <1>2 DEF Inv, InList
<1>5. /\ SortOK' /\ Somewhere' /\ DataStay /\ items'.info = Identity
      /\ srt'.to = srt.to /\ pc' = "pick"
      /\ UNCHANGED <<par, iter, loc, hist>>
      /\ res' \in Results /\ res'.list = res.list
      /\ srt.to # "remove" => text' = text /\ mat' = mat
      /\ par.seed1 = par.seed2 /\ Untouched => text' = text /\ mat' = mat
  BY <1>3, <1>4, CompareStep
<1>6. pc' \in Sorting
  BY <1>5 DEF Sorting
<1>7. par.seed1 = par.seed2 /\ text = InitState(par.size, par.seed1)
           /\ mat = InitMatrix(par.size, par.seed1 + par.seed2 * 65536)
           => text' = text /\ mat' = mat
  BY <1>5 DEF Untouched
<1>8. srt.to = "inits" => text' = text /\ mat' = mat
  BY <1>5
<1> QED  BY <1>2, <1>5, <1>6, <1>7, <1>8, SortGoesOn

-----------------------------------------------------------------------------
\* The end of a pass, and the return of the sort.
LEMMA SortEndsStep ==
  ASSUME Inv, SortEnds
  PROVE  Inv'
<1>1. /\ EndPass /\ UNCHANGED <<par, items, text, mat, res, iter, hist>>
      /\ loc' = IF srt.nmerges <= 1
                THEN [loc EXCEPT !.list = srt.list, !.finder = links'[srt.list]] ELSE loc
  BY DEF SortEnds
<1>2. pc = "merge"
  BY <1>1 DEF EndPass
<1>3. pc \in Sorting /\ pc \notin Building
  BY <1>2 DEF Sorting, Building
<1>4. /\ SortOK /\ items \in Items /\ items.info = Identity /\ res \in Results
      /\ loc \in BenchLocals /\ iter \in 0 .. par.iterations
  BY <1>2, <1>3, AfterBuild
<1>5. Somewhere
  BY <1>3 DEF Inv, InList
<1>6. SortOK' /\ Somewhere' /\ Headers' = Headers /\ srt'.to = srt.to
  BY <1>1, <1>4, <1>5, SortMoves
<1>7. DataStay
  BY <1>1, <1>4, <1>6, ItemsStay
<1>8. CASE ~(srt.nmerges <= 1)
  <2>1. pc' \in Sorting /\ loc' = loc
    BY <1>1, <1>8 DEF EndPass, Sorting
  <2> QED  BY <1>1, <1>3, <1>4, <1>6, <1>7, <2>1, SortGoesOn
<1>9. CASE srt.nmerges <= 1
  <2>1. pc' = srt.to /\ srt' = srt
    BY <1>1, <1>9 DEF EndPass
  <2>2. srt.to \in {"inits", "remove", "recrc"}
    BY <1>4 DEF SortOK, Locals
  <2>3. pc' \notin Building /\ pc' \notin Sorting
    BY <2>1, <2>2 DEF Building, Sorting
  <2>4. PICK f \in Orders' : AtReturn(f)'
    <3>1. PICK f \in Orders', m \in (0 .. count)', b \in (0 .. count)' : SortPlace(f, m, b)'
      BY <1>6 DEF Somewhere
    <3>2. AtReturn(f)'
      BY <2>3, <3>1 DEF SortPlace, Sorting
    <3> QED  BY <3>2
  <2>5. Orders' = Orders /\ Pointers' = Pointers /\ count' = count /\ Identity' = Identity
    BY <1>6, SameHeaders
  <2>6. srt.list = f[1] /\ f[1] \in Headers
    <3>1. ListOK
      BY <1>4 DEF SortOK
    <3>2. 1 \in 1 .. count /\ f \in Orders
      BY <2>5, <3>1 DEF ListOK
    <3> QED  BY <2>1, <2>4, <3>1, <3>2, Order DEF AtReturn
  <2>7. loc' \in BenchLocals /\ loc'.list = f[1]
    <3>1. f[1] \in Pointers /\ links'[f[1]] \in Pointers
      BY <1>6, <2>5, <2>6 DEF SortOK, ListOK, Pointers
    <3> QED  BY <1>1, <1>4, <1>9, <2>6, <3>1 DEF BenchLocals
  <2>8. (Initialising' <=> Initialising)
    BY <1>3, <2>1, <2>2, <2>3 DEF Initialising, Sorting, Building
  <2>9. InIteration' => iter' < par.iterations
    BY <1>1, <1>3, <2>1, <2>3 DEF InIteration, Inv, Running, Sorting
  <2>10. Types' /\ Running' /\ UnderWay' /\ Indexed' /\ History'
    BY <1>1, <1>3, <1>4, <1>6, <1>7, <2>3, <2>7, <2>8, <2>9, DataKept
  <2>11. AtWalk(f)'
    BY <2>4, <2>7 DEF AtWalk, ListFromTo, AtReturn
  <2>12. InList'
    BY <1>1, <1>4, <1>6, <2>1, <2>2, <2>3, <2>4, <2>5, <2>10, <2>11 DEF InList
  <2> QED  BY <2>10, <2>12 DEF Inv
<1> QED  BY <1>8, <1>9

-----------------------------------------------------------------------------
\* The steps that leave the list and its data as they are.

\* A step that changes neither list nor locals of the sort.
LEMMA ListStays ==
  ASSUME Inv, pc \notin Building, UNCHANGED <<links, items, par, srt>>
  PROVE  /\ SortOK' /\ DataStay /\ Orders' = Orders /\ Identity' = Identity
         /\ count' = count /\ Headers' = Headers
         /\ \A f \in Orders : /\ Linked(f, 1, count) => Linked(f, 1, count)'
                              /\ InOrder(f, 1, count) => InOrder(f, 1, count)'
<1>1. SortOK /\ items \in Items /\ srt \in Locals /\ ListOK
  BY AfterBuild
<1>2. Headers' = Headers
  BY DEF Headers
<1>3. DataStay
  BY <1>1, <1>2, ItemsStay
<1>4. OrderKept
  BY <1>1, <1>2, OrderStays
<1>5. /\ count' = count /\ Orders' = Orders /\ Identity' = Identity /\ Pointers' = Pointers
  BY <1>2, SameHeaders
<1>6. SortOK'
  BY <1>1, <1>2, <1>5 DEF SortOK, ListOK, Locals
<1>7. \A f \in Orders : Linked(f, 1, count) => Linked(f, 1, count)'
  BY <1>2, <1>5, SameHeaders DEF Linked
<1>8. \A f \in Orders : InOrder(f, 1, count) => InOrder(f, 1, count)'
  BY <1>4, <1>5, SameOrder
<1> QED  BY <1>2, <1>3, <1>5, <1>6, <1>7, <1>8

\* The benchmark begins with the list that the results refer to.
LEMMA StartBenchStep ==
  ASSUME Inv, StartBench
  PROVE  Inv'
<1>1. /\ pc \in {"iterate", "again"} /\ iter < par.iterations /\ pc' = "find"
      /\ loc' = [NoLoc EXCEPT !.list = res.list, !.finder_idx = BenchIndex, !.idx = BenchIndex]
      /\ UNCHANGED <<par, links, items, text, mat, res, iter, srt, hist>>
  BY DEF StartBench
<1>2. pc \notin Building /\ pc' \notin Building
  BY <1>1 DEF Building
<1>3. /\ SortOK' /\ DataStay /\ Orders' = Orders /\ Identity' = Identity
      /\ \A f \in Orders : Linked(f, 1, count) => Linked(f, 1, count)'
  BY <1>1, <1>2, ListStays
<1>4. /\ items.info = Identity /\ res \in Results /\ iter \in 0 .. par.iterations
      /\ srt \in Locals
  BY <1>1, <1>2, AfterBuild
<1>5. loc' \in BenchLocals
  <2>1. /\ BenchIndex \in {-1, 0, 1} /\ BenchIndex \in Int /\ 0 \in Nat /\ 0 \in Int
    BY DEF BenchIndex
  <2>2. 0 \in Halfwords
    BY Widths
  <2>3. Null \in Pointers /\ res.list \in Pointers
    BY <1>4 DEF Pointers, Results
  <2> QED  BY <1>1, <2>1, <2>2, <2>3 DEF BenchLocals, NoLoc
<1>6. ~Initialising /\ ~Initialising'
  BY <1>1 DEF Initialising, Building, Sorting
<1>7. Types' /\ Running' /\ UnderWay' /\ Indexed' /\ History'
  BY <1>1, <1>2, <1>3, <1>4, <1>5, <1>6, DataKept
<1>8. PICK f \in Orders : AtRest(f)
  BY <1>1, <1>2 DEF Inv, InList
<1>9. AtWalk(f)'
  <2>1. loc'.list = res.list /\ srt'.to # "find"
    BY <1>1, <1>4 DEF NoLoc, Locals
  <2> QED  BY <1>1, <1>3, <1>8, <2>1 DEF AtRest, AtWalk, ListFromTo
<1>10. InList'
  <2>1. srt.to # "remove"
    BY <1>1, <1>2 DEF Inv, InList
  <2> QED  BY <1>1, <1>3, <1>4, <1>7, <1>9, <2>1 DEF InList, Sorting
<1> QED  BY <1>7, <1>10 DEF Inv

\* A header is added to the CRC of the list.
LEMMA CrcStep ==
  ASSUME Inv, Crc
  PROVE  Inv'
<1>1. /\ pc \in {"crc", "recrc"} /\ loc.finder # Null /\ pc' = pc
      /\ loc' = [loc EXCEPT !.retval = crc16(Data16(DataOf(heap, loc.list)), @),
                            !.finder = links[@]]
      /\ UNCHANGED <<par, links, items, text, mat, res, iter, srt, hist>>
  BY DEF Crc, heap
<1>2. pc \notin Building /\ pc' \notin Building
  BY <1>1 DEF Building
<1>3. /\ SortOK' /\ DataStay /\ Orders' = Orders /\ Identity' = Identity /\ count' = count
      /\ \A f \in Orders : /\ Linked(f, 1, count) => Linked(f, 1, count)'
                           /\ InOrder(f, 1, count) => InOrder(f, 1, count)'
  BY <1>1, <1>2, ListStays
<1>4. /\ loc \in BenchLocals /\ res \in Results /\ iter \in 0 .. par.iterations
      /\ srt \in Locals /\ links \in [Headers -> Pointers] /\ count \in Nat \ {0} /\ ListOK
      /\ pc # "crc" => items.info = Identity
  BY <1>2, AfterBuild
<1>5. loc' \in BenchLocals /\ loc'.list = loc.list /\ loc'.remover = loc.remover
  <2>1. links[loc.finder] \in Pointers
    BY <1>1, <1>4 DEF BenchLocals, Pointers
  <2>2. crc16(Data16(DataOf(heap, loc.list)), loc.retval) \in Halfwords
    <3>1. loc.retval \in Halfwords
      BY <1>4 DEF BenchLocals
    <3> QED  BY <3>1, CrcOfWord
  <2> QED  BY <1>1, <1>4, <2>1, <2>2 DEF BenchLocals
<1>6. ~Initialising /\ ~Initialising'
  BY <1>1 DEF Initialising, Building, Sorting
<1>6a. InIteration' => iter' < par.iterations
  BY <1>1 DEF Inv, Running, InIteration
<1>7. Types' /\ Running' /\ UnderWay' /\ Indexed' /\ History'
  BY <1>1, <1>2, <1>3, <1>4, <1>5, <1>6, <1>6a, DataKept
<1>8. CASE pc = "recrc"
  <2>1. PICK f \in Orders : AtWalk(f)
    BY <1>2, <1>8 DEF Inv, InList
  <2>2. AtWalk(f)'
    BY <1>1, <1>3, <1>5, <2>1 DEF AtWalk, ListFromTo
  <2>3. srt.to = pc
    BY <1>2, <1>8 DEF Inv, InList
  <2>4. InList'
    BY <1>1, <1>3, <1>4, <1>7, <1>8, <2>2, <2>3 DEF InList, Sorting
  <2> QED  BY <1>7, <2>4 DEF Inv
<1>9. CASE pc = "crc"
  <2>1. PICK f \in Orders : AtCrc(f)
    BY <1>2, <1>9 DEF Inv, InList
  <2>2. AtCrc(f)'
    <3>1. Linked(f, 1, count - 2)'
      BY <1>1, <1>3, <2>1, SameHeaders DEF AtCrc, Linked, DataStay
    <3> QED  BY <1>1, <1>3, <1>5, <2>1, <3>1 DEF AtCrc
  <2>4. InList'
    BY <1>1, <1>3, <1>7, <1>9, <2>2 DEF InList, Sorting
  <2> QED  BY <1>7, <2>4 DEF Inv
<1> QED  BY <1>1, <1>8, <1>9

-----------------------------------------------------------------------------
\* A list in the order of its indexes begins with the fake head, and none of
\* its items has a cached result.
LEMMA InOrderOfIndex ==
  ASSUME Inv, pc \notin Building, pc # "crc", srt.cmp = "idx",
         NEW f \in Orders, InOrder(f, 1, count)
  PROVE  /\ Ascending(f) /\ f[1] = 0
         /\ \A k \in 1 .. count : items.data[f[k]].lo = items.data[f[k]].hi
<1>1. /\ ListOK /\ Indexed /\ items \in Items /\ items.info = Identity
      /\ count \in Nat \ {0} /\ 3 <= count /\ 0 \in Headers
  BY AfterBuild
<1>2. /\ \A i \in 1 .. count : f[i] \in Headers
      /\ \A i, j \in 1 .. count : f[i] = f[j] => i = j
      /\ \A c \in Headers : \E i \in 1 .. count : f[i] = c
  BY <1>1, Order
<1>3. \A c \in Headers : DataOf(heap, c) = items.data[c]
  BY <1>1, DataOfHeader
<1>4. \A c \in Headers : items.data[c].idx \in Int /\ items.data[c].idx >= 0
  BY <1>1, Widths DEF Items, DataCells
<1>5. /\ items.data[0].idx = 0
      /\ \A c, d \in Headers : items.data[c].idx = items.data[d].idx => c = d
  BY <1>1 DEF Indexed
<1>6. \A i, j \in 1 .. count : i < j => items.data[f[i]].idx < items.data[f[j]].idx
  <2> SUFFICES ASSUME NEW i \in 1 .. count, NEW j \in 1 .. count, i < j
               PROVE  items.data[f[i]].idx < items.data[f[j]].idx
    OBVIOUS
  <2>1. Before(f[i], f[j])
    BY DEF InOrder, Ordered
  <2>2. /\ f[i] \in Headers /\ f[j] \in Headers /\ f[i] # f[j]
    BY <1>2
  <2>3. Key(f[i]) = items.data[f[i]].idx /\ Key(f[j]) = items.data[f[j]].idx
    BY <1>3, <2>2 DEF Key
  <2> QED  BY <1>5, <2>1, <2>2, <2>3 DEF Before
<1>7. f[1] = 0
  <2>1. PICK k \in 1 .. count : f[k] = 0
    BY <1>1, <1>2
  <2>2. 1 \in 1 .. count /\ f[1] \in Headers
    BY <1>1, <1>2
  <2>3. CASE k # 1
    <3>1. 1 < k
      BY <2>1, <2>3
    <3>2. items.data[f[1]].idx < items.data[f[k]].idx
      BY <1>6, <2>1, <2>2, <3>1
    <3> QED  BY <1>4, <1>5, <2>1, <2>2, <3>2
  <2> QED  BY <2>1, <2>3
<1>8. \A k \in 1 .. count : items.data[f[k]].lo = items.data[f[k]].hi
  <2> SUFFICES ASSUME NEW k \in 1 .. count
               PROVE  items.data[f[k]].lo = items.data[f[k]].hi
    OBVIOUS
  <2>1. PICK i \in 1 .. count, j \in 1 .. count : i < j /\ (k = i \/ k = j)
    <3>1. CASE k < count
      BY <1>1, <3>1
    <3>2. CASE k = count
      <4>1. 1 \in 1 .. count /\ 1 < k
        BY <1>1, <3>2
      <4> QED  BY <4>1
    <3> QED  BY <1>1, <3>1, <3>2
  <2>2. Ordered(f[i], f[j])
    BY <2>1 DEF InOrder
  <2>3. Known(f[k]) /\ f[k] \in Headers
    BY <2>1, <2>2 DEF Ordered
  <2> QED  BY <1>3, <2>3 DEF Known
<1>9. Ascending(f)
  BY <1>6 DEF Ascending
<1> QED  BY <1>7, <1>8, <1>9

\* The contents of such a list are the items as they were initialised.
LEMMA ContentsOfList ==
  ASSUME Inv, pc \notin Building, pc # "crc", NEW f \in Orders, Linked(f, 1, count),
         \A k \in 1 .. count : items.data[f[k]].lo = items.data[f[k]].hi
  PROVE  Contents(heap, f[1]) = Clean(f)
<1>1. /\ ListOK /\ items \in Items /\ items.info = Identity /\ heap.next = links
      /\ Used(heap) = count /\ count \in Nat \ {0}
  BY AfterBuild
<1>2. Chain(links, f[1], count) = f
  BY <1>1, WholeList
<1>3. ListFrom(heap, f[1]) = f
  BY <1>1, <1>2 DEF ListFrom
<1>4. f \in [1 .. count -> Headers] /\ \A k \in 1 .. count : f[k] \in Headers
  BY <1>1, Order
<1>5. Len(f) = count
  BY <1>1, <1>4, OrderIsSeq
<1>6. \A k \in 1 .. count : DataOf(heap, f[k]) = items.data[f[k]]
  BY <1>1, <1>4, DataOfHeader
<1>7. \A k \in 1 .. count : [items.data[f[k]] EXCEPT !.lo = items.data[f[k]].hi] = items.data[f[k]]
  <2> SUFFICES ASSUME NEW k \in 1 .. count, NEW d, d = items.data[f[k]]
               PROVE  [d EXCEPT !.lo = d.hi] = d
    OBVIOUS
  <2>1. d \in DataCells /\ d.lo = d.hi
    BY <1>1, <1>4 DEF Items
  <2> QED  BY <2>1 DEF DataCells
<1>8. Contents(heap, f[1]) = [k \in 1 .. count |-> items.data[f[k]]]
  BY <1>3, <1>5, <1>6 DEF Contents
<1> QED  BY <1>7, <1>8 DEF Clean

\* The list is built; the benchmark may begin.
LEMMA InitBlocksStep ==
  ASSUME Inv, InitBlocks
  PROVE  Inv'
<1>1. /\ pc = "inits" /\ pc' = "iterate"
      /\ mat' = InitMatrix(par.size, par.seed1 + par.seed2 * 65536)
      /\ text' = InitState(par.size, par.seed1)
      /\ res' = [NoResult EXCEPT !.list = loc.list]
      /\ hist' = [list |-> Contents(heap, loc.list), text |-> text', mat |-> mat']
      /\ UNCHANGED <<par, links, items, iter, loc, srt>>
  BY DEF InitBlocks
<1>2. pc \notin Building /\ pc' \notin Building
  BY <1>1 DEF Building
<1>3. /\ SortOK' /\ DataStay /\ Orders' = Orders /\ Identity' = Identity
      /\ count' = count /\ Headers' = Headers
      /\ \A f \in Orders : /\ Linked(f, 1, count) => Linked(f, 1, count)'
                           /\ InOrder(f, 1, count) => InOrder(f, 1, count)'
  BY <1>1, <1>2, ListStays
<1>4. /\ items.info = Identity /\ loc \in BenchLocals /\ iter \in 0 .. par.iterations
      /\ srt \in Locals /\ SortOK /\ ListOK /\ Indexed /\ items \in Items
      /\ \E p \in Parameters : par = Block(p)
  BY <1>1, <1>2, AfterBuild
<1>5. srt.to = "inits" /\ srt.cmp = "idx"
  <2>1. srt.to = "inits"
    BY <1>1, <1>2 DEF Inv, InList
  <2> QED  BY <1>4, <2>1 DEF SortOK, Locals
<1>6. PICK f \in Orders : AtWalk(f)
  BY <1>1, <1>2 DEF Inv, InList
<1>7. /\ loc.list = f[1] /\ Linked(f, 1, count) /\ InOrder(f, 1, count)
  BY <1>1, <1>5, <1>6 DEF AtWalk, ListFromTo
<1>8. /\ Ascending(f) /\ f[1] = 0
      /\ \A k \in 1 .. count : items.data[f[k]].lo = items.data[f[k]].hi
  BY <1>1, <1>2, <1>5, <1>7, InOrderOfIndex
<1>9. Contents(heap, f[1]) = Clean(f)
  BY <1>1, <1>2, <1>7, <1>8, ContentsOfList
<1>10. res' \in Results /\ res'.list = 0
  <2>1. loc.list \in Pointers /\ loc.list = 0
    BY <1>4, <1>7, <1>8 DEF BenchLocals
  <2>2. 0 \in Halfwords
    BY Widths
  <2>3. ASSUME NEW x \in Pointers, NEW r, r = [NoResult EXCEPT !.list = x]
        PROVE  r \in Results /\ r.list = x
    BY <2>2, <2>3 DEF Results, NoResult
  <2> QED  BY <1>1, <2>1, <2>3
<1>11. Types'
  <2>1. Pointers' = Pointers
    BY <1>3, SameHeaders
  <2>2. res' \in Results'
    BY <1>10, <2>1, ResultsStay
  <2>3. loc' \in BenchLocals'
    BY <1>1, <1>4, <2>1 DEF BenchLocals
  <2> QED  BY <1>3, <2>2, <2>3 DEF Types, SortOK, DataStay
<1>12. Running'
  BY <1>1, <1>4 DEF Running, InIteration, Sorting
<1>13. UnderWay'
  BY <1>2 DEF UnderWay, Building
<1>14. Indexed'
  BY <1>3, <1>4, SameIndexes
<1>15. AtRest(f)'
  BY <1>3, <1>7, <1>8, <1>10 DEF AtRest, ListFromTo
<1>16. InList'
  BY <1>1, <1>3, <1>4, <1>5, <1>14, <1>15 DEF InList, Sorting
<1>17. History'
  <2>1. ~Initialising'
    BY <1>1 DEF Initialising, Building, Sorting
  <2>2. ASSUME NEW g \in Orders', Ascending(g)'
        PROVE  hist'.list = Clean(g)'
    <3>1. g \in Orders /\ Ascending(g) /\ Clean(g)' = Clean(g)
      BY <1>3, <1>4, <2>2, SameIndexes
    <3>2. g = f
      BY <1>4, <1>8, <3>1, OneOrder
    <3>3. hist'.list = Clean(f)
      BY <1>1, <1>7, <1>9
    <3> QED  BY <3>1, <3>2, <3>3
  <2>3. /\ hist'.text = text' /\ hist'.mat = mat' /\ par' = par
    BY <1>1
  <2> QED  BY <1>1, <1>10, <2>1, <2>2, <2>3 DEF History
<1> QED  BY <1>11, <1>12, <1>13, <1>16, <1>17 DEF Inv

-----------------------------------------------------------------------------
\* The list is returned in its original order.
LEMMA ReturnStep ==
  ASSUME Inv, Return
  PROVE  Inv'
<1>1. PICK crc, last : /\ crc = crcu16(loc.retval, res.crc) /\ last = (loc.finder_idx = -1)
  OBVIOUS
<1>2. /\ pc = "recrc" /\ pc' \in {"iterate", "again"} /\ (last <=> pc' = "iterate")
      /\ res' = [res EXCEPT !.crc = crc, !.crclist = IF last /\ iter = 0 THEN crc ELSE @]
      /\ iter' = IF last THEN iter + 1 ELSE iter
      /\ UNCHANGED <<par, links, items, text, mat, loc, srt, hist>>
  BY <1>1 DEF Return
<1>3. pc \notin Building /\ pc' \notin Building
  BY <1>2 DEF Building
<1>4. /\ SortOK' /\ DataStay /\ Orders' = Orders /\ Identity' = Identity
      /\ count' = count /\ Headers' = Headers
      /\ \A f \in Orders : /\ Linked(f, 1, count) => Linked(f, 1, count)'
                           /\ InOrder(f, 1, count) => InOrder(f, 1, count)'
  BY <1>2, <1>3, ListStays
<1>5. /\ items.info = Identity /\ loc \in BenchLocals /\ iter \in 0 .. par.iterations
      /\ srt \in Locals /\ SortOK /\ res \in Results /\ par.iterations \in Nat
  BY <1>2, <1>3, AfterBuild
<1>6. srt.to = "recrc" /\ srt.cmp = "idx"
  <2>1. srt.to = "recrc"
    BY <1>2, <1>3 DEF Inv, InList
  <2> QED  BY <1>5, <2>1 DEF SortOK, Locals
<1>7. PICK f \in Orders : AtWalk(f)
  BY <1>2, <1>3 DEF Inv, InList
<1>8. Linked(f, 1, count) /\ InOrder(f, 1, count)
  BY <1>2, <1>6, <1>7 DEF AtWalk, ListFromTo
<1>9. f[1] = 0
  BY <1>2, <1>3, <1>6, <1>8, InOrderOfIndex
<1>10. ~Initialising /\ ~Initialising'
  BY <1>2 DEF Initialising, Building, Sorting
<1>11. res' \in Results /\ res'.list = res.list
  <2>1. crc \in Halfwords
    <3>1. res.crc \in Halfwords
      BY <1>5 DEF Results
    <3> QED  BY <1>1, <3>1, CrcOfWord
  <2>2. PICK x : x = IF last /\ iter = 0 THEN crc ELSE res.crclist
    OBVIOUS
  <2>3. x \in Halfwords /\ res' = [res EXCEPT !.crc = crc, !.crclist = x]
    BY <1>2, <1>5, <2>1, <2>2 DEF Results
  <2> QED  BY <1>5, <2>1, <2>3 DEF Results
<1>12. iter' \in 0 .. par.iterations /\ (InIteration' => iter' < par.iterations)
  <2>1. iter < par.iterations
    BY <1>2 DEF Inv, Running, InIteration
  <2>2. CASE last
    BY <1>2, <1>5, <2>1, <2>2 DEF InIteration, Sorting
  <2>3. CASE ~last
    BY <1>2, <1>5, <2>1, <2>3
  <2> QED  BY <2>2, <2>3
<1>13. Types' /\ Running' /\ UnderWay' /\ Indexed' /\ History'
  BY <1>2, <1>3, <1>4, <1>5, <1>10, <1>11, <1>12, DataKept
<1>14. AtRest(f)'
  <2>1. res.list = 0
    BY <1>10 DEF Inv, History
  <2> QED  BY <1>4, <1>8, <1>9, <1>11, <2>1 DEF AtRest, ListFromTo
<1>15. InList'
  BY <1>2, <1>4, <1>5, <1>6, <1>13, <1>14 DEF InList, Sorting
<1> QED  BY <1>13, <1>15 DEF Inv

\* How many results are not the known ones.
LEMMA ErrorsAreCounted == Errors \in Nat
<1> DEFINE R(a) == CASE a = "list"   -> res.crclist
                     [] a = "matrix" -> res.crcmatrix
                     [] a = "state"  -> res.crcstate
           All == {"list", "matrix", "state"}
           S == {a \in All : known_crc(seedcrc(par))[a] # R(a)}
<1>1. IsFiniteSet(All)
  <2>1. IsFiniteSet({"list"})
    BY FS_Singleton
  <2>2. IsFiniteSet({"list"} \cup {"matrix"})
    BY <2>1, FS_AddElement
  <2>3. IsFiniteSet(({"list"} \cup {"matrix"}) \cup {"state"})
    BY <2>2, FS_AddElement
  <2>4. All = ({"list"} \cup {"matrix"}) \cup {"state"}
    OBVIOUS
  <2> QED  BY <2>3, <2>4
<1>2. Errors = Cardinality(S)
  BY DEF Errors
<1>3. S \subseteq All
  OBVIOUS
<1> HIDE DEF S, All
<1>4. IsFiniteSet(S)
  BY <1>1, <1>3, FS_Subset
<1> QED  BY <1>2, <1>4, FS_CardinalityType

\* main compares the results.
LEMMA ReportStep ==
  ASSUME Inv, Report
  PROVE  Inv'
<1>1. /\ pc = "iterate" /\ pc' = "done"
      /\ UNCHANGED <<par, links, items, text, mat, iter, loc, srt, hist>>
  BY DEF Report
<1>3. pc \notin Building /\ pc' \notin Building
  BY <1>1 DEF Building
<1>4. /\ SortOK' /\ DataStay /\ Orders' = Orders /\ Identity' = Identity
      /\ count' = count /\ Headers' = Headers
      /\ \A f \in Orders : /\ Linked(f, 1, count) => Linked(f, 1, count)'
                           /\ InOrder(f, 1, count) => InOrder(f, 1, count)'
  BY <1>1, <1>3, ListStays
<1>5. /\ items.info = Identity /\ loc \in BenchLocals /\ iter \in 0 .. par.iterations
      /\ res \in Results
  BY <1>1, <1>3, AfterBuild
<1>6. res' \in Results /\ res'.list = res.list
  <2>1. PICK err : err = IF seedcrc(par) \in KnownRuns THEN Errors ELSE 0
    OBVIOUS
  <2>2. err \in Nat
    BY <2>1, ErrorsAreCounted
  <2>3. \E v \in {"none", "validated", "errors", "cannot validate"} :
           res' = [res EXCEPT !.err = err, !.verdict = v]
    BY <2>1 DEF Report
  <2> QED  BY <1>5, <2>2, <2>3 DEF Results
<1>7. ~Initialising /\ ~Initialising' /\ ~InIteration'
  BY <1>1 DEF Initialising, Building, Sorting, InIteration
<1>8. Types' /\ Running' /\ UnderWay' /\ Indexed' /\ History'
  <2>1. /\ loc' \in BenchLocals /\ iter' \in 0 .. par.iterations
        /\ InIteration' => iter' < par.iterations
        /\ hist' = hist /\ (Initialising' <=> Initialising) /\ text' = text /\ mat' = mat
    BY <1>1, <1>5, <1>7
  <2> QED  BY <1>3, <1>4, <1>6, <2>1, DataKept
<1>9. PICK f \in Orders : AtRest(f)
  BY <1>1, <1>3 DEF Inv, InList
<1>10. AtRest(f)'
  BY <1>4, <1>6, <1>9 DEF AtRest, ListFromTo
<1>11. InList'
  <2>1. srt.to # "remove"
    BY <1>1, <1>3 DEF Inv, InList
  <2> QED  BY <1>1, <1>4, <1>5, <1>8, <1>10, <2>1 DEF InList, Sorting
<1> QED  BY <1>8, <1>11 DEF Inv

\* The arithmetic of ee_u16.
LEMMA U16IsWord ==
  ASSUME NEW n \in Int
  PROVE  U16(n) \in Halfwords
<1>1. U16(n) \in Int /\ 0 <= U16(n) /\ U16(n) <= 65535
  BY DEF U16
<1> QED  BY <1>1, Widths

\* After the searches of the first call the list is sorted by value.
LEMMA FindDoneStep ==
  ASSUME Inv, FindDone
  PROVE  Inv'
<1>1. /\ pc = "find"
      /\ loc' = [loc EXCEPT !.retval = U16(@ + loc.found * 4 - loc.missed)]
      /\ UNCHANGED <<par, links, items, text, mat, res, iter, hist>>
  BY DEF FindDone
<1>2. pc \notin Building
  BY <1>1 DEF Building
<1>3. /\ items.info = Identity /\ loc \in BenchLocals /\ iter \in 0 .. par.iterations
      /\ srt \in Locals /\ SortOK /\ res \in Results /\ ListOK /\ items \in Items
      /\ count \in Nat \ {0}
  BY <1>1, <1>2, AfterBuild
<1>4. loc' \in BenchLocals /\ loc'.list = loc.list
  <2>1. loc.retval + loc.found * 4 - loc.missed \in Int
    <3>1. loc.retval \in Halfwords /\ loc.found \in Int /\ loc.missed \in Int
      BY <1>3 DEF BenchLocals
    <3>2. loc.retval \in Int
      BY <3>1, Widths
    <3> QED  BY <3>1, <3>2
  <2>2. U16(loc.retval + loc.found * 4 - loc.missed) \in Halfwords
    BY <2>1, U16IsWord
  <2> QED  BY <1>1, <1>3, <2>2 DEF BenchLocals
<1>5. PICK f \in Orders : AtWalk(f)
  BY <1>1, <1>2 DEF Inv, InList
<1>6. loc.list = f[1] /\ Linked(f, 1, count)
  BY <1>5 DEF AtWalk, ListFromTo
<1>7. iter < par.iterations
  BY <1>1 DEF Inv, Running, InIteration
<1>8. Headers' = Headers
  BY <1>1 DEF Headers
<1>9. DataStay
  BY <1>1, <1>3, <1>8, ItemsStay
<1>10. ~Initialising
  BY <1>1 DEF Initialising, Building, Sorting
<1>11. CASE pc' = "remove" /\ srt' = srt
  <2>1. pc' \notin Building /\ ~Initialising'
    BY <1>11 DEF Building, Initialising, Sorting
  <2>2. /\ SortOK' /\ Orders' = Orders /\ Identity' = Identity
        /\ Linked(f, 1, count)'
    BY <1>1, <1>2, <1>6, <1>11, ListStays
  <2>3. Types' /\ Running' /\ UnderWay' /\ Indexed' /\ History'
    BY <1>1, <1>2, <1>3, <1>4, <1>7, <1>9, <1>10, <2>1, <2>2, DataKept
  <2>4. srt.to # "remove"
    BY <1>1, <1>2 DEF Inv, InList
  <2>5. AtWalk(f)'
    BY <1>4, <1>6, <1>11, <2>2, <2>4 DEF AtWalk, ListFromTo
  <2>6. InList'
    BY <1>1, <1>3, <1>11, <2>2, <2>3, <2>5 DEF InList, Sorting
  <2> QED  BY <2>3, <2>6 DEF Inv
<1>12. CASE Sort(links, loc.list, "complex", "remove")
  <2>1. /\ pc' = "pass"
        /\ srt' = [NoSort EXCEPT !.list = f[1], !.cmp = "complex", !.to = "remove", !.from = f]
    <3>1. Cardinality(DOMAIN links) = count
      BY DEF count, Used, heap
    <3>2. Chain(links, f[1], count) = f
      BY <1>3, <1>6, WholeList
    <3> QED  BY <1>6, <1>12, <3>1, <3>2 DEF Sort
  <2>2. count' = count /\ Orders' = Orders /\ Pointers' = Pointers /\ Identity' = Identity
    BY <1>8, SameHeaders
  <2>3. ListOK' /\ Linked(f, 1, count)'
    BY <1>1, <1>3, <1>6, <1>8, <2>2, SameHeaders DEF ListOK, Linked
  <2>4. SortOK' /\ Somewhere'
    BY <2>1, <2>2, <2>3, Begun
  <2>5. srt'.to = "remove"
    BY <2>1 DEF NoSort
  <2>6. pc' \notin Building /\ ~Initialising' /\ pc' \in Sorting
    BY <2>1, <2>5 DEF Building, Initialising, Sorting
  <2>7. Types' /\ Running' /\ UnderWay' /\ Indexed' /\ History'
    BY <1>1, <1>2, <1>3, <1>4, <1>7, <1>9, <1>10, <2>4, <2>6, DataKept
  <2>8. InList'
    BY <1>1, <1>3, <2>1, <2>2, <2>4, <2>7 DEF InList, Sorting
  <2> QED  BY <2>7, <2>8 DEF Inv
<1> QED  BY <1>1, <1>11, <1>12 DEF FindDone

\* What is said of a state only depends on the variables.
LEMMA NothingChanges ==
  ASSUME Inv, UNCHANGED vars
  PROVE  Inv'
<1>1. /\ pc' = pc /\ par' = par /\ links' = links /\ items' = items /\ text' = text
      /\ mat' = mat /\ res' = res /\ iter' = iter /\ loc' = loc /\ srt' = srt /\ hist' = hist
  BY DEF vars
<1>2. Headers' = Headers
  BY <1>1 DEF Headers
<1>3. /\ count' = count /\ Orders' = Orders /\ Pointers' = Pointers /\ Identity' = Identity
      /\ \A f, i : Place(f, i)' = Place(f, i)
  BY <1>2, SameHeaders
<1>4. ListOK' = ListOK /\ Items' = Items /\ Results' = Results /\ BenchLocals' = BenchLocals
  BY <1>1, <1>2, <1>3 DEF ListOK, Items, Results, BenchLocals
<1>5. Types'
  BY <1>1, <1>4 DEF Inv, Types
<1>6. Running'
  BY <1>1 DEF Inv, Running, InIteration
<1>7. UnderWay'
  <2>1. Size' = Size /\ Built' = Built
    BY <1>1, <1>3 DEF Size, Built
  <2>2. Linked(Built, 1, count)' <=> Linked(Built, 1, count)
    BY <1>1, <1>3, <2>1 DEF Linked
  <2>3. (Inserting' <=> Inserting) /\ (Indexing' <=> Indexing)
    BY <1>1, <1>3, <2>1 DEF Inserting, Indexing
  <2> QED  BY <1>1, <1>3, <2>2, <2>3 DEF Inv, UnderWay
<1>8. InList'
  <2>1. SortOK' <=> SortOK
    BY <1>1, <1>2, <1>3, <1>4 DEF SortOK, Locals
  <2>2. Indexed' <=> Indexed
    BY <1>1, <1>2, <1>3 DEF Indexed, Size
  <2>3. \A f, i, j : Linked(f, i, j)' <=> Linked(f, i, j)
    BY <1>1, <1>3 DEF Linked
  <2>4. \A c, d : Ordered(c, d)' <=> Ordered(c, d)
    BY <1>1, <1>2 DEF Ordered, Known, Before, Key, PlaceOf, DataOf, heap
  <2>5. \A f, i, j : InOrder(f, i, j)' <=> InOrder(f, i, j)
    BY <2>4 DEF InOrder
  <2>6. \A f : (AtWalk(f)' <=> AtWalk(f)) /\ (AtRest(f)' <=> AtRest(f)) /\ (AtCrc(f)' <=> AtCrc(f))
    BY <1>1, <1>3, <2>3, <2>5 DEF AtWalk, AtRest, AtCrc, ListFromTo
  <2>7. Somewhere' <=> Somewhere
    <3>1. \A f, h, i, j : Precede(f, h, i, j)' <=> Precede(f, h, i, j)
      BY <1>1 DEF Precede, PlaceOf
    <3>2. \A f, w, b, e : Runs(f, w, b, e)' <=> Runs(f, w, b, e)
      <4>1. \A c : PlaceOf(c)' = PlaceOf(c)
        BY <1>1 DEF PlaceOf
      <4>2. ASSUME NEW f, NEW w, NEW b, NEW e, Runs(f, w, b, e)
           PROVE  Runs(f, w, b, e)'
        <5> SUFFICES ASSUME NEW k \in Nat, NEW i \in b + 1 .. e, NEW j \in b + 1 .. e
                     PROVE  /\ b + k * w < i /\ i < j /\ j <= b + (k + 1) * w => Ordered(f[i], f[j])'
                            /\ i <= b + k * w /\ b + k * w < j => PlaceOf(f[i])' < PlaceOf(f[j])'
          BY DEF Runs
        <5>1. /\ b + k * w < i /\ i < j /\ j <= b + (k + 1) * w => Ordered(f[i], f[j])
              /\ i <= b + k * w /\ b + k * w < j => PlaceOf(f[i]) < PlaceOf(f[j])
          BY <4>2 DEF Runs
        <5> QED  BY <2>4, <4>1, <5>1
      <4>3. ASSUME NEW f, NEW w, NEW b, NEW e, Runs(f, w, b, e)'
           PROVE  Runs(f, w, b, e)
        <5> SUFFICES ASSUME NEW k \in Nat, NEW i \in b + 1 .. e, NEW j \in b + 1 .. e
                     PROVE  /\ b + k * w < i /\ i < j /\ j <= b + (k + 1) * w => Ordered(f[i], f[j])
                            /\ i <= b + k * w /\ b + k * w < j => PlaceOf(f[i]) < PlaceOf(f[j])
          BY DEF Runs
        <5>1. /\ b + k * w < i /\ i < j /\ j <= b + (k + 1) * w => Ordered(f[i], f[j])'
              /\ i <= b + k * w /\ b + k * w < j => PlaceOf(f[i])' < PlaceOf(f[j])'
          BY <4>3 DEF Runs
        <5> QED  BY <2>4, <4>1, <5>1
      <4> QED  BY <4>2, <4>3
    <3>3. /\ Double' = Double /\ \A b : End(b)' = End(b) /\ Behind(b)' = Behind(b)
      BY <1>1, <1>3 DEF Double, End, Behind
    <3>4. \A f, m : (HalfWay(f, m)' <=> HalfWay(f, m)) /\ (Merged(f, m)' <=> Merged(f, m))
      BY <1>1, <1>3, <2>3, <3>1, <3>2, <3>3 DEF HalfWay, Merged
    <3>5. \A m, c : Counted(m, c)' <=> Counted(m, c)
      BY <1>3, <3>3 DEF Counted
    <3>6. \A f, m : /\ AtPass(f)' <=> AtPass(f)
                    /\ AtMerge(f, m)' <=> AtMerge(f, m)
                    /\ AtAlong(f, m)' <=> AtAlong(f, m)
                    /\ AtReturn(f)' <=> AtReturn(f)
      BY <1>1, <1>3, <2>3, <2>5, <3>2, <3>4, <3>5 DEF AtPass, AtMerge, AtAlong, AtReturn
    <3>7. \A f, m, b : AtPick(f, m, b)' <=> AtPick(f, m, b)
      <4>1. \A m, b : MergePlaces(m, b)' <=> MergePlaces(m, b)
        BY <1>1, <1>3, <3>3, <3>5 DEF MergePlaces
      <4>2. \A f, m : MergeLinks(f, m)' <=> MergeLinks(f, m)
        BY <1>1, <1>3, <2>3, <3>3, <3>4 DEF MergeLinks
      <4>3. \A f, m, b : MergeOrder(f, m, b)' <=> MergeOrder(f, m, b)
        BY <1>1, <1>3, <2>4, <2>5, <3>1, <3>2, <3>3, <3>4 DEF MergeOrder
      <4> QED  BY <4>1, <4>2, <4>3 DEF AtPick
    <3>8. \A f, m, b : SortPlace(f, m, b)' <=> SortPlace(f, m, b)
      BY <1>1, <3>6, <3>7 DEF SortPlace
    <3> QED  BY <1>3, <3>8 DEF Somewhere
  <2> QED  BY <1>1, <1>3, <2>1, <2>2, <2>6, <2>7 DEF Inv, InList
<1>9. History'
  <2>1. \A f : (Ascending(f)' <=> Ascending(f)) /\ Clean(f)' = Clean(f)
    BY <1>1, <1>3 DEF Ascending, Clean
  <2> QED  BY <1>1, <1>3, <2>1 DEF Inv, History, Initialising
<1> QED  BY <1>5, <1>6, <1>7, <1>8, <1>9 DEF Inv

-----------------------------------------------------------------------------
\* The operations on the list, on a heap whose list is in order f.
InHeap(h, f) ==
  /\ h = [next |-> h.next, info |-> h.info, data |-> h.data]
  /\ h.next \in [Headers -> Pointers]
  /\ \A k \in 1 .. count : h.next[f[k]] = Place(f, k + 1)

\* core_list_find returns a header of the list, or none.
LEMMA FindIs ==
  ASSUME NEW h, NEW c, NEW wanted, NEW S, NEW s \in Seq(S), ListFrom(h, c) = s
  PROVE  core_list_find(h, c, wanted) = Null \/ \E k \in 1 .. Len(s) : core_list_find(h, c, wanted) = s[k]
<1> DEFINE Agrees(d) == IF wanted.idx >= 0 THEN d.idx = wanted.idx ELSE d.lo = wanted.data16
           hits == {k \in 1 .. Len(s) : Agrees(DataOf(h, s[k]))}
<1>1. core_list_find(h, c, wanted) = IF hits = {} THEN Null
                                     ELSE s[CHOOSE k \in hits : \A j \in hits : k <= j]
  BY DEF core_list_find
<1>2. hits \subseteq 1 .. Len(s) /\ hits \subseteq Nat
  BY LenProperties
<1> HIDE DEF hits
<1>3. CASE hits = {}
  BY <1>1, <1>3
<1>4. CASE hits # {}
  <2>1. \E k \in hits : \A j \in hits : k <= j
    BY <1>2, <1>4, LeastElement
  <2>2. PICK k : k = CHOOSE x \in hits : \A j \in hits : x <= j
    OBVIOUS
  <2>3. k \in hits
    BY <2>1, <2>2
  <2> QED  BY <1>1, <1>2, <1>4, <2>2, <2>3
<1> QED  BY <1>3, <1>4

\* core_list_reverse on the list in order f.
LEMMA Reversed ==
  ASSUME ListOK, NEW f \in Orders, Linked(f, 1, count), NEW r, r = core_list_reverse(heap, f[1])
  PROVE  \E g \in Orders : /\ r.list = g[1] /\ InHeap(r.heap, g)
                           /\ r.heap.info = items.info /\ r.heap.data = items.data
<1>1. PICK n, next : n = count /\ next = r.heap.next
  OBVIOUS
<1>2. /\ n \in Nat \ {0} /\ DOMAIN links = Headers /\ f \in [1 .. n -> Headers]
      /\ \A i \in 1 .. n : f[i] \in Headers
      /\ \A i, j \in 1 .. n : f[i] = f[j] => i = j
      /\ \A c \in Headers : \E i \in 1 .. n : f[i] = c
  BY <1>1, Order
<1>3. /\ heap.next = links /\ heap.info = items.info /\ heap.data = items.data /\ Used(heap) = n
      /\ heap = [next |-> links, info |-> items.info, data |-> items.data]
  BY <1>1 DEF heap, count
<1>4. ListFrom(heap, f[1]) = f
  BY <1>1, <1>3, WholeList DEF ListFrom
<1>5. Len(f) = n
  BY <1>2, OrderIsSeq
<1> DEFINE cells == ListFrom(heap, f[1])
           N == [c \in DOMAIN heap.next |-> IF c = f[1] THEN Null
                     ELSE IF \E k \in 2 .. Len(cells) : cells[k] = c
                     THEN cells[(CHOOSE k \in 2 .. Len(cells) : cells[k] = c) - 1]
                     ELSE heap.next[c]]
<1>6. r = [heap |-> [heap EXCEPT !.next = N], list |-> f[n]]
  <2>1. core_list_reverse(heap, f[1]) = [heap |-> [heap EXCEPT !.next = N], list |-> cells[Len(cells)]]
    BY DEF core_list_reverse
  <2> HIDE DEF N
  <2> QED  BY <1>4, <1>5, <2>1
<1>7. /\ r.list = f[n] /\ r.heap.info = items.info /\ r.heap.data = items.data
      /\ r.heap = [next |-> N, info |-> items.info, data |-> items.data]
      /\ next = N
  <2> HIDE DEF N
  <2> QED  BY <1>1, <1>3, <1>6
<1>8. next[f[1]] = Null
  <2>1. f[1] \in DOMAIN heap.next
    BY <1>2, <1>3
  <2> HIDE DEF cells
  <2> QED  BY <1>7, <2>1
<1>9. \A k \in 2 .. n : next[f[k]] = f[k - 1]
  <2> SUFFICES ASSUME NEW k \in 2 .. n
               PROVE  next[f[k]] = f[k - 1]
    OBVIOUS
  <2>1. k \in 1 .. n /\ 1 \in 1 .. n /\ k # 1 /\ f[k] \in Headers /\ f[k] # f[1]
    BY <1>2
  <2>1a. f[k] \in DOMAIN heap.next /\ cells = f /\ Len(cells) = n
    BY <1>2, <1>3, <1>4, <1>5, <2>1
  <2> HIDE DEF cells
  <2>1b. \E x \in 2 .. Len(cells) : cells[x] = f[k]
    BY <2>1a
  <2>2. next[f[k]] = cells[(CHOOSE x \in 2 .. Len(cells) : cells[x] = f[k]) - 1]
    BY <1>7, <2>1, <2>1a, <2>1b
  <2>3. PICK y : y = CHOOSE x \in 2 .. Len(cells) : cells[x] = f[k]
    OBVIOUS
  <2>4. y \in 2 .. n /\ f[y] = f[k] /\ next[f[k]] = f[y - 1]
    BY <2>1a, <2>1b, <2>2, <2>3
  <2>5. y = k
    BY <1>2, <2>1, <2>4
  <2> QED  BY <2>4, <2>5
<1>10. next \in [Headers -> Pointers]
  <2>1. DOMAIN next = Headers /\ next = [c \in Headers |-> next[c]]
    BY <1>2, <1>3, <1>7
  <2>2. ASSUME NEW c \in Headers
        PROVE  next[c] \in Pointers
    <3>1. PICK i \in 1 .. n : f[i] = c
      BY <1>2
    <3>2. CASE i = 1
      BY <1>8, <3>1, <3>2 DEF Pointers
    <3>3. CASE i # 1
      <4>1. i \in 2 .. n /\ i - 1 \in 1 .. n
        BY <1>2, <3>3
      <4>2. next[c] = f[i - 1] /\ f[i - 1] \in Headers
        BY <1>2, <1>9, <3>1, <4>1
      <4> QED  BY <4>2 DEF Pointers
    <3> QED  BY <3>2, <3>3
  <2> QED  BY <2>1, <2>2
<1>11. PICK at : at = [i \in 1 .. n |-> n + 1 - i]
  OBVIOUS
<1>12. /\ at \in [1 .. n -> 1 .. n]
       /\ \A i \in 1 .. n : at[i] = n + 1 - i /\ at[at[i]] = i
  BY <1>2, <1>11
<1>13. PICK g : g = [i \in 1 .. count |-> f[at[i]]]
  OBVIOUS
<1>14. g \in Orders
  <2>0. g \in [1 .. count -> Headers] /\ \A i \in 1 .. count : g[i] = f[at[i]]
    BY <1>1, <1>2, <1>12, <1>13
  <2>1. at \in [1 .. count -> 1 .. count] /\ \A i \in 1 .. count : at[at[i]] = i /\ at[at[i]] = i
    BY <1>1, <1>12
  <2> QED  BY <2>0, <2>1, Moved
<1>15. \A i \in 1 .. n : g[i] = f[n + 1 - i]
  BY <1>1, <1>12, <1>13
<1>16. \A k \in 1 .. n : next[g[k]] = Place(g, k + 1)
  <2> SUFFICES ASSUME NEW k \in 1 .. n
               PROVE  next[g[k]] = Place(g, k + 1)
    OBVIOUS
  <2>1. CASE k = n
    <3>1. g[k] = f[1] /\ ~(k + 1 \in 1 .. count)
      BY <1>1, <1>2, <1>15, <2>1
    <3> QED  BY <1>8, <3>1 DEF Place
  <2>2. CASE k # n
    <3>1. /\ n + 1 - k \in 2 .. n /\ k + 1 \in 1 .. n /\ n + 1 - (k + 1) = (n + 1 - k) - 1
      BY <1>2, <2>2
    <3>2. next[f[n + 1 - k]] = f[(n + 1 - k) - 1]
      BY <1>9, <3>1
    <3>3. g[k] = f[n + 1 - k] /\ g[k + 1] = f[(n + 1 - k) - 1]
      BY <1>15, <3>1
    <3> QED  BY <1>1, <3>1, <3>2, <3>3 DEF Place
  <2> QED  BY <2>1, <2>2
<1>17. r.list = g[1]
  <2>1. 1 \in 1 .. n /\ n + 1 - 1 = n
    BY <1>2
  <2> QED  BY <1>7, <1>15, <2>1
<1>18. InHeap(r.heap, g)
  <2>1. r.heap = [next |-> next, info |-> items.info, data |-> items.data]
    BY <1>7
  <2> QED  BY <1>1, <1>10, <1>16, <2>1 DEF InHeap
<1> QED  BY <1>7, <1>14, <1>17, <1>18

\* The header behind the one found comes behind the head.
LEMMA MovedBehindHead ==
  ASSUME SortOK, 3 <= count, NEW g \in Orders, NEW h, InHeap(h, g), NEW i \in 1 .. count,
         NEW r, r = MoveBehindHead(h, g[1], g[i])
  PROVE  \E f \in Orders : f[1] = g[1] /\ InHeap(r, f) /\ r.info = h.info /\ r.data = h.data
<1>1. ListOK
  BY DEF SortOK
<1>2. PICK n, next : n = count /\ next = h.next
  OBVIOUS
<1>3. /\ n \in Nat \ {0} /\ 3 <= n /\ i \in 1 .. n /\ Null \notin Headers
      /\ \A k \in 1 .. n : g[k] \in Headers /\ g[k] # Null /\ Place(g, k) = g[k]
      /\ \A j, k \in 1 .. n : g[j] = g[k] => j = k
      /\ Place(g, n + 1) = Null
  BY <1>1, <1>2, Order
<1>4. /\ next \in [Headers -> Pointers] /\ \A k \in 1 .. n : next[g[k]] = Place(g, k + 1)
      /\ h = [next |-> next, info |-> h.info, data |-> h.data]
  BY <1>2 DEF InHeap
<1>5. CASE i = n
  <2>1. next[g[i]] = Null
    BY <1>3, <1>4, <1>5
  <2>2. r = h
    BY <1>2, <2>1 DEF MoveBehindHead
  <2> QED  BY <2>2
<1>6. CASE i # n
  <2>1. i + 1 \in 1 .. n /\ next[g[i]] = g[i + 1] /\ g[i + 1] # Null /\ g[i + 1] \in Headers
        /\ 1 \in 1 .. n /\ g[1] \in Headers /\ g[i] \in Headers /\ g[i + 1] # g[1] /\ g[i + 1] # g[i]
    <3>1. i + 1 \in 1 .. n /\ 1 \in 1 .. n /\ i + 1 # 1 /\ i + 1 # i
      BY <1>3, <1>6
    <3> QED  BY <1>3, <1>4, <3>1
  <2>2. PICK without, new : /\ without = [next EXCEPT ![g[i]] = next[g[i + 1]]]
                            /\ new = [without EXCEPT ![g[i + 1]] = without[g[1]], ![g[1]] = g[i + 1]]
    OBVIOUS
  <2>3. /\ DOMAIN without = Headers /\ without[g[i]] = next[g[i + 1]]
        /\ \A c \in Headers : c # g[i] => without[c] = next[c]
    BY <1>4, <2>1, <2>2
  <2>4. /\ new[g[1]] = g[i + 1] /\ new[g[i + 1]] = without[g[1]]
        /\ \A c \in Headers : c # g[1] /\ c # g[i + 1] => new[c] = without[c]
        /\ new \in [Headers -> Pointers]
    <3>1. without \in [Headers -> Pointers]
      BY <1>4, <2>1, <2>2
    <3>2. g[i + 1] \in Pointers
      BY <2>1 DEF Pointers
    <3> QED  BY <2>1, <2>2, <3>1, <3>2
  <2>5. r = [next |-> new, info |-> h.info, data |-> h.data]
    <3>1. r = [h EXCEPT !.next = new]
      BY <1>2, <2>1, <2>2 DEF MoveBehindHead
    <3> QED  BY <1>4, <3>1
  <2>6. PICK f : f = Rotated(g, 1, i)
    OBVIOUS
  <2>7. /\ f \in Orders /\ f[2] = g[i + 1] /\ f[1] = g[1]
        /\ \A k \in i + 2 .. n : f[k] = g[k]
        /\ \A k \in 3 .. i + 1 : f[k] = g[k - 1]
    <3>1. /\ 1 \in Nat /\ i \in Nat /\ 1 <= i /\ i < count
      BY <1>2, <1>3, <1>6
    <3>2. /\ f \in Orders /\ f[1 + 1] = g[i + 1]
          /\ \A k \in 1 .. count : k <= 1 \/ k > i + 1 => f[k] = g[k]
          /\ \A k \in 1 + 2 .. i + 1 : f[k] = g[k - 1]
      BY <2>6, <3>1, RotatedOrder
    <3>3. 1 \in 1 .. count /\ 1 + 1 = 2 /\ 1 + 2 = 3
          /\ \A k \in i + 2 .. n : k \in 1 .. count /\ k > i + 1
      BY <1>2, <1>3
    <3>4. f[1] = g[1] /\ \A k \in i + 2 .. n : f[k] = g[k]
      BY <3>2, <3>3
    <3> QED  BY <3>2, <3>3, <3>4
  <2>8. ASSUME NEW k \in 1 .. n
        PROVE  new[f[k]] = Place(f, k + 1)
    <3>1. \A j \in 1 .. n : Place(f, j) = f[j]
      BY <1>2 DEF Place
    <3>2. CASE k = 1
      <4>1. 2 \in 1 .. n /\ k + 1 = 2
        BY <1>3, <3>2
      <4> QED  BY <2>4, <2>7, <3>1, <3>2, <4>1
    <3>3. CASE k = 2 /\ i = 1
      <4>1. /\ 3 \in 1 .. n /\ 3 \in i + 2 .. n /\ k + 1 = 3 /\ i + 1 = 2 /\ (i + 1) + 1 = 3
        BY <1>3, <3>3
      <4>2. new[f[k]] = next[g[i + 1]]
        BY <2>3, <2>4, <2>7, <3>3
      <4>3. next[g[i + 1]] = g[3]
        BY <1>3, <1>4, <2>1, <4>1
      <4> QED  BY <2>7, <3>1, <4>1, <4>2, <4>3
    <3>4. CASE k = 2 /\ i # 1
      <4>1. /\ 3 \in 1 .. n /\ 3 \in 3 .. i + 1 /\ k + 1 = 3 /\ 3 - 1 = 2 /\ 1 + 1 = 2 /\ 2 \in 1 .. n
        BY <1>3, <3>4
      <4>2. g[1] # g[i]
        BY <1>3, <2>1, <3>4
      <4>3. new[f[k]] = next[g[1]]
        BY <2>1, <2>3, <2>4, <2>7, <3>4, <4>2
      <4>4. next[g[1]] = g[2]
        BY <1>3, <1>4, <2>1, <4>1
      <4> QED  BY <2>7, <3>1, <4>1, <4>3, <4>4
    <3>5. CASE 3 <= k /\ k <= i
      <4>1. /\ k \in 3 .. i + 1 /\ k + 1 \in 3 .. i + 1 /\ k - 1 \in 1 .. n /\ k + 1 \in 1 .. n
            /\ k - 1 # 1 /\ k - 1 # i /\ k - 1 # i + 1 /\ (k - 1) + 1 = k /\ (k + 1) - 1 = k
        BY <1>3, <1>6, <3>5
      <4>2. f[k] = g[k - 1] /\ f[k + 1] = g[k]
        BY <2>7, <4>1
      <4>3. g[k - 1] \in Headers /\ g[k - 1] # g[1] /\ g[k - 1] # g[i] /\ g[k - 1] # g[i + 1]
        BY <1>3, <2>1, <4>1
      <4>4. new[f[k]] = next[g[k - 1]]
        BY <2>3, <2>4, <4>2, <4>3
      <4>5. next[g[k - 1]] = g[k]
        BY <1>3, <1>4, <4>1
      <4> QED  BY <3>1, <4>1, <4>2, <4>4, <4>5
    <3>6. CASE 3 <= k /\ k = i + 1
      <4>1. /\ k \in 3 .. i + 1 /\ k - 1 = i /\ i # 1 /\ (i + 1) + 1 = i + 2 /\ k + 1 = i + 2
        BY <1>3, <3>6
      <4>2. f[k] = g[i] /\ g[i] # g[1] /\ g[i] # g[i + 1]
        BY <1>3, <2>1, <2>7, <4>1
      <4>3. new[f[k]] = next[g[i + 1]]
        BY <2>1, <2>3, <2>4, <4>2
      <4>4. next[g[i + 1]] = Place(g, i + 2)
        BY <1>4, <2>1, <4>1
      <4>5. Place(g, i + 2) = Place(f, i + 2)
        <5>1. i + 2 \in 1 .. count => i + 2 \in i + 2 .. n
          BY <1>2, <1>3
        <5> QED  BY <2>7, <5>1 DEF Place
      <4> QED  BY <4>1, <4>3, <4>4, <4>5
    <3>7. CASE k > i + 1 /\ k # 2
      <4>1. /\ k \in i + 2 .. n /\ k # 1 /\ k # i /\ k # i + 1
        BY <1>3, <3>7
      <4>2. f[k] = g[k] /\ g[k] \in Headers /\ g[k] # g[1] /\ g[k] # g[i] /\ g[k] # g[i + 1]
        BY <1>3, <2>1, <2>7, <4>1
      <4>3. new[f[k]] = next[g[k]]
        BY <2>3, <2>4, <4>2
      <4>4. Place(g, k + 1) = Place(f, k + 1)
        <5>1. k + 1 \in 1 .. count => k + 1 \in i + 2 .. n
          BY <1>2, <1>3, <4>1
        <5> QED  BY <2>7, <5>1 DEF Place
      <4> QED  BY <1>4, <4>3, <4>4
    <3> QED  BY <1>3, <1>6, <3>2, <3>3, <3>4, <3>5, <3>6, <3>7
  <2>9. r.next = new /\ r.info = h.info /\ r.data = h.data
    BY <2>5
  <2>10. InHeap(r, f)
    <3>1. r = [next |-> r.next, info |-> r.info, data |-> r.data]
      BY <2>5, <2>9
    <3> QED  BY <1>2, <2>4, <2>8, <2>9, <3>1 DEF InHeap
  <2> QED  BY <2>7, <2>9, <2>10
<1> QED  BY <1>5, <1>6

-----------------------------------------------------------------------------
\* The heap after a step, when the list is in order f in it.
LEMMA HeapIs ==
  ASSUME Inv, pc \notin Building, NEW f \in Orders, NEW h, InHeap(h, f), HeapBecomes(h),
         h.info \in [Headers -> Headers], h.data = items.data, UNCHANGED <<par, srt>>
  PROVE  /\ Headers' = Headers /\ count' = count /\ Orders' = Orders /\ Identity' = Identity
         /\ SortOK' /\ DataStay /\ Linked(f, 1, count)' /\ items'.info = h.info /\ links' = h.next
<1>1. /\ ListOK /\ SortOK /\ srt \in Locals /\ items \in Items
  BY AfterBuild
<1>2. /\ links' = h.next /\ items' = [info |-> h.info, data |-> items.data]
      /\ h.next \in [Headers -> Pointers]
      /\ \A k \in 1 .. count : h.next[f[k]] = Place(f, k + 1)
  BY DEF HeapBecomes, InHeap
<1>3. Headers' = Headers
  BY <1>2 DEF Headers
<1>4. /\ count' = count /\ Orders' = Orders /\ Identity' = Identity /\ Pointers' = Pointers
      /\ \A i : Place(f, i)' = Place(f, i)
  BY <1>3, SameHeaders
<1>5. SortOK'
  BY <1>1, <1>2, <1>3, <1>4 DEF SortOK, ListOK, Locals
<1>6. DataStay
  <2>1. items.data \in [Headers -> DataCells]
    BY <1>1 DEF Items
  <2>2. items' \in Items'
    BY <1>2, <1>3, <2>1 DEF Items
  <2>3. items'.data = items.data
    BY <1>2
  <2> QED  BY <1>3, <2>2, <2>3 DEF DataStay
<1>7. Linked(f, 1, count)'
  BY <1>2, <1>4 DEF Linked
<1>8. items'.info = h.info
  BY <1>2
<1> QED  BY <1>2, <1>3, <1>4, <1>5, <1>6, <1>7, <1>8

\* A step of the searches.
LEMMA FindGoesOn ==
  ASSUME Inv, pc = "find", pc' = "find", NEW f \in Orders, NEW h, InHeap(h, f),
         h.info = items.info, h.data = items.data, HeapBecomes(h),
         loc' \in BenchLocals, loc'.list = f[1],
         UNCHANGED <<par, text, mat, res, iter, srt, hist>>
  PROVE  Inv'
<1>1. pc \notin Building /\ pc' \notin Building
  BY DEF Building
<1>2. /\ items.info = Identity /\ iter \in 0 .. par.iterations /\ srt \in Locals
      /\ res \in Results /\ items \in Items
  BY <1>1, AfterBuild
<1>3. h.info \in [Headers -> Headers]
  BY <1>2 DEF Items
<1>4. /\ Headers' = Headers /\ count' = count /\ Orders' = Orders /\ Identity' = Identity
      /\ SortOK' /\ DataStay /\ Linked(f, 1, count)' /\ items'.info = h.info
  BY <1>1, <1>3, HeapIs
<1>5. ~Initialising /\ ~Initialising'
  BY DEF Initialising, Building, Sorting
<1>6. iter < par.iterations
  BY DEF Inv, Running, InIteration
<1>7. Types' /\ Running' /\ UnderWay' /\ Indexed' /\ History'
  BY <1>1, <1>2, <1>4, <1>5, <1>6, DataKept
<1>8. srt.to # "find"
  BY <1>2 DEF Locals
<1>9. AtWalk(f)'
  BY <1>4, <1>8 DEF AtWalk, ListFromTo
<1>10. InList'
  <2>1. srt.to # "remove"
    BY <1>1 DEF Inv, InList
  <2> QED  BY <1>1, <1>2, <1>4, <1>7, <1>9, <2>1 DEF InList, Sorting
<1> QED  BY <1>7, <1>10 DEF Inv

\* A header of a list carries a data cell with numbers in it.
LEMMA CellOfHeader ==
  ASSUME Inv, pc \notin Building, pc # "crc", NEW c \in Headers
  PROVE  DataOf(heap, c).hi \in Int /\ DataOf(heap, c).lo \in Int
<1>1. ListOK /\ items \in Items /\ items.info = Identity
  BY AfterBuild
<1>2. DataOf(heap, c) = items.data[c]
  BY <1>1, DataOfHeader
<1>3. items.data[c] \in DataCells
  BY <1>1 DEF Items
<1> QED  BY <1>2, <1>3, Widths DEF DataCells

\* A search, with the reversal and the move behind the head that follow.
LEMMA FindStep ==
  ASSUME Inv, Find
  PROVE  Inv'
<1>1. pc = "find" /\ pc' = "find" /\ UNCHANGED <<par, text, mat, res, iter, srt, hist>>
  BY DEF Find
<1>2. pc \notin Building
  BY <1>1 DEF Building
<1>3. /\ items.info = Identity /\ loc \in BenchLocals /\ SortOK /\ ListOK /\ items \in Items
      /\ count \in Nat \ {0} /\ 3 <= count /\ heap.next = links /\ Used(heap) = count
  BY <1>1, <1>2, AfterBuild
<1>4. PICK f \in Orders : AtWalk(f)
  BY <1>1, <1>2 DEF Inv, InList
<1>5. loc.list = f[1] /\ Linked(f, 1, count)
  BY <1>4 DEF AtWalk, ListFromTo
<1>6. PICK wanted, this, rev :
         /\ wanted = [idx |-> loc.idx, data16 |-> loc.i % 256]
         /\ this = core_list_find(heap, loc.list, wanted)
         /\ rev = core_list_reverse(heap, loc.list)
  OBVIOUS
<1>7. PICK g \in Orders : /\ rev.list = g[1] /\ InHeap(rev.heap, g)
                          /\ rev.heap.info = items.info /\ rev.heap.data = items.data
  BY <1>3, <1>5, <1>6, Reversed
<1>8. PICK missed, used, after :
         /\ missed = DataOf(heap, rev.heap.next[rev.list]).hi % 2
         /\ used = LET d == DataOf(heap, this)
                   IN  IF d.lo % 2 = 1 THEN (d.hi \div 2) % 2 ELSE 0
         /\ after = [loc EXCEPT !.i = @ + 1, !.list = rev.list, !.data16 = wanted.data16,
                                !.idx = IF @ >= 0 THEN S16(@ + 1) ELSE @]
  OBVIOUS
<1>9. IF this = Null
      THEN /\ loc' = [after EXCEPT !.missed = @ + 1, !.retval = U16(@ + missed)]
           /\ HeapBecomes(rev.heap)
      ELSE /\ loc' = [after EXCEPT !.found = @ + 1, !.retval = U16(@ + used)]
           /\ HeapBecomes(MoveBehindHead(rev.heap, rev.list, this))
  BY <1>6, <1>8 DEF Find
<1>10. \A i \in 1 .. count : g[i] \in Headers
  BY <1>3, Order
<1>11. after \in BenchLocals /\ after.list = g[1]
  <2>1. g[1] \in Pointers
    BY <1>3, <1>10 DEF Pointers
  <2>2. loc.i + 1 \in Nat /\ wanted.data16 \in Int
    BY <1>3, <1>6 DEF BenchLocals
  <2>3. PICK x : x = IF loc.idx >= 0 THEN S16(loc.idx + 1) ELSE loc.idx
    OBVIOUS
  <2>4. x \in Int
    <3>1. loc.idx \in Int /\ loc.idx + 1 \in Int
      BY <1>3 DEF BenchLocals
    <3>2. U16(loc.idx + 1) \in Int
      BY <3>1, U16IsWord, Widths
    <3> QED  BY <2>3, <3>1, <3>2 DEF S16
  <2>5. after = [loc EXCEPT !.i = loc.i + 1, !.list = g[1], !.data16 = wanted.data16, !.idx = x]
    BY <1>3, <1>7, <1>8, <2>3 DEF BenchLocals
  <2> QED  BY <1>3, <2>1, <2>2, <2>4, <2>5 DEF BenchLocals
<1>12. missed \in Int
  <2>1. rev.heap.next[g[1]] = g[2] /\ g[2] \in Headers
    <3>1. 1 \in 1 .. count /\ 2 \in 1 .. count /\ 1 + 1 = 2
      BY <1>3
    <3>2. rev.heap.next[g[1]] = Place(g, 2)
      BY <1>7, <3>1 DEF InHeap
    <3> QED  BY <1>10, <3>1, <3>2 DEF Place
  <2>2. DataOf(heap, g[2]).hi \in Int
    BY <1>1, <1>2, <2>1, CellOfHeader
  <2> QED  BY <1>7, <1>8, <2>1, <2>2
<1>13. CASE this = Null
  <2>1. U16(after.retval + missed) \in Halfwords
    <3>1. after.retval \in Halfwords
      BY <1>11 DEF BenchLocals
    <3>2. after.retval + missed \in Int
      BY <1>12, <3>1, Widths
    <3> QED  BY <3>2, U16IsWord
  <2>2. after.missed + 1 \in Int
    BY <1>11 DEF BenchLocals
  <2>3. loc' \in BenchLocals /\ loc'.list = g[1]
    BY <1>9, <1>11, <1>13, <2>1, <2>2 DEF BenchLocals
  <2>4. HeapBecomes(rev.heap)
    BY <1>9, <1>13
  <2> QED  BY <1>1, <1>7, <2>3, <2>4, FindGoesOn
<1>14. CASE this # Null
  <2>1. PICK i \in 1 .. count : this = f[i]
    <3>1. f \in Seq(Headers) /\ Len(f) = count
      BY <1>3, Order, OrderIsSeq
    <3>2. ListFrom(heap, loc.list) = f
      BY <1>3, <1>5, WholeList DEF ListFrom
    <3> QED  BY <1>6, <1>14, <3>1, <3>2, FindIs
  <2>2. this \in Headers
    BY <1>3, <2>1, Order
  <2>3. PICK j \in 1 .. count : this = g[j]
    <3>1. \A c \in Headers : \E l \in 1 .. count : g[l] = c
      BY <1>3, Order
    <3>2. \E l \in 1 .. count : g[l] = this
      BY <2>2, <3>1
    <3> QED  BY <3>2
  <2>4. used \in Int
    <3>1. DataOf(heap, this).hi \in Int /\ DataOf(heap, this).lo \in Int
      BY <1>1, <1>2, <2>2, CellOfHeader
    <3> QED  BY <1>8, <3>1
  <2>5. U16(after.retval + used) \in Halfwords
    <3>1. after.retval \in Halfwords
      BY <1>11 DEF BenchLocals
    <3>2. after.retval + used \in Int
      BY <2>4, <3>1, Widths
    <3> QED  BY <3>2, U16IsWord
  <2>6. after.found + 1 \in Int
    BY <1>11 DEF BenchLocals
  <2>7. loc' \in BenchLocals /\ loc'.list = g[1]
    BY <1>9, <1>11, <1>14, <2>5, <2>6 DEF BenchLocals
  <2>8. PICK hp : hp = MoveBehindHead(rev.heap, g[1], g[j])
    OBVIOUS
  <2>9. PICK k \in Orders : /\ k[1] = g[1] /\ InHeap(hp, k)
                            /\ hp.info = rev.heap.info /\ hp.data = rev.heap.data
    BY <1>3, <1>7, <2>8, MovedBehindHead
  <2>10. HeapBecomes(hp)
    BY <1>7, <1>9, <1>14, <2>3, <2>8
  <2>11. hp.info = items.info /\ hp.data = items.data /\ loc'.list = k[1]
    BY <1>7, <2>7, <2>9
  <2> QED  BY <1>1, <2>7, <2>9, <2>10, <2>11, FindGoesOn
<1> QED  BY <1>13, <1>14

-----------------------------------------------------------------------------
\* The third item is taken out of the list, and comes last in the order.
LEMMA RemoveStep ==
  ASSUME Inv, Remove
  PROVE  Inv'
<1>1. /\ pc = "remove" /\ pc' = "crc" /\ UNCHANGED <<par, text, mat, res, iter, srt, hist>>
  BY DEF Remove
<1>2. pc \notin Building /\ pc' \notin Building
  BY <1>1 DEF Building
<1>3. /\ items.info = Identity /\ loc \in BenchLocals /\ SortOK /\ ListOK /\ items \in Items
      /\ srt \in Locals /\ res \in Results
      /\ iter \in 0 .. par.iterations /\ count \in Nat \ {0} /\ 3 <= count
  BY <1>1, <1>2, AfterBuild
<1>4. PICK f \in Orders : AtWalk(f)
  BY <1>1, <1>2 DEF Inv, InList
<1>5. loc.list = f[1] /\ Linked(f, 1, count)
  BY <1>4 DEF AtWalk, ListFromTo
<1>6. PICK n : n = count
  OBVIOUS
<1>7. /\ n \in Nat \ {0} /\ 3 <= n /\ Null \notin Headers /\ links \in [Headers -> Pointers]
      /\ \A k \in 1 .. n : f[k] \in Headers /\ Place(f, k) = f[k]
      /\ \A j, k \in 1 .. n : f[j] = f[k] => j = k
      /\ \A k \in 1 .. n : links[f[k]] = Place(f, k + 1)
      /\ Place(f, n + 1) = Null
  <2>1. \A k \in 1 .. n : links[f[k]] = Place(f, k + 1)
    BY <1>5, <1>6 DEF Linked
  <2>2. links \in [Headers -> Pointers]
    BY <1>3 DEF ListOK
  <2> QED  BY <1>3, <1>6, <2>1, <2>2, Order
<1>8. /\ 1 \in 1 .. n /\ 2 \in 1 .. n /\ 3 \in 1 .. n /\ 1 + 1 = 2 /\ 2 + 1 = 3 /\ 3 + 1 = 4
      /\ f[1] \in Headers /\ f[2] \in Headers /\ f[3] \in Headers
      /\ f[1] # f[2] /\ f[1] # f[3] /\ f[2] # f[3]
      /\ links[f[1]] = f[2] /\ links[f[2]] = f[3] /\ links[f[3]] = Place(f, 4)
  <2>1. 1 \in 1 .. n /\ 2 \in 1 .. n /\ 3 \in 1 .. n /\ 1 + 1 = 2 /\ 2 + 1 = 3 /\ 3 + 1 = 4
    BY <1>7
  <2> QED  BY <1>7, <2>1
\* The step.
<1>9. PICK found : /\ found = core_list_find(heap', loc.list, loc)
                   /\ loc' = [loc EXCEPT !.remover = heap.next[heap.next[loc.list]],
                                         !.finder = IF found = Null THEN heap'.next[loc.list]
                                                    ELSE found]
  BY DEF Remove
<1>10. PICK next, info : /\ next = [links EXCEPT ![f[2]] = links[f[3]], ![f[3]] = Null]
                         /\ info = [Identity EXCEPT ![f[2]] = f[3], ![f[3]] = f[2]]
  OBVIOUS
<1>11. PICK h : h = [next |-> next, info |-> info, data |-> items.data]
  OBVIOUS
<1>12. HeapBecomes(h)
  <2>1. core_list_remove(heap, f[2]) = [next |-> next, info |-> info, data |-> items.data]
    <3>1. heap = [next |-> links, info |-> Identity, data |-> items.data]
      BY <1>3 DEF heap
    <3>2. Identity[f[2]] = f[2] /\ Identity[f[3]] = f[3]
      BY <1>8 DEF Identity
    <3>3. PICK hp : hp = heap
      OBVIOUS
    <3>4. /\ hp = [next |-> links, info |-> Identity, data |-> items.data]
          /\ hp.next[f[2]] = f[3] /\ hp.next[f[3]] = links[f[3]]
          /\ hp.info[f[2]] = f[2] /\ hp.info[f[3]] = f[3]
      BY <1>8, <3>1, <3>2, <3>3
    <3>5. core_list_remove(hp, f[2]) =
            [hp EXCEPT !.info[f[2]] = f[3], !.info[f[3]] = f[2],
                       !.next[f[2]] = links[f[3]], !.next[f[3]] = Null]
      BY <3>4 DEF core_list_remove
    <3>6. [hp EXCEPT !.info[f[2]] = f[3], !.info[f[3]] = f[2],
                     !.next[f[2]] = links[f[3]], !.next[f[3]] = Null]
            = [next |-> [links EXCEPT ![f[2]] = links[f[3]], ![f[3]] = Null],
               info |-> [Identity EXCEPT ![f[2]] = f[3], ![f[3]] = f[2]], data |-> items.data]
      <4>1. PICK r1 : r1 = [hp EXCEPT !.info[f[2]] = f[3]]
        OBVIOUS
      <4>2. r1 = [next |-> links, info |-> [Identity EXCEPT ![f[2]] = f[3]], data |-> items.data]
        BY <3>4, <4>1
      <4>3. PICK r2 : r2 = [r1 EXCEPT !.info[f[3]] = f[2]]
        OBVIOUS
      <4>4. r2 = [next |-> links, info |-> [Identity EXCEPT ![f[2]] = f[3], ![f[3]] = f[2]],
                  data |-> items.data]
        BY <4>2, <4>3
      <4>5. PICK r3 : r3 = [r2 EXCEPT !.next[f[2]] = links[f[3]]]
        OBVIOUS
      <4>6. r3 = [next |-> [links EXCEPT ![f[2]] = links[f[3]]],
                  info |-> [Identity EXCEPT ![f[2]] = f[3], ![f[3]] = f[2]], data |-> items.data]
        BY <4>4, <4>5
      <4>7. PICK r4 : r4 = [r3 EXCEPT !.next[f[3]] = Null]
        OBVIOUS
      <4>8. r4 = [next |-> [links EXCEPT ![f[2]] = links[f[3]], ![f[3]] = Null],
                  info |-> [Identity EXCEPT ![f[2]] = f[3], ![f[3]] = f[2]], data |-> items.data]
        BY <4>6, <4>7
      <4> QED  BY <4>1, <4>3, <4>5, <4>7, <4>8
    <3>7. core_list_remove(hp, f[2]) =
            [next |-> [links EXCEPT ![f[2]] = links[f[3]], ![f[3]] = Null],
             info |-> [Identity EXCEPT ![f[2]] = f[3], ![f[3]] = f[2]], data |-> items.data]
      BY <3>5, <3>6
    <3> QED  BY <1>10, <3>3, <3>7
  <2>2. heap.next[loc.list] = f[2]
    BY <1>5, <1>8 DEF heap
  <2> QED  BY <1>11, <2>1, <2>2 DEF Remove
\* The order.
<1>13. PICK at, back :
          /\ at = [k \in 1 .. n |-> IF k <= 2 THEN k ELSE IF k < n THEN k + 1 ELSE 3]
          /\ back = [k \in 1 .. n |-> IF k <= 2 THEN k ELSE IF k = 3 THEN n ELSE k - 1]
  OBVIOUS
<1>14. /\ at \in [1 .. n -> 1 .. n] /\ back \in [1 .. n -> 1 .. n]
       /\ \A k \in 1 .. n : back[at[k]] = k /\ at[back[k]] = k
  <2>1. at \in [1 .. n -> 1 .. n] /\ back \in [1 .. n -> 1 .. n]
    BY <1>7, <1>13
  <2>2. \A k \in 1 .. n : back[at[k]] = k
    BY <1>7, <1>13, <2>1
  <2>3. \A k \in 1 .. n : at[back[k]] = k
    BY <1>7, <1>13, <2>1
  <2> QED  BY <2>1, <2>2, <2>3
<1>15. PICK g : g = [k \in 1 .. count |-> f[at[k]]]
  OBVIOUS
<1>16. g \in Orders
  <2>1. /\ at \in [1 .. count -> 1 .. count] /\ back \in [1 .. count -> 1 .. count]
        /\ \A k \in 1 .. count : back[at[k]] = k /\ at[back[k]] = k
    BY <1>6, <1>14
  <2>2. g \in [1 .. count -> Headers] /\ \A k \in 1 .. count : g[k] = f[at[k]]
    BY <1>6, <1>7, <1>15, <2>1
  <2>3. ListOK /\ f \in Orders
    BY <1>3, <1>4
  <2> QED  BY <2>1, <2>2, <2>3, Moved
<1>17. /\ g[1] = f[1] /\ g[2] = f[2] /\ g[n] = f[3]
       /\ \A k \in 3 .. n - 1 : g[k] = f[k + 1]
  <2>1. n \in 1 .. n /\ \A k \in 3 .. n - 1 : k \in 1 .. n /\ at[k] = k + 1
    BY <1>7, <1>13
  <2>2. at[1] = 1 /\ at[2] = 2 /\ at[n] = 3
    BY <1>7, <1>8, <1>13, <2>1
  <2> QED  BY <1>6, <1>8, <1>15, <2>1, <2>2
\* The links.
<1>18. /\ next \in [Headers -> Pointers] /\ next[f[2]] = Place(f, 4) /\ next[f[3]] = Null
       /\ \A c \in Headers : c # f[2] /\ c # f[3] => next[c] = links[c]
       /\ info \in [Headers -> Headers]
       /\ info = [Identity EXCEPT ![g[2]] = g[n], ![g[n]] = g[2]]
  <2>1. Null \in Pointers /\ links[f[3]] \in Pointers
    BY <1>7, <1>8 DEF Pointers
  <2>2. Identity \in [Headers -> Headers]
    BY DEF Identity
  <2> QED  BY <1>7, <1>8, <1>10, <1>17, <2>1, <2>2
<1>19. \A k \in 1 .. n - 2 : next[g[k]] = g[k + 1]
  <2> SUFFICES ASSUME NEW k \in 1 .. n - 2
               PROVE  next[g[k]] = g[k + 1]
    OBVIOUS
  <2>1. CASE k = 1
    BY <1>8, <1>17, <1>18, <2>1
  <2>2. CASE k = 2
    <3>1. 3 \in 3 .. n - 1 /\ 4 \in 1 .. n
      BY <1>7, <2>2
    <3>2. g[3] = f[4] /\ Place(f, 4) = f[4]
      BY <1>7, <1>8, <1>17, <3>1
    <3> QED  BY <1>8, <1>17, <1>18, <2>2, <3>2
  <2>3. CASE k # 1 /\ k # 2
    <3>1. /\ k \in 3 .. n - 1 /\ k + 1 \in 3 .. n - 1 /\ k + 1 \in 1 .. n /\ (k + 1) + 1 \in 1 .. n
          /\ k + 1 # 2 /\ k + 1 # 3
      BY <1>7, <2>3
    <3>2. g[k] = f[k + 1] /\ g[k + 1] = f[(k + 1) + 1]
      BY <1>17, <3>1
    <3>3. f[k + 1] # f[2] /\ f[k + 1] # f[3] /\ f[k + 1] \in Headers
      BY <1>7, <1>8, <3>1
    <3>4. links[f[k + 1]] = f[(k + 1) + 1]
      BY <1>7, <3>1
    <3> QED  BY <1>18, <3>2, <3>3, <3>4
  <2> QED  BY <2>1, <2>2, <2>3
<1>20. next[g[n - 1]] = Null
  <2>1. CASE n = 3
    <3>1. g[n - 1] = f[2] /\ Place(f, 4) = Null
      BY <1>7, <1>8, <1>17, <2>1
    <3> QED  BY <1>18, <3>1
  <2>2. CASE n # 3
    <3>1. n - 1 \in 3 .. n - 1 /\ (n - 1) + 1 = n /\ n \in 1 .. n /\ n # 2
      BY <1>7, <2>2
    <3>2. g[n - 1] = f[n] /\ f[n] # f[2] /\ f[n] # f[3] /\ f[n] \in Headers
      BY <1>7, <1>8, <1>17, <2>2, <3>1
    <3>3. links[f[n]] = Null
      BY <1>7, <3>1
    <3> QED  BY <1>18, <3>2, <3>3
  <2> QED  BY <2>1, <2>2
\* What is said of the state after it.
<1>21. links' = next /\ items' = [info |-> info, data |-> items.data]
  BY <1>11, <1>12 DEF HeapBecomes
<1>22. /\ Headers' = Headers /\ DOMAIN links' = Headers
  BY <1>18, <1>21 DEF Headers
<1>23. /\ count' = count /\ Orders' = Orders /\ Pointers' = Pointers /\ Identity' = Identity
       /\ \A i : Place(g, i)' = Place(g, i)
  BY <1>22, SameHeaders
<1>24. SortOK'
  BY <1>1, <1>3, <1>18, <1>21, <1>22, <1>23 DEF SortOK, ListOK, Locals
<1>25. DataStay
  <2>1. items.data \in [Headers -> DataCells]
    BY <1>3 DEF Items
  <2>2. items' \in Items'
    BY <1>18, <1>21, <1>22, <2>1 DEF Items
  <2>3. items'.data = items.data
    BY <1>21
  <2> QED  BY <1>1, <1>22, <2>2, <2>3 DEF DataStay
<1>26. found = Null \/ found \in Headers
  <2>1. PICK hp : hp = heap'
    OBVIOUS
  <2>2. hp.next = next /\ Used(hp) = n
    <3>1. hp.next = next
      BY <1>21, <2>1 DEF heap
    <3>2. Used(hp) = count'
      BY <2>1 DEF count
    <3> QED  BY <1>6, <1>23, <3>1, <3>2
  <2>3. PICK S, s, i, j : S = Headers /\ s = SubSeq(g, 1, n - 1) /\ i = 1 /\ j = n - 1
    OBVIOUS
  <2>4. g \in [1 .. n -> S] /\ Null \notin S /\ DOMAIN next = S
    BY <1>6, <1>7, <1>16, <1>18, <2>3 DEF Orders
  <2>5. /\ ListOK /\ g \in Orders /\ DOMAIN next = Headers
        /\ i \in 1 .. count /\ j \in i .. count /\ n \in Nat \ {0} /\ n >= j + 1 - i
        /\ \A k \in i .. j - 1 : next[g[k]] = g[k + 1]
        /\ next[g[j]] = Null
    <3>1. j - 1 = n - 2 /\ i = 1 /\ j \in 1 .. n /\ n >= j + 1 - 1 /\ n \in Nat \ {0}
      BY <1>7, <2>3
    <3> QED  BY <1>3, <1>6, <1>8, <1>16, <1>19, <1>20, <2>3, <2>4, <3>1
  <2>6. Chain(next, g[i], n) = SubSeq(g, i, j)
    BY <2>5, PartOfList
  <2>7. ListFrom(hp, loc.list) = s
    BY <1>5, <1>17, <2>2, <2>3, <2>6 DEF ListFrom
  <2>8. s \in Seq(S) /\ \A k \in 1 .. Len(s) : s[k] \in S
    <3>1. g \in Seq(S) /\ Len(g) = n
      BY <1>7, <2>4, OrderIsSeq
    <3>2. s \in Seq(S)
      BY <2>3, <2>5, <3>1, SubSeqProperties
    <3> QED  BY <3>2, ElementOfSeq
  <2>9. found = core_list_find(hp, loc.list, loc)
    BY <1>9, <2>1
  <2>10. found = Null \/ \E k \in 1 .. Len(s) : found = s[k]
    BY <2>7, <2>8, <2>9, FindIs
  <2> QED  BY <2>3, <2>8, <2>10
<1>27. /\ loc' \in BenchLocals /\ loc'.list = loc.list /\ loc'.remover = f[3]
  <2>1. heap.next[heap.next[loc.list]] = f[3] /\ heap'.next[loc.list] = next[f[1]]
    BY <1>5, <1>8, <1>21 DEF heap
  <2>2. PICK x : x = IF found = Null THEN next[f[1]] ELSE found
    OBVIOUS
  <2>3. x \in Pointers /\ f[3] \in Pointers
    BY <1>8, <1>18, <1>26, <2>2 DEF Pointers
  <2>4. loc' = [loc EXCEPT !.remover = f[3], !.finder = x]
    BY <1>9, <2>1, <2>2
  <2> QED  BY <1>3, <2>3, <2>4 DEF BenchLocals
<1>28. ~Initialising /\ ~Initialising' /\ iter < par.iterations
  BY <1>1 DEF Initialising, Building, Sorting, Inv, Running, InIteration
<1>29. Types' /\ Running' /\ UnderWay' /\ Indexed' /\ History'
  BY <1>1, <1>2, <1>3, <1>24, <1>25, <1>27, <1>28, DataKept
<1>30. AtCrc(g)'
  <2>1. Linked(g, 1, count - 2)'
    <3>1. \A k \in 1 .. n - 2 : k + 1 \in 1 .. count
      BY <1>6, <1>7
    <3>2. \A k \in 1 .. n - 2 : links'[g[k]] = Place(g, k + 1)
      BY <1>19, <1>21, <3>1 DEF Place
    <3> QED  BY <1>6, <1>23, <3>2 DEF Linked
  <2>2. items'.info = info
    BY <1>21
  <2> QED  BY <1>5, <1>6, <1>17, <1>18, <1>20, <1>21, <1>23, <1>27, <2>1, <2>2 DEF AtCrc
<1>31. InList'
  BY <1>1, <1>2, <1>16, <1>23, <1>24, <1>29, <1>30 DEF InList, Sorting
<1> QED  BY <1>29, <1>31 DEF Inv

-----------------------------------------------------------------------------
\* The removed item comes back behind the second, and the list is sorted by index.
LEMMA UndoStep ==
  ASSUME Inv, Undo
  PROVE  Inv'
<1>1. /\ pc = "crc" /\ UNCHANGED <<par, text, mat, res, iter, loc, hist>>
      /\ HeapBecomes(core_list_undo_remove(heap, loc.remover, heap.next[loc.list]))
      /\ Sort(links', loc.list, "idx", "recrc")
  BY DEF Undo
<1>2. pc \notin Building
  BY <1>1 DEF Building
<1>3. /\ loc \in BenchLocals /\ SortOK /\ ListOK /\ items \in Items /\ res \in Results
      /\ srt \in Locals /\ iter \in 0 .. par.iterations /\ count \in Nat \ {0} /\ 3 <= count
  BY <1>2, AfterBuild
<1>4. PICK g \in Orders : AtCrc(g)
  BY <1>1, <1>2 DEF Inv, InList
<1>5. PICK n : n = count
  OBVIOUS
<1>6. /\ n \in Nat \ {0} /\ 3 <= n /\ links \in [Headers -> Pointers]
      /\ \A k \in 1 .. n : g[k] \in Headers /\ Place(g, k) = g[k]
      /\ \A j, k \in 1 .. n : g[j] = g[k] => j = k
  <2>1. links \in [Headers -> Pointers]
    BY <1>3 DEF ListOK
  <2> QED  BY <1>3, <1>4, <1>5, <2>1, Order
<1>7. /\ loc.list = g[1] /\ loc.remover = g[n]
      /\ \A k \in 1 .. n - 2 : links[g[k]] = g[k + 1]
      /\ links[g[n - 1]] = Null
      /\ items.info = [Identity EXCEPT ![g[2]] = g[n], ![g[n]] = g[2]]
  <2>1. \A k \in 1 .. n - 2 : links[g[k]] = Place(g, k + 1)
    BY <1>4, <1>5 DEF AtCrc, Linked
  <2>2. \A k \in 1 .. n - 2 : k + 1 \in 1 .. n
    BY <1>6
  <2> QED  BY <1>4, <1>5, <1>6, <2>1, <2>2 DEF AtCrc
<1>8. /\ 1 \in 1 .. n /\ 2 \in 1 .. n /\ n \in 1 .. n /\ 1 \in 1 .. n - 2 /\ 1 + 1 = 2 /\ n # 1 /\ n # 2
      /\ g[1] \in Headers /\ g[2] \in Headers /\ g[n] \in Headers
      /\ g[1] # g[2] /\ g[1] # g[n] /\ g[2] # g[n] /\ links[g[1]] = g[2]
  <2>1. 1 \in 1 .. n /\ 2 \in 1 .. n /\ n \in 1 .. n /\ 1 \in 1 .. n - 2 /\ 1 + 1 = 2 /\ n # 1 /\ n # 2
    BY <1>6
  <2> QED  BY <1>6, <1>7, <2>1
<1>9. PICK next : next = [links EXCEPT ![g[n]] = links[g[2]], ![g[2]] = g[n]]
  OBVIOUS
<1>10. /\ next \in [Headers -> Pointers] /\ next[g[n]] = links[g[2]] /\ next[g[2]] = g[n]
       /\ \A c \in Headers : c # g[2] /\ c # g[n] => next[c] = links[c]
  <2>1. g[n] \in Pointers /\ links[g[2]] \in Pointers
    BY <1>6, <1>8 DEF Pointers
  <2> QED  BY <1>6, <1>8, <1>9, <2>1
<1>11. PICK h : h = [next |-> next, info |-> Identity, data |-> items.data]
  OBVIOUS
<1>12. HeapBecomes(h)
  <2>1. PICK hp : hp = heap
    OBVIOUS
  <2>2. /\ hp = [next |-> links, info |-> items.info, data |-> items.data]
        /\ hp.next = links /\ hp.info = items.info
    BY <2>1 DEF heap
  <2>3. /\ items.info[g[2]] = g[n] /\ items.info[g[n]] = g[2]
        /\ [items.info EXCEPT ![g[n]] = g[n], ![g[2]] = g[2]] = Identity
    BY <1>7, <1>8 DEF Identity
  <2>4. core_list_undo_remove(hp, g[n], g[2]) =
          [hp EXCEPT !.info[g[n]] = g[n], !.info[g[2]] = g[2],
                     !.next[g[n]] = links[g[2]], !.next[g[2]] = g[n]]
    BY <2>2, <2>3 DEF core_list_undo_remove
  <2>5. [hp EXCEPT !.info[g[n]] = g[n], !.info[g[2]] = g[2],
                   !.next[g[n]] = links[g[2]], !.next[g[2]] = g[n]]
          = [next |-> [links EXCEPT ![g[n]] = links[g[2]], ![g[2]] = g[n]],
             info |-> [items.info EXCEPT ![g[n]] = g[n], ![g[2]] = g[2]], data |-> items.data]
    <3>1. PICK r1 : r1 = [hp EXCEPT !.info[g[n]] = g[n]]
      OBVIOUS
    <3>2. r1 = [next |-> links, info |-> [items.info EXCEPT ![g[n]] = g[n]], data |-> items.data]
      BY <2>2, <3>1
    <3>3. PICK r2 : r2 = [r1 EXCEPT !.info[g[2]] = g[2]]
      OBVIOUS
    <3>4. r2 = [next |-> links, info |-> [items.info EXCEPT ![g[n]] = g[n], ![g[2]] = g[2]],
                data |-> items.data]
      BY <3>2, <3>3
    <3>5. PICK r3 : r3 = [r2 EXCEPT !.next[g[n]] = links[g[2]]]
      OBVIOUS
    <3>6. r3 = [next |-> [links EXCEPT ![g[n]] = links[g[2]]],
                info |-> [items.info EXCEPT ![g[n]] = g[n], ![g[2]] = g[2]], data |-> items.data]
      BY <3>4, <3>5
    <3>7. PICK r4 : r4 = [r3 EXCEPT !.next[g[2]] = g[n]]
      OBVIOUS
    <3>8. r4 = [next |-> [links EXCEPT ![g[n]] = links[g[2]], ![g[2]] = g[n]],
                info |-> [items.info EXCEPT ![g[n]] = g[n], ![g[2]] = g[2]], data |-> items.data]
      BY <3>6, <3>7
    <3> QED  BY <3>1, <3>3, <3>5, <3>7, <3>8
  <2>6. core_list_undo_remove(heap, loc.remover, heap.next[loc.list]) = h
    BY <1>7, <1>8, <1>9, <1>11, <2>1, <2>2, <2>3, <2>4, <2>5
  <2> QED  BY <1>1, <2>6
\* The order.
<1>13. PICK f : f = Rotated(g, 2, n - 1)
  OBVIOUS
<1>14. /\ f \in Orders /\ f[1] = g[1] /\ f[2] = g[2] /\ f[3] = g[n]
       /\ \A k \in 4 .. n : f[k] = g[k - 1]
  <2>1. PICK m, r : m = 2 /\ r = n - 1
    OBVIOUS
  <2>2. m \in Nat /\ r \in Nat /\ m <= r /\ r < count /\ r + 1 = n /\ f = Rotated(g, m, r)
    BY <1>5, <1>6, <1>13, <2>1
  <2>3. /\ f \in Orders /\ f[m + 1] = g[r + 1]
        /\ \A k \in 1 .. count : k <= m \/ k > r + 1 => f[k] = g[k]
        /\ \A k \in m + 2 .. r + 1 : f[k] = g[k - 1]
    BY <1>3, <1>4, <2>2, RotatedOrder
  <2>4. m + 1 = 3 /\ m + 2 = 4 /\ 1 \in 1 .. count /\ 2 \in 1 .. count /\ 1 <= m /\ 2 <= m
    BY <1>5, <1>8, <2>1
  <2> QED  BY <2>2, <2>3, <2>4
<1>15. \A k \in 1 .. n : next[f[k]] = Place(f, k + 1)
  <2> SUFFICES ASSUME NEW k \in 1 .. n
               PROVE  next[f[k]] = Place(f, k + 1)
    OBVIOUS
  <2>1. \A j \in 1 .. n : Place(f, j) = f[j]
    BY <1>5 DEF Place
  <2>2. CASE k = 1
    BY <1>8, <1>10, <1>14, <2>1, <2>2
  <2>3. CASE k = 2
    <3>1. 2 + 1 = 3 /\ 3 \in 1 .. n
      BY <1>6
    <3> QED  BY <1>10, <1>14, <2>1, <2>3, <3>1
  <2>4. CASE k = 3 /\ n = 3
    <3>1. n - 1 = 2 /\ ~(k + 1 \in 1 .. count)
      BY <1>5, <2>4
    <3> QED  BY <1>7, <1>10, <1>14, <2>4, <3>1 DEF Place
  <2>5. CASE k = 3 /\ n # 3
    <3>1. 2 \in 1 .. n - 2 /\ 2 + 1 = 3 /\ 4 \in 4 .. n /\ 4 - 1 = 3 /\ k + 1 = 4 /\ 4 \in 1 .. n
      BY <1>6, <2>5
    <3>2. links[g[2]] = g[3] /\ f[4] = g[3]
      BY <1>7, <1>14, <3>1
    <3> QED  BY <1>10, <1>14, <2>1, <2>5, <3>1, <3>2
  <2>6. CASE k >= 4
    <3>1. /\ k \in 4 .. n /\ k - 1 \in 1 .. n /\ k - 1 # 2 /\ k - 1 # n /\ (k - 1) + 1 = k
      BY <1>6, <2>6
    <3>2. f[k] = g[k - 1] /\ g[k - 1] \in Headers /\ g[k - 1] # g[2] /\ g[k - 1] # g[n]
      BY <1>6, <1>8, <1>14, <3>1
    <3>3. next[f[k]] = links[g[k - 1]]
      BY <1>10, <3>2
    <3>4. CASE k = n
      <4>1. ~(k + 1 \in 1 .. count)
        BY <1>5, <1>6, <3>4
      <4> QED  BY <1>7, <3>3, <3>4, <4>1 DEF Place
    <3>5. CASE k # n
      <4>1. k - 1 \in 1 .. n - 2 /\ k + 1 \in 4 .. n /\ k + 1 \in 1 .. n /\ (k + 1) - 1 = k
        BY <1>6, <2>6, <3>5
      <4>2. links[g[k - 1]] = g[k] /\ f[k + 1] = g[k]
        BY <1>7, <1>14, <3>1, <4>1
      <4> QED  BY <2>1, <3>3, <4>1, <4>2
    <3> QED  BY <3>4, <3>5
  <2> QED  BY <1>6, <2>2, <2>3, <2>4, <2>5, <2>6
\* What is said of the state after it.
<1>16. links' = next /\ items' = [info |-> Identity, data |-> items.data] /\ items'.info = Identity
  BY <1>11, <1>12 DEF HeapBecomes
<1>17. Headers' = Headers
  BY <1>10, <1>16 DEF Headers
<1>18. /\ count' = count /\ Orders' = Orders /\ Pointers' = Pointers /\ Identity' = Identity
       /\ \A i : Place(f, i)' = Place(f, i)
  BY <1>17, SameHeaders
<1>19. ListOK' /\ Linked(f, 1, count)'
  <2>1. ListOK'
    BY <1>3, <1>10, <1>16, <1>17, <1>18 DEF ListOK
  <2>2. Linked(f, 1, count)'
    BY <1>5, <1>15, <1>16, <1>18 DEF Linked
  <2> QED  BY <2>1, <2>2
<1>20. /\ pc' = "pass"
       /\ srt' = [NoSort EXCEPT !.list = f[1], !.cmp = "idx", !.to = "recrc", !.from = f]
  <2>1. PICK i : i = 1
    OBVIOUS
  <2>2. Chain(next, f[1], n) = f
    <3>1. ListOK /\ f \in Orders /\ DOMAIN next = Headers /\ n \in Nat \ {0} /\ n = count
      BY <1>3, <1>5, <1>6, <1>10, <1>14
    <3>2. /\ i \in 1 .. count /\ n \in i .. count /\ n >= n + 1 - i
          /\ \A k \in i .. n - 1 : next[f[k]] = f[k + 1]
      <4>1. \A k \in 1 .. n - 1 : k \in 1 .. n /\ k + 1 \in 1 .. n
        BY <1>6
      <4>2. \A k \in 1 .. n - 1 : next[f[k]] = f[k + 1]
        BY <1>5, <1>15, <4>1 DEF Place
      <4> QED  BY <1>6, <1>8, <2>1, <3>1, <4>2
    <3>3. next[f[n]] = Null
      <4>1. ~(n + 1 \in 1 .. count)
        BY <1>5, <1>6
      <4> QED  BY <1>8, <1>15, <4>1 DEF Place
    <3>4. Chain(next, f[i], n) = SubSeq(f, i, n)
      BY <3>1, <3>2, <3>3, PartOfList
    <3>5. f \in [1 .. n -> Headers]
      BY <3>1, Order
    <3> QED  BY <2>1, <3>1, <3>4, <3>5, OrderIsSeq
  <2>3. Cardinality(DOMAIN links') = count'
    BY DEF count, Used, heap
  <2> QED  BY <1>1, <1>5, <1>7, <1>14, <1>16, <1>18, <2>2, <2>3 DEF Sort
<1>21. SortOK' /\ Somewhere'
  BY <1>14, <1>18, <1>19, <1>20, Begun
<1>22. DataStay
  <2>1. items.data \in [Headers -> DataCells]
    BY <1>3 DEF Items
  <2>2. items'.info \in [Headers -> Headers]
    BY <1>16 DEF Identity
  <2>3. items' \in Items' /\ items'.data = items.data
    BY <1>16, <1>17, <2>1, <2>2 DEF Items
  <2> QED  BY <1>1, <1>17, <2>3 DEF DataStay
<1>23. srt'.to = "recrc"
  BY <1>20 DEF NoSort
<1>24. /\ pc' \notin Building /\ ~Initialising /\ ~Initialising' /\ iter < par.iterations
  BY <1>1, <1>20, <1>23 DEF Building, Initialising, Sorting, Inv, Running, InIteration
<1>25. Types' /\ Running' /\ UnderWay' /\ Indexed' /\ History'
  BY <1>1, <1>2, <1>3, <1>21, <1>22, <1>24, DataKept
<1>26. InList'
  BY <1>16, <1>18, <1>20, <1>21, <1>25 DEF InList, Sorting
<1> QED  BY <1>25, <1>26 DEF Inv

-----------------------------------------------------------------------------
(***************************************************************************)
(* What holds of the program                                               *)
(***************************************************************************)

\* The inductive invariant: it holds at the start, and every step of the
\* program keeps it.
THEOREM InvHolds == Spec => []Inv
<1>1. Init => Inv
  BY InitOK
<1>2. Inv /\ [Next]_vars => Inv'
  <2> SUFFICES ASSUME Inv, [Next]_vars
               PROVE  Inv'
    OBVIOUS
  <2>1. CASE Seeds
    BY <2>1, SeedsStep
  <2>2. CASE InsertItem
    BY <2>2, InsertItemStep
  <2>3. CASE InsertDone
    BY <2>3, InsertDoneStep
  <2>4. CASE IndexItem
    BY <2>4, IndexItemStep
  <2>5. CASE IndexDone
    BY <2>5, IndexDoneStep
  <2>6. CASE InitBlocks
    BY <2>6, InitBlocksStep
  <2>7. CASE SortStep
    BY <2>7, SortStepStep
  <2>8. CASE Compare
    BY <2>8, CompareKeepsInv
  <2>9. CASE SortEnds
    BY <2>9, SortEndsStep
  <2>10. CASE StartBench
    BY <2>10, StartBenchStep
  <2>11. CASE Find
    BY <2>11, FindStep
  <2>12. CASE FindDone
    BY <2>12, FindDoneStep
  <2>13. CASE Remove
    BY <2>13, RemoveStep
  <2>14. CASE Crc
    BY <2>14, CrcStep
  <2>15. CASE Undo
    BY <2>15, UndoStep
  <2>16. CASE Return
    BY <2>16, ReturnStep
  <2>17. CASE Report
    BY <2>17, ReportStep
  <2>18. CASE Returned \/ UNCHANGED vars
    BY <2>18, NothingChanges DEF Returned
  <2> QED  BY <2>1, <2>2, <2>3, <2>4, <2>5, <2>6, <2>7, <2>8, <2>9, <2>10, <2>11, <2>12, <2>13,
              <2>14, <2>15, <2>16, <2>17, <2>18 DEF Next
<1> QED  BY <1>1, <1>2, PTL DEF Spec

\* Links lead from header to header or end, the info fields are the places of
\* data cells, results and CRCs are 16-bit values, and no iteration too many is
\* counted (core_main.c, iterate).
THEOREM CoreTypeOK == Spec => []TypeOK
<1>1. Inv => TypeOK
  <2> SUFFICES ASSUME Inv
               PROVE  TypeOK
    OBVIOUS
  <2>1. ListOK /\ items \in Items /\ res \in Results /\ loc \in BenchLocals
        /\ iter \in 0 .. par.iterations
    BY DEF Inv, Types, Running
  <2>2. links \in [Headers -> Pointers] /\ Pointers = Headers \union {Null}
    BY <2>1 DEF ListOK, Pointers
  <2>3. /\ items.info \in [Headers -> Headers]
        /\ items.data \in [Headers -> DataCells]
    BY <2>1 DEF Items
  <2>4. /\ res.crc \in Halfwords /\ res.crclist \in Halfwords /\ res.crcmatrix \in Halfwords
        /\ res.crcstate \in Halfwords /\ loc.retval \in Halfwords
    BY <2>1 DEF Results, BenchLocals
  <2> QED  BY <2>1, <2>2, <2>3, <2>4 DEF TypeOK, DataCells
<1> QED  BY <1>1, InvHolds, PTL

\* In a list that is in order one header is before another as their places are.
LEMMA BeforeByPlace ==
  ASSUME ListOK, items \in Items, srt.from \in Orders, NEW f \in Orders, InOrder(f, 1, count),
         NEW i \in 1 .. count, NEW j \in 1 .. count
  PROVE  Before(f[i], f[j]) <=> i < j
<1>1. /\ count \in Nat /\ f[i] \in Headers /\ f[j] \in Headers
  BY Order
<1>2. /\ Key(f[i]) \in Int /\ Key(f[j]) \in Int
      /\ PlaceOf(f[i]) \in Int /\ PlaceOf(f[j]) \in Int
  BY <1>1, KeysAreNumbers, PlacesAreNumbers
<1>3. i < j => Before(f[i], f[j])
  BY DEF InOrder, Ordered
<1>4. j < i => Before(f[j], f[i])
  BY DEF InOrder, Ordered
<1>5. Before(f[j], f[i]) => ~Before(f[i], f[j])
  BY <1>2 DEF Before
<1>6. i = j => ~Before(f[i], f[j])
  BY <1>2 DEF Before
<1> QED  BY <1>1, <1>3, <1>4, <1>5, <1>6

\* A sort returns the headers in order of what its comparison looks at, those
\* with equal values in the order they had at the call (core_list_join.c,
\* core_list_mergesort with cmp_idx and with cmp_complex).
THEOREM CoreReturnsSorted == Spec => []ReturnsSorted
<1>1. Inv => ReturnsSorted
  <2> SUFFICES ASSUME Inv, pc = srt.to
               PROVE  /\ loc.list \in Headers /\ \A d \in Headers : ~Before(d, loc.list)
                      /\ \A c \in Headers :
                           \/ links[c] = Null /\ \A d \in Headers : ~Before(c, d)
                           \/ /\ links[c] # Null /\ Before(c, links[c])
                              /\ \A d \in Headers : ~(Before(c, d) /\ Before(d, links[c]))
    BY DEF ReturnsSorted
  <2>1. pc \notin Building
    <3>1. srt = NoSort => srt.to = "none"
      BY DEF NoSort
    <3> QED  BY <3>1 DEF Inv, UnderWay, Building
  <2>2. /\ ListOK /\ items \in Items /\ srt \in Locals /\ count \in Nat \ {0}
    BY <2>1, AfterBuild
  <2>3. srt.from \in Orders /\ pc \in {"inits", "remove", "recrc"}
    BY <2>2 DEF Locals
  <2>4. PICK f \in Orders : AtWalk(f)
    BY <2>1, <2>3 DEF Inv, InList
  <2>5. loc.list = f[1] /\ Linked(f, 1, count) /\ InOrder(f, 1, count)
    BY <2>4 DEF AtWalk, ListFromTo
  <2>6. /\ \A i \in 1 .. count : f[i] \in Headers /\ f[i] # Null
        /\ \A c \in Headers : \E i \in 1 .. count : f[i] = c
    BY <2>2, Order
  <2>6a. 1 \in 1 .. count
    BY <2>2
  <2>7. \A i, j \in 1 .. count : Before(f[i], f[j]) <=> i < j
    BY <2>2, <2>3, <2>5, BeforeByPlace
  <2>8. ASSUME NEW d \in Headers
        PROVE  ~Before(d, loc.list)
    <3>1. PICK j \in 1 .. count : f[j] = d
      BY <2>6
    <3> QED  BY <2>2, <2>5, <2>6a, <2>7, <3>1
  <2>9. ASSUME NEW c \in Headers
        PROVE  \/ links[c] = Null /\ \A d \in Headers : ~Before(c, d)
               \/ /\ links[c] # Null /\ Before(c, links[c])
                  /\ \A d \in Headers : ~(Before(c, d) /\ Before(d, links[c]))
    <3>1. PICK k \in 1 .. count : f[k] = c
      BY <2>6
    <3>2. links[c] = Place(f, k + 1)
      BY <2>5, <3>1 DEF Linked
    <3>3. CASE k = count
      <4>1. links[c] = Null
        BY <2>2, <3>2, <3>3 DEF Place
      <4>2. ASSUME NEW d \in Headers
            PROVE  ~Before(c, d)
        <5>1. PICK j \in 1 .. count : f[j] = d
          BY <2>6
        <5> QED  BY <2>2, <2>7, <3>1, <3>3, <5>1
      <4> QED  BY <4>1, <4>2
    <3>4. CASE k # count
      <4>1. k + 1 \in 1 .. count /\ links[c] = f[k + 1]
        BY <2>2, <3>2, <3>4 DEF Place
      <4>2. links[c] # Null /\ Before(c, links[c])
        BY <2>2, <2>6, <2>7, <3>1, <4>1
      <4>3. ASSUME NEW d \in Headers
            PROVE  ~(Before(c, d) /\ Before(d, links[c]))
        <5>1. PICK j \in 1 .. count : f[j] = d
          BY <2>6
        <5>2. ~(k < j /\ j < k + 1)
          BY <2>2
        <5> QED  BY <2>7, <3>1, <4>1, <5>1, <5>2
      <4> QED  BY <4>2, <4>3
    <3> QED  BY <3>3, <3>4
  <2>10. loc.list \in Headers
    BY <2>5, <2>6, <2>6a
  <2> QED  BY <2>8, <2>9, <2>10
<1> QED  BY <1>1, InvHolds, PTL

\* Between the runs of the list benchmark the list is the one core_list_init
\* made, without a cached result, and with equal seeds the inputs of the other
\* two benchmarks are what they were initialised with (core_list_join.c,
\* core_bench_list; core_state.c; core_matrix.c).
THEOREM CoreInputsRestored == Spec => []InputsRestored
<1>1. Inv => InputsRestored
  <2> SUFFICES ASSUME Inv
               PROVE  InputsRestored
    OBVIOUS
  <2>1. ASSUME pc \in {"iterate", "again", "done"}
        PROVE  Contents(heap, res.list) = hist.list
    <3>1. pc \notin Building /\ pc # "crc" /\ ~Initialising
      BY <2>1 DEF Building, Initialising, Sorting
    <3>2. SortOK /\ srt \in Locals
      BY <3>1, AfterBuild
    <3>3. srt.to # "remove"
      BY <2>1, <3>1 DEF Inv, InList
    <3>4. srt.cmp = "idx"
      BY <3>2, <3>3 DEF SortOK, Locals
    <3>5. PICK f \in Orders : AtRest(f)
      BY <2>1, <3>1 DEF Inv, InList
    <3>6. res.list = f[1] /\ Linked(f, 1, count) /\ InOrder(f, 1, count)
      BY <3>5 DEF AtRest, ListFromTo
    <3>7. Ascending(f) /\ \A k \in 1 .. count : items.data[f[k]].lo = items.data[f[k]].hi
      BY <3>1, <3>4, <3>6, InOrderOfIndex
    <3>8. Contents(heap, f[1]) = Clean(f)
      BY <3>1, <3>6, <3>7, ContentsOfList
    <3>9. hist.list = Clean(f)
      BY <3>1, <3>7 DEF Inv, History
    <3> QED  BY <3>6, <3>8, <3>9
  <2>2. ASSUME pc \notin {"main", "insert", "index", "inits"}, par.seed1 = par.seed2
        PROVE  text = hist.text /\ mat = hist.mat
    BY <2>2 DEF Inv, History
  <2> QED  BY <2>1, <2>2 DEF InputsRestored
<1> QED  BY <1>1, InvHolds, PTL

-----------------------------------------------------------------------------
\* An order is a sequence that holds every header once.
LEMMA OrderHoldsAll ==
  ASSUME ListOK, NEW f \in Orders, NEW s, s = f
  PROVE  AllOnce(s)
<1>1. /\ count \in Nat \ {0} /\ f \in [1 .. count -> Headers]
      /\ \A c \in Headers : \E i \in 1 .. count : f[i] = c
  BY Order
<1>2. Len(s) = count
  BY <1>1, OrderIsSeq
<1> QED  BY <1>1, <1>2 DEF AllOnce, count

\* A list that is linked in an order holds every header.
LEMMA LinkedHoldsAll ==
  ASSUME ListOK, NEW f \in Orders, Linked(f, 1, count), NEW c, c = f[1]
  PROVE  AllOnce(Chain(links, c, count + 1))
<1>1. Chain(links, f[1], count + 1) = f
  BY WholeList
<1> QED  BY <1>1, OrderHoldsAll

\* The list from a place of the order on, or what is left of it at its end.
LEMMA RestOfList ==
  ASSUME ListOK, NEW f \in Orders, NEW m \in 0 .. count, Linked(f, m + 1, count),
         NEW c, c = Place(f, m + 1)
  PROVE  Chain(links, c, count + 1) = SubSeq(f, m + 1, count)
<1>1. /\ count \in Nat \ {0} /\ DOMAIN links = Headers /\ Null \notin Headers
      /\ f \in [1 .. count -> Headers]
      /\ \A i \in 1 .. count : Place(f, i) = f[i]
      /\ Place(f, count + 1) = Null
  BY Order
<1>2. CASE m = count
  <2>1. Chain(links, c, count + 1) = <<>>
    BY <1>1, <1>2 DEF Chain
  <2>2. SubSeq(f, m + 1, count) = <<>>
    BY <1>1, <1>2, SubSeqEmpty
  <2> QED  BY <2>1, <2>2
<1>3. CASE m < count
  <2>1. PICK i, z, n : i = m + 1 /\ z = count /\ n = count + 1
    OBVIOUS
  <2>2. \A k \in i .. z - 1 : links[f[k]] = f[k + 1]
    BY <1>1, <1>3, <2>1 DEF Linked
  <2>3. links[f[z]] = Null
    <3>1. z \in m + 1 .. count
      BY <1>1, <1>3, <2>1
    <3> QED  BY <1>1, <2>1, <3>1 DEF Linked
  <2>4. /\ DOMAIN links = Headers /\ i \in 1 .. count /\ z \in i .. count
        /\ n \in Nat \ {0} /\ n >= z + 1 - i
    BY <1>1, <1>3, <2>1
  <2>5. Chain(links, f[i], n) = SubSeq(f, i, z)
    BY <2>2, <2>3, <2>4, PartOfList
  <2>6. c = f[i]
    BY <1>1, <2>1, <2>4
  <2> QED  BY <2>1, <2>5, <2>6
<1> QED  BY <1>1, <1>2, <1>3

\* The merged part of the list is the first m places of the order.
LEMMA MergedIs ==
  ASSUME ListOK, NEW f \in Orders, NEW m \in 0 .. count, Merged(f, m)
  PROVE  MergedPart = SubSeq(f, 1, m)
<1>1. /\ count \in Nat \ {0} /\ DOMAIN links = Headers /\ Null \notin Headers
      /\ f \in [1 .. count -> Headers]
      /\ \A i \in 1 .. count : f[i] \in Headers /\ f[i] # Null
      /\ \A i, j \in 1 .. count : f[i] = f[j] => i = j
      /\ \A i \in 1 .. count : Place(f, i) = f[i]
  BY Order
<1>2. CASE m = 0
  <2>1. MergedPart = <<>>
    BY <1>2 DEF Merged, MergedPart
  <2>2. SubSeq(f, 1, m) = <<>>
    BY <1>1, <1>2, SubSeqEmpty
  <2> QED  BY <2>1, <2>2
<1>3. CASE m > 0
  <2>1. PICK next, i, n : next = [links EXCEPT ![f[m]] = Null] /\ i = 1 /\ n = count + 1
    OBVIOUS
  <2>2. m \in 1 .. count /\ srt.list = f[1] /\ srt.tail = f[m]
    BY <1>1, <1>3 DEF Merged
  <2>3. \A k \in i .. m - 1 : next[f[k]] = f[k + 1]
    <3> SUFFICES ASSUME NEW k \in i .. m - 1
                 PROVE  next[f[k]] = f[k + 1]
      OBVIOUS
    <3>1. k \in 1 .. m - 1 /\ k \in 1 .. count /\ k + 1 \in 1 .. count /\ k # m
      BY <1>1, <2>1, <2>2
    <3>2. links[f[k]] = f[k + 1]
      BY <1>1, <3>1 DEF Merged, Linked
    <3>3. f[k] \in Headers /\ f[k] # f[m]
      BY <1>1, <2>2, <3>1
    <3> QED  BY <1>1, <2>1, <3>2, <3>3
  <2>4. next[f[m]] = Null
    BY <1>1, <2>1, <2>2
  <2>5. /\ DOMAIN next = Headers /\ i \in 1 .. count /\ m \in i .. count
        /\ n \in Nat \ {0} /\ n >= m + 1 - i
    BY <1>1, <2>1, <2>2
  <2>6. Chain(next, f[i], n) = SubSeq(f, i, m)
    BY <2>3, <2>4, <2>5, PartOfList
  <2>7. MergedPart = Chain(next, f[1], count + 1)
    <3>1. srt.tail # Null /\ Used(heap) = count
      BY <1>1, <2>2 DEF count
    <3> QED  BY <2>1, <2>2, <3>1 DEF MergedPart
  <2> QED  BY <2>1, <2>6, <2>7
<1> QED  BY <1>1, <1>2, <1>3

\* Of a run that is being merged the headers from p on are the next places.
LEMMA RunOfList ==
  ASSUME ListOK, NEW f \in Orders, NEW m \in 0 .. count, NEW r \in m .. count,
         Linked(f, m + 1, r - 1), NEW c, r > m => c = f[m + 1]
  PROVE  Chain(links, c, r - m) = SubSeq(f, m + 1, r)
<1>1. /\ count \in Nat \ {0} /\ DOMAIN links = Headers /\ Null \notin Headers
      /\ f \in [1 .. count -> Headers]
      /\ \A i \in 1 .. count : Place(f, i) = f[i]
  BY Order
<1>2. CASE r = m
  <2>1. r - m = 0 /\ r < m + 1
    BY <1>1, <1>2
  <2>2. Chain(links, c, r - m) = <<>>
    BY <2>1 DEF Chain
  <2>3. SubSeq(f, m + 1, r) = <<>>
    BY <1>1, <2>1, SubSeqEmpty
  <2> QED  BY <2>2, <2>3
<1>3. CASE r > m
  <2>1. PICK i, n : i = m + 1 /\ n = r - m
    OBVIOUS
  <2>2. \A k \in i .. r - 1 : links[f[k]] = f[k + 1]
    BY <1>1, <1>3, <2>1 DEF Linked
  <2>3. /\ DOMAIN links = Headers /\ i \in 1 .. count /\ r \in i .. count
        /\ n \in Nat \ {0} /\ n = r + 1 - i
    BY <1>1, <1>3, <2>1
  <2>4. Chain(links, f[i], n) = SubSeq(f, i, r)
    BY <2>2, <2>3, PartOfList
  <2> QED  BY <1>3, <2>1, <2>4
<1> QED  BY <1>1, <1>2, <1>3

\* The parts of an order, put together.
LEMMA TwoParts ==
  ASSUME ListOK, NEW f \in Orders, NEW m \in 0 .. count, NEW r \in m .. count
  PROVE  /\ f \in Seq(Headers)
         /\ SubSeq(f, 1, m) \o SubSeq(f, m + 1, r) = SubSeq(f, 1, r)
         /\ SubSeq(f, 1, r) \o SubSeq(f, r + 1, count) = f
<1>1. /\ count \in Nat \ {0} /\ f \in Seq(Headers) /\ Len(f) = count
      /\ SubSeq(f, 1, count) = f
  BY Order, OrderIsSeq
<1>2. PICK l, z : l = 1 /\ z = count
  OBVIOUS
<1>3. /\ l \in 1 .. Len(f) + 1 /\ m \in l - 1 .. Len(f)
      /\ r \in m .. Len(f) /\ r \in l - 1 .. Len(f) /\ z \in r .. Len(f)
  BY <1>1, <1>2
<1>4. SubSeq(f, l, m) \o SubSeq(f, m + 1, r) = SubSeq(f, l, r)
  BY <1>1, <1>3, ConcatAdjacentSubSeq
<1>5. SubSeq(f, l, r) \o SubSeq(f, r + 1, z) = SubSeq(f, l, z)
  BY <1>1, <1>3, ConcatAdjacentSubSeq
<1> QED  BY <1>1, <1>2, <1>4, <1>5

\* What a sort has merged and what is left to merge hold every header.
LEMMA SortLosesNone ==
  ASSUME Inv, pc \in Sorting
  PROVE  NoHeaderLost
<1>1. /\ ListOK /\ SortOK /\ Somewhere /\ count \in Nat \ {0} /\ Used(heap) = count
  BY AfterBuild DEF Inv, InList, Building, Sorting
<1>2. PICK f \in Orders, m \in 0 .. count, b \in 0 .. count : SortPlace(f, m, b)
  BY <1>1 DEF Somewhere
<1>3. CASE pc = "pass"
  <2>1. srt.list = f[1] /\ Linked(f, 1, count)
    BY <1>2, <1>3 DEF SortPlace, AtPass
  <2>2. AllOnce(Chain(links, srt.list, count + 1))
    BY <1>1, <2>1, LinkedHoldsAll
  <2> QED  BY <1>1, <1>3, <2>2 DEF NoHeaderLost
<1>4. CASE pc \in {"merge", "along"}
  <2>1. Merged(f, m) /\ Linked(f, m + 1, count) /\ srt.p = Place(f, m + 1)
    <3>1. CASE pc = "merge"
      BY <1>2, <3>1 DEF SortPlace, AtMerge
    <3>2. CASE pc = "along"
      <4>1. Merged(f, m) /\ Linked(f, m + 1, count) /\ srt.p = f[m + 1] /\ m < count
        BY <1>2, <3>2 DEF SortPlace, AtAlong
      <4>2. m + 1 \in 1 .. count
        BY <1>1, <4>1
      <4> QED  BY <4>1, <4>2 DEF Place
    <3> QED  BY <1>4, <3>1, <3>2
  <2>2. MergedPart = SubSeq(f, 1, m)
    BY <1>1, <2>1, MergedIs
  <2>3. Chain(links, srt.p, count + 1) = SubSeq(f, m + 1, count)
    BY <1>1, <2>1, RestOfList
  <2>4. MergedPart \o Chain(links, srt.p, count + 1) = f
    <3>1. m \in m .. count
      BY <1>1
    <3>2. SubSeq(f, 1, m) \o SubSeq(f, m + 1, count) = f
      BY <1>1, <3>1, TwoParts
    <3> QED  BY <2>2, <2>3, <3>2
  <2>5. AllOnce(MergedPart \o Chain(links, srt.p, count + 1))
    BY <1>1, <2>4, OrderHoldsAll
  <2> QED  BY <1>1, <1>4, <2>5 DEF NoHeaderLost
<1>5. CASE pc = "pick"
  <2>1. AtPick(f, m, b)
    BY <1>2, <1>5 DEF SortPlace
  <2>2. PICK r : r = Behind(m)
    OBVIOUS
  <2>3. r \in m .. count /\ srt.psize = r - m /\ srt.psize \in 0 .. count
    BY <1>1, <2>1, <2>2, MergeFields DEF SortOK, Locals, Behind
  <2>4. /\ Merged(f, m) /\ Linked(f, m + 1, r - 1) /\ (srt.psize > 0 => srt.p = f[m + 1])
        /\ srt.q = Place(f, r + 1) /\ Linked(f, r + 1, count)
    BY <2>1, <2>2 DEF AtPick, MergeLinks
  <2>5. r \in 0 .. count /\ (r > m => srt.p = f[m + 1])
    BY <1>1, <2>3, <2>4
  <2>6. MergedPart = SubSeq(f, 1, m)
    BY <1>1, <2>4, MergedIs
  <2>7. Chain(links, srt.p, r - m) = SubSeq(f, m + 1, r)
    BY <1>1, <2>3, <2>4, <2>5, RunOfList
  <2>8. Chain(links, srt.q, count + 1) = SubSeq(f, r + 1, count)
    BY <1>1, <2>4, <2>5, RestOfList
  <2>9. MergedPart \o Chain(links, srt.p, srt.psize) \o Chain(links, srt.q, count + 1) = f
    <3>1. /\ SubSeq(f, 1, m) \o SubSeq(f, m + 1, r) = SubSeq(f, 1, r)
          /\ SubSeq(f, 1, r) \o SubSeq(f, r + 1, count) = f
      BY <1>1, <2>3, TwoParts
    <3> QED  BY <2>3, <2>6, <2>7, <2>8, <3>1
  <2>10. AllOnce(MergedPart \o Chain(links, srt.p, srt.psize) \o Chain(links, srt.q, count + 1))
    BY <1>1, <2>9, OrderHoldsAll
  <2> QED  BY <1>1, <1>5, <2>10 DEF NoHeaderLost
<1> QED  BY <1>3, <1>4, <1>5 DEF Sorting

\* The list without the removed header, and that header.
LEMMA RemovedIsNotLost ==
  ASSUME Inv, pc = "crc"
  PROVE  NoHeaderLost
<1>1. /\ ListOK /\ count \in Nat \ {0} /\ 3 <= count /\ Used(heap) = count
  BY AfterBuild DEF Building
<1>2. PICK f \in Orders : AtCrc(f)
  BY DEF Inv, InList, Building
<1>3. /\ loc.list = f[1] /\ loc.remover = f[count] /\ Linked(f, 1, count - 2)
      /\ links[f[count - 1]] = Null
  BY <1>2 DEF AtCrc
<1>4. /\ DOMAIN links = Headers /\ Null \notin Headers /\ f \in [1 .. count -> Headers]
      /\ \A i \in 1 .. count : Place(f, i) = f[i]
  BY <1>1, Order
<1>5. PICK i, j, z, n : i = 1 /\ j = count - 1 /\ z = count /\ n = count + 1
  OBVIOUS
<1>6. \A k \in i .. j - 1 : links[f[k]] = f[k + 1]
  <2> SUFFICES ASSUME NEW k \in i .. j - 1
               PROVE  links[f[k]] = f[k + 1]
    OBVIOUS
  <2>1. k \in 1 .. count - 2 /\ k + 1 \in 1 .. count
    BY <1>1, <1>5
  <2> QED  BY <1>3, <1>4, <2>1 DEF Linked
<1>7. /\ ListOK /\ f \in Orders
      /\ DOMAIN links = Headers /\ i \in 1 .. count /\ j \in i .. count
      /\ n \in Nat \ {0} /\ n >= j + 1 - i /\ links[f[j]] = Null
  BY <1>1, <1>2, <1>3, <1>4, <1>5
<1>8. Chain(links, f[i], n) = SubSeq(f, i, j)
  BY <1>6, <1>7, PartOfList
<1>9. Chain(links, loc.list, count + 1) \o <<loc.remover>> = f
  <2>1. f \in Seq(Headers) /\ Len(f) = count /\ SubSeq(f, 1, count) = f
    BY <1>1, <1>4, OrderIsSeq
  <2>2. i \in 1 .. Len(f) /\ z \in i .. Len(f) /\ z - 1 = j
    BY <1>1, <1>5, <2>1
  <2>3. SubSeq(f, i, z) = SubSeq(f, i, z - 1) \o <<f[z]>>
    BY <2>1, <2>2, SubSeqRecursiveSecond
  <2> QED  BY <1>3, <1>5, <1>8, <2>1, <2>2, <2>3
<1>10. AllOnce(Chain(links, loc.list, count + 1) \o <<loc.remover>>)
  BY <1>1, <1>9, OrderHoldsAll
<1> QED  BY <1>1, <1>10 DEF NoHeaderLost

\* No step of a sort, a search, a reversal or a removal loses a header or
\* closes a cycle (core_list_join.c, core_list_mergesort, core_list_reverse,
\* core_list_remove, core_list_undo_remove).
THEOREM CoreNoHeaderLost == Spec => []NoHeaderLost
<1>1. Inv => NoHeaderLost
  <2> SUFFICES ASSUME Inv
               PROVE  NoHeaderLost
    OBVIOUS
  <2>1. ListOK /\ Used(heap) = count
    BY DEF Inv, Types, count
  <2>2. CASE pc \in Sorting
    BY <2>2, SortLosesNone
  <2>3. CASE pc = "crc"
    BY <2>3, RemovedIsNotLost
  <2>4. CASE pc \in {"insert", "index"}
    <3>1. loc.list = 0 /\ Linked(Built, 1, count)
      BY <2>4 DEF Inv, UnderWay
    <3>2. Built \in Orders /\ Built[1] = 0
      BY <2>1, BuiltIsOrder
    <3>3. AllOnce(Chain(links, loc.list, count + 1))
      BY <2>1, <3>1, <3>2, LinkedHoldsAll
    <3> QED  BY <2>1, <2>4, <3>3 DEF NoHeaderLost
  <2>5. CASE pc \in {"inits", "find", "remove", "recrc"}
    <3>1. pc \notin Building
      BY <2>5 DEF Building
    <3>2. PICK f \in Orders : AtWalk(f)
      BY <2>5, <3>1 DEF Inv, InList
    <3>3. loc.list = f[1] /\ Linked(f, 1, count)
      BY <3>2 DEF AtWalk, ListFromTo
    <3>4. AllOnce(Chain(links, loc.list, count + 1))
      BY <2>1, <3>3, LinkedHoldsAll
    <3> QED  BY <2>1, <2>5, <3>4 DEF NoHeaderLost
  <2>6. CASE pc \in {"iterate", "again", "done"}
    <3>1. pc \notin Building
      BY <2>6 DEF Building
    <3>2. PICK f \in Orders : AtRest(f)
      BY <2>6, <3>1 DEF Inv, InList
    <3>3. res.list = f[1] /\ Linked(f, 1, count)
      BY <3>2 DEF AtRest, ListFromTo
    <3>4. AllOnce(Chain(links, res.list, count + 1))
      BY <2>1, <3>3, LinkedHoldsAll
    <3> QED  BY <2>1, <2>6, <3>4 DEF NoHeaderLost
  <2>7. CASE pc \notin Sorting \cup {"crc", "insert", "index", "inits", "find", "remove",
                                     "recrc", "iterate", "again", "done"}
    BY <2>7 DEF NoHeaderLost, Sorting
  <2> QED  BY <2>2, <2>3, <2>4, <2>5, <2>6, <2>7
<1> QED  BY <1>1, InvHolds, PTL

-----------------------------------------------------------------------------
\* Every block has an order of matrices, and it is the one that is described.
LEMMA MatrixOrderFits ==
  ASSUME NEW S \in Nat, 1 <= S
  PROVE  MatrixOrder(S) \in 0 .. S /\ 8 * MatrixOrder(S) * MatrixOrder(S) < S
<1> DEFINE T == {n \in Nat : 8 * (n + 1) * (n + 1) >= S}
           Largest(x) == 8 * x * x < S /\ 8 * (x + 1) * (x + 1) >= S
<1>1. S \in T
  <2>1. 8 * (S + 1) * (S + 1) >= S
    <3>1. PICK q \in Nat : q = S * S
      OBVIOUS
    <3>2. 8 * (S + 1) * (S + 1) = 8 * q + 16 * S + 8
      BY <3>1
    <3> QED  BY <3>1, <3>2
  <2> QED  BY <2>1
<1>2. T \subseteq Nat
  OBVIOUS
<1>3. PICK n \in T : \A y \in T : n <= y
  <2> HIDE DEF T
  <2> QED  BY <1>1, <1>2, LeastElement
<1>4. n \in Nat /\ 8 * (n + 1) * (n + 1) >= S
  BY <1>3
<1>5. 8 * n * n < S
  <2>1. CASE n = 0
    BY <2>1
  <2>2. CASE n # 0
    <3>1. n - 1 \in Nat /\ n - 1 \notin T
      <4>1. n - 1 \in Nat /\ ~(n <= n - 1)
        BY <1>4, <2>2
      <4> HIDE DEF T
      <4> QED  BY <1>3, <4>1
    <3>2. (n - 1) + 1 = n
      BY <1>4
    <3>3. ~(8 * ((n - 1) + 1) * ((n - 1) + 1) >= S)
      BY <3>1
    <3>4. 8 * n * n \in Int /\ ~(8 * n * n >= S)
      BY <1>4, <3>2, <3>3
    <3> QED  BY <3>4
  <2> QED  BY <2>1, <2>2
<1>6. n \in 0 .. S
  <2>1. n * n \in Nat /\ n * n >= n
    BY <1>4
  <2>2. 8 * n * n = 8 * (n * n)
    BY <1>4
  <2> QED  BY <1>4, <1>5, <2>1, <2>2
<1>7. \E x \in 0 .. S : Largest(x)
  BY <1>4, <1>5, <1>6
<1>8. MatrixOrder(S) = CHOOSE x \in 0 .. S : Largest(x)
  BY DEF MatrixOrder
<1>9. MatrixOrder(S) \in 0 .. S /\ Largest(MatrixOrder(S))
  <2> HIDE DEF Largest
  <2> QED  BY <1>7, <1>8
<1> QED  BY <1>9

\* Two matrices behind the alignment to four bytes end in time, as a block is
\* not one byte longer than three matrices.
LEMMA MatricesEnd ==
  ASSUME NEW S \in Nat, 1 <= S, \A n \in 0 .. S : S # 8 * n * n + 1
  PROVE  MatrixEnd(S, S) <= 2 * S
<1>1. PICK N : N = MatrixOrder(S)
  OBVIOUS
<1>2. N \in 0 .. S /\ 8 * N * N < S /\ S # 8 * N * N + 1
  <2>1. MatrixOrder(S) \in 0 .. S /\ 8 * MatrixOrder(S) * MatrixOrder(S) < S
    BY MatrixOrderFits
  <2>2. S # 8 * MatrixOrder(S) * MatrixOrder(S) + 1
    <3> DEFINE Over(n) == 8 * n * n + 1
    <3>1. \A n \in 0 .. S : S # Over(n)
      OBVIOUS
    <3>2. S # Over(MatrixOrder(S))
      <4> HIDE DEF Over
      <4> QED  BY <2>1, <3>1
    <3> QED  BY <3>2
  <2> QED  BY <1>1, <2>1, <2>2
<1>3. PICK q \in Nat : q = N * N
  BY <1>2
<1>4. 8 * N * N = 8 * q /\ 4 * N * N = 4 * q
  BY <1>2, <1>3
<1>5. 8 * q < S /\ S # 8 * q + 1
  BY <1>2, <1>4
<1>6. MatrixEnd(S, S) = align_mem(align_mem(S) + 4 * q) + 4 * q
  BY <1>1, <1>4 DEF MatrixEnd
<1>7. PICK a \in Nat, r \in 0 .. 3 : S - 1 = 4 * a + r /\ (S - 1) \div 4 = a
  <2>1. (S - 1) \div 4 \in Nat /\ (S - 1) % 4 \in 0 .. 3
        /\ S - 1 = 4 * ((S - 1) \div 4) + ((S - 1) % 4)
    OBVIOUS
  <2> QED  BY <2>1
<1>8. align_mem(S) = 4 * a + 4
  BY <1>7 DEF align_mem
<1>9. align_mem(4 * a + 4 + 4 * q) = 4 * (a + q) + 4
  <2>1. 4 * a + 4 + 4 * q - 1 = 4 * (a + q) + 3
    BY <1>3, <1>7
  <2>2. (4 * (a + q) + 3) \div 4 = a + q
    BY <1>3, <1>7
  <2> QED  BY <1>3, <1>7, <2>1, <2>2 DEF align_mem
<1>10. 4 * (a + q) + 4 + 4 * q <= 2 * S
  <2>1. S = 4 * a + r + 1 /\ 8 * q <= 4 * a + r /\ 8 * q # 4 * a + r
    BY <1>3, <1>5, <1>7
  <2>2. 4 * q + 1 <= 2 * a + r
    <3>1. CASE r = 0
      <4>1. 2 * q <= a /\ 2 * q # a
        BY <1>3, <1>7, <2>1, <3>1
      <4> QED  BY <1>3, <1>7, <3>1, <4>1
    <3>2. CASE r # 0
      <4>1. 2 * q <= a
        BY <1>3, <1>7, <2>1, <3>2
      <4> QED  BY <1>3, <1>7, <3>2, <4>1
    <3> QED  BY <3>1, <3>2
  <2> QED  BY <1>3, <1>7, <2>1, <2>2
<1> QED  BY <1>6, <1>8, <1>9, <1>10

\* List, matrices and text lie in the memory one behind the other, the matrices
\* rounded up to words (core_matrix.c, core_init_matrix; core_main.c, main).
THEOREM CoreBlocksDisjoint == Spec => []BlocksDisjoint
<1>1. Inv => BlocksDisjoint
  <2> SUFFICES ASSUME Inv, pc \notin {"main", "insert", "index"}
               PROVE  /\ 12 * ListSize(par.size) <= par.size
                      /\ \A c \in Headers : c \in 0 .. ListSize(par.size) - 1
                      /\ MatrixEnd(par.size, par.size) <= 2 * par.size
    BY DEF BlocksDisjoint
  <2>1. pc \notin Building
    BY DEF Building
  <2>2. PICK p \in Parameters : par = Block(p)
    BY <2>1, AfterBuild
  <2>3. /\ par.size \in Nat /\ 120 <= par.size
        /\ ListSize(par.size) \in Int /\ 12 * ListSize(par.size) <= par.size
        /\ \A n \in 0 .. par.size : par.size # 8 * n * n + 1
    BY <2>2, BlockFacts
  <2>4. count \in Nat /\ Headers = 0 .. count - 1 /\ Indexed
    BY <2>1, AfterBuild
  <2>5. count < ListSize(par.size)
    BY <2>4 DEF Indexed, Size
  <2>6. \A c \in Headers : c \in 0 .. ListSize(par.size) - 1
    BY <2>3, <2>4, <2>5
  <2>7. PICK S : S = par.size
    OBVIOUS
  <2>8. S \in Nat /\ 1 <= S /\ \A n \in 0 .. S : S # 8 * n * n + 1
    BY <2>3, <2>7
  <2>9. MatrixEnd(S, S) <= 2 * S
    BY <2>8, MatricesEnd
  <2> QED  BY <2>3, <2>6, <2>7, <2>9
<1> QED  BY <1>1, InvHolds, PTL
=============================================================================
