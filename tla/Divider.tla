------------------------------- MODULE Divider -------------------------------
(***************************************************************************)
(* The divider of the core (divider.sv): long division, one quotient bit   *)
(* per cycle, on unsigned registers of WIDTH bits, with the signs handled  *)
(* before and after.                                                       *)
(*                                                                         *)
(* A step is one rising clock edge.  The EX stage requests a division or   *)
(* not, with any operands, in any cycle; a request is accepted when none   *)
(* is running, and a trap may flush the divider at any time.  EX gates the *)
(* request with the flush (EX.sv:99).  Power[n] is 2^n, given by its       *)
(* recursion.                                                              *)
(***************************************************************************)
EXTENDS Integers

CONSTANTS WIDTH, Power

ASSUME WidthAssumption == WIDTH \in Nat \ {0}
ASSUME PowerAssumption ==
  /\ Power \in [0 .. WIDTH -> Nat \ {0}]
  /\ Power[0] = 1
  /\ \A n \in 0 .. WIDTH - 1 : Power[n + 1] = 2 * Power[n]

Words == 0 .. Power[WIDTH] - 1

\* opcode: DIV 0, DIVU 1, REM 2, REMU 3; bit 0 clear means signed.
Opcodes == 0 .. 3
SignedOpcodes == {0, 2}
RemOpcodes == {2, 3}

VARIABLES
  running, iterations,
  dividend, divisor, quotient,
  is_rem, quotient_negate, remainder_negate,
  request                  \* history: the division accepted last

signs == <<is_rem, quotient_negate, remainder_negate>>
divVars == <<running, iterations, dividend, divisor, quotient, signs, request>>

Negative(x) == x >= Power[WIDTH - 1]             \* the sign bit
Negate(x) == (Power[WIDTH] - x) % Power[WIDTH]   \* ~x + 1

done == iterations = WIDTH

\* The divisor, aligned with the dividend's high bit and moved right.  After
\* WIDTH iterations one bit of it has been moved out.
ShiftedDivisor ==
  IF iterations < WIDTH THEN divisor * Power[WIDTH - 1 - iterations]
  ELSE divisor \div (IF iterations = WIDTH THEN 2 ELSE 4)
Fits == dividend >= ShiftedDivisor               \* sub_result_sign_bit == 0

quotient_post  == IF quotient_negate THEN Negate(quotient) ELSE quotient
remainder_post == IF remainder_negate THEN Negate(dividend) ELSE dividend
o == IF is_rem THEN remainder_post ELSE quotient_post

-----------------------------------------------------------------------------
\* Mutant: the sign is applied to a division by zero too.
QuotientNegate_Zero(opcode, a, b) ==
  opcode \in SignedOpcodes /\ (Negative(a) # Negative(b))

\* The sign of the quotient; a division by zero yields all ones as it is.
QuotientNegate(opcode, a, b) ==
  opcode \in SignedOpcodes /\ (Negative(a) # Negative(b)) /\ b # 0

Unsigned(opcode, x) == IF opcode \in SignedOpcodes /\ Negative(x) THEN Negate(x) ELSE x

\* new_req.
Accept(opcode, a, b) ==
  /\ ~running
  /\ running' = TRUE
  /\ iterations' = 0
  /\ quotient' = 0
  /\ dividend' = Unsigned(opcode, a)
  /\ divisor' = Unsigned(opcode, b)
  /\ quotient_negate' = QuotientNegate(opcode, a, b)
  /\ remainder_negate' = (opcode \in SignedOpcodes /\ Negative(a))
  /\ is_rem' = (opcode \in RemOpcodes)
  /\ request' = [opcode |-> opcode, a |-> a, b |-> b]

\* The dividend register is reduced in every other cycle, running or not.
Reduce == dividend' = IF Fits THEN dividend - ShiftedDivisor ELSE dividend

\* Mutant: the division does not stop.
Iterate_NoStop ==
  /\ running
  /\ running' = (iterations < 2 * WIDTH)
  /\ iterations' = iterations + 1
  /\ quotient' = (2 * quotient + (IF Fits THEN 1 ELSE 0)) % Power[WIDTH]
  /\ Reduce
  /\ UNCHANGED <<divisor, signs, request>>

\* The next bit of the quotient; EX takes the result in the cycle of done.
Iterate ==
  /\ running
  /\ running' = ~done
  /\ iterations' = iterations + 1
  /\ quotient' = (2 * quotient + (IF Fits THEN 1 ELSE 0)) % Power[WIDTH]
  /\ Reduce
  /\ UNCHANGED <<divisor, signs, request>>

Flush ==
  /\ running' = FALSE
  /\ iterations' = 0
  /\ quotient' = 0
  /\ Reduce
  /\ UNCHANGED <<divisor, signs, request>>

Idle ==
  /\ ~running
  /\ Reduce
  /\ UNCHANGED <<running, iterations, quotient, divisor, signs, request>>

\* The registers without a reset hold anything.
DivInit ==
  /\ running = FALSE /\ iterations = 0 /\ quotient = 0
  /\ dividend \in Words /\ divisor \in Words
  /\ is_rem \in BOOLEAN /\ quotient_negate \in BOOLEAN /\ remainder_negate \in BOOLEAN
  /\ request = [opcode |-> 0, a |-> 0, b |-> 0]

DivNext ==
  \/ \E opcode \in Opcodes, a, b \in Words : Accept(opcode, a, b)
  \/ Iterate
  \/ Flush
  \/ Idle

DivSpec == DivInit /\ [][DivNext]_divVars

-----------------------------------------------------------------------------
\* What the RISC-V M extension says of the four instructions.

Signed(x) == IF Negative(x) THEN x - Power[WIDTH] ELSE x
Abs(x) == IF x < 0 THEN -x ELSE x

\* Division towards zero, and the remainder with the sign of the dividend.
Trunc(x, y) == IF (x < 0) # (y < 0) THEN -(Abs(x) \div Abs(y)) ELSE Abs(x) \div Abs(y)
RemOf(x, y) == IF x < 0 THEN -(Abs(x) % Abs(y)) ELSE Abs(x) % Abs(y)

\* A register holds a number modulo 2^WIDTH.
Result(opcode, a, b) ==
  LET x == IF opcode \in SignedOpcodes THEN Signed(a) ELSE a
      y == IF opcode \in SignedOpcodes THEN Signed(b) ELSE b
      r == IF opcode \in RemOpcodes THEN (IF y = 0 THEN x ELSE RemOf(x, y))
           ELSE (IF y = 0 THEN -1 ELSE Trunc(x, y))
  IN r % Power[WIDTH]

Requests == [opcode : Opcodes, a : Words, b : Words]

DivTypeOK ==
  /\ running \in BOOLEAN /\ iterations \in 0 .. WIDTH + 1
  /\ dividend \in Words /\ divisor \in Words /\ quotient \in Words
  /\ is_rem \in BOOLEAN /\ quotient_negate \in BOOLEAN /\ remainder_negate \in BOOLEAN
  /\ request \in Requests

\* In the cycle in which the divider stops stalling, its output is the result
\* of the division it accepted: for every sign, for a zero divisor, for the
\* overflowing quotient, and after any flush (divider.sv).
ResultCorrect ==
  running /\ done => o = Result(request.opcode, request.a, request.b)

\* The long division: with D the divisor in its present position, the dividend
\* that was accepted is quotient * D + what is left of it, which is below D.
\* (With a zero divisor every bit of the quotient is one.)  The other
\* registers are those of the request; the product of the two powers keeps
\* the quotient below 2^WIDTH.
Position == Power[WIDTH - iterations]
LongDivision ==
  running =>
    /\ iterations \in 0 .. WIDTH
    /\ Power[iterations] * Position = Power[WIDTH]
    /\ LET r == request
           n == Unsigned(r.opcode, r.a)
       IN /\ divisor = Unsigned(r.opcode, r.b)
          /\ quotient_negate = QuotientNegate(r.opcode, r.a, r.b)
          /\ remainder_negate = (r.opcode \in SignedOpcodes /\ Negative(r.a))
          /\ is_rem = (r.opcode \in RemOpcodes)
          /\ quotient < Power[iterations]
          /\ divisor = 0 => dividend = n /\ quotient = Power[iterations] - 1
          /\ divisor # 0 => /\ dividend < divisor * Position
                            /\ n = quotient * (divisor * Position) + dividend
=============================================================================
