----------------------------- MODULE CoreMatrix -----------------------------
(***************************************************************************)
(* The matrix benchmark of CoreMark (coremark/core_matrix.c).  A matrix is *)
(* a function on 0..N*N-1 in the row order of the C arrays; its MATDAT     *)
(* elements are 16-bit signed, its MATRES elements 32-bit.                 *)
(***************************************************************************)
EXTENDS CoreUtil, CoreMemory, Sequences

Cells(N) == 0..(N * N - 1)
Row(N, k) == k \div N
Col(N, k) == k % N

matrix_clip(x, y) == IF y THEN x % 256 ELSE x % 65536
matrix_big(x) == -4096 + x                \* 0xf000 | x for x below 0x1000
bit_extract(x, from, to) == (x \div 2^from) % 2^to

(* Sum over k in 0..n-1.                                                   *)
SumTo(n, term(_)) ==
    LET sum[k \in 0..n] == IF k = 0 THEN 0 ELSE sum[k - 1] + term(k - 1)
    IN  sum[n]

matrix_add_const(N, A, val) == [k \in Cells(N) |-> S16(A[k] + val)]

\* Mutant: the products are cut to the width of the operands.
matrix_mul_const_Cut(N, A, val) == [k \in Cells(N) |-> S16(A[k] * val)]
matrix_mul_const(N, A, val) == [k \in Cells(N) |-> A[k] * val]

(* Only the first N elements of the result are written.                    *)
matrix_mul_vect(N, C, A, B) ==
    [k \in Cells(N) |->
       IF k < N THEN SumTo(N, LAMBDA j : A[k * N + j] * B[j]) ELSE C[k]]

matrix_mul_matrix(N, A, B) ==
    [k \in Cells(N) |->
       SumTo(N, LAMBDA h : A[Row(N, k) * N + h] * B[h * N + Col(N, k)])]

matrix_mul_matrix_bitextract(N, A, B) ==
    [k \in Cells(N) |->
       SumTo(N, LAMBDA h :
         LET tmp == A[Row(N, k) * N + h] * B[h * N + Col(N, k)]
         IN  bit_extract(tmp, 2, 4) * bit_extract(tmp, 5, 7))]

(* The accumulator is reset, for ten points, when it passes clipval, and   *)
(* otherwise an element that is above the one before it is worth one.      *)
RECURSIVE SumRow(_, _, _, _, _)
SumRow(C, clipval, k, last, acc) ==
    IF k = last THEN acc
    ELSE IF acc.tmp + C[k] > clipval
    THEN SumRow(C, clipval, k + 1, last,
                [tmp |-> 0, prev |-> C[k], ret |-> acc.ret + 10])
    ELSE SumRow(C, clipval, k + 1, last,
                [tmp |-> acc.tmp + C[k], prev |-> C[k],
                 ret |-> IF C[k] > acc.prev THEN acc.ret + 1 ELSE acc.ret])

RECURSIVE SumRows(_, _, _, _, _)
SumRows(N, C, clipval, i, acc) ==
    IF i = N THEN S16(acc.ret)
    ELSE SumRows(N, C, clipval, i + 1,
                 SumRow(C, clipval, i * N, (i + 1) * N, acc))

matrix_sum(N, C, clipval) ==
    SumRows(N, C, clipval, 0, [tmp |-> 0, prev |-> 0, ret |-> 0])

matrix_test(N, A, B, val) ==
    LET clipval == matrix_big(val)
        changed == matrix_add_const(N, A, val)
        C1 == matrix_mul_const(N, changed, val)
        C2 == matrix_mul_vect(N, C1, changed, B)
        C3 == matrix_mul_matrix(N, changed, B)
        C4 == matrix_mul_matrix_bitextract(N, changed, B)
        crc1 == crc16(matrix_sum(N, C1, clipval), 0)
        crc2 == crc16(matrix_sum(N, C2, clipval), crc1)
        crc3 == crc16(matrix_sum(N, C3, clipval), crc2)
    IN  crc16(matrix_sum(N, C4, clipval), crc3)

(* What matrix_test leaves in A.                                           *)
MatrixAfterTest(N, A, val) ==
    matrix_add_const(N, matrix_add_const(N, A, val), -val)

MatricesAfterTest(mat, val) == [mat EXCEPT !.A = MatrixAfterTest(mat.N, @, val)]

-----------------------------------------------------------------------------
(* At most n further elements of all, in the order they are written:       *)
(* element k has order k + 1, and its seed is the one before it times its  *)
(* order.                                                                  *)
RECURSIVE FillMatrices(_, _, _)
FillMatrices(m, n, all) ==
    LET order == Len(m.A) + 1
        s     == (order * m.seed) % 65536
        b     == S16(matrix_clip(s + order, FALSE))
    IN  IF order > all THEN m
        ELSE IF n > 1
        THEN FillMatrices(FillMatrices(m, n \div 2, all), n - n \div 2, all)
        ELSE [seed |-> s, A |-> Append(m.A, matrix_clip(b + order, TRUE)),
              B |-> Append(m.B, b)]

core_init_matrix(blksize, seed) ==
    LET N == MatrixOrder(blksize)
        m == FillMatrices([seed |-> IF seed = 0 THEN 1 ELSE seed,
                           A |-> <<>>, B |-> <<>>], N * N, N * N)
    IN  [N |-> N, A |-> [k \in Cells(N) |-> m.A[k + 1]],
                  B |-> [k \in Cells(N) |-> m.B[k + 1]]]
=============================================================================
