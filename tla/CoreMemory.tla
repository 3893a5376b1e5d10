----------------------------- MODULE CoreMemory -----------------------------
(***************************************************************************)
(* How CoreMark lays its data out in the memory block: main gives each of  *)
(* the three algorithms a third, the list takes as many headers and data   *)
(* cells as fit (coremark/core_list_join.c), and the matrices are as large *)
(* as fit (coremark/core_matrix.c).                                        *)
(***************************************************************************)
EXTENDS Integers

(* The number of headers and data cells of a block: 20 bytes an item, two  *)
(* items short.                                                            *)
ListSize(blksize) == blksize \div 20 - 2

(* The largest order whose three matrices, 8 bytes an element, stay below  *)
(* the size of the block.                                                  *)
\* Mutant: the order at which the loop stops, not the one before it.
MatrixOrder_Stop(blksize) ==
    CHOOSE n \in 1..blksize : 8 * (n - 1) * (n - 1) < blksize /\ 8 * n * n >= blksize
MatrixOrder(blksize) ==
    CHOOSE n \in 0..blksize : 8 * n * n < blksize /\ 8 * (n + 1) * (n + 1) >= blksize

align_mem(x) == 4 + ((x - 1) \div 4) * 4

(* The offset behind the last matrix of a block that starts at memblk.     *)
MatrixEnd(blksize, memblk) ==
    LET N == MatrixOrder(blksize)
    IN  align_mem(align_mem(memblk) + 4 * N * N) + 4 * N * N
=============================================================================
