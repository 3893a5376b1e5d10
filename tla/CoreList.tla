------------------------------ MODULE CoreList ------------------------------
(***************************************************************************)
(* The linked list benchmark of CoreMark (coremark/core_list_join.c): the  *)
(* operations on the list that do not depend on the other benchmarks.      *)
(* A heap is [next, info, data]: next and info are the fields of a list    *)
(* header, indexed by its place in the header block, and data holds the    *)
(* data cells.  data16 is kept as its two bytes, hi and lo.                *)
(***************************************************************************)
EXTENDS CoreUtil, Sequences

Null == -1

Data16(d) == d.hi * 256 + d.lo
DataOf(heap, c) == heap.data[heap.info[c]]

(* The first n headers of the list from c on, or all if there are fewer.   *)
Chain(next, c, n) ==
    LET follow[cells \in Seq(DOMAIN next)] ==
          LET at == next[cells[Len(cells)]]
          IN  IF at = Null THEN cells ELSE Append(cells, at)
        walk[k \in 1..n] == IF k = 1 THEN <<c>> ELSE follow[walk[k - 1]]
    IN  IF c = Null \/ n = 0 THEN <<>> ELSE walk[n]

Used(heap) == Cardinality(DOMAIN heap.next)
ListFrom(heap, c) == Chain(heap.next, c, Used(heap))

(* The contents of the list from header c on.                              *)
Contents(heap, c) ==
    LET cells == ListFrom(heap, c)
    IN  [k \in 1..Len(cells) |-> DataOf(heap, cells[k])]

-----------------------------------------------------------------------------
(* The next free header is the place behind the last one; the last place   *)
(* of the block is never used.                                             *)
core_list_insert_new(heap, at, d, size) ==
    LET new == Used(heap)
    IN  IF new + 1 >= size THEN heap
        ELSE [next |-> [c \in 0..new |-> IF c = new THEN heap.next[at]
                                         ELSE IF c = at THEN new ELSE heap.next[c]],
              info |-> [c \in 0..new |-> IF c = new THEN new ELSE heap.info[c]],
              data |-> [c \in 0..new |-> IF c = new THEN d ELSE heap.data[c]]]

(* The fake head alone, and with the fake tail behind it.                  *)
HeadOnly == [next |-> [c \in {0} |-> Null], info |-> [c \in {0} |-> 0],
             data |-> [c \in {0} |-> [idx |-> 0, hi |-> 128, lo |-> 128]]]
HeadAndTail(size) ==
    core_list_insert_new(HeadOnly, 0, [idx |-> MaxS16, hi |-> MaxU8, lo |-> MaxU8], size)

(* The pattern of the i-th item, which is kept in both bytes.              *)
ItemPattern(seed, i) == (BitXor(U16(seed), i) % 16) * 8 + (i % 8)

(* The index of the i-th header behind the head: in order for the first    *)
(* fifth, and then above those (i has been incremented by the time it      *)
(* selects bits 8 to 10).                                                  *)
IndexOf(size, seed, i) ==
    IF i < size \div 5 THEN i
    ELSE BitOr(((i + 1) % 8) * 256, BitXor(i, U16(seed))) % 16384

-----------------------------------------------------------------------------
core_list_remove(heap, item) ==
    LET ret == heap.next[item]
    IN  [heap EXCEPT !.info[item] = heap.info[ret], !.info[ret] = heap.info[item],
                     !.next[item] = heap.next[ret], !.next[ret] = Null]

\* Mutant: the modified item is not linked to the one that comes back.
core_list_undo_remove_NoLink(heap, removed, modified) ==
    [heap EXCEPT !.info[removed] = heap.info[modified],
                 !.info[modified] = heap.info[removed],
                 !.next[removed] = heap.next[modified]]
core_list_undo_remove(heap, removed, modified) ==
    [heap EXCEPT !.info[removed] = heap.info[modified],
                 !.info[modified] = heap.info[removed],
                 !.next[removed] = heap.next[modified], !.next[modified] = removed]

(* The first header that carries the index, or, when the index is          *)
(* negative, the low data byte that is looked for.                         *)
core_list_find(heap, c, wanted) ==
    LET cells == ListFrom(heap, c)
        Fits(d) == IF wanted.idx >= 0 THEN d.idx = wanted.idx ELSE d.lo = wanted.data16
        hits == {k \in 1..Len(cells) : Fits(DataOf(heap, cells[k]))}
    IN  IF hits = {} THEN Null ELSE cells[CHOOSE k \in hits : \A j \in hits : k <= j]

(* Each header of the list points to the one before it; the last header is *)
(* the new head.                                                           *)
core_list_reverse(heap, list) ==
    LET cells == ListFrom(heap, list)
        n     == Len(cells)
    IN  [heap |-> [heap EXCEPT !.next = [c \in DOMAIN heap.next |->
                     IF c = list THEN Null
                     ELSE IF \E k \in 2..n : cells[k] = c
                     THEN cells[(CHOOSE k \in 2..n : cells[k] = c) - 1]
                     ELSE heap.next[c]]],
         list |-> cells[n]]

(* The header behind the one found, if any, becomes the second of the list.*)
MoveBehindHead(heap, list, found) ==
    LET finder  == heap.next[found]
        without == [heap.next EXCEPT ![found] = heap.next[finder]]
    IN  IF finder = Null THEN heap
        ELSE [heap EXCEPT !.next = [without EXCEPT ![finder] = without[list],
                                                   ![list] = finder]]

(* cmp_idx restores the low byte of both items from the high byte.         *)
\* Mutant: the cached result stays.
Regenerate_Keeps(heap, c) == heap
Regenerate(heap, c) == [heap EXCEPT !.data[heap.info[c]].lo = DataOf(heap, c).hi]
=============================================================================
