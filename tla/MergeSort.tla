----------------------------- MODULE MergeSort -----------------------------
(***************************************************************************)
(* core_list_mergesort (coremark/core_list_join.c): a stable merge sort    *)
(* that relinks a list in place, in passes over runs that double in        *)
(* length.  A step is one turn of a loop of the C code.  What a comparison *)
(* finds, and does to the data of the two headers, is in CoreMark.         *)
(***************************************************************************)
EXTENDS CoreList

VARIABLES
  pc,      \* where the program is: in the sort, in which of its loops
  links,   \* the next fields of the list headers
  srt      \* the locals of core_list_mergesort, its comparison and caller, and
           \* history: the headers in the order at the call

NoSort == [p |-> Null, q |-> Null, list |-> Null, tail |-> Null, insize |-> 1,
           psize |-> 0, qsize |-> 0, nmerges |-> 0,
           cmp |-> "idx", to |-> "none", from |-> <<>>]

\* A call with comparison cmp that returns to the label to.
Sort(next, list, cmp, to) ==
  /\ pc' = "pass"
  /\ srt' = [NoSort EXCEPT !.list = list, !.cmp = cmp, !.to = to,
                           !.from = Chain(next, list, Cardinality(DOMAIN next))]

\* A pass begins with the list the last one has made.
BeginPass ==
  /\ pc = "pass" /\ pc' = "merge"
  /\ srt' = [srt EXCEPT !.p = srt.list, !.list = Null, !.tail = Null, !.nmerges = 0]
  /\ UNCHANGED links

BeginMerge ==
  /\ pc = "merge" /\ srt.p # Null /\ pc' = "along"
  /\ srt' = [srt EXCEPT !.nmerges = @ + 1, !.q = srt.p, !.psize = 0]
  /\ UNCHANGED links

\* q goes insize headers along from p, unless the list ends before.
StepAlong ==
  /\ pc = "along"
  /\ LET q     == links[srt.q]
         psize == srt.psize + 1
     IN  IF psize = srt.insize \/ q = Null
         THEN /\ pc' = "pick"
              /\ srt' = [srt EXCEPT !.q = q, !.psize = psize, !.qsize = srt.insize]
         ELSE /\ srt' = [srt EXCEPT !.q = q, !.psize = psize]
              /\ UNCHANGED pc
  /\ UNCHANGED links

PLeft == srt.psize > 0
\* Mutant: the second list is not limited to insize.
QLeft_NoCount == srt.q # Null
QLeft == srt.qsize > 0 /\ srt.q # Null

\* The header e becomes the tail of the merged list.
LinkToTail(e) ==
  links' = IF srt.tail = Null THEN links ELSE [links EXCEPT ![srt.tail] = e]

TakeP ==
  /\ srt' = [srt EXCEPT !.p = links[@], !.psize = @ - 1, !.tail = srt.p,
                        !.list = IF srt.tail = Null THEN srt.p ELSE @]
  /\ LinkToTail(srt.p)

TakeQ ==
  /\ srt' = [srt EXCEPT !.q = links[@], !.qsize = @ - 1, !.tail = srt.q,
                        !.list = IF srt.tail = Null THEN srt.q ELSE @]
  /\ LinkToTail(srt.q)

\* One of the two runs has no header left.
PickOnly ==
  /\ pc = "pick"
  /\ \/ ~PLeft /\ QLeft /\ TakeQ
     \/ PLeft /\ ~QLeft /\ TakeP
  /\ UNCHANGED pc

\* Both have: the comparison says whether the one of p is taken.
PickLower(first) ==
  /\ pc = "pick" /\ PLeft /\ QLeft
  /\ IF first THEN TakeP ELSE TakeQ
  /\ UNCHANGED pc

MergeDone ==
  /\ pc = "pick" /\ ~PLeft /\ ~QLeft /\ pc' = "merge"
  /\ srt' = [srt EXCEPT !.p = srt.q]
  /\ UNCHANGED links

\* If the pass made one merge the sort returns.  Otherwise the runs of the next
\* pass are twice as long.
EndPass ==
  /\ pc = "merge" /\ srt.p = Null
  /\ links' = [links EXCEPT ![srt.tail] = Null]
  /\ IF srt.nmerges <= 1
     THEN pc' = srt.to /\ UNCHANGED srt
     ELSE pc' = "pass" /\ srt' = [srt EXCEPT !.insize = 2 * @]
=============================================================================
