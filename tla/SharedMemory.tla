---------------------------- MODULE SharedMemory ----------------------------
(***************************************************************************)
(* What the bus hosts may rely on: one memory, whose accesses are atomic.  *)
(*                                                                         *)
(* A host presents a request and keeps it until it is served; only a read  *)
(* may be withdrawn.  A served request is performed once, whole, in that   *)
(* step: a write changes its lanes, a read gives the host its answer in    *)
(* the next cycle.  Hosts served in the same step use different words.     *)
(*                                                                         *)
(* Module Bus implements this specification.                               *)
(***************************************************************************)

CONSTANTS
  Hosts,
  Words,     \* word addresses
  Reset,     \* data of a word that was never written
  NoData     \* readdata that answers no read

VARIABLES
  req,       \* request each host presents
  served,    \* request of each host that was served in the last step
  mem,       \* contents: functions from words and lanes
  answer     \* readdata each host gets in this cycle

vars == <<req, served, mem, answer>>

\* The two halves of a word; the half of a datum that is written to a lane.
Lanes == {0, 1}
Half(d, l) == <<d, l>>

\* No request.
Idle == [op |-> "idle"]

Init ==
  /\ req = [h \in Hosts |-> Idle]
  /\ served = [h \in Hosts |-> Idle]
  /\ mem = [a \in Words |-> [l \in Lanes |-> Half(Reset, l)]]
  /\ answer = [h \in Hosts |-> NoData]

\* A host is served, waits, or withdraws a read.
Serve(h) ==
  \/ served'[h] = req[h]
  \/ /\ served'[h] = Idle
     /\ req'[h] = req[h] \/ req[h].op = "read"

Performs(h, op, a) == served'[h].op = op /\ served'[h].addr = a

Perform ==
  /\ \A g, h \in Hosts, a \in Words :
       (\E op, oq \in {"read", "write"} : Performs(g, op, a) /\ Performs(h, oq, a)) => g = h
  /\ mem' = [a \in Words |-> [l \in Lanes |->
       LET writers == {h \in Hosts : Performs(h, "write", a) /\ l \in served'[h].lanes}
       IN IF writers = {} THEN mem[a][l]
          ELSE Half(served'[CHOOSE h \in writers : TRUE].data, l)]]
  /\ answer' = [h \in Hosts |->
       IF served'[h].op = "read" THEN mem[served'[h].addr] ELSE NoData]

Next == (\A h \in Hosts : Serve(h)) /\ Perform

Spec == Init /\ [][Next]_vars
=============================================================================
