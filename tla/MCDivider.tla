------------------------------ MODULE MCDivider ------------------------------
(* Finite instance of Divider: all operands of four bits. *)
EXTENDS Divider

MCPower == [n \in 0 .. WIDTH |-> 2 ^ n]
=============================================================================
