------------------------------ MODULE MCCache ------------------------------
(* Finite instance of Cache: two ways of two lines, three cacheable addresses
   that compete for line 0, and a cacheable one and a peripheral for line 1. *)
EXTENDS Cache

MCUncached == {3}
=============================================================================
