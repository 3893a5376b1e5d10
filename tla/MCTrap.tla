------------------------------- MODULE MCTrap -------------------------------
(* Finite instance of Trap.  A program starts with start.S and _init (MIE off,
   mstatus, mie) and goes on with three instructions that set timer and software
   interrupts in every order and number. *)
EXTENDS Trap

Boot == <<"disable", "mstatus", "mie">>
AllSources == Sources

MCPrograms ==
  {Boot \o body : body \in {<<a, b, c>> : a, b, c \in {"plain", "msip", "timecmp"}}}
    \cup {<<"disable", "exc", "mie">>}

\* An exception while interrupts are on.
ExceptionPrograms == {Boot \o <<"exc", "plain">>}
=============================================================================
