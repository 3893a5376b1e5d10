------------------------------- MODULE MCIfu -------------------------------
(* Finite instance of Ifu: a queue of four entries (the default of ifu.sv), a circular
   program of eight words, two redirect targets (one falls into the stream
   of the other). *)
EXTENDS Ifu

MCTargets == {2, 7}
=============================================================================
