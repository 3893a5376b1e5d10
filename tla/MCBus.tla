------------------------------- MODULE MCBus -------------------------------
(* Finite instance of Bus: the three hosts of the SoC, two words in SRAM and
   one in the other device.  The debug host and the data bus write different
   data, a whole word and single lanes; the instruction bus only reads. *)
EXTENDS Bus

Read(a) == [op |-> "read", addr |-> a]
Write(a, lanes, d) == [op |-> "write", addr |-> a, lanes |-> lanes, data |-> d]

MCSramWords == {0, 1}
MCRamWords  == {2}

MCRequests ==
  [h \in 0 .. 2 |->
     CASE h = 0 -> {Write(0, {0, 1}, "debug")}
       [] h = 1 -> {Read(0), Write(0, {1}, "dbus"), Write(2, {0}, "dbus")}
       [] h = 2 -> {Read(1), Read(2)}]

MCWithdraws == {2}
=============================================================================
