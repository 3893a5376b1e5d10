SPECIFICATION FairSpec
CONSTANTS
  Programs <- MCPrograms
  Last = 9
  Regs <- MCRegs
  ValMod = 10
  Handler = 5
  DIV_STEPS = 2
  MaxIrq = 2
  BusWaits <- Any
INVARIANTS TypeOK DbusRequestStable
PROPERTIES ImplementsIsa ReachesHalt
