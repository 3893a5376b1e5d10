SPECIFICATION Spec
CONSTANTS
  Programs <- LoadMul
  Last = 9
  Regs <- MCRegs
  ValMod = 10
  Handler = 5
  DIV_STEPS = 2
  MaxIrq = 0
  BusWaits <- Any
INVARIANT DbusRequestStable
