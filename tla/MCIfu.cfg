SPECIFICATION FairSpec
CONSTANTS
  PcMod = 8
  IFQ_DEPTH = 4
  IFQ_AFULL_TH = 1
  Targets <- MCTargets
  NoPc = NoPc
INVARIANTS TypeOK IfqNeverOverflows StaleReadIsolated BusAddressStable
PROPERTIES ImplementsFetchStream FetchProgress
