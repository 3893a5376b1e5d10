SPECIFICATION FairSpec
CONSTANTS
  NH = 3
  Requests <- MCRequests
  Withdraws <- MCWithdraws
  SramWords <- MCSramWords
  RamWords <- MCRamWords
  Reset = Reset
  NoData = NoData
INVARIANTS TypeOK CapturedIsGranted
PROPERTIES ImplementsSharedMemory HostsServed
