SPECIFICATION FairSpec
CONSTANTS
  Programs <- MCPrograms
  MieValue <- AllSources
  TimeCmp = 1
  TimeMax = 2
  MaxCount = 2
  Externals = 2
INVARIANTS TypeOK HandlerUninterrupted ServedIsPending ResumesInOrder
PROPERTY EveryInterruptServed
