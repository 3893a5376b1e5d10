SPECIFICATION FairSpec
CONSTANTS
  W = 2
  Commands <- MCCommands
  Cleared <- MCCleared
  NoByte = NoByte
  RxTime = 4
  TxTime = 6
  MaxWait = 2
  MaxMessages = 9
  MaxResets = 1
INVARIANTS TypeOK LoadedWhenRunning PushesFit
PROPERTIES ImplementsLoader EndReleasesCore
