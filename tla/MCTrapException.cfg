SPECIFICATION Spec
CONSTANTS
  Programs <- ExceptionPrograms
  MieValue <- AllSources
  TimeCmp = 1
  TimeMax = 2
  MaxCount = 2
  Externals = 1
PROPERTY ExceptionWritesMepc
