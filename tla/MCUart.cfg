SPECIFICATION FairSpec
CONSTANTS
  UART_BUFFER_SIZE = 4
  FIFO_DEPTH = 3
  TXCNT = 2
  Programs <- MCPrograms
  ByteFirst = TRUE
INVARIANTS TypeOK BufferedIsEnabled
PROPERTIES ImplementsByteStream EverythingSent
CHECK_DEADLOCK FALSE
