SPECIFICATION Spec
CONSTANTS
  UART_BUFFER_SIZE = 4
  FIFO_DEPTH = 3
  TXCNT = 2
  Programs <- WrapPrograms
  ByteFirst = TRUE
PROPERTY ImplementsByteStream
CHECK_DEADLOCK FALSE
