SPECIFICATION Spec
CONSTANTS
  BProc = {1, 2}
  DiskBlock = {k1, k2, k3, k4}
  NBUF = 3
  MAXPIN = 1
  Changed = {k1}
  MaxVersion = 1
  NOBLOCK = NOBLOCK
  VProc = {1, 2}
  NPAGE = 18
  SPARE = 7
  MaxVmCalls = 4
  PTES = 2
  PGSIZE = 2
  WRAP64 = 64
  MaxSz = 10
  Grow <- Sbrk
  Images <- ElfFiles
  HEAP = 2
  MaxBrk = 14
  MORE = 4
  MaxUnits = 5
  Reader = {r1, r2}
  INPUT_BUF_SIZE = 3
  CONSWRAP = 6
  MaxRead = 2
  NoReader = NoReader
  Writer = {w1, w2}
  Byte = {1, 2}
  UART_TX_BUF_SIZE = 2
  TXWRAP = 4
  FIFO = 2
  MaxEcho = 1
  None = None
  Lines <- AllLines
  Runs <- RunLines
  MaxLine = 12
  MAXARGS = 3
  NSHPROC = 8
  NCPU = 2
  NIPROC = 1
  TICKWRAP = 3
  Naps = {1}
INVARIANTS
  NoStaleRead PagesExact CopyExact HeapExact
  ReadersHaveReason WritersHaveWaker
  DescriptorsRight  InterruptsExact
PROPERTIES ParserRight LineSpec OutputSpec 
