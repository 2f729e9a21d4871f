CONSTANTS
  t1 = t1
  t2 = t2
  CPUs = {c0, c1}
  Threads = {t1, t2}
  CPU0 = c0
  Locks <- MCLocks
  Scenarios <- MCScenarios
  UART_TX_BUF_SIZE = 2
  INPUT_BUF_SIZE = 2
  FIFO = 2
  UINT = 4
  ReadSizes = {2}
  SleepTicks = {1}
CHECK_DEADLOCK FALSE
SPECIFICATION Spec
INVARIANTS
  InterruptsSafe
  OutputMoves
  LinesExact
  NoLostWakeup
 
