\* Few enough files for "Too many logs", and a disk that refuses once.
CONSTANTS
  t1 = t1
  t2 = t2
  Threads = {t1, t2}
  Fini = Fini
  Nobody = Nobody
  NUL = "NUL"
  NL = "newline"
  Bytes <- MCBytes
  Lines <- MCLines
  BUF_SIZE = 4
  BIGGEST_FILE_SIZE = 4
  BIGGEST_FILE_NUMS = 1
  MaxCalls = 3
  MaxFaults = 1
SPECIFICATION FaultyFairSpec
INVARIANTS
  Content WholeLinesPerFile FileSizes LossBound LossStaysInFile
PROPERTIES
  ImplementsStream EveryCallReturns ExitCompletes
\* The traced program ends.
CHECK_DEADLOCK FALSE
