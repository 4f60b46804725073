\* "Too many logs" against the termination it is meant to bring.
CONSTANTS
  t1 = t1
  t2 = t2
  Threads = {t1, t2}
  Fini = Fini
  Nobody = Nobody
  NUL = "NUL"
  NL = "newline"
  Bytes <- MCBytes
  Lines <- MCLines
  BUF_SIZE = 4
  BIGGEST_FILE_SIZE = 4
  BIGGEST_FILE_NUMS = 1
  MaxCalls = 2
  MaxFaults = 0
SPECIFICATION FaultyFairSpec
PROPERTIES
  TooManyLogsTerminates
\* The traced program ends.
CHECK_DEADLOCK FALSE
