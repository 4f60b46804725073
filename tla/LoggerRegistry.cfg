\* Threads log their first lines at once.
CONSTANTS
  t1 = t1
  t2 = t2
  t3 = t3
  Threads = {t1, t2, t3}
  frames = frames
  blocks = blocks
  Names = {frames, blocks}
  Absent = Absent
  Capacity = 1
  MaxCalls = 4
SPECIFICATION Spec
SYMMETRY MCSymmetry
INVARIANTS
  LoggersPerThread NullIsTransient SoleLoggerComplete
\* The program ends.
CHECK_DEADLOCK FALSE
