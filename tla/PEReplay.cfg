\* Frames and blocks in the files at flushes, at exit, at an exception and at a
\* kill.  The threads are alike.
CONSTANTS
  t1 = t1
  t2 = t2
  Threads = {t1, t2}
  Nobody = Nobody
  Main <- MCMain
  Elsewhere <- MCElsewhere
  Traces <- MCTraces
  MaxBlocks = 2
  MaxFrames = 2
  MaxTrace = 2
SPECIFICATION PESpec
SYMMETRY MCSymmetry
INVARIANTS
  BlockIdsDense TraceGroups BlockBeforeFrame OnlyMainModule
  JoinComplete NoDanglingOnceFinalizing
PROPERTIES
  OutputsStreamed
\* The process ends.
CHECK_DEADLOCK FALSE
