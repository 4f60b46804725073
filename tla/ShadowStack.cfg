CONSTANTS
  Returns = {r1, r2}
  Elsewhere = elsewhere
  MaxDepth = 4
  MaxFrames = 5
SPECIFICATION Spec
SYMMETRY ReturnSymmetry
INVARIANTS LiveFramesShadowed MirrorsNested
PROPERTY FirstAlarmTrue
CHECK_DEADLOCK FALSE
CONSTRAINT Untold
