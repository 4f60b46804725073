\* One thread: the calls against the atomic timeline.
CONSTANTS
  t1 = t1
  Threads = {t1}
  Eips <- MCEips
  Ebps <- MCEbps
  CIRCULAR_LENGTH = 4
  MaxVisits = 7
SPECIFICATION Spec
INVARIANTS
  FramesApart
PROPERTIES
  ImplementsTimeline
\* The program ends after MaxVisits visits.
CHECK_DEADLOCK FALSE
