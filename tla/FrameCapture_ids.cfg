\* Two threads: is the id of a frame its own?
CONSTANTS
  t1 = t1
  t2 = t2
  Threads = {t1, t2}
  Eips <- MCRaceEips
  Ebps <- MCEbps
  CIRCULAR_LENGTH = 2
  MaxVisits = 3
SPECIFICATION Spec
INVARIANTS
  TimelineIdsUnique
CHECK_DEADLOCK FALSE
