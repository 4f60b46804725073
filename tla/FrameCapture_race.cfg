\* Two threads in the windows and counters at once.
CONSTANTS
  t1 = t1
  t2 = t2
  Threads = {t1, t2}
  Eips <- MCRaceEips
  Ebps <- MCEbps
  CIRCULAR_LENGTH = 2
  MaxVisits = 3
SPECIFICATION Spec
INVARIANTS
  FirstVisitNotSkipped WindowsHoldVisits
\* The program ends after MaxVisits visits.
CHECK_DEADLOCK FALSE
