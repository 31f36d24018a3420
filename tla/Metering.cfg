\* Two attempts, on one machine or on two, and two requests inside the API.  A
\* run that has shipped and a job that has ended stop.
CONSTANTS
  Attempts = 2
  Workers = {w1, w2}
  Repairs = 1
  BatchSize = 5
  Tries = 2
  Backlog = 2
SYMMETRY Interchangeable
SPECIFICATION Spec
INVARIANTS
  NothingCountedTwice
  BatchesAreWhole
CHECK_DEADLOCK FALSE
