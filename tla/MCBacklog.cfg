CONSTANTS
  INTERVAL = 6
  MaxElapsed = 8
  MaxWork = 20
  MaxBehind = 20
SPECIFICATION Spec
INVARIANTS TypeOK BacklogIsTimeBehind
