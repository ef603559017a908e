SPECIFICATION MCSpec
CONSTANTS
  Threads = {t1, t2}
  Mutexes = {m1, m2, m3, m4}
  None = None
SYMMETRY Symmetry
INVARIANTS EdgesHappened CyclesAreReported
CHECK_DEADLOCK FALSE
