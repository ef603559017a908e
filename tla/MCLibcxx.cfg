SPECIFICATION MCSpec
CONSTANTS
  Threads = {u1, u2, u3, u4}
  MaxReaders = 3
  Callers = {"t1", "t2", "t3"}
  First = "t1"
  Keepers = {"s1", "s2"}
  Launched = "s1"
  Getters = {"w1", "w2"}
  Others = {"w3"}
  Timed = TRUE
  Nothing = Nothing
  FlagCount = 2
  MaxCalls = 4
  MaxThrows = 1
INVARIANTS NoLostWakeup TimedMutexHolds PointerHolds
PROPERTIES ImplementsRWLock OnceFlagHolds GuardHolds FutureHolds CallsEnd
