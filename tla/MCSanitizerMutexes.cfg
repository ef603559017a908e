SPECIFICATION MCSpec
CONSTANT Threads = {t1, t2, t3, t4}
INVARIANTS WordCountsHolders NoSleeperForgotten
PROPERTIES WaitersGetIn ImplementsRWLock ImplementsLock
