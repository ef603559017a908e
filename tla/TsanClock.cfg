SPECIFICATION Spec
SYMMETRY Symmetry
CONSTANTS
  N = 3
  Syncs = {s1, s2}
  MaxEpoch = 3
  MaxTicks = 4
  GlobalTicks = 2
  MaxReuse = 1
  kDirtyTids = 1
  Finalizers = {0}
INVARIANTS LateTimesCarryAll FlaggedKnowsCleanElements OperationsConform
PROPERTY ImplementsVectorClock
