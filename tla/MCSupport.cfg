SPECIFICATION MCSpec
CONSTANTS
  Workers = {w1, w2}
  Clients = {c1, c2}
  Owner = c1
  Tasks = {t1, t2, t3}
  None = None
  Main = Main
  Parts = {"pool", "group", "lock", "static"}
  GroupThreads = 2
  LatchModulus = 8
  GroupTasks <- FourTasks
  TreeGroups <- MixedGroups
  TreeGroupOf <- MixedGroupOf
  TreeSpawnedBy <- MixedSpawnedBy
  TreeOwnerOf <- MixedOwnerOf
  TreeFutures = {"x2"}
  StaticCount = 3
  StaticsMade = 6
  LockHostOf <- TwoHosts
  LockCrashes = 2
  LockTimeouts = TRUE
  LockOutputs = {"none", "old"}
INVARIANTS LocksAreReleased
PROPERTIES ImplementsBarrier GroupImplementsBarrier WaitersReturn StaticsAreOrdered
