SPECIFICATION MCSpec
CONSTANTS
  Workers = {w1, w2}
  Clients = {c1, c2}
  Owner = c1
  Tasks = {t1, t2, t3}
  None = None
  Main = Main
  Parts = {"group"}
  GroupThreads = 2
  LatchModulus = 8
  GroupTasks <- FourTasks
  TreeGroups <- NestedGroups
  TreeGroupOf <- NestedGroupOf
  TreeSpawnedBy <- NestedSpawnedBy
  TreeOwnerOf <- NestedOwnerOf
  TreeFutures = {}
  StaticCount = 3
  StaticsMade = 6
  LockHostOf <- OneHost
  LockCrashes = 0
  LockTimeouts = FALSE
  LockOutputs = {"none"}
PROPERTY SyncReturns
CHECK_DEADLOCK FALSE
