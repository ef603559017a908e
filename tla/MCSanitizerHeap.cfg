SPECIFICATION MCSpec
CONSTANTS
  s1 = s1  s2 = s2  s3 = s3  s4 = s4
  Procs = {p1, p2}
  Stacks = {s1, s2, s3, s4}
  StorageSize <- SizeOf
  Sizes = {1, 2}
  RegionSize = 2
  Top = 5
  Bucket <- BucketOf
  PartSize = 2
  PartCount = 2
  MaxId = 3
  NoStack = NoStack
  MaxCalls = 4
  Users = {t1, t2}
  None = None
  Links = {n1, n2}
  PushMod = 4
  MaxCached = 2
  UserMapSize = 4
  MetaMapSize = 2
  ClassSize = 14
  MapUsers = {t1, t2, t3}
  Addrs = {1, 2, 3}
  BucketSize = 1
  InitCap = 1
  MaxOps = 4
  Chunks = {c1, c2, c3, c4}
  ChunkSize = 4
  BatchBytes = 1
  BatchSize = 2
  MaxSize = 10
  MaxCacheSize = 6
INVARIANTS DepotIsSound ChunksOnce HandlesHold
PROPERTIES ImplementsAtomicStack QuarantineHolds
