SPECIFICATION FairSpec
CONSTANTS
  MaxThreads = 4
  QuarantineSize = 1
  MaxReuse = 0
  UserIds = {u1, u2}
  NoUser = NoUser
  MaxTotal = 4
INVARIANTS EveryContextInPlace
PROPERTIES ThreadsAreKnown CreationReturns
