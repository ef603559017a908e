SPECIFICATION MCSpec
CONSTANTS
  Tids = {t1, t2, t3}
  Syncs = {s1}
  NoTid = NoTid
SYMMETRY Symmetry
INVARIANTS EveryReportIsARace EveryRaceIsReported OrderIsExact OneSyncPerAddress
CHECK_DEADLOCK FALSE
