CONSTANTS
  Target = {t1, t2}
  Launcher = {l1}
  Rejecter = {r1}
  Syncer = {s1}
  Nobody = nobody
  MaxCrashes = 1
  MaxLockLosses = 0
  TtlExpires = TRUE
  PodRetries = TRUE
SPECIFICATION FairSpec
PROPERTIES SyncSettles
