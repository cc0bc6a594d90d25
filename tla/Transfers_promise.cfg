CONSTANTS
  Target = {t1, t2}
  Launcher = {l1, l2}
  Rejecter = {r1}
  Syncer = {s1}
  Nobody = nobody
  MaxCrashes = 0
  MaxLockLosses = 0
  TtlExpires = FALSE
  PodRetries = FALSE
SPECIFICATION FairSpec
INVARIANTS TypeOK FailureIsReal RejectedHasNoneRunning
PROPERTIES KeepsPromise InFlightEnds
