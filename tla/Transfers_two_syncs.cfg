CONSTANTS
  Target = {t1}
  Launcher = {l1}
  Rejecter = {r1}
  Syncer = {s1, s2}
  Nobody = nobody
  MaxCrashes = 0
  MaxLockLosses = 0
  TtlExpires = FALSE
  PodRetries = FALSE
SPECIFICATION Spec
INVARIANTS FailureIsReal
