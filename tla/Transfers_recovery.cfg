CONSTANTS
  Target = {t1, t2}
  Launcher = {l1, l2}
  Rejecter = {r1}
  Syncer = {s1}
  Nobody = nobody
  MaxCrashes = 1
  MaxLockLosses = 1
  TtlExpires = FALSE
  PodRetries = TRUE
SPECIFICATION Spec
SYMMETRY Symmetry
INVARIANTS CopiedOnce SuccessIsReal
