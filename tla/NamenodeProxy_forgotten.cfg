\* Two threads, two namenodes and one fault, against a comment of invokeInternal.
SPECIFICATION Spec
CONSTANTS
  Thread = {t1, t2}
  Idempotent = {t1}
  Namenodes = 2
  MaxFaults = 1
  MaxRetry = 0
INVARIANTS JustWaits
