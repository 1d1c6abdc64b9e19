\* Two threads, one with idempotent calls, two namenodes and one fault.
SPECIFICATION Spec
CONSTANTS
  Thread = {t1, t2}
  Idempotent = {t1}
  Namenodes = 2
  MaxFaults = 1
  MaxRetry = 0
INVARIANTS TypeOK  OnceUnlessStalled
PROPERTIES CallsReturn
