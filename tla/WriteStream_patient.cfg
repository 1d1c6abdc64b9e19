\* A client that may write empty chunks and forget streams: five chunks, two threads.
SPECIFICATION Spec
CONSTANTS
  Ops = 5
  Threads = 2
  MaxTicks = 1
  Habits = {"emptyChunk", "drop"}
INVARIANTS NoUndefinedBehaviour CompleteMeansWhole CloseMeansComplete
PROPERTIES EndSettles FileReleased KeepsPromise
\* The client may stop.
CHECK_DEADLOCK FALSE
