\* A file of up to two blocks on a chain of two of three datanodes, with two
\* faults: crashes, timeouts, lost answers, broken connections.
SPECIFICATION Spec
CONSTANTS
  Datanode = {1, 2, 3}
  MaxFaults = 2
  Replication = 2
  PoolSize = 2
  WriteRetry = 2
  CanAdd = TRUE
  Chunk = 2
  PacketSize = 4
  BlockSize = 10
  Limit = 11
  FlushAt = {0, 7}
  MaxSeq = 3
INVARIANTS TypeOK AckedOnCounted NoHole WithinBounds AssertionsHold FlushMeansStored NoSilentOrphan
PROPERTIES CallReturns KeepsPromise
\* The client may stop, and a closed stream has nothing left to do.
CHECK_DEADLOCK FALSE
