\* A pipeline in which one fault or two have happened, and nothing new happens
\* to the nodes that are then dropped.
SPECIFICATION Spec
CONSTANTS
  Datanode = {1, 2, 3}
  MaxFaults = 2
  Replication = 2
  PoolSize = 2
  WriteRetry = 2
  CanAdd = TRUE
  Chunk = 2
  PacketSize = 4
  BlockSize = 10
  Limit = 11
  FlushAt = {0, 7}
  MaxSeq = 3
PROPERTIES OnlyBadDropped
CHECK_DEADLOCK FALSE
