\* Any client: three chunks, two pool threads, every habit.
SPECIFICATION Spec
CONSTANTS
  Ops = 3
  Threads = 2
  MaxTicks = 2
  Habits <- AllHabits
INVARIANTS TypeOK OneWriteInFlight AckedStored FinishMeansStored StoredInOrder
PROPERTIES CloseSettles
\* The client may stop, and undefined behaviour stops the model.
CHECK_DEADLOCK FALSE
