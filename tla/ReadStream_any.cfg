\* Any client: files of up to four blocks, a buffer of two, every habit.
SPECIFICATION Spec
CONSTANTS
  Ops = 5
  Blocks = 4
  HighWater = 2
  Threads = 2
  MaxTicks = 2
  Habits <- AllHabits
INVARIANTS TypeOK ReceivedInOrder EndMeansAll NoUndefinedBehaviour
PROPERTIES NoReadAfterClose ReadEnds
\* The client may stop, and undefined behaviour stops the model.
CHECK_DEADLOCK FALSE
