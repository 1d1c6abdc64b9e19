\* Three calls on two threads, of the kinds whose paths or answers are treated
\* differently, each of them with every answer,
\* by a client that awaits setWorkingDirectory.
SPECIFICATION Spec
CONSTANTS
    Call = {1, 2, 3}
    Thread = {t1, t2}
    Used = {"exists", "rename", "chdir", "where"}
    Habits = {}
INVARIANTS TypeOK OwnException  OneDirectory
PROPERTIES Settles
CHECK_DEADLOCK FALSE
