\* The text of an error against hdfs.h.
SPECIFICATION Spec
CONSTANTS
    Call = {1, 2}
    Thread = {t1, t2}
    Used = {"check", "plain"}
    Habits = {}
INVARIANTS OwnText
CHECK_DEADLOCK FALSE
