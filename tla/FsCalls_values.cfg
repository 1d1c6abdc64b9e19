\* The values of the offset calls and of truncate() against their comments.
SPECIFICATION Spec
CONSTANTS
    Call = {1, 2}
    Thread = {t1, t2}
    Used = {"offset", "truncate"}
    Habits = {}
INVARIANTS DocumentedValue
CHECK_DEADLOCK FALSE
