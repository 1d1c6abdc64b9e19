\* Registration, the join and the thread's rounds.
SPECIFICATION Spec
CONSTANTS
    Stream = {"s1", "s2", "s3", "s4"}
    Client = {"a", "b"}
    fs <- MCfs
INVARIANTS TypeOK Registered JoinReturns
PROPERTIES RenewsWatched
CHECK_DEADLOCK FALSE
