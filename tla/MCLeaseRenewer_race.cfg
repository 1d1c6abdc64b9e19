\* A file opened while the thread is leaving.
SPECIFICATION Spec
CONSTANTS
    Stream = {"s1", "s2", "s3", "s4"}
    Client = {"a", "b"}
    fs <- MCfs
PROPERTIES RenewsPeriodically
CHECK_DEADLOCK FALSE
