SPECIFICATION FairSpec
CONSTANTS
    Sessions = {s1}
    Sockets = {k1, k2}
    NoThread = NoThread
    NoSession = NoSession
    Untracked = Untracked
    Timeout = 1
    MaxMessages = 2
PROPERTY
    SweepsIdleOnly
CHECK_DEADLOCK FALSE
