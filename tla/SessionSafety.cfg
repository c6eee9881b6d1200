SPECIFICATION Spec
CONSTANTS
    Sessions = {s1, s2}
    Sockets = {k1, k2}
    NoThread = NoThread
    NoSession = NoSession
    Untracked = Untracked
    Timeout = 1
    MaxMessages = 1
SYMMETRY Symmetry
INVARIANTS
    AtMostOneAgent
    ChatHasAgent
    FailedInitIsFinal
    TornDownOnce
    Reapable
PROPERTIES
    ImplementsService
CHECK_DEADLOCK FALSE
