SPECIFICATION Spec
CONSTANTS
    Sockets = {k1, k2}
    MaxMessages = 1
    NoTitle = NoTitle
SYMMETRY Symmetry
INVARIANTS
    OutcomeAgrees
    TraceNotStale
    TitleNotLate
CHECK_DEADLOCK FALSE
