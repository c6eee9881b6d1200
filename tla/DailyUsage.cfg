SPECIFICATION FairSpec
CONSTANTS
    Conns = {c1, c2, c3}
    NoConn = NoConn
    Admins = {c3}
    Limit = 2
    MaxDay = 1
INVARIANTS
    EveryServedPaid
    RefusedAtLimit
PROPERTIES
    ImplementsQuota
    MessageDecided
