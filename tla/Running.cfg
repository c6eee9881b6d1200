SPECIFICATION MCSpec
CONSTANTS
    \* a connection with two messages in a row
    Sockets = {"k1"}
    MaxMessages = 2
    NoTitle <- Untitled
    \* one user with an organization beside the personal one, two requests
    Users = {"u1"}
    ClerkOrgs = {"o1"}
    Requests = {"r1", "r2"}
    NoOrg = "none"
    MaxSignals = 2
    \* a problem, its parts and theirs; three votes, two of which decide
    MaxDepth = 2
    WinningVotes = 2
    NumberOfVotes = 3
    Candidates = 3
    \* a start page and three others, at most one or two children
    Urls = {"p1", "p2", "p3", "p4"}
    StartUrl = "p1"
    MaxAgents = 3
    Links = {0, 1, 3}
    Limits = {1, 2}
    MaxPasses = 3
    \* two browsers; one message, a first chat and two new ones
    Clients = {"k1", "k2"}
    MaxInputs = 1
    MaxSessions = 3
    \* three inquiries, a retrieval gives up after two polls
    MaxAttempts = 2
    MaxInquiries = 3
INVARIANT TypeOK
INVARIANT LoginSound
INVARIANT LeavesRunning
INVARIANT ResultsSound
INVARIANT ConversationKept
PROPERTY EachMessageClosed
PROPERTY WorkEnds
CHECK_DEADLOCK FALSE
