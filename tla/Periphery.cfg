SPECIFICATION MCSpec
CONSTANTS
    Users = {"u1", "u2"}
    Networks = {"n1", "n2"}
    Conversations = {"c1", "c2"}
    \* two verifications and one rotation of the key; keys are cached for one tick
    Verifications = {"v1", "v2"}
    MaxKey = 1
    TTL = 1
    \* two requests by one user on two days; the period is a day
    Reporters = {"u1"}
    Period = 1
    MaxTime = 1
    MaxRows = 2
    \* one event at a time, any number of restarts; a second store would show
    Orgs = {"o1"}
    Owned = {"n1"}
    Builtins = {"b1"}
    Events = {"e1"}
    Everyone = "User:*"
    MaxStores = 2
    \* two conversations in pages of one
    PageSize = 1
    MaxLoads = 3
    MaxMoves = 2
    \* both streams of a process, with a line that cannot be read, handled or written;
    \* every answer of three lines
    Streams = {"out", "err"}
    MaxLines = 3
    MaxFaults = 1
    \* two conversations that edit, and persist at once or in turn
    Agents = {"a1", "a2"}
    Toolbox = {"a2"}
    NoName = "none"
    Inside <- InsideNames
    MaxEdits = 4
    \* two events at a time in two threads
    Workers = {"w1", "w2"}
    Threads = {"t1", "t2"}
    NoNetwork = "none"
    Commands <- SlackCommands
    MaxEvents = 2
    \* two conversations with a memory file
    Topics = {"t1", "t2"}
    MaxFacts = 4
    \* two calls at a time for two sets of documents, with a file, a table or neither
    Calls = {"c1", "c2"}
    Urls = {"u1", "u2"}
    Files = {"f1"}
    Tables = {"t1"}
    NoPath = "none"
    MaxCrashes = 1
    \* two sources, scraped one or all, again and again
    Keywords = {"k1"}
    Sources = {"nyt", "aljazeera"}
    FullText = {"aljazeera"}
    Articles <- SomeArticles
    \* two requests under way at once, three of them for keys
    Requests = {"r1", "r2"}
    Providers = {"openai", "anthropic"}
    Lenient = "anthropic"
    Keys = {"good", "bad"}
    GoodKeys = {"good"}
    Fields = {"f1"}
    NoKey = "none"
    MaxSubmitted = 3
    \* a report at a time, of the message or not, and a click
    Admin = "u2"
    Owner <- OwnerOf
    Messages = {"m1"}
    In <- MessageIn
    Traced = {"m1"}
    None = "none"
    Posts = {"q1"}
    MaxReports = 2
    MaxClicks = 1
CONSTRAINTS
    LinesBound
    DesignBound
    NewsBound
    StoreBound
    TuplesBound
INVARIANTS
    TypeOK
    ReportsSound
    AuthSound
    ViewsComplete
    LinesKept
    StoreSound
    OnlyStaleForgotten
    AnswersSourced
    ReportsOwnScrape
    SettingsKept
PROPERTIES
    KeysFresh
    ThreadKept
CHECK_DEADLOCK FALSE
