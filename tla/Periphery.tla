------------------------------- MODULE Periphery -------------------------------
(***************************************************************************)
(* What surrounds the chat: the backend's signing keys, analytics,          *)
(* relationship tuples, history list and user settings, and the programs    *)
(* beside it that share log streams, directories, tables or dictionaries    *)
(* between actors.  They have no state in common: a behaviour is one of one *)
(* of them, the others stay where they began.                               *)
(***************************************************************************)
EXTENDS Naturals, Sequences, FiniteSets

CONSTANTS Users, Networks, Conversations,                  \* several components
          Verifications, MaxKey, TTL,                      \* JwksCache
          Reporters, Period, MaxTime, MaxRows,             \* UsageDashboard
          Orgs, Owned, Builtins, Events, Everyone,
          MaxStores,                                       \* AuthTuples
          PageSize, MaxLoads, MaxMoves,                    \* HistoryDrawer, FeedbackReports
          Streams, MaxLines, MaxFaults,                    \* LogBridge, ResponseBlocks
          Agents, Toolbox, NoName, Inside, MaxEdits,       \* NetworkDesign
          Workers, Threads, NoNetwork, Commands, MaxEvents,  \* SlackThreads
          Topics, MaxFacts,                                \* TopicMemory
          Calls, Urls, Files, Tables, NoPath, MaxCrashes,  \* VectorStores
          Keywords, Sources, FullText, Articles,           \* NewsArticles
          Requests, Providers, Lenient, Keys, GoodKeys,
          Fields, NoKey, MaxSubmitted,                     \* UserSettings
          Admin, Owner, Messages, In, Traced, None, Posts,
          MaxReports, MaxClicks                            \* FeedbackReports

\* The bounds are numbers.
ASSUME BoundsAssumption == {MaxKey, TTL, MaxEdits, MaxEvents, MaxFacts, MaxCrashes, MaxSubmitted,
                            MaxTime, MaxRows, MaxStores, PageSize, MaxLoads, MaxMoves, MaxLines, MaxFaults}
                              \subseteq Nat

\* An overview is of some days.
ASSUME PeriodAssumption == Period \in Nat \ {0}

\* A message to the Slack app may begin with a network; "no network" is none.
ASSUME SlackAssumption ==
    /\ Commands \subseteq [word : Networks \cup {NoNetwork}, prompt : BOOLEAN, data : BOOLEAN]
    /\ NoNetwork \notin Networks

\* A file and a table are different places, also if they have the same name.
ASSUME PlacesAssumption == Files \cap Tables = {} /\ NoPath \notin Files \cup Tables

\* "all" and "none" name no source of articles.
ASSUME SourcesAssumption == {"all", "none"} \cap Sources = {}

\* An article is some source's, listed under some keywords, with some in its text.
ASSUME ArticlesAssumption ==
    Articles \subseteq [from : Sources, listed : SUBSET Keywords, text : SUBSET Keywords]

\* "preferences" and "none" are rows that are no provider's.
ASSUME ProvidersAssumption == {"preferences", "none"} \cap Providers = {}

\* A message is in a conversation, and is something.
ASSUME MessagesAssumption == In \in [Messages -> Conversations] /\ None \notin Messages

\* There are finitely many users, and streams.
ASSUME UsersAssumption   == IsFiniteSet(Users)
ASSUME StreamsAssumption == IsFiniteSet(Streams)

VARIABLES
    part,                                                      \* the component at work
    issued, oldest, gone, jwks, age, pc, kid, refetched, got,
    waited, failed, overtaken,                                  \* JwksCache
    day, rows, rated, dash, past,                               \* UsageDashboard
    models, tuples, init, store, toBootstrap, event, created,
    life,                                                       \* AuthTuples
    order, archived, shown, hasMore, loading, loads, leaving,
    fetches, moves, moved, slipped,                             \* HistoryDrawer
    printed, pipe, stream, file, log, ended, broke, lost,       \* LogBridge
    definition, netName, persist, files, broken, manifest,
    persisted, overlapped, edits,                                          \* NetworkDesign
    networks, sly_data, contexts, worker, sent, answered, clashed,  \* SlackThreads
    topicFile, memory, facts, since, forgotten,                 \* TopicMemory
    vectors, call, hurt, met, crashes,                          \* VectorStores
    articles, tool, scraped, report, clean,                     \* NewsArticles
    keys, preferences, request, submitted, latest, named,
    crossing,                                                   \* UserSettings
    stored, reports, posting, page, clicks, issues,             \* FeedbackReports
    response, next, current, blocks, result                     \* ResponseBlocks

Jwks     == INSTANCE JwksCache WITH Calls <- Verifications
Board    == INSTANCE UsageDashboard WITH Users <- Reporters, log <- rows
Auth     == INSTANCE AuthTuples WITH Networks <- Owned
Drawer   == INSTANCE HistoryDrawer WITH Convs <- Conversations
Bridge   == INSTANCE LogBridge
Design   == INSTANCE NetworkDesign WITH Names <- Networks
Slack    == INSTANCE SlackThreads
Memory   == INSTANCE TopicMemory
Vectors  == INSTANCE VectorStores WITH store <- vectors
News     == INSTANCE NewsArticles WITH files <- articles
Settings == INSTANCE UserSettings WITH overlapped <- crossing
Feedback == INSTANCE FeedbackReports WITH Requests <- Posts, request <- posting
Blocks   == INSTANCE ResponseBlocks

jwksVars      == <<issued, oldest, gone, jwks, age, pc, kid, refetched, got, waited, failed, overtaken>>
dashboardVars == <<day, rows, rated, dash, past>>
authVars      == <<models, tuples, init, store, toBootstrap, event, created, life>>
drawerVars    == <<order, archived, shown, hasMore, loading, loads, leaving, fetches, moves,
                   moved, slipped>>
bridgeVars    == <<printed, pipe, stream, file, log, ended, broke, lost>>
designVars    == <<definition, netName, persist, files, broken, manifest, persisted, overlapped,
                   edits>>
slackVars     == <<networks, sly_data, contexts, worker, sent, answered, clashed>>
memoryVars    == <<topicFile, memory, facts, since, forgotten>>
vectorVars    == <<vectors, call, hurt, met, crashes>>
newsVars      == <<articles, tool, scraped, report, clean>>
settingsVars  == <<keys, preferences, request, submitted, latest, named, crossing>>
feedbackVars  == <<stored, reports, posting, page, clicks, issues>>
blockVars     == <<response, next, current, blocks, result>>
vars == <<part, jwksVars, dashboardVars, authVars, drawerVars, bridgeVars, designVars, slackVars,
          memoryVars, vectorVars, newsVars, settingsVars, feedbackVars, blockVars>>

Still(p) == /\ p # "jwks"    => UNCHANGED jwksVars
            /\ p # "board"   => UNCHANGED dashboardVars
            /\ p # "auth"    => UNCHANGED authVars
            /\ p # "drawer"  => UNCHANGED drawerVars
            /\ p # "bridge"  => UNCHANGED bridgeVars
            /\ p # "design"  => UNCHANGED designVars
            /\ p # "slack"   => UNCHANGED slackVars
            /\ p # "memory"  => UNCHANGED memoryVars
            /\ p # "vectors" => UNCHANGED vectorVars
            /\ p # "news"    => UNCHANGED newsVars
            /\ p # "settings" => UNCHANGED settingsVars
            /\ p # "feedback" => UNCHANGED feedbackVars
            /\ p # "blocks"  => UNCHANGED blockVars
            /\ UNCHANGED part

Init == /\ part \in {"jwks", "board", "auth", "drawer", "bridge", "design", "slack", "memory",
                     "vectors", "news", "settings", "feedback", "blocks"}
        /\ Jwks!Init /\ Board!Init /\ Auth!Init /\ Drawer!Init /\ Bridge!Init /\ Design!Init
        /\ Slack!Init /\ Memory!Init /\ Vectors!Init /\ News!Init /\ Settings!Init
        /\ Feedback!Init /\ Blocks!Init

JwksStep     == part = "jwks" /\ Jwks!Next /\ Still("jwks")
BoardStep    == part = "board" /\ Board!Next /\ Still("board")
AuthStep     == part = "auth" /\ Auth!Next /\ Still("auth")
DrawerStep   == part = "drawer" /\ Drawer!Next /\ Still("drawer")
BridgeStep   == part = "bridge" /\ Bridge!Next /\ Still("bridge")
DesignStep   == part = "design" /\ Design!Next /\ Still("design")
SlackStep    == part = "slack" /\ Slack!Next /\ Still("slack")
MemoryStep   == part = "memory" /\ Memory!Next /\ Still("memory")
VectorsStep  == part = "vectors" /\ Vectors!Next /\ Still("vectors")
NewsStep     == part = "news" /\ News!Next /\ Still("news")
SettingsStep == part = "settings" /\ Settings!Next /\ Still("settings")
FeedbackStep == part = "feedback" /\ Feedback!Next /\ Still("feedback")
BlocksStep   == part = "blocks" /\ Blocks!Next /\ Still("blocks")

Next == \/ JwksStep \/ BoardStep \/ AuthStep \/ DrawerStep \/ BridgeStep
        \/ DesignStep \/ SlackStep \/ MemoryStep \/ VectorsStep \/ NewsStep
        \/ SettingsStep \/ FeedbackStep \/ BlocksStep

Spec == Init /\ [][Next]_vars

-----------------------------------------------------------------------------
\* The type invariants of the components.
TypeOK == /\ part = "jwks"    => Jwks!TypeOK
          /\ part = "board"   => Board!TypeOK
          /\ part = "auth"    => Auth!TypeOK
          /\ part = "drawer"  => Drawer!TypeOK
          /\ part = "bridge"  => Bridge!TypeOK
          /\ part = "design"  => Design!TypeOK
          /\ part = "slack"   => Slack!TypeOK
          /\ part = "memory"  => Memory!TypeOK
          /\ part = "vectors" => Vectors!TypeOK
          /\ part = "news"    => News!TypeOK
          /\ part = "settings" => Settings!TypeOK
          /\ part = "feedback" => Feedback!TypeOK
          /\ part = "blocks"  => Blocks!TypeOK

\* The promises of the components, each stated in its module; those of the two lists
\* that users look at are one property, and those of the two readers of text.
KeysFresh          == Jwks!KeysFresh
ReportsSound       == part = "feedback" => Feedback!ReportsSound
AuthSound          == part = "auth" => Auth!AuthSound
ViewsComplete      == /\ part = "board" => Board!ReportsAgree
                      /\ part = "drawer" => Drawer!DrawerComplete
LinesKept          == /\ part = "bridge" => Bridge!LinesKept
                      /\ part = "blocks" => Blocks!BlocksExact
StoreSound         == part = "design" => Design!StoreSound
ThreadKept         == Slack!ThreadKept
OnlyStaleForgotten == part = "memory" => Memory!OnlyStaleForgotten
AnswersSourced     == part = "vectors" => Vectors!AnswersSourced
ReportsOwnScrape   == part = "news" => News!ReportsOwnScrape
SettingsKept       == part = "settings" => Settings!SettingsKept
=============================================================================
