# A verification of CRUSE and the programs around it

CRUSE (`apps/cruse`) is a chat application for agent networks: a FastAPI
backend keeps chat sessions, streams answers over WebSockets, charges a daily
quota, and lets users write agent networks of their own. Around it the repository
has a launcher, a log bridge, a Slack bot, demonstration assistants, and tools that
agents call: a network designer, a memory, a solver, retrieval and news tools. This
directory holds TLA+ specifications of these programs, TLC configurations that check
them on small instances, and proofs, checked by TLAPS, of every safety property of the
core and of the components around it, for every value of the constants. `PROJECT.json`
lists the runs, maps every definition to the source lines it translates, and lists the
hazards the properties are for.

    tlc -config SessionSafety.cfg MCSessionLifecycle.tla     # one run
    tlapm SessionLifecycleProofs.tla                         # one proof module

## 1. Inventory

### The core of the backend

**Chat session lifecycle** (`session_manager.py`, `session_store.py`, endpoints
of `main.py`). *State*: the registry `_sessions`; per session `session`,
`_initialized`, `_init_error`, `_init_lock`, `message_count`; the timeout
manager's `_last_activity`. *Operations*: create (which starts a thread that
initializes the session eagerly), chat (which initializes it if the thread has
not, waiting for its lock), destroy by the owner, an admin, the cleanup loop or
shutdown. *Hard*: the eager thread, chat threads and the event loop share the
session's fields, and only the first two use its lock; a WebSocket handler keeps
a session that the registry has dropped. *Correct if*: one agent session per
chat session, never used before it exists, never built after a failure that was
reported as final, torn down once; no session stays registered for ever; every
message ends.

**WebSocket loop and streaming bridge** (`websocket_chat` in `main.py`,
`streaming_bridge.py`, `debug_message_processor.py`). *State*: the connection,
what the client was told, the worker thread of the chat, the session's queue of
traces, the rows of the conversation and of the request log. *Operations*:
receive, admit or refuse, save, title, run the chat and poll the queue, persist,
emit, report an error, finish. *Hard*: any send may raise because the client has
left, inside and outside the `try`; database work is best effort; several
connections may use one session; the chat thread is never cancelled. *Correct
if*: one DONE per message on every path, no error after an answer, failures
logged as failures only, no traces of finished messages in an answer, the handler
always comes back.

**Daily message quota** (`rate_limiter.py`, `usage_repo.py`, `user_repo.py` and
the transaction in `websocket_chat`). *State*: one counter per user and day.
*Operations*: upsert the user, look for API keys, one conditional upsert of the
counter, commit. *Hard*: connections of one user at the limit, midnight inside a
transaction, failure between charging and processing. *Correct if*: at most
`MAX_DAILY_REQUESTS` messages a day, each with its own remaining count, and no
refusal while units are left.

**Agent network caches** (`_systems_cache`, `_factory_cache`,
`_direct_factory_cache` of `session_manager.py`; `invalidate_caches`). *State*:
a cached object, its lock. *Operations*: the double-checked getters, and the
invalidation, which takes no lock. *Hard*: a build in flight while the caches are
emptied; the getter reads the variable twice; one getter runs on the event loop.
*Correct if*: one parse for many waiting threads, no `None` without cause, nothing
stale after an invalidation.

**Custom network store** (`network_materializer.py`, `network_routes.py`,
`agent_network_repo.py`). *State*: rows in the database, HOCON files, the lines
of the generated manifest. *Operations*: create, update, delete, startup. *Hard*:
the files change inside the transaction and do not roll back with it; the process
may die inside a file operation; lines of the manifest are found by substring.
*Correct if*: what the agent library can load is what the database says.

How they interact: the WebSocket loop charges the quota, then calls `chat` of the
session, whose initialization reads the caches; the routes of the network store
empty the caches; the cleanup loop and the endpoints change the registry under all
of them.

### The rest of the backend

| part | state | what is hard | correct if |
|---|---|---|---|
| login (`tenant_context.py`, user and organization repositories) | users, organizations, memberships, default organizations | two first requests of a user write the same rows in opposite orders | no row is written under rows that are missing; a deadlock needs a first login; every request ends |
| authentication (`auth.py`) | the cached signing keys | refreshes run at once and overwrite each other; the issuer rotates | a published key is found, a withdrawn one expires |
| authorization (`authz/`) | OpenFGA stores, models and tuples | several calls per event, each of which may fail before or after its effect | one store and model; a network's two tuples come and go together |
| settings (`key_validator.py`, key and preference repositories) | keys, preferences | seconds pass between a key's arrival and its storing | the last request wins; only accepted keys are stored |
| history (`list_conversations`, `HistoryDrawer.tsx`) | the list, the rows the drawer shows | pages cut by offset from a list that changes | a drawer at the end of the list shows all of it |
| analytics (`request_log_repo.py`) | the request log, ratings | statements one after the other, a moving period | the parts of a dashboard and the dashboards of two periods agree |
| reports (`post_report`, `feedback_repo.py`) | reports, GitHub issues | two look-ups, an answer from GitHub that is lost | a report's context belongs to what it names and its author may read |
| answers (`response_parser.py`) | - | prefixes, fences and empty blocks in any order | every line is in the block of its prefix |

### Beside the backend

| part | state | what is hard | correct if |
|---|---|---|---|
| launcher (`run.py`, Phoenix plugin) | child processes, what is recorded of them | a signal at any line, a service that cannot be started | it ends, and leaves nothing running that its handler could stop |
| log bridge (`process_log_bridge.py`) | reassembly per stream, the tee file | two threads, blocks that never close, lines that cannot be decoded, writes that fail unnoticed | no line that was handled is lost or doubled, and the file has what could be written |
| Slack bot (`apps/slack`) | network, sly_data and context of each thread | worker threads without a lock, events delivered twice | a Slack thread is one conversation with one network |
| Flask assistants (`interface_flask.py`, two of them) | globals: session, state, queues | handlers in threads beside the loop | state and session belong together, one loop, no session left open, what is said is taken |
| network builder (`build_wwaw.py`) | the crawled network | names, repeated passes, agents nobody links to | nobody is a child twice, every agent is found from the top agent or the hub, and the limit holds elsewhere |
| network designer (its coded tools) | definition and name per conversation, files, manifest | every file access is awaited and may raise; opening a file empties it | files are sound unless a write was cut off, what was persisted stays listed |
| solver (`mdap_decomposer`) | the tree of problems, the votes | parts solved at once, agents that raise | an answer rests on both its parts and the votes on all candidates |
| agent memory (`kwik_agents`) | facts by topic, per conversation and in a file | a conversation that writes back what it loaded long ago | only facts it had not seen are lost |
| retrieval tools (`base_rag.py`) | vector stores in files and tables | calls that share a name; a build cut short | an answer comes from one call's documents |
| news tools | article files | conversations that write the same files; articles found by title and scored by text | a report is about its own scrape |
| remote agents (ServiceNow, Agentforce) | the places kept in sly_data | failed sends, retrievals that give up | answers belong to their inquiries, one session for a conversation |

### Not modelled

| part | why |
|---|---|
| network validator | a pure predicate over text |
| themes (`theme_service.py`), theme constants, widget templates | no state; tables of constants |
| server log capture | a ring buffer that unrelated connections drain, with no promise |
| `authz/middleware.py`, session statistics, lists and exports of one statement | read only |
| sharing and describing networks | statements on the row only |
| files that users with the same eight first characters share; the number of a user's networks | `NetworkMaterializer` gives each network its file, and its bound on the number never bites |
| the browser's `useWebSocket.ts`, `cruseStore.ts` | the drawer is modelled; reconnection is next in the plan |
| other coded tools, servers, plugins, log analyzer | one request to an external service, configuration, scripts |
| `Alembic` migrations, networks (HOCON), tests, documentation | data and text |

The agent library (neuro-san), PostgreSQL, OpenFGA, GitHub, ServiceNow, Agentforce, the
issuer of tokens, web sites and browsers are outside the repository. They appear only as
what the code sees of them: a call that returns, returns nothing or raises, perhaps
after its effect; a statement that waits for a row lock, a commit that succeeds or
fails; a send that arrives, is lost or raises.

## 2. The modules

| module | what it is |
|---|---|
| `AgentService` | abstract: an agent comes up at most once, or fails for good; calls are served only by one that came up |
| `SessionLifecycle`, `SessionLifecycleProofs` | session manager, timeout manager, endpoints and threads; implements `AgentService`; theorems |
| `ChatBridge`, `ChatBridgeProofs` | `websocket_chat` and `process_chat_message`, one step per await; theorems |
| `Quota` | abstract: units of a day, each used once, never given back |
| `DailyUsage`, `DailyUsageProofs` | the charging transactions; implements `Quota`; theorems |
| `NetworkCaches`, `NetworkCachesProofs` | one cache, its lock, the invalidation; theorems |
| `NetworkMaterializer`, `NetworkMaterializerProofs` | rows, files and manifest lines, with crashes; theorems |
| `TenantStore` | the transactions of a login, with row locks and deadlock |
| `JwksCache`, `AuthTuples`, `UserSettings` | signing keys; relationship tuples; API keys and preferences |
| `HistoryDrawer`, `UsageDashboard`, `FeedbackReports` | history list, analytics, reports |
| `ResponseBlocks` | the parser of answers, against its definition |
| `Launcher`, `LogBridge` | `run.py`; the log bridge |
| `SlackThreads`, `FlaskAssistant` | other front ends |
| `SiteNetwork`, `NetworkDesign` | networks made from web sites, and by the designer |
| `Solver`, `TopicMemory`, `VectorStores`, `NewsArticles`, `RemoteAgents` | tools of agents |
| `Lists` | a list without some of its elements, defined by places |
| `MCSessionLifecycle`, `MCChatBridge`, `MCNetworkMaterializer` | symmetry, and names for the instances |
| `Running`, `Periphery` | several components each, one at work at a time |
| `RunningProofs` | theorems about the login, the launcher, the solver, the crawl, the Flask assistants and the remote agents in `Running` |
| `BackendProofs`, `ToolsProofs` | theorems about signing keys, settings, reports, tuples, analytics and history, and about memory, retrieval, news, designer, Slack threads, the log bridge and the parser of answers, in `Periphery` |
| `MCRunning`, `MCPeriphery` | small instances of the two |

Definitions whose comment begins "Mutant of" are variations of the definition
that follows them, as a plausible bug would make it; no specification uses them.
For every property of a passing run one of them makes TLC find it violated
(`PROJECT.json` names it); a property of several parts has one for each of several.

**The two sums.** The components beside the core share no state, so that nothing is
learnt by interleaving them, and each has a few thousand to a few hundred thousand
states of its own. `Running` and `Periphery` put such components side by side: the
variable `part` says which is at work, `Next` takes its steps, and all others keep the
variables they began with (`Still`). A behaviour of the sum is a behaviour of one
component, and every behaviour of every component is one of the sum; its states add up
and do not multiply. `MCRunning` and `MCPeriphery` give them values, and let a component
that is not at work start in one initial state. Safety properties are those of the component at work. The fairness conditions
and the liveness properties of a component are stated on its own steps; they are
vacuous or trivially true where another is at work.

### SessionLifecycle

A thread is named by what started it: the eager-init thread of session `s` is
`s`, the chat thread of connection `k` is `k`. `pc` says where it is in
`_do_init` / `_ensure_initialized` / `chat`: `check` is the unlocked test of
`_initialized`, `lock` waits for `_init_lock`, `build` is inside
`_create_cruse_session`, `publish` is between the assignment of `self.session`
and that of `_initialized`, `run` is inside `_cruse_chat`. What coroutines do
between two awaits is one step: `Create`, `Destroy`, `Sweep`, `Connect`,
`Receive`, `Shutdown`. `made[s]` counts the agent sessions created for `s`
(`self.session` is set iff it is positive) and `torn[s]` the tear-downs.
`lastActivity[s]` counts ticks since the last touch, up to the first value that has
expired. `_cruse_chat` is one call, which returns or raises.

### ChatBridge

The handler's `pc` names the await it is at. `Sends` and `SendRaises` are the
outcomes of `send_event`: while the client is there, the event arrives; once it
has left, a send is lost or raises, and after one has raised they all do. Where a
raised send leads depends on where it is: before the `try` and in the `except`
clause it ends the handler, inside the `try` it leads to the `except` clause.
Events without a bearing on the outcome (activity, traces, rate limit) are sends
whose kind is not recorded. A trace entry is known by the message whose chat
produced it. The title is known by the message it is taken from. `drained` and
`before` are history variables.

### DailyUsage

One user. A transaction holds the lock of the user's row from
`upsert_from_clerk`, which writes that row on every message, to its end. The date
is read when the statement runs, and is the date of the row it changes. `Drop`
stands for every way the handler of a message ends early, the death of the process
included: the database rolls back what was open. `served[d][r]` counts the
messages of day `d` let through with `r` remaining.

### NetworkCaches

The getters have one shape and the invalidation treats the caches alike, so the
module is one cache. `disk` is a version number of the files; `parsed[r]` is the
version a build has read; the cache is the version it was built from. The event
loop is the reader `Loop`: while it is in the getter it serves no route.
`stores`, `wiped`, `raced` and `emptied` are history variables.

### NetworkMaterializer

One user's networks by slug. A row is absent, archived, or its content (at most one
row per slug ever exists). The handlers hold the row they wrote until their
commit, so two of them do not change the files of one network together. The file
operations have no await; `WriteCut` and `RemoveCut` are the places where they can
stop half way, by an exception (`FilesRaise`, logged, and the handler commits) or
by the death of the process (`Crash`, and the database rolls back).
`FileNamed[n]` is the set of networks in whose manifest line the file name of `n`
occurs as text, which is what `_register_in_manifest` tests, and `Named[n]` that of
the networks in whose line the file name or the key does, for `_unregister_from_manifest`.
Startup may fail in its query or at a file, and the server starts anyway. `hurt` is a
history variable: networks whose file operation or commit failed, or which such a
startup passed over, since their files were last written.

### TenantStore

One transaction per request, one statement per step: the user, the organization the
token names or the personal one, the membership, the user again, the default
organization, and a row of the request's own. A statement waits while another
transaction holds its row (`WaitsFor`), and PostgreSQL aborts a member of a cycle
(`BreakDeadlock`). Endpoints that upsert the user first and those that come to the user
last are both there, which is how two first requests can block each other.
`DeadlockNeedsFirstLogin` says that this is the only way.

### JwksCache, AuthTuples, UserSettings

`JwksCache`: a verification looks at the age of the cache, may fetch, store, look up,
fetch and store once more; the issuer publishes and withdraws keys. `age` and `gone`
count ticks up to the first value past every comparison; `overtaken` records that
another request stored its answer between a request's own and its look-up.
`AuthTuples`: startup lists stores, creates one, lists models, writes one; an event is
the list of calls `TupleManager` makes for it. A call has its effect and returns, or
has it and raises, or raises without it. `UserSettings`: a request is validated, takes
the row, and commits; a provider's overload passes for a yes (`Lenient`).

### HistoryDrawer, UsageDashboard, FeedbackReports

`HistoryDrawer` is the drawer and the endpoint together: fetches carry the offset the
drawer knew, are answered later and perhaps out of order, while conversations come to
the top and are archived. `slipped` records the one way in which a row is missed: an
offset that counts a row the list no longer has. `UsageDashboard` reads its parts one
by one; rows are dated by the day, and `past` remembers what the overview of each day
would have been. `FeedbackReports` looks for the message, then the conversation, then
inserts; an issue on GitHub may be opened although the click fails.

### ResponseBlocks

One answer is read line by line, a line being its prefix and what is left of it. The
definition it is compared with says, for each line, which prefix it stands under.

### Launcher, LogBridge

`Launcher` has the main thread and the signal handler, which interrupts it anywhere,
also between starting a process and recording it; `killpg` of a process that was
waited for raises. A service that cannot be started ends the launcher with an exception
(`failed`) and the services before it running. `LogBridge` knows of a line what
`_handle_line` tests: whether it is JSON, its net count of braces, whether it ends a
report. It follows each line both to the tee file and to the log. Each stream has a
buffer of its own on the file; a write from it may fail, which `_write_tee` and
`_close_stream` pass over (`WriteFails`; `lost` remembers the lines). An exception in
reading, as of bytes that cannot be decoded, or in handling a line ends the thread
(`DrainRaises`), whose `finally` clause closes the file with lines unread; `broke` says
whether that happened between two lines or within one.

### SlackThreads, FlaskAssistant

`SlackThreads`: a worker is interrupted between its accesses to the three dictionaries
and at calls of the agent server; `clashed` records threads two of whose messages
overlapped. `FlaskAssistant` is both assistants, which differ in what `new_chat` does
and in whether the agent is called when nobody spoke; any exception of a call, or an
answer that is none, ends the loop's task; states are named after the
session they were made for, and `raced`, `crossed` and `overlapped` record the three
overlaps the handlers do not exclude.

### SiteNetwork, NetworkDesign

`SiteNetwork` is a sequential program: one step per page, one per pass that splits the
children of agents with too many, one for the hub. Names are the page's title, with the
url's hash if taken, and the number of the branch; a title without a Latin letter or
digit leaves an empty name, and the children of such a page, which get no link, are left
for the hub. The hub goes below an agent with the most children, whichever it is. A link
that is no url ends a page early: its agent stays and is not counted. `NetworkDesign` lets
conversations edit while a network of theirs is being written, and truncates files when
they are opened. A call may be cut off at each await, by an exception of its own
(`PersistFails`) or by the server's end (`ServerStops`); what it was writing is then
empty or half there (`CutOff`). `broken` names the files left so, and those two calls
wrote at once. The manifest's text is searched for a file name, which may be a part of
another's (`Inside`).

### Solver, TopicMemory, VectorStores, NewsArticles, RemoteAgents

`Solver`: problems are paths in the tree; a part whose sibling raised goes on and its
result is dropped. The vote counts until one candidate has `WinningVotes`.
`TopicMemory`: tools do not await, but a crash may come while the file is rewritten;
`since` records what others committed after a conversation loaded the file.
`VectorStores`: building is loading, table or file, documents, insertion, saving; `hurt`
and `met` record builds that failed and calls that met at a place. `NewsArticles`: a
conversation scrapes sources one by one and rewrites files that all share. An article
has the keywords its source lists it under (title, summary, or the source's own search)
and those of its text; a source of `FullText` finds it by either (Al Jazeera), the others
by the first, and the analysis scores what has a keyword in the text, in the files it can
read. `RemoteAgents`:
each inquiry of ServiceNow opens a session, a conversation of Agentforce has one; both
are kept in sly_data.

## 3. The runs

| run | instance | shows |
|---|---|---|
| `SessionSafety` | 2 sessions, 2 connections, 1 message each, timeout 1 | `AtMostOneAgent`, `ChatHasAgent`, `FailedInitIsFinal`, `TornDownOnce`, `Reapable`; `AgentService` is implemented |
| `SessionLiveness` | 1 session, 2 connections, 2 messages each | `CallEnds`; `RegistryDrains` (idle sessions and late activity entries go) |
| `SessionLeak`, `SessionSweep` | the same | findings 1 and 2 |
| `ChatPair` | 2 connections, 1 message each | `OutcomeAgrees` (client, database and log are told the same), `TraceNotStale`, `TitleNotLate` |
| `Usage` | 3 connections (one an admin's), limit 2, 2 days | `EveryServedPaid`, `RefusedAtLimit`; `Quota` is implemented; `MessageDecided` |
| `Caches` | the event loop and 2 threads, 2 changes of the networks | `ParsedOnce`, `NoneNeedsWipe`, `StaleNeedsRace`, `LoopFreed` |
| `CacheStale` | the same | finding 3 |
| `Materializer` | 2 networks with unrelated names, 2 contents, 2 handlers | `RegistryFollowsRows`, `LineHasFile` |
| `Unregister` | slugs `travel` and `travel_bot` | finding 4 |
| `Running` | see below | type correctness; `LoginSound`, `LeavesRunning`, `ResultsSound`, `ConversationKept`; `EachMessageClosed`, `WorkEnds` |
| `Periphery` | see below | type correctness and one property each of thirteen components |

`Running`, by component:

| component | instance | property |
|---|---|---|
| `ChatBridge` | 1 connection, 2 messages in a row | `EachMessageClosed`: one DONE each, and the handler comes back or ends |
| `TenantStore` | 1 user, 2 organizations, 2 requests | `LoginSound`: rows are there under what was recorded, deadlock needs a first login; requests end (`WorkEnds`) |
| `Launcher` | all modes and taken ports, 2 signals | `LeavesRunning`; it ends (`WorkEnds`) |
| `Solver` | depth 2, 2 of 3 votes, 3 candidates | answers rest on both parts, the early choice is the full count's (`ResultsSound`); all work comes to rest (`WorkEnds`) |
| `SiteNetwork` | 5 urls, limits of 1 and 2 children, 3 passes | nobody a child twice, all found from the top agent and the hub, the limit (`ResultsSound`); the network is written if the limit is above 1 (`WorkEnds`) |
| `FlaskAssistant` | 2 browsers, 1 message, 3 agent sessions | `ConversationKept`; what is said is taken (`WorkEnds`) |
| `RemoteAgents` | 3 inquiries, 2 polls | an answer is that of the last inquiry sent, one session for a conversation (`ConversationKept`) |

`Periphery`, by component:

| component | instance | property |
|---|---|---|
| `JwksCache` | 2 verifications, 1 rotation, keys kept for 1 tick | `KeysFresh`: a published key is found, a withdrawn one is not for longer than the cache lives |
| `UsageDashboard` | 2 requests of a user on 2 days, period of 1 day | `ViewsComplete`: parts and periods agree |
| `FeedbackReports` | a user, an administrator, a conversation each, 1 message, 2 reports | `ReportsSound`: a report's context fits, a page its total, a click its issue |
| `AuthTuples` | 2 users, 1 organization, 1 network, events one at a time, 2 memberships and shares at once (`TuplesBound`), any number of restarts | `AuthSound`: one store and model, owner and container together |
| `HistoryDrawer` | 2 conversations in pages of 1, 3 fetches, 2 renamings | `ViewsComplete`: a list that stopped growing has every conversation that did not slip |
| `LogBridge` | 2 streams with 2 lines, or one with 3, 1 failure | `LinesKept`: each line handled is once in the log or held behind an open brace, and in the file unless its write failed |
| `ResponseBlocks` | every answer of up to 3 lines | `LinesKept`: each line in the block of its prefix |
| `NetworkDesign` | 2 conversations, 2 agents, 2 names, one a part of the other, 4 edits, any number of failures and restarts; one conversation designs with all agents and tools, the other with one agent (`DesignBound`) | `StoreSound` |
| `SlackThreads` | 2 workers, 2 threads, 2 networks, 2 events, 5 kinds of message | `ThreadKept`: a thread's context, sly_data and network are its own |
| `TopicMemory` | 2 conversations, 2 topics, 4 facts | `OnlyStaleForgotten` |
| `VectorStores` | 2 calls, one of which always names a place, 2 urls, a file and a table, 1 crash with failing builds at one place (`StoreBound`) | `AnswersSourced` |
| `NewsArticles` | 2 conversations, 2 sources, 1 keyword, an article with it in the title alone and one with it in the text alone; one conversation analyses (`NewsBound`) | `ReportsOwnScrape` |
| `UserSettings` | 2 requests at once, 3 for keys, 2 providers | `SettingsKept` |

**Why the bounds are enough.** Two connections and the eager thread are the three
threads that can meet at one session's lock: one inside, one waiting, one on the
unlocked path. Two sessions are needed for sweeps and shutdowns that destroy
several at once; nothing else relates sessions. A second message per connection
matters after a late touch (`SessionLiveness`). In `ChatPair` two messages of
different connections overlap everywhere; in `Running` one message follows another,
which is what pairing DONE events and the leftovers of an earlier message
need. A limit of 2 has a first, a last and a refused message, and three
connections reach it together; two days have one midnight. Two changes on disk
give a build three versions to confuse. Two handlers race for one network; updates,
repeated deletes, crashes and restarts follow each other without a bound.

In the sums, two of a kind overlap in every way two can: two requests for a deadlock,
two fetches that cross, two verifications of which one overwrites the other, two
conversations that write one file. A third adds what is already there twice. Depth 2
gives the solver a part with parts of its own, whose work may outlive it. Three lines
are a block that opens, one inside and one that closes or interrupts it; with two
streams at work two lines are enough to meet in the log file (`LinesBound`).
`MCPeriphery` names four more such bounds, which cut what repeats: of two designers,
conversations or calls that are alike, the second does not do all that the first
does (`DesignBound`, `NewsBound`, `StoreBound`). A report is read by nobody, and a
call without a place meets nobody; the second designer's files have one agent and no
tools, which still tells them from the first one's. Memberships and shares, which no event reads, are there two
at a time (`TuplesBound`), enough for one to be left while another is taken away. Three passes
split an agent, its branches and theirs. Four facts let two conversations each write
after the other, and one of them bring back what the other took away. Two days are one change of period; two renamings and three fetches let
a row pass an offset in either direction.

Symmetry is used in safety runs only: session ids and connections are created
alike and no property names one. In `Periphery` the drawer's conversations, being
alike, begin in one order. `CHECK_DEADLOCK FALSE` stands where the model
stops because its messages are used up, its work is done, or the server has been shut
down. `Usage`, `Caches` and `CacheStale` check deadlock.

**Fairness.** Threads and coroutines are scheduled: weak fairness of their steps.
Creating an agent session and a chat turn are calls of the agent library; that
they return or raise is an assumption, and the code sets no timeout of its own.
The cleanup loop wakes every minute: weak fairness of `Tick` and `Sweep`. The
database serves those who wait for a row in order, so a handler that waits for the
user's row gets it (strong fairness of `UpsertUser`, and of `Statement` in
`TenantStore`), and it looks for deadlocks when a wait takes long (weak fairness of
`BreakDeadlock`); a thread that waits for a
`threading.Lock` is assumed to get it if it is released again and again (strong
fairness of `Acquire`), which CPython does not promise in so many words. The launcher's
main thread and its handler run (weak fairness of `Body \/ Handler`); its children owe
nothing: it must end when they did or when it was told to. The solver and the crawl
take a step while there is one, agents and sites answering or raising. The background
task of a Flask assistant runs, its agent answering or raising; clients owe nothing
anywhere: they need not send, read or stay. `RegistryDrains`
relies on each connection sending finitely many messages: a client that keeps
sending keeps its session, as intended. `Periphery` has safety properties only and no
fairness.

### What the code does against its own words

1. `SessionLeak`: `close()` reads `self.session` without the lock. A session
   destroyed while its eager initialization is still building finds `None`; the
   agent session that is assigned afterwards is never torn down, though
   `session_manager.py:373` says "Destroy a session and clean up resources".
2. `SessionSweep`: activity is written when a message is read and not while it is
   processed. A chat that runs longer than the timeout loses its session, though
   `session_store.py:28` says the loop "cleans up those that have been idle too
   long".
3. `CacheStale`: a build that read the manifest before `invalidate_caches` assigns
   its result after it. Later accesses return it, though
   `network_materializer.py:166` says "so next access re-parses manifests".
4. `Unregister`: removing `travel` removes the manifest line of the same user's
   `travel_bot`, whose key begins with it, though `network_materializer.py:136`
   says "Remove a network entry".

Three more facts came out of the runs. `LineHasFile` excepts exactly one case: a
create that dies after its files, followed by a create of the same slug that dies
inside its file, leaves a listed file that is cut off, for a network that was never
committed; startup does not repair it, because it has no row. And
`NoneNeedsWipe` is as much as can be said: a getter that overlaps an invalidation
may return `None`, and an eager initialization that gets it fails for good. And the file
of a crawl need not hold a tree: agents nobody links to, the children of a page whose
name is empty, are gathered below a hub, which is hung below the agent with the most
children (`build_wwaw.py:465`). If that is one of these agents, or hangs below one, hub
and agents form a circle that the top agent does not lead to, whatever the hub's
instructions say ("You connect otherwise unlinked agents", `build_wwaw.py:462`). Three
pages in a row, the first without a name, are enough; `HubInCircle` of `ResultsSound` is
this case and no other.

The properties of the sums say as well what does go wrong, as the exceptions they need:

- `LoginSound`: two first requests of a user can block each other, and one of them is
  aborted; nothing is left half written.
- `KeysFresh`: a refresh that ends later can overwrite a newer answer, and a request is
  then refused although the issuer publishes its key; while the issuer cannot be
  reached, expired keys stay in use.
- `ViewsComplete`: archiving a conversation while the next page is asked for makes the
  offset skip a row.
- `StoreSound`: of two networks persisted at once one may not be listed, and of two calls
  that write one file the texts may mix; a server that stops, or a write that raises,
  after a file was truncated leaves a network file torn or the manifest empty, also under
  a name that is listed, and the next network persisted is then the only one listed; a
  network whose file name ends another's is taken for listed.
- `LinesKept`: an exception in reading or handling a line ends a log thread, and what the
  child writes afterwards is neither logged nor in the file; lines whose write fails are
  missing from the file without a word.
- `LineHasFile`: nothing is said of a network one of whose file operations or commits
  failed, or that a failed startup passed over: its line may lack its file.
- `OnlyStaleForgotten`: a conversation writes back the memory it loaded and with it
  removes facts that others committed since.
- `AnswersSourced`: a call that meets a table still being filled answers from nothing,
  and a table whose build failed stays empty for every later call.
- `ReportsOwnScrape`: two conversations that scrape at once report each other's articles;
  an article found by its title is not in the report if its text does not have the
  keyword.
- `ResultsSound`: with a hub, what is written need not be a tree (above), and the hub
  and the agent above it may have more children than allowed.
- `ThreadKept`: of two messages of one Slack thread handled at once, the later to store
  removes the other from the context, or is sent without the thread's sly_data.
- `ConversationKept`: a chat that is begun while a message is answered ends up with the
  state of the old agent session; two first clients start two loops.
- `LeavesRunning`: if the launcher has already waited for a child, the first signal
  raises in its handler and leaves the children after it running; when a service cannot
  be started, those before it run on and nobody stops them; when client and server
  end by themselves, Phoenix stays.
- `WorkEnds`: with one child allowed per agent, the passes of the network builder never
  end, as a pass replaces the children of an agent by as many branches.
- `SettingsKept`: a key that was sent while the provider was overloaded is stored
  unchecked, and a slower earlier request may overwrite a later one.
- `AuthSound`, with `on_org_deleted` in the model: it revokes the memberships; the
  `container` tuples of the organization's networks stay.

## 4. The proofs

The theorems hold for every value of the constants that satisfies the assumptions: bounds
are numbers, markers are none of the things they stand beside, and where needed a set is
finite. `PeriodAssumption` says that an overview is of one day at least, and
`SiteAssumption` that the crawl starts at one of its urls and that an agent may have a
child. Two theorems have a hypothesis of their own, `RegistryCorrect` and
`ResultsAreSound`, below.

Nearly all are invariance proofs: an inductive invariant `IInv`, `Init => IInv`,
`IInv /\ [Next]_vars => IInv'` with one lemma or step per action, `IInv => Inv`, and a
temporal step. The inductive invariant stands in the component's module, below its
properties, and was checked by TLC before it was proved; the type invariants of the core
are theorems, and are not checked by its runs. Every invariant that a run checks is a
theorem, as is every action property.

No definition is recursive, and none that a proof is about uses a fold. What a fold or a
filter of the community modules would compute is defined by places instead: `Without` of
`Lists` is the list whose k-th element is the one with k of the rest up to it, a sum is
the number of pairs of a group and one of what it counts, and the lines of blocks are told
apart by the block and the place they are at. A proof about these counts sets, and needs no
induction over the list; TLC checks the same definitions.

**SessionLifecycleProofs** proves `[]TypeOK`, `[]AtMostOneAgent`,
`[]ChatHasAgent`, `[]FailedInitIsFinal`, `[]TornDownOnce` and `[]Reapable` for any
sets of sessions and connections and any bounds, assuming only that ids,
connections and the markers are distinct (`ThreadsAssumption`,
`BoundsAssumption`). The invariant is `SessionInv`. None of the properties is
inductive alone. `AtMostOneAgent` needs `LockInv` (the lock's holder is the one
thread inside `_create_cruse_session`) and `MadeInv` (an agent session exists
exactly if `_initialized` is set or the lock's holder is about to set it).
`FailedInitIsFinal` needs `ErrorInv`: `_init_error` is the last thing the eager
thread does, so from then on nobody that builds ignores it.
`LifecycleImplementsService` proves that the session manager implements
`AgentService`: the steps of a build, of a chat and of `Destroy` map to
the abstract steps or to stutters (one lemma each), with `SessionInv` to know that a
build comes to its end only once and on a live lock.

**DailyUsageProofs** proves `[]TypeOK`, `[]EveryServedPaid`, `[]RefusedAtLimit`
for any connections, limit and number of days, and `UsageImplementsQuota`: the
transactions implement `Quota` with `spent` mapped to the committed counters. The
invariant `UsageInv` adds to the properties that the holder of the row is the one
inside a transaction (`HolderInv`), that its pending verdict fits the counter
(`PendingInv`), and that a verdict not yet acted on is held by one connection and
not served (`GrantInv`). Each step maps to `Spend`, `Serve` or a stutter.

**NetworkCachesProofs** proves `[]TypeOK`, `[]ParsedOnce`, `[]NoneNeedsWipe` and
`[]StaleNeedsRace` for any readers and any number of changes. `CacheInv` says that a build is under way only while the cache is empty,
and that unless an invalidation has raced with it, it read at least the version the
last invalidation announced.

**NetworkMaterializerProofs** proves `[]TypeOK` and `[]LineHasFile` for any
networks, contents and handlers and any `FileNamed` and `Named`, and
`[]RegistryFollowsRows` under `Separate`, that no network's name occurs in another one's
line. (Without
it the property fails: TLC finds a listed network's line removed with another's on
the constants of `Unregister`.) `NetInv` says that what a handler has done
so far fits its place (`HandlerInv`), that the row it wrote is locked (`LockInv`),
and that a network nobody is working on, and none of whose operations failed, has
the file of its row (`FileInv`), as does one whose handler has done its file work
and not committed (`DoneInv`). `LineInv` is `LineHasFile` for a network inside its
file work. `ListedInv` is the same for lines, and is the only part that needs
`Separate`.

**ChatBridgeProofs** proves `[]TypeOK`, `[]OutcomeAgrees`, `[]TraceNotStale`,
`[]TitleNotLate`, and the safe half of `EachMessageClosed` (`ClosedOnce`), for any
connections, messages and traces. `BridgeInv` ties what a message has left behind to the
place its handler is at: which rows and log entries exist at which `pc` (`LogInv`,
`RunningInv`), what has been drained and counted when (`DrainInv`, `CountInv`), how many
DONEs have been sent (`DoneInv`). `OutcomeAgrees` needs all of the first two: a send that
raises leads to the `except` clause from states that differ in what is committed.

**RunningProofs**, for any users, organizations, requests, signals, clients, inputs and
inquiries:

- `LoginsSound`: `TenantInv` says for each place in a transaction which rows it has
  written and holds locked (`Held`, `Upserted`, `Placed`), so that a cycle of waits can
  only be closed by a transaction that saw its user without a default organization.
- `LeavesNothingRunning`: `LaunchInv` says which services may have been started at each
  line of `run`, also with the handler in between (`PlanInv`, `PassedInv`, `WaitedInv`),
  and that they are recorded in the order of the plan (`RecordedInv`), which tells which
  of them a failing start leaves behind.
- `ResultsAreSound`, if `NumberOfVotes < 2 * WinningVotes`: a majority of the votes
  decides, as with the solver's defaults, whose number of votes is `2 * WinningVotes - 1`.
  (Otherwise two candidates may both have enough votes, and which of them is chosen
  depends on the order of counting.) `TreeInv` says that below a problem not split yet
  nothing was begun, and below one answered nothing is left; `BallotInv` that the last vote
  is one on as many candidates as there were, won by `Winner`. For the crawl, `SiteInv`
  says that every agent can be found from the top one, or, where a page's title is empty,
  from one whom nobody links to (`RootsInv`), and that the number a new branch is given
  is free, so that a name is never taken twice (`NamesInv`). That nobody is a child twice
  needs these: an agent that got a taken name would have two parents. So does what is
  found from where: a set with the top agent and the hub that has the children of all its
  agents has the hub's children, hence all agents nobody links to, hence every agent; and
  if the hub is not found from its own children, the agent it was hung below is found
  from the top agent without it, and with that one the hub.
- `ConversationsKept`: `FlaskInv` counts the agent sessions made and closed and who may
  still close one; `RemoteInv` says what each inquiry's path and session are.
- `TypesAreKept`: the types of all components. Those of `ChatBridge` come from the lemmas
  of `ChatBridgeProofs`, taken by `INSTANCE`, the component being the same in both.

**ToolsProofs**, for any conversations, topics, calls, urls, files, tables, sources,
keywords, agents, names, workers, threads, streams, lines and answers:

- `OnlyStaleForgets`: `OnlyStaleForgotten` is inductive with the types. The first attempt
  at this proof failed for a reason: the property as it stood left out that a fact that
  was overwritten may come back from a memory that still has it, which three facts are
  too few to show. `since` now records it, and the run has four.
- `AnswersHaveSource`: `RagInv` says whose documents a call holds at each step
  (`Proper`), that a table has one owner until it has been read (`OneOwner`), and that a
  table is empty only while it is being filled or after a build was cut (`EmptyWhy`).
- `ReportsAreOwn`: `NewsInv` follows the files of a scrape nobody interferes with, source
  by source, to the file of all and to what the report takes from the file of a source
  and from that of all, whatever the articles and which of the files can be read.
- `StoreIsSound`: `DesignInv` says that what is being written was validated when the
  writing began, that the names a call has read have files (`PersistInv`), and, as long
  as no calls overlap and none was cut off in the manifest, that only the call about to
  write it has emptied it, with all that was persisted at hand (`ManifestInv`).
- `ThreadsAreKept` (two invariants and an action property): `SlackInv` says that two
  workers at one thread have clashed there (`ClashInv`); where nobody has, a worker's
  network, context and sly_data are the thread's from the setup on (`WorkerOK`), and a
  thread with a network was opened by exactly one message, whose sly_data it has or
  will have before its worker goes on (`ThreadOK`).
- `LinesAreKept`: for the log bridge, `BridgeInv` adds to `LinesKept` that a thread is at
  most where its stream is, that what a failing write dropped had left the buffer and that a
  closed stream has nothing in it (`PipesInv`), and that it collects exactly as long as it holds a
  line, with the balance of the lines it holds (`HeldInv`): a block whose braces are closed
  is never held on. The blocks of an answer rest on `BlocksInv`: those closed so far are
  the lines below the current prefix, and the current one has all lines since (`Sections`,
  `CurrentInv`).
- `ComponentTypes`: the types of all components, from their invariants. Those of
  `AuthTuples` are inductive with `AuthInv`, which says what the next call of an event is.

**BackendProofs**, for any verifications, requests, posts, networks, events, conversations,
pages, rows and bounds:

- `KeysAreFresh` (an invariant and an action property): `JwksInv` relates the age of the
  cache to the time since each key was withdrawn (`AgeInv`), and the answers under way to
  what is published (`AnswerInv`).
- `SettingsAreKept`: a request that writes has a key its provider accepted
  (`RequestsInv`), and two that are under way for a provider overlap there (`OverlapInv`).
- `ReportsAreSound`: a report in preparation knows no more than what it has looked at
  (`PostsInv`), and reports only ever come on top (`TableInv`).
- `TuplesAreSound`: startup creates a store only while there is none (`StartInv`); an
  event in flight has the rest of its handler's calls left, and those of a creation or a
  deletion are the only ones about owner and organization (`EventInv`); a network is in
  no organization before its first creation (`LifeInv`). That a creation that is tried
  again writes the same tuples is what makes the retry harmless.

- `ViewsAreComplete`: `BoardInv` follows what an overview said of each day that is over
  (`PastInv`: a row that is logged later is dated later), and bounds each part of a
  dashboard by the one read before it and the rows there are now (`Today`). `DrawerInv`
  says that, unless a page slipped, one fetch is under way at most (`OneLoad`), and that a
  conversation that is neither shown nor came to the top has as many rows ahead of it as
  the drawer shows, so that the next page does not begin behind it (`Complete`,
  `PageComplete`); counting the rows ahead is what replaces induction over the list.

**Model-checked only.** Liveness (`CallEnds`, `RegistryDrains`, `MessageDecided`,
`LoopFreed`, the second half of `EachMessageClosed`, `WorkEnds`): the prover does not
reason about fairness and `ENABLED`. The findings of section 3 are TLC's as well: that a
property fails is shown by a behaviour of an instance.

## 5. Plan

The session came first, because every other part hangs on it; then the message's way
through the backend (bridge, quota); then what sessions are made from (caches, network
store); then the rest of the backend's state, and the programs and tools beside it. That
is done. Next:

1. `ClientSocket`: the browser's `useWebSocket.ts` and `cruseStore.ts` (reconnect, busy
   flag, event order) composed with the protocol of `ChatBridge`; property: the client
   is not busy for ever, and shows an answer under its question.
2. Files that several users share, and the number of a user's networks
   (`network_materializer.py:37`, `network_routes.py:136`), in `NetworkMaterializer`,
   whose proofs would then speak of names and not of networks.
3. The network designer's other persistors, and reservations.
