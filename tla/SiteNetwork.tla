------------------------------ MODULE SiteNetwork ------------------------------
(***************************************************************************)
(* build_wwaw.py: a crawl of a web site that makes an agent of every page   *)
(* with enough text, hangs it below the page that linked to it, splits the  *)
(* children of agents that have too many, and gathers agents nobody links   *)
(* to below a hub.  A page is its outcome when it is fetched: its title and *)
(* how many urls not seen before it links to.  Names and text are abstracted   *)
(* to what the program tells apart: a name that is taken gets the url's     *)
(* hash, and a title without a Latin letter or digit leaves an empty name.  *)
(***************************************************************************)
EXTENDS Naturals, Sequences, FiniteSets, SequencesExt

CONSTANTS Urls, StartUrl,
          MaxAgents,    \* --total_agents
          Links,        \* how many new urls a page may link to
          Limits,       \* the values of --max_children, all positive
          MaxPasses     \* bound: passes over the network

VARIABLES maxChildren,
          toVisit,      \* urls with the name of the agent that linked to them
          visited,
          count,        \* pages that were processed to the end
          agents,       \* name -> its children in order, and whether it is the top agent
          phase, passes

siteVars == <<maxChildren, toVisit, visited, count, agents, phase, passes>>

\* An agent's name: a page's title, the url whose hash it needed, and the number of
\* the branch if the agent groups children of that page.
Plain(title) == [title |-> title, of |-> "", branch |-> 0]
Blank    == Plain("")
NoParent == [Blank EXCEPT !.of = "no parent"]
Hub      == Plain("unlinked_hub")
Titles   == {"", "Welcome"}

children(a) == Range(agents[a].down)
linked      == UNION {children(a) : a \in DOMAIN agents}
Wide(a)     == Len(agents[a].down) > maxChildren

Init == /\ maxChildren \in Limits
        /\ toVisit = <<[url |-> StartUrl, parent |-> NoParent]>>
        /\ visited = {} /\ count = 0 /\ agents = <<>> /\ phase = "crawl" /\ passes = 0

Crawling == phase = "crawl" /\ toVisit # <<>> /\ count < MaxAgents

\* crawl: a url visited meanwhile, no HTML, an error, or too little text.  The url is
\* not remembered and may be queued again by another page.
SkipPage ==
    /\ Crawling
    /\ toVisit' = Tail(toVisit)
    /\ UNCHANGED <<maxChildren, visited, count, agents, phase, passes>>

\* get_clean_agent_name.
Name(title, url) ==
    IF Plain(title) \in DOMAIN agents THEN [Plain(title) EXCEPT !.of = url] ELSE Plain(title)

\* Mutant of WithAgent: whatever hangs below nobody is a top agent.
WithAgentOnTop(name, parent) ==
    LET linking == parent \in DOMAIN agents \ {Blank}
        hung    == IF linking THEN [agents EXCEPT ![parent].down = Append(@, name)] ELSE agents
    IN  [a \in DOMAIN agents \cup {name} |->
            IF a = name THEN [down |-> <<>>, top |-> ~linking] ELSE hung[a]]

\* add_agent, and the link from the parent, unless the parent's name is empty.
WithAgent(name, parent) ==
    LET hung == IF parent \in DOMAIN agents \ {Blank}
                  THEN [agents EXCEPT ![parent].down = Append(@, name)] ELSE agents
    IN  [a \in DOMAIN agents \cup {name} |->
            IF a = name THEN [down |-> <<>>, top |-> parent = NoParent] ELSE hung[a]]

\* A page links to n urls that are neither visited nor queued; urls are alike, and one
\* that was skipped is as good as new, so it does not matter which.  A link that is no
\* url raises (cut): the agent, and the links before that one, stay without being counted.
ProcessPage(title, n, cut) ==
    /\ Crawling
    /\ LET url   == Head(toVisit).url
           name  == Name(title, url)
           rest  == Tail(toVisit)
           fresh == SetToSeq(Urls \ (visited \cup {toVisit[i].url : i \in DOMAIN toVisit}))
       IN  /\ url \notin visited /\ n <= Len(fresh)
           /\ agents'  = WithAgent(name, Head(toVisit).parent)
           /\ visited' = visited \cup {url}
           /\ count'   = IF cut THEN count ELSE count + 1
           /\ toVisit' = rest \o [i \in 1..n |-> [url |-> fresh[i], parent |-> name]]
    /\ UNCHANGED <<maxChildren, phase, passes>>

CrawlEnds ==
    /\ phase = "crawl" /\ ~Crawling
    /\ phase' = "limit"
    /\ UNCHANGED <<maxChildren, toVisit, visited, count, agents, passes>>

\* create_intermediate_agents takes the next number that is free.
Branches(a) == {b \in DOMAIN agents : b.branch > 0 /\ [b EXCEPT !.branch = a.branch] = a}
Branch(a, i) == [a EXCEPT !.branch = Cardinality(Branches(a)) + i]
Chunks(a)    == (Len(agents[a].down) + maxChildren - 1) \div maxChildren
Chunk(a, i)  == SubSeq(agents[a].down, (i - 1) * maxChildren + 1,
                       IF i = Chunks(a) THEN Len(agents[a].down) ELSE i * maxChildren)

\* Mutant of Limited: the branches of a pass are numbered from one.
LimitedAnew(wide) ==
    LET branches == UNION {{[a EXCEPT !.branch = i] : i \in 1..Chunks(a)} : a \in wide}
    IN  [x \in DOMAIN agents \cup branches |->
            IF x \in branches
              THEN [down |-> Chunk([x EXCEPT !.branch = 0], x.branch), top |-> FALSE]
            ELSE IF x \in wide
              THEN [agents[x] EXCEPT !.down = [i \in 1..Chunks(x) |-> [x EXCEPT !.branch = i]]]
            ELSE agents[x]]

\* The network after its too wide agents got a branch for every chunk of children.
Limited(wide) ==
    LET branches == UNION {{<<a, i>> : i \in 1..Chunks(a)} : a \in wide}
        new      == {Branch(b[1], b[2]) : b \in branches}
    IN  [x \in DOMAIN agents \cup new |->
            IF x \in new
              THEN LET b == CHOOSE b \in branches : Branch(b[1], b[2]) = x
                   IN  [down |-> Chunk(b[1], b[2]), top |-> FALSE]
            ELSE IF x \in wide
              THEN [agents[x] EXCEPT !.down = [i \in 1..Chunks(x) |-> Branch(x, i)]]
            ELSE agents[x]]

\* One pass of enforce_max_fanout; enforce_fanout_recursive repeats it.
EnforceMaxFanout ==
    /\ phase = "limit" /\ passes < MaxPasses
    /\ \E a \in DOMAIN agents : Wide(a)
    /\ agents' = Limited({a \in DOMAIN agents : Wide(a)})
    /\ passes' = passes + 1
    /\ UNCHANGED <<maxChildren, toVisit, visited, count, phase>>

tops     == {a \in DOMAIN agents : agents[a].top}
unlinked == {a \in DOMAIN agents \ linked : ~agents[a].top}

WithHub(top) ==
    [a \in DOMAIN agents \cup {Hub} |->
        IF a = Hub THEN [down |-> SetToSeq(unlinked), top |-> FALSE]
        ELSE IF a = top THEN [agents[a] EXCEPT !.down = Append(@, Hub)] ELSE agents[a]]

\* The hub becomes a child of an agent that has the most, in the code the first of its
\* dictionary, which begins with the start page's.
HasMost(a) ==
    /\ \A b \in DOMAIN agents : Len(agents[b].down) <= Len(agents[a].down)
    /\ \A t \in tops \ {a} : Len(agents[t].down) < Len(agents[a].down)

\* main: the hub if it is needed, and the file; every agent is written with its children.
WriteNetwork ==
    /\ phase = "limit" /\ ~\E a \in DOMAIN agents : Wide(a)
    /\ \/ unlinked = {} /\ UNCHANGED agents
       \/ /\ unlinked # {}
          /\ \E top \in DOMAIN agents : HasMost(top) /\ agents' = WithHub(top)
    /\ phase' = "written"
    /\ UNCHANGED <<maxChildren, toVisit, visited, count, passes>>

Next == \/ SkipPage
        \/ \E title \in Titles, n \in Links, cut \in BOOLEAN : ProcessPage(title, n, cut)
        \/ CrawlEnds \/ EnforceMaxFanout \/ WriteNetwork

Spec == Init /\ [][Next]_siteVars /\ WF_siteVars(Next)

-----------------------------------------------------------------------------
\* Types: links lead to agents, and only the start page's agent is the top agent.
TypeOK ==
    /\ maxChildren \in Limits /\ visited \subseteq Urls /\ count \in 0..MaxAgents
    /\ phase \in {"crawl", "limit", "written"} /\ passes \in 0..MaxPasses
    /\ \A i \in DOMAIN toVisit : toVisit[i].url \in Urls
    /\ linked \subseteq DOMAIN agents
    /\ Cardinality({a \in DOMAIN agents : agents[a].top}) <= 1

\* Every agent is found from these: a set that has them and the children of all it has
\* leaves no agent out.
Closed(S) == \A a \in S : children(a) \subseteq S
Reach(from) == \A S \in SUBSET DOMAIN agents : from \subseteq S /\ Closed(S) => S = DOMAIN agents

\* The hub is found from its own children: it was hung below one of them, or deeper.
HubInCircle ==
    /\ Hub \in DOMAIN agents
    /\ \A S \in SUBSET DOMAIN agents : children(Hub) \subseteq S /\ Closed(S) => Hub \in S

\* No agent is anybody's child twice, however often its parents were split and whatever
\* the titles, and only children of a page without a name are left for the hub.  What is
\* written is found from the top agent and the hub; all from the top agent, so that it is
\* a tree, unless the hub was hung below itself; and nobody but the hub and the agent
\* above it has more children than allowed.
NetworkSound ==
    /\ \A a, b \in DOMAIN agents : \A i \in DOMAIN agents[a].down, j \in DOMAIN agents[b].down :
           agents[a].down[i] = agents[b].down[j] => a = b /\ i = j
    /\ Hub \in DOMAIN agents => Blank \in DOMAIN agents
    /\ phase = "written" =>
           /\ Reach(tops \cup ({Hub} \cap DOMAIN agents))
           /\ Reach(tops) \/ HubInCircle
           /\ \A a \in DOMAIN agents : Wide(a) => a = Hub \/ Hub \in children(a)

-----------------------------------------------------------------------------
\* The invariants it rests on.  Everything has a type of its own; only the start page
\* has no parent, and it is waited for as long as there are no agents.
QueueInv ==
    /\ maxChildren \in Limits /\ visited \subseteq Urls /\ passes \in 0..MaxPasses
    /\ count \in 0..MaxAgents
    /\ phase \in {"crawl", "limit", "written"}
    /\ IsFiniteSet(DOMAIN agents)
    /\ agents \in [DOMAIN agents -> [down : Seq(DOMAIN agents), top : BOOLEAN]]
    /\ toVisit \in Seq([url : Urls, parent : DOMAIN agents \cup {NoParent}])
    /\ \A i \in DOMAIN toVisit : toVisit[i].parent = NoParent => i = 1 /\ DOMAIN agents = {}
    /\ \A a, b \in DOMAIN agents : agents[a].top /\ agents[b].top => a = b

\* Until the hub is added, names are those of pages, with a hash of a visited one, or of
\* branches; branches never get too wide, and none of the agents of a title and hash has
\* a number greater than there are branches of them.
NamesInv ==
    phase # "written" =>
        \A a \in DOMAIN agents :
            /\ a \in [title : Titles, of : visited \cup {""}, branch : Nat]
            /\ phase = "crawl" => a.branch = 0
            /\ a.branch > 0 => ~Wide(a)
            /\ a.branch = 0 => \A b \in Branches(a) : b.branch <= Cardinality(Branches(a))

\* Whom nobody links to is the top agent or a child of a page without a name, and
\* every agent is found from these.
RootsInv ==
    phase # "written" =>
        /\ unlinked # {} => Blank \in DOMAIN agents
        /\ Reach(tops \cup unlinked)

SiteInv == QueueInv /\ NamesInv /\ RootsInv /\ NetworkSound
=============================================================================
