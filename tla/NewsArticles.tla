----------------------------- MODULE NewsArticles -----------------------------
(***************************************************************************)
(* web_scraping_technician.py and sentiment_analysis.py: an agent network   *)
(* first collects articles about keywords into text files, then has the     *)
(* files scored.  The files are named by their source only, so that all     *)
(* conversations of the server share them.  An article, a line of a file,   *)
(* is its source, the keywords the source lists it under, in its title and  *)
(* summary or by a search, and those its text has, which need not be the    *)
(* same; a repeated line counts once.                                       *)
(***************************************************************************)
EXTENDS Naturals, FiniteSets

CONSTANTS Conversations, Keywords,
          Sources,      \* what is scraped one after the other for "all"
          FullText,     \* those of them whose articles are found by their text, too
          Articles      \* what the sources have: [from, listed, text]

VARIABLES files,     \* all_articles_output: what it holds of each source, and of all
          tool,      \* per conversation: the scrape at work
          scraped,   \* per conversation: its last complete scrape
          report,    \* per conversation: what the analysis after it scored in each file
          clean      \* conversations whose scrape no other one has written over since

newsVars == <<files, tool, scraped, report, clean>>

Scopes   == Sources \cup {"all"}
Nothing  == [source |-> "none", keywords |-> {}, lines |-> {}]
Idle     == [at |-> "idle", source |-> "none", keywords |-> {}, left |-> {}, lines |-> {},
             read |-> {}]
NoReport == <<>>

Init == /\ files = [s \in Scopes |-> {}]
        /\ tool = [c \in Conversations |-> Idle]
        /\ scraped = [c \in Conversations |-> Nothing]
        /\ report = [c \in Conversations |-> NoReport]
        /\ clean = {}

\* WebScrapingTechnician.invoke.
BeginScrape(c) ==
    /\ tool[c].at = "idle"
    /\ \E source \in Scopes, k \in SUBSET Keywords \ {{}} :
          tool' = [tool EXCEPT ![c] = [at |-> "scrape", source |-> source, keywords |-> k,
                                       left |-> IF source = "all" THEN Sources ELSE {source},
                                       lines |-> {}, read |-> {}]]
    /\ scraped' = [scraped EXCEPT ![c] = Nothing]
    /\ report'  = [report EXCEPT ![c] = NoReport]
    /\ clean'   = clean \cup {c}
    /\ UNCHANGED files

Found(s, k) == {a \in Articles : /\ a.from = s
                                 /\ \/ a.listed \cap k # {}
                                    \/ s \in FullText /\ a.text \cap k # {}}

\* Mutant of Rewrite: the files are opened to be appended to.
RewriteAppends(c, s, lines) ==
    files' = IF tool[c].source = "all" THEN [files EXCEPT ![s] = @ \cup lines] ELSE files

\* What was found replaces what the file held, even if it is nothing.  The scrape of
\* one source writes to a directory of its own that nothing reads.
Rewrite(c, s, lines) ==
    files' = IF tool[c].source = "all" THEN [files EXCEPT ![s] = lines] ELSE files

\* Scrapes of everything write over each other's files.
Disturb(c) == clean' = IF tool[c].source = "all" THEN clean \cap {c} ELSE clean

\* scrape_nyt, scrape_guardian, scrape_aljazeera, in their order: articles of a request
\* that fails, which is logged, or whose pages are empty, are missing.
ScrapeSource(c) ==
    /\ tool[c].at = "scrape" /\ tool[c].left # {}
    /\ LET s == CHOOSE s \in tool[c].left : TRUE
       IN  \E lines \in SUBSET Found(s, tool[c].keywords) :
             /\ Rewrite(c, s, lines)
             /\ tool' = [tool EXCEPT ![c].left = tool[c].left \ {s},
                                     ![c].lines = tool[c].lines \cup lines]
    /\ Disturb(c)
    /\ UNCHANGED <<scraped, report>>

\* An exception that is not one of requests, as of a page that cannot be downloaded,
\* ends the call with the remaining files as they were.
ScrapeAborts(c) ==
    /\ tool[c].at \in {"scrape", "combine"}
    /\ tool' = [tool EXCEPT ![c] = Idle]
    /\ UNCHANGED <<files, scraped, report, clean>>

Complete(c) ==
    /\ scraped' = [scraped EXCEPT ![c] = [source |-> tool[c].source, keywords |-> tool[c].keywords,
                                          lines |-> tool[c].lines]]
    /\ tool' = [tool EXCEPT ![c] = Idle]

EndScrape(c) ==
    /\ tool[c].at = "scrape" /\ tool[c].left = {} /\ tool[c].source # "all"
    /\ Complete(c)
    /\ UNCHANGED <<files, report, clean>>

\* scrape_all reads the files of its directory back, and writes all their lines to one.
ReadBack(c) ==
    /\ tool[c].at = "scrape" /\ tool[c].left = {} /\ tool[c].source = "all"
    /\ tool' = [tool EXCEPT ![c].at = "combine",
                            ![c].read = UNION {files[s] : s \in Sources}]
    /\ UNCHANGED <<files, scraped, report, clean>>

Combine(c) ==
    /\ tool[c].at = "combine"
    /\ Rewrite(c, "all", tool[c].read)
    /\ Complete(c)
    /\ Disturb(c)
    /\ UNCHANGED report

Mentioning(lines, k) == {a \in lines : a.text \cap k # {}}

\* SentimentAnalysis.invoke, with the request of the scrape before it: whatever the
\* source, what scrapes of everything left is read, the file of the source or all.  The
\* sentences that have a keyword are scored, all of them, though 300 at most are quoted;
\* a file that cannot be read is passed over.
Analyze(c) ==
    /\ tool[c].at = "idle" /\ scraped[c] # Nothing
    /\ \E readable \in SUBSET {s \in Scopes : scraped[c].source \in {"all", s}} :
          report' = [report EXCEPT ![c] =
              [s \in readable |-> Mentioning(files[s], scraped[c].keywords)]]
    /\ UNCHANGED <<files, tool, scraped, clean>>

Next == \E c \in Conversations :
    \/ BeginScrape(c) \/ ScrapeSource(c) \/ ScrapeAborts(c) \/ EndScrape(c)
    \/ ReadBack(c) \/ Combine(c) \/ Analyze(c)

Spec == Init /\ [][Next]_newsVars

-----------------------------------------------------------------------------
\* Types: a file named after a source holds lines of that source.
Tool == [at : {"idle", "scrape", "combine"}, source : Scopes \cup {"none"},
         keywords : SUBSET Keywords, left : SUBSET Sources, lines : SUBSET Articles,
         read : SUBSET Articles]
Scrape == [source : Scopes \cup {"none"}, keywords : SUBSET Keywords, lines : SUBSET Articles]
TypeOK ==
    /\ DOMAIN files = Scopes
    /\ \A s \in Sources : files[s] \subseteq {a \in Articles : a.from = s}
    /\ files["all"] \subseteq Articles
    /\ tool \in [Conversations -> Tool] /\ scraped \in [Conversations -> Scrape]
    /\ DOMAIN report = Conversations
    /\ clean \subseteq Conversations

\* A conversation that has everything scraped and then scored for the same keywords
\* gets scores of its own scrape: those of its articles whose text has a keyword, all of
\* them and each under its source and under "all", as far as the files could be read,
\* unless another conversation scraped everything meanwhile: whatever failed, however
\* often files of the same names were written before.
From(lines, s) == IF s = "all" THEN lines ELSE {a \in lines : a.from = s}
ReportsOwnScrape ==
    \A c \in clean : scraped[c].source = "all" =>
        \A s \in DOMAIN report[c] :
            report[c][s] = Mentioning(From(scraped[c].lines, s), scraped[c].keywords)

-----------------------------------------------------------------------------
\* The inductive invariant behind it.  While no other conversation writes, the files of
\* the sources that have been scraped hold the lines found so far; then they are read
\* back, and the file of all is written.
ScrapeOf(c) == LET k == tool[c] IN
    /\ \A a \in k.lines : a.from \notin k.left
    /\ k.at # "idle" => scraped[c] = Nothing /\ report[c] = NoReport
    /\ k.at = "combine" => k.source = "all" /\ k.left = {}
    /\ c \in clean /\ k.at # "idle" /\ k.source = "all" =>
           \A s \in Sources \ k.left : files[s] = From(k.lines, s)
    /\ c \in clean /\ k.at = "combine" => k.read = k.lines
ResultOf(c) == LET k == scraped[c] IN
    c \in clean /\ k.source = "all" =>
        /\ \A s \in Scopes : files[s] = From(k.lines, s)
        /\ \A s \in DOMAIN report[c] : report[c][s] = Mentioning(From(k.lines, s), k.keywords)
ReportInv == \A c \in Conversations : DOMAIN report[c] \subseteq Scopes
NewsInv == TypeOK /\ ReportInv /\ \A c \in Conversations : ScrapeOf(c) /\ ResultOf(c)
=============================================================================
