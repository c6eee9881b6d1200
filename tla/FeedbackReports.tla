---------------------------- MODULE FeedbackReports ----------------------------
(***************************************************************************)
(* Written reports of the users (post_report in main.py, add_report in      *)
(* feedback_repo.py), the administrators' list of them, and the issues they *)
(* open on GitHub.  A report takes its context from a message and from a    *)
(* conversation, looked up one after the other; messages are stored and     *)
(* other reports written meanwhile.                                         *)
(***************************************************************************)
EXTENDS Naturals, Sequences, FiniteSets

CONSTANTS Users, Admin,     \* Admin: the one with the role
          Conversations, Owner,  \* whose each conversation is
          Messages, In,     \* the conversation of each message
          Traced,           \* messages stored with an agent_trace
          None,
          Requests,         \* post_report calls under way at once
          PageSize,         \* limit of the list; the offset is 0
          MaxReports,       \* bound: reports
          MaxClicks         \* bound: clicks on "create issue"

VARIABLES stored,    \* committed messages
          reports,   \* feedback_reports, in the order of their commits
          request,   \* per request: the report it prepares
          page,      \* an administrator's list: reports shown, their total
          clicks,    \* per click on "create issue": its report and where it is
          issues     \* external: issues on GitHub, by the click that opened them

feedbackVars == <<stored, reports, request, page, clicks, issues>>

Idle   == [at |-> "idle"]
NoPage == [at |-> "idle", shown |-> {}, total |-> 0]
May(u, c) == Owner[c] = u \/ u = Admin

Init == /\ stored \in SUBSET Messages /\ reports = <<>> /\ request = [q \in Requests |-> Idle]
        /\ page = NoPage /\ clicks = <<>> /\ issues = {}

\* A chat stores its answer.
StoreMessage(msg) == /\ msg \notin stored /\ stored' = stored \cup {msg}
                /\ UNCHANGED <<reports, request, page, clicks, issues>>

-----------------------------------------------------------------------------
\* post_report; a client may name a conversation, a message, both or neither.
PostReport(q, u, c, msg) ==
    /\ request[q] = Idle /\ Len(reports) < MaxReports
    /\ request' = [request EXCEPT ![q] =
           [at |-> "message", user |-> u, conv |-> c, msg |-> msg, given |-> c,
            seen |-> None, trace |-> None, network |-> None]]
    /\ UNCHANGED <<stored, reports, page, clicks, issues>>

Go(q, report) == /\ request' = [request EXCEPT ![q] = report]
                 /\ UNCHANGED <<stored, reports, page, clicks, issues>>

\* Mutant of Readable: a message is not looked at if the conversation is given.
ReadableIfGiven(r) == r.given # None \/ May(r.user, In[r.msg])

\* The message's conversation is the user's, or the user is an administrator.
Readable(r) == May(r.user, In[r.msg])

\* The trace comes from the message, and the conversation, if none was given.  A
\* message that is not there (yet) is passed over.
ReadMessage(q) ==
    LET r == request[q] IN
    /\ r.at = "message"
    /\ IF r.msg \notin stored THEN Go(q, [r EXCEPT !.at = "conversation"])
       ELSE IF ~Readable(r)   THEN Go(q, Idle)                                  \* 403
       ELSE Go(q, [r EXCEPT !.at = "conversation", !.seen = r.msg,
                            !.trace = IF r.msg \in Traced THEN r.msg ELSE None,
                            !.conv  = IF r.conv = None THEN In[r.msg] ELSE r.conv])

\* The network and the session come from the conversation.
ReadConversation(q) ==
    LET r == request[q] IN
    /\ r.at = "conversation"
    /\ IF r.conv # None /\ ~May(r.user, r.conv) THEN Go(q, Idle)                \* 403
       ELSE Go(q, [r EXCEPT !.at = "insert", !.network = r.conv])

\* add_report and the commit; the row refers to a message that must exist.
AddReport(q) ==
    LET r == request[q] IN
    /\ r.at = "insert" /\ r.msg \in stored \cup {None}
    /\ reports' = Append(reports, r)
    /\ request' = [request EXCEPT ![q] = Idle]
    /\ UNCHANGED <<stored, page, clicks, issues>>

\* No such message, no tenant, or a lost connection: 500, nothing is stored.
PostFails(q) == request[q].at = "insert" /\ Go(q, Idle)

-----------------------------------------------------------------------------
\* admin_list_reports: list_reports reads the newest, count_reports counts them all.
ListReports ==
    /\ page.at = "idle"
    /\ page' = [at |-> "count", total |-> 0,
                shown |-> {i \in DOMAIN reports : i > Len(reports) - PageSize}]
    /\ UNCHANGED <<stored, reports, request, clicks, issues>>

CountReports ==
    /\ page.at = "count"
    /\ page' = [at |-> "shown", total |-> Len(reports), shown |-> page.shown]
    /\ UNCHANGED <<stored, reports, request, clicks, issues>>

LeaveList ==
    /\ page.at = "shown" /\ page' = NoPage
    /\ UNCHANGED <<stored, reports, request, clicks, issues>>

\* create_github_issue; that a report has an issue is recorded nowhere.
Click(i) ==
    /\ Len(clicks) < MaxClicks
    /\ clicks' = Append(clicks, [report |-> i, at |-> "post"])
    /\ UNCHANGED <<stored, reports, request, page, issues>>

Answer(k, outcome) == /\ clicks[k].at = "post"
                      /\ clicks' = [clicks EXCEPT ![k].at = outcome]
                      /\ UNCHANGED <<stored, reports, request, page>>

\* GitHub opens the issue, and its answer may be lost on the way.
OpenIssue(k) == /\ Answer(k, "told") \/ Answer(k, "failed")
                /\ issues' = issues \cup {[click |-> k, about |-> reports[clicks[k].report]]}

\* No app, no installation, no token, or GitHub refuses.
IssueFails(k) == Answer(k, "failed") /\ UNCHANGED issues

Next ==
    \/ \E msg \in Messages : StoreMessage(msg)
    \/ \E q \in Requests :
        \/ \E u \in Users, c \in Conversations \cup {None}, msg \in Messages \cup {None} :
               PostReport(q, u, c, msg)
        \/ ReadMessage(q) \/ ReadConversation(q) \/ AddReport(q) \/ PostFails(q)
    \/ ListReports \/ CountReports \/ LeaveList
    \/ \E i \in DOMAIN reports : Click(i)
    \/ \E k \in DOMAIN clicks : OpenIssue(k) \/ IssueFails(k)

Spec == Init /\ [][Next]_feedbackVars

-----------------------------------------------------------------------------
TypeOK ==
    /\ stored \subseteq Messages /\ Len(reports) \in Nat
    /\ \A q \in Requests : request[q].at \in {"idle", "message", "conversation", "insert"}
    /\ page.at \in {"idle", "count", "shown"} /\ page.shown \subseteq DOMAIN reports
    /\ \A k \in DOMAIN clicks : clicks[k].at \in {"post", "told", "failed"}
    /\ \A issue \in issues : issue.click \in DOMAIN clicks

\* What a report says comes from the message and the conversation that it names, and
\* these are open to its author, unless the message was stored after it had been looked
\* for; only a client that names both can make them disagree.
ContextFits ==
    \A i \in DOMAIN reports :
        LET r == reports[i] IN
        /\ r.trace \in {None, r.msg} /\ r.network \in {None, r.conv}
        /\ r.conv # None => May(r.user, r.conv)
        /\ r.seen # None => May(r.user, In[r.msg]) /\ (r.given # None \/ r.conv = In[r.msg])

\* The total covers the reports shown, and a click that was told of an issue has
\* opened one, with what its report says.
ListsAgree ==
    /\ page.at = "shown" => Cardinality(page.shown) <= page.total
    /\ \A k \in DOMAIN clicks : clicks[k].at = "told" =>
           \E issue \in issues : issue.click = k /\ issue.about = reports[clicks[k].report]

ReportsSound == ContextFits /\ ListsAgree

-----------------------------------------------------------------------------
\* The inductive invariant behind it.  A report in preparation knows no more than what
\* it has looked at, and that was its author's to see; what is shown and what was clicked
\* is in the table, where reports only ever come on top.
Report == [at : {"message", "conversation", "insert"}, user : Users,
           conv : Conversations \cup {None}, msg : Messages \cup {None},
           given : Conversations \cup {None}, seen : Messages \cup {None},
           trace : Messages \cup {None}, network : Conversations \cup {None}]
Opening == [report : Nat, at : {"post", "told", "failed"}]

Open(r) == r.conv # None => May(r.user, r.conv)
Prepared(r) ==
    /\ r.trace \in {None, r.msg} /\ r.network \in {None, r.conv}
    /\ r.seen # None => May(r.user, In[r.msg]) /\ (r.given # None \/ r.conv = In[r.msg])
    /\ r.at = "message" => /\ r.seen = None /\ r.trace = None /\ r.network = None
                           /\ r.conv = r.given
    /\ r.at = "conversation" => r.network = None
    /\ r.at = "insert" => Open(r)
PostsInv ==
    /\ request \in [Requests -> Report \cup {Idle}]
    /\ \A q \in Requests : request[q] # Idle => Prepared(request[q])
TableInv ==
    /\ reports \in Seq(Report) /\ clicks \in Seq(Opening)
    /\ \A i \in DOMAIN reports : reports[i].at = "insert" /\ Prepared(reports[i])
    /\ \A k \in DOMAIN clicks : clicks[k].report \in DOMAIN reports
FeedbackInv == TypeOK /\ PostsInv /\ TableInv /\ ListsAgree
=============================================================================
