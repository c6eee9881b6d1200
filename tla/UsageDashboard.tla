--------------------------- MODULE UsageDashboard ---------------------------
(***************************************************************************)
(* The analytics of main.py and of request_log_repo, feedback_repo and      *)
(* conversation_repo: requests are logged and answers rated while an admin's *)
(* dashboard is read, one statement after the other, each with its own idea *)
(* of the present and of the rows that there are.                           *)
(***************************************************************************)
EXTENDS Integers, Sequences, FiniteSets, Functions

CONSTANTS Users, Networks,
          Period,     \* period_days
          MaxTime,    \* bound: days
          MaxRows     \* bound: requests logged

VARIABLES
    day,        \* rows are dated by the day; a dashboard is read between two of them
    log,        \* request_log: the requests in the order of their commits
    rated,      \* message_feedback: the rating of a request's answer and its first day
    dash,       \* the parts of the dashboard that have been read
    past        \* history: what get_overview would have said at the end of each day

dashboardVars == <<day, log, rated, dash, past>>

Row    == [day : 0 .. MaxTime, user : Users, network : Networks, failed : BOOLEAN]
Ratings == {-1, 1}
Parts  == {"overview", "satisfaction", "days", "networks", "liked"}

-----------------------------------------------------------------------------
\* The WHERE clause of a statement, as indices into the log.
Since(n) == {i \in DOMAIN log : log[i].day > day - n}
Column(rows, f(_)) == {f(log[i]) : i \in rows}
Errors(rows) == Cardinality({i \in rows : log[i].failed})

\* This period and the one before it, by one statement over the rows of both.
Current  == Since(Period)
Previous == Since(2 * Period) \ Current
GetOverview ==
    [total |-> Cardinality(Current), errors |-> Errors(Current),
     users |-> Cardinality(Column(Current, LAMBDA r : r.user)),
     prev_total |-> Cardinality(Previous), prev_errors |-> Errors(Previous),
     prev_users |-> Cardinality(Column(Previous, LAMBDA r : r.user))]

\* GROUP BY: the number of rows and of errors for each value of a column.
GroupBy(rows, f(_)) ==
    [k \in Column(rows, f) |->
        LET group == {i \in rows : f(log[i]) = k} IN
        [count |-> Cardinality(group), errors |-> Errors(group)]]
GetRequestsOverTime == GroupBy(Current, LAMBDA r : r.day)
GetTopNetworks      == GroupBy(Current, LAMBDA r : r.network)   \* fewer than its limit

\* Thumbs up and down of this period's ratings, over all networks and by network.
Rated == {i \in DOMAIN rated : rated[i].day > day - Period}
Votes(ratings) == [up   |-> Cardinality({i \in ratings : rated[i].value = 1}),
                   down |-> Cardinality({i \in ratings : rated[i].value = -1})]
GetSatisfactionScore   == Votes(Rated)
GetNetworkSatisfaction ==
    [n \in Column(Rated, LAMBDA r : r.network) |-> Votes({i \in Rated : log[i].network = n})]

\* Sums over the groups, each the number of pairs of a group and one of what it counts.
TotalOf(groups) == Cardinality(UNION {{k} \X (1 .. groups[k].count) : k \in DOMAIN groups})
LikedIn(groups) == Cardinality(UNION {{k} \X (1 .. groups[k].up) : k \in DOMAIN groups})

\* A table with a row put in, or put in the place of one.
With(table, k, row) == [j \in DOMAIN table \cup {k} |-> IF j = k THEN row ELSE table[j]]

TypeOK ==
    /\ day \in 0 .. MaxTime /\ log \in Seq(Row) /\ Len(log) <= MaxRows
    /\ DOMAIN rated \subseteq DOMAIN log /\ \A i \in DOMAIN rated : rated[i] \in [value : Ratings, day : 0 .. MaxTime]
    /\ DOMAIN dash \subseteq Parts \cup {"since", "began", "rerated"}
    /\ DOMAIN past \subseteq 0 .. MaxTime

Init ==
    /\ day = 0 /\ log = <<>> /\ rated = <<>> /\ dash = <<>> /\ past = <<>>

-----------------------------------------------------------------------------
LogRequest(u, n, failed) ==
    /\ Len(log) < MaxRows
    /\ log' = Append(log, [day |-> day, user |-> u, network |-> n, failed |-> failed])
    /\ UNCHANGED <<day, rated, dash, past>>

Rerated == dash' = IF dash = <<>> THEN dash ELSE [dash EXCEPT !.rerated = TRUE]

\* One rating for each message: a second one replaces the first, and keeps its date.
AddRating(i, v) ==
    /\ i \in DOMAIN log /\ ~log[i].failed
    /\ rated' = With(rated, i,
                     [value |-> v, day |-> IF i \in DOMAIN rated THEN rated[i].day ELSE day])
    /\ Rerated
    /\ UNCHANGED <<day, log, past>>

DeleteRating(i) ==
    /\ i \in DOMAIN rated
    /\ rated' = Restrict(rated, DOMAIN rated \ {i})
    /\ Rerated
    /\ UNCHANGED <<day, log, past>>

Tick ==
    /\ day < MaxTime
    /\ past' = With(past, day, GetOverview)
    /\ day' = day + 1
    /\ UNCHANGED <<log, rated, dash>>

\* admin_analytics: its statements in their order; each commits nothing and sees
\* whatever is committed by then.
Read(part, value, after) ==
    /\ after \subseteq DOMAIN dash /\ part \notin DOMAIN dash
    /\ dash' = With(dash, part, value)
    /\ UNCHANGED <<day, log, rated, past>>

BeginDashboard ==
    /\ dash = <<>>
    /\ dash' = [since |-> day, began |-> Len(log), rerated |-> FALSE, overview |-> GetOverview]
    /\ UNCHANGED <<day, log, rated, past>>

ReadOn == \/ Read("satisfaction", GetSatisfactionScore, {"overview"})
          \/ Read("days", GetRequestsOverTime, {"satisfaction"})
          \/ Read("networks", GetTopNetworks, {"days"})
          \/ Read("liked", GetNetworkSatisfaction, {"networks"})

ShowDashboard ==
    /\ "liked" \in DOMAIN dash
    /\ dash' = <<>>
    /\ UNCHANGED <<day, log, rated, past>>

Next == \/ \E u \in Users, n \in Networks, failed \in BOOLEAN : LogRequest(u, n, failed)
        \/ \E i \in DOMAIN log : (\E v \in Ratings : AddRating(i, v)) \/ DeleteRating(i)
        \/ Tick \/ BeginDashboard \/ ReadOn \/ ShowDashboard

Spec == Init /\ [][Next]_dashboardVars

-----------------------------------------------------------------------------
\* What the dashboard calls the previous period is what it called the current one
\* a period ago: the periods neither overlap nor leave a gap.
PeriodsAgree ==
    day >= Period =>
        LET then == past[day - Period]  now == GetOverview IN
        /\ now.prev_total = then.total
        /\ now.prev_errors = then.errors
        /\ now.prev_users = then.users

\* The parts of one dashboard differ by no more than the requests that were logged
\* while it was read, which the later part counts, unless the period moved on; and the
\* networks' thumbs add up to those of all, unless an answer was rated meanwhile.
PartsAgree ==
    "liked" \in DOMAIN dash /\ dash.since = day =>
        LET late == Len(log) - dash.began IN
        /\ dash.overview.total <= TotalOf(dash.days)
        /\ TotalOf(dash.days) <= TotalOf(dash.networks)
        /\ TotalOf(dash.networks) <= dash.overview.total + late
        /\ ~dash.rerated => LikedIn(dash.liked) = dash.satisfaction.up

\* Both: the numbers of one dashboard agree with each other and with those of the
\* dashboard a period ago, whatever is logged and rated between two statements.
ReportsAgree == PeriodsAgree /\ PartsAgree

-----------------------------------------------------------------------------
\* The invariant they rest on.  A row that is logged later is dated later, so what was
\* said of a day that is over is still so ...
Until(d) == {i \in DOMAIN log : log[i].day > d - Period /\ log[i].day <= d}

PastInv ==
    /\ DOMAIN past = 0 .. day - 1
    /\ \A i \in DOMAIN log : log[i].day <= day
    /\ \A d \in DOMAIN past :
           /\ past[d].total = Cardinality(Until(d))
           /\ past[d].errors = Errors(Until(d))
           /\ past[d].users = Cardinality({log[i].user : i \in Until(d)})

\* ... and on the day a dashboard was begun, the rows of the period are those it began
\* with and the ones logged since; parts are read in their order.
Liked == Cardinality({i \in Rated : rated[i].value = 1})
Today ==
    /\ dash.overview.total \in Nat
    /\ Cardinality(Current) = dash.overview.total + Len(log) - dash.began
    /\ "days" \in DOMAIN dash =>
           TotalOf(dash.days) \in dash.overview.total .. Cardinality(Current)
    /\ "networks" \in DOMAIN dash =>
           TotalOf(dash.networks) \in TotalOf(dash.days) .. Cardinality(Current)
    /\ "satisfaction" \in DOMAIN dash /\ ~dash.rerated => dash.satisfaction.up = Liked
    /\ "liked" \in DOMAIN dash /\ ~dash.rerated => LikedIn(dash.liked) = dash.satisfaction.up

DashInv ==
    "overview" \in DOMAIN dash =>
        /\ {"since", "began", "rerated"} \subseteq DOMAIN dash
        /\ dash.rerated \in BOOLEAN
        /\ dash.since \in 0 .. day /\ dash.began \in 0 .. Len(log)
        /\ dash.since = day => Today

ReadInv ==
    /\ dash = <<>> \/ "overview" \in DOMAIN dash
    /\ "liked" \in DOMAIN dash => "networks" \in DOMAIN dash
    /\ "networks" \in DOMAIN dash => "days" \in DOMAIN dash
    /\ "days" \in DOMAIN dash => "satisfaction" \in DOMAIN dash
    /\ "satisfaction" \in DOMAIN dash => "overview" \in DOMAIN dash

BoardInv == TypeOK /\ PastInv /\ DashInv /\ ReadInv
=============================================================================
