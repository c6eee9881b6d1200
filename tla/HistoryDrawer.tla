---------------------------- MODULE HistoryDrawer ----------------------------
(***************************************************************************)
(* The list of a user's conversations (list_conversations in main.py and    *)
(* conversation_repo.py), read page by page by the drawer that shows it     *)
(* (frontend HistoryDrawer.tsx) while conversations are created, renamed    *)
(* and archived.  Pages are cut by offset from an order that changes: the    *)
(* drawer asks for the page that begins at the number of rows it shows.     *)
(***************************************************************************)
EXTENDS Naturals, Sequences, FiniteSets, Functions, Lists

CONSTANTS Convs,       \* conversations of the user
          PageSize,    \* limit of a page
          MaxLoads,    \* bound: pages fetched
          MaxMoves     \* bound: conversations renamed

VARIABLES
    order,      \* the user's conversations, the last updated first
    archived,   \* those that are archived
    shown,      \* rows of the drawer
    hasMore,    \* it offers to load more
    loading,    \* the button waits: the last thing to happen to a fetch was its start
    loads,      \* fetches of a page that are under way
    leaving,    \* conversations whose archiving the drawer waits for
    fetches,    \* fetches made
    moves,      \* renamings made
    moved,      \* history: conversations that came to the top since the drawer opened
    slipped     \* history: an offset counted a row that the list no longer had

drawerVars == <<order, archived, shown, hasMore, loading, loads, leaving, fetches, moves,
                moved, slipped>>

Listed == Without(order, archived)

\* Mutant of ToTop: the conversation is listed at its old place as well.
ToTopKeeps(c) == <<c>> \o order

ToTop(c) == <<c>> \o Without(order, {c})

\* OFFSET off LIMIT n.
Cut(rows, off, n) == SubSeq(rows, off + 1, IF off + n < Len(rows) THEN off + n ELSE Len(rows))

\* A fetch: the offset it names, the rows counted by it, and the answer once it is
\* there.
Waiting(off, rows) == [nr |-> fetches, offset |-> off, rows |-> rows, answered |-> FALSE,
                       page |-> <<>>, more |-> FALSE]
Fetch == [nr : 0 .. MaxLoads, offset : Nat, rows : SUBSET Convs, answered : BOOLEAN,
          page : Seq(Convs), more : BOOLEAN]

TypeOK ==
    /\ order \in Seq(Convs) /\ IsInjective(order)
    /\ archived \subseteq Range(order) /\ shown \in Seq(Convs)
    /\ hasMore \in BOOLEAN /\ loading \in BOOLEAN /\ loads \subseteq Fetch /\ leaving \subseteq Convs
    /\ fetches \in 0 .. MaxLoads /\ moves \in 0 .. MaxMoves
    /\ moved \subseteq Convs /\ slipped \in BOOLEAN

\* The user has had some conversations before; the drawer has not been opened.
Init ==
    /\ order \in {s \in UNION {[1 .. n -> Convs] : n \in PageSize .. Cardinality(Convs)} : IsInjective(s)}
    /\ archived = {} /\ shown = <<>> /\ hasMore = FALSE /\ loading = FALSE
    /\ loads = {} /\ leaving = {} /\ fetches = 0 /\ moves = 0
    /\ moved = {} /\ slipped = FALSE

-----------------------------------------------------------------------------
server == <<order, archived, moves>>

\* Opening the drawer fetches the first page, whatever else is under way; a page
\* that is still due then belongs to the rows shown before.
Open ==
    /\ fetches < MaxLoads
    /\ fetches' = fetches + 1
    /\ loads' = loads \cup {Waiting(0, {})}
    /\ moved' = {} /\ slipped' = (loads # {})
    /\ loading' = TRUE
    /\ UNCHANGED <<server, shown, hasMore, leaving>>

LoadMore ==
    /\ hasMore /\ ~loading /\ fetches < MaxLoads
    /\ fetches' = fetches + 1
    /\ loads' = loads \cup {Waiting(Len(shown), Range(shown))}
    /\ loading' = TRUE
    /\ UNCHANGED <<server, shown, hasMore, leaving, moved, slipped>>

\* Mutant of ReadPage: the statement's limit is the page's.
ReadPageExact(f) ==
    /\ ~f.answered
    /\ LET rows == Cut(Listed, f.offset, PageSize) IN
       loads' = (loads \ {f}) \cup
                {[f EXCEPT !.answered = TRUE, !.page = rows, !.more = Len(rows) > PageSize]}
    /\ slipped' = (slipped \/ f.rows \cap archived # {})
    /\ UNCHANGED <<server, shown, hasMore, loading, leaving, fetches, moved>>

\* The statement reads one row more than the page has, to see whether there are any.
ReadPage(f) ==
    /\ ~f.answered
    /\ LET rows == Cut(Listed, f.offset, PageSize + 1) IN
       loads' = (loads \ {f}) \cup
                {[f EXCEPT !.answered = TRUE,
                           !.page = Cut(rows, 0, PageSize),
                           !.more = Len(rows) > PageSize]}
    /\ slipped' = (slipped \/ f.rows \cap archived # {})
    /\ UNCHANGED <<server, shown, hasMore, loading, leaving, fetches, moved>>

\* The first page replaces what is shown, the others are appended to it.
TakePage(f) ==
    /\ f.answered
    /\ loads' = loads \ {f}
    /\ shown' = IF f.offset = 0 THEN f.page ELSE shown \o f.page
    /\ hasMore' = f.more /\ loading' = FALSE
    /\ UNCHANGED <<server, leaving, fetches, moved, slipped>>

\* A failed fetch changes nothing: "Silently fail — user can retry".
LoadFails(f) ==
    /\ loads' = loads \ {f}
    /\ slipped' = (slipped \/ f.offset = 0) /\ loading' = FALSE
    /\ UNCHANGED <<server, shown, hasMore, leaving, fetches, moved>>

\* archive sets the flag and the time of the update, here for the drawer ...
Archive(c) ==
    /\ c \in Range(shown) \cap Range(order) /\ c \notin leaving
    /\ archived' = archived \cup {c} /\ order' = ToTop(c)
    /\ leaving' = leaving \cup {c}
    /\ UNCHANGED <<shown, hasMore, loading, loads, fetches, moves, moved, slipped>>

\* ... which removes the row when it hears of it, if it does.
Archived(c) ==
    /\ c \in leaving
    /\ leaving' = leaving \ {c}
    /\ shown' \in {Without(shown, {c}), shown}
    /\ UNCHANGED <<server, hasMore, loading, loads, fetches, moved, slipped>>

\* create_session, and the title that the first message gives its conversation.
Create(c) ==
    /\ c \notin Range(order)
    /\ order' = <<c>> \o order /\ moved' = moved \cup {c}
    /\ UNCHANGED <<archived, moves, shown, hasMore, loading, loads, leaving, fetches, slipped>>

UpdateTitle(c) ==
    /\ c \in Range(order) /\ moves < MaxMoves
    /\ moves' = moves + 1
    /\ order' = ToTop(c) /\ moved' = moved \cup {c}
    /\ UNCHANGED <<archived, shown, hasMore, loading, loads, leaving, fetches, slipped>>

Next == \/ Open \/ LoadMore
        \/ \E f \in loads : ReadPage(f) \/ TakePage(f) \/ LoadFails(f)
        \/ \E c \in Convs : Archive(c) \/ Archived(c) \/ Create(c) \/ UpdateTitle(c)

Spec == Init /\ [][Next]_drawerVars

-----------------------------------------------------------------------------
\* A drawer that offers no more rows shows every conversation that is not archived
\* and has not come to the top of the list since it was opened, unless a page was
\* cut at an offset that counted a row already gone, or the opening page was lost
\* or crossed another: nothing else that happens between two pages loses a row.
DrawerComplete ==
    fetches > 0 /\ ~hasMore /\ loads = {} /\ ~slipped =>
        Range(order) \ archived \subseteq Range(shown) \cup moved

-----------------------------------------------------------------------------
\* The invariant it rests on.  The rows listed ahead of a conversation, and the rows of
\* the drawer that still count.
Ahead(c)  == {order[i] : i \in {j \in DOMAIN order :
                  /\ order[j] \notin archived
                  /\ \E k \in DOMAIN order : j < k /\ order[k] = c}}
Own(rows) == {i \in DOMAIN rows : rows[i] \notin archived}
Left      == Range(order) \ (archived \cup moved)

\* Unless a page slipped, one is under way at most, with the drawer's rows as they were
\* or with some that are gone ...
OneLoad ==
    /\ \A f, g \in loads : f = g
    /\ loading = (loads # {})
    /\ \A f \in loads :
           /\ f.offset > 0 => hasMore
           /\ f.offset > 0 /\ ~f.answered /\ f.rows \cap archived = {} =>
                  Len(shown) = f.offset /\ Range(shown) = f.rows

\* ... and a conversation that has not come to the top and is not shown has as many ahead
\* of it as the drawer has rows, so that the next page does not begin behind it; none is
\* left out if there are no more.
Complete ==
    /\ (\A f \in loads : f.offset > 0) =>
           \A c \in Left \ Range(shown) : Cardinality(Ahead(c)) >= Cardinality(Own(shown))
    /\ loads = {} /\ ~hasMore => Left \subseteq Range(shown)

\* The same of a page that was answered, after the rows it is appended to.
PageComplete ==
    \A f \in loads : f.answered =>
        /\ f.offset = 0 =>
               /\ IsInjective(f.page)
               /\ ~f.more => Left \subseteq Range(f.page)
               /\ \A c \in Left \ Range(f.page) : Range(f.page) \ archived \subseteq Ahead(c)
        /\ f.offset > 0 =>
               /\ ~f.more => Left \subseteq Range(shown) \cup Range(f.page)
               /\ \A c \in Left \ (Range(shown) \cup Range(f.page)) :
                      Cardinality(Ahead(c)) >= Cardinality(Own(shown)) + Cardinality(Own(f.page))

DrawerInv ==
    /\ TypeOK /\ leaving \subseteq archived
    /\ fetches = 0 => loads = {} /\ ~hasMore
    /\ fetches > 0 /\ ~slipped => OneLoad /\ Complete /\ PageComplete
=============================================================================
