------------------------------ MODULE MCPeriphery ------------------------------
(* A small instance of Periphery.  What a component begins with does not matter while *)
(* another one is at work: it begins in one way only.                                 *)
EXTENDS Periphery

MCInit == /\ Init
          /\ part # "feedback" => stored = {}
          /\ part # "blocks" => response = <<>>
          \* conversations are alike: one order of each length
          /\ order \in {<<"c1">>} \cup (IF part = "drawer" THEN {<<"c1", "c2">>} ELSE {})

MCSpec == MCInit /\ [][Next]_vars

\* Three lines come from one stream, while the other has nothing to say; two from any.
LinesBound == part = "bridge" /\ Cardinality(Bridge!Printed) > 2 =>
                  printed["err"] = <<>> /\ ended["err"] = "open"

\* The second of two designers, who are alike, makes networks of one agent without tools.
DesignBound == part = "design" =>
    /\ DOMAIN definition["c2"] \subseteq {"a1"}
    /\ \A a \in DOMAIN definition["c2"] : definition["c2"][a].tools = {}

\* The second of two conversations, which are alike, has nothing analysed: nobody reads
\* a report.
NewsBound == part = "news" => report["c2"] = <<>>

\* The second of two calls, which are alike, names a place: without one it meets nobody.
\* After a crash, builds are cut or fail at one of the two places.
StoreBound == part = "vectors" =>
    /\ call["c2"].pc = "idle" \/ call["c2"].place # NoPath
    /\ crashes > 0 => Cardinality(hurt) <= 1

\* No event reads a tuple, and each writes its own: two at a time are enough of those
\* that do not tie a network to its owner and organization.
TuplesBound == part = "auth" =>
    Cardinality({t \in tuples : t[2] \notin {"owner", "container"} /\ t[1] # Everyone}) <= 2

\* The file name of one network is a part of that of the other.
InsideNames == {<<"n1", "n2">>}

\* An article whose title alone has the keyword, and one whose text alone has it.
SomeArticles == {[from |-> "nyt", listed |-> {"k1"}, text |-> {}],
                 [from |-> "aljazeera", listed |-> {}, text |-> {"k1"}]}

\* Messages to the Slack app: for two networks, with and without sly_data.
SlackCommands ==
    {[word |-> "none", prompt |-> FALSE, data |-> FALSE],
     [word |-> "n1",   prompt |-> FALSE, data |-> TRUE], [word |-> "n1", prompt |-> TRUE, data |-> FALSE],
     [word |-> "n2",   prompt |-> TRUE,  data |-> TRUE], [word |-> "n2", prompt |-> FALSE, data |-> FALSE]}

\* A user and an administrator, each with a conversation; a message of the latter's.
OwnerOf     == [c1 |-> "u1", c2 |-> "u2"]
MessageIn == [m1 |-> "c2"]
=============================================================================
