---------------------------- MODULE ResponseBlocks ----------------------------
(***************************************************************************)
(* parse_response_blocks and try_parse_json of response_parser.py, which cut *)
(* an agent's answer into what is said and what is shown.  An answer is read *)
(* line by line; a line is what it begins with ("say:", "gui:" or neither)  *)
(* and the rest of it: nothing, words, a whole JSON value or a code fence.   *)
(* A line is known by its number.                                           *)
(***************************************************************************)
EXTENDS Naturals, Sequences, FiniteSetsExt, Lists

CONSTANT MaxLines   \* bound: lines of an answer

Markers == {"say", "gui", "none"}
Line     == [prefix : Markers, text : {"blank", "words", "json", "fence"}]

VARIABLES response,  \* the answer
          next,      \* the line the loop has come to
          current,   \* current_type and current_lines, as line numbers
          blocks,    \* the blocks that are complete
          result     \* what is returned, or <<>> while the loop runs

blockVars == <<response, next, current, blocks, result>>

Text(i)  == response[i].text
Blank(i) == Text(i) = "blank"

\* strip: leading and trailing blank lines go.
Strip(lines) ==
    LET kept == {k \in DOMAIN lines : ~Blank(lines[k])} IN
    IF kept = {} THEN <<>> ELSE SubSeq(lines, Min(kept), Max(kept))

Block(kind, lines) == [kind |-> kind, lines |-> Strip(lines)]

Init == /\ response \in UNION {[1 .. n -> Line] : n \in 0 .. MaxLines}
        /\ next = 1 /\ current = Block("none", <<>>) /\ blocks = <<>> /\ result = <<>>

Close == IF current.kind = "none" THEN blocks
                                  ELSE Append(blocks, Block(current.kind, current.lines))

\* A prefix closes the block before it; lines ahead of the first one are dropped.
StartBlock ==
    /\ next <= Len(response) /\ response[next].prefix # "none"
    /\ blocks' = Close
    /\ current' = [kind |-> response[next].prefix, lines |-> <<next>>]
    /\ next' = next + 1
    /\ UNCHANGED <<response, result>>

AddLine ==
    /\ next <= Len(response) /\ response[next].prefix = "none"
    /\ current' = [current EXCEPT !.lines = Append(@, next)]
    /\ next' = next + 1
    /\ UNCHANGED <<response, blocks, result>>

-----------------------------------------------------------------------------
\* json.loads takes one value, with blank lines around it.
IsValue(lines) == LET inner == Strip(lines) IN Len(inner) = 1 /\ Text(inner[1]) = "json"

\* The second attempt: without the first and the last line, if these are fences.
Fenced(lines) == /\ Len(lines) >= 3 /\ Text(lines[1]) = "fence" /\ Text(lines[Len(lines)]) = "fence"
                 /\ IsValue(SubSeq(lines, 2, Len(lines) - 1))

Kind(block) == IF block.kind = "say" THEN "say"
               ELSE IF IsValue(block.lines) \/ Fenced(block.lines) THEN "gui_json" ELSE "gui_html"

\* Mutant of Parsed: the last block is not closed.
ParsedButLast == [k \in DOMAIN blocks |-> [blocks[k] EXCEPT !.kind = Kind(blocks[k])]]

Parsed == LET done == Without(Close, {b \in Range(Close) : b.lines = <<>>}) IN
          [k \in DOMAIN done |-> [done[k] EXCEPT !.kind = Kind(done[k])]]

\* An answer in which no block has a content is said as it is.
Whole == LET kept == {i \in DOMAIN response : ~Blank(i) \/ response[i].prefix # "none"} IN
         IF kept = {} THEN <<>>
         ELSE <<[kind |-> "say", lines |-> [k \in 1 .. Max(kept) - Min(kept) + 1 |-> Min(kept) + k - 1]]>>
Finish ==
    /\ next = Len(response) + 1
    /\ result' = IF Parsed # <<>> THEN Parsed ELSE Whole
    /\ next' = next + 1
    /\ UNCHANGED <<response, current, blocks>>

Next == StartBlock \/ AddLine \/ Finish
Spec == Init /\ [][Next]_blockVars

-----------------------------------------------------------------------------
TypeOK == /\ next \in 1 .. Len(response) + 2
          /\ current.kind \in Markers /\ Range(current.lines) \subseteq DOMAIN response

\* The definition: line j is in the block of the last prefix at or before it.
Starts     == {i \in DOMAIN response : response[i].prefix # "none"}
StartOf(j) == Max({i \in Starts : i <= j})
Covered    == {j \in DOMAIN response : ~Blank(j) /\ \E i \in Starts : i <= j}

Places     == UNION {{k} \X DOMAIN result[k].lines : k \in DOMAIN result}
LineAt(p)  == result[p[1]].lines[p[2]]
Before(p, q) == p[1] < q[1] \/ (p[1] = q[1] /\ p[2] < q[2])

\* Every line that is not blank, from the first prefix on, is in one block of the kind
\* of its prefix, in the order of the answer; an answer without any is one block.
BlocksExact ==
    next = Len(response) + 2 =>
        IF Covered = {} THEN result = Whole
        ELSE /\ {LineAt(p) : p \in Places} \cap {i \in DOMAIN response : ~Blank(i)} = Covered
             /\ \A p, q \in Places : Before(p, q) => LineAt(p) < LineAt(q)
             /\ \A k \in DOMAIN result : LET b == result[k] IN
                    /\ \A j \in Range(b.lines) : StartOf(j) = StartOf(b.lines[1])
                    /\ (b.kind = "say") = (response[StartOf(b.lines[1])].prefix = "say")
                    /\ b.kind = "gui_json" =>
                           Cardinality({j \in Range(b.lines) : Text(j) = "json"}) = 1

-----------------------------------------------------------------------------
\* The invariant it rests on.  These blocks are those of the lines below some line: each
\* of one prefix, every line that matters in one, in their order ...
Sections(bs, line) ==
    /\ bs \in Seq([kind : Markers \ {"none"}, lines : Seq(1 .. line - 1)])
    /\ \A k \in DOMAIN bs :
           /\ bs[k].lines # <<>> => ~Blank(bs[k].lines[1])
           /\ \E i \in Starts : /\ bs[k].kind = response[i].prefix
                               /\ \A j \in Range(bs[k].lines) : i <= j /\ StartOf(j) = i
    /\ \A k, l \in DOMAIN bs : \A i \in DOMAIN bs[k].lines, j \in DOMAIN bs[l].lines :
           Before(<<k, i>>, <<l, j>>) => bs[k].lines[i] < bs[l].lines[j]
    /\ \A j \in Covered : j < line => \E k \in DOMAIN bs : j \in Range(bs[k].lines)

\* ... and the current one has all lines from the last prefix on.
CurrentInv ==
    next <= Len(response) + 1 =>
        IF current.kind = "none" THEN blocks = <<>> /\ \A i \in Starts : i >= next
        ELSE LET first == current.lines[1] IN
             /\ first \in Starts /\ first < next /\ current.kind = response[first].prefix
             /\ current.lines = [k \in 1 .. next - first |-> first + k - 1]
             /\ \A i \in Starts : i <= first \/ i >= next
             /\ Sections(blocks, first)

BlocksInv == /\ response \in Seq(Line) /\ TypeOK /\ current.lines \in Seq(Nat)
             /\ CurrentInv /\ BlocksExact
=============================================================================
