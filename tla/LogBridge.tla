------------------------------- MODULE LogBridge ------------------------------
(***************************************************************************)
(* The log bridge (process_log_bridge.py): a thread for each output stream  *)
(* of a child mirrors the lines into a log file, puts JSON that was printed *)
(* over several lines together again, and shows the result on the console.  *)
(*                                                                          *)
(* A line is what _handle_line tells apart in it: whether it, or the part   *)
(* from its first to its last brace, parses as JSON; whether a brace opens  *)
(* in it; its net count of braces outside quotes; whether it ends a request *)
(* report; and whether it carries a traceback.                              *)
(* Levels are left out: the log below is the runner's, which takes them all.*)
(* Writing the mirror may fail, which nobody is told, and so may reading    *)
(* and handling a line, which ends the thread.                              *)
(***************************************************************************)
EXTENDS Integers, Sequences, FiniteSets, Functions

CONSTANTS Streams,   \* output streams the bridge drains
          MaxLines,  \* bound: lines printed in all
          MaxFaults  \* bound: exceptions and failing writes in all

Shape ==
    [json : BOOLEAN, opens : BOOLEAN, net : -1..1, report : BOOLEAN,
     trace : BOOLEAN, blank : BOOLEAN]

plain == [json |-> FALSE, opens |-> FALSE, net |-> 0, report |-> FALSE,
          trace |-> FALSE, blank |-> FALSE]

\* The lines the children print.  A value on a line of its own, as in a list
\* printed over several lines, is JSON too.
Lines ==
    {plain,
     [plain EXCEPT !.blank = TRUE],
     [plain EXCEPT !.opens = TRUE, !.net = 1],
     [plain EXCEPT !.net = -1],
     [plain EXCEPT !.opens = TRUE],                                     \* a quoted brace
     [plain EXCEPT !.report = TRUE],                                    \* ... "request_id": "}
     [plain EXCEPT !.json = TRUE],                                      \* "value" or 7
     [plain EXCEPT !.json = TRUE, !.opens = TRUE, !.trace = TRUE]}

VARIABLES
    printed,     \* the lines each child stream has written
    pipe,        \* number of them the thread has read
    stream,      \* reassembly state of each stream
    file,        \* lines in the log file, and how many are in a handle's buffer
    log,         \* the blocks logged to the console and the runner's file
    ended,       \* streams whose writer is gone; closed: the thread is done too
    broke,       \* threads an exception ended: between lines, or within one that it mirrored
    lost         \* lines that a failing write left out of the log file

bridgeVars == <<printed, pipe, stream, file, log, ended, broke, lost>>

TypeOK ==
    /\ printed \in [Streams -> Seq(Lines)]
    /\ pipe \in [Streams -> 0..MaxLines]
    /\ stream \in [Streams -> [collecting : BOOLEAN, buffer : Seq(1..MaxLines),
                               balance : Int, trace : 0..MaxLines]]
    /\ file \in [lines : Seq(Streams \X (1..MaxLines)), pending : [Streams -> 0..MaxLines]]
    /\ log \in Seq([of : Streams, lines : Seq(1..MaxLines), trace : BOOLEAN])
    /\ ended \in [Streams -> {"open", "eof", "closed"}]
    /\ broke \in [Streams -> {"no", "between", "within"}]
    /\ lost \in [Streams -> SUBSET (1..MaxLines)]

Init ==
    /\ printed = [s \in Streams |-> <<>>]
    /\ pipe = [s \in Streams |-> 0]
    /\ stream = [s \in Streams |->
                    [collecting |-> FALSE, buffer |-> <<>>, balance |-> 0, trace |-> 0]]
    /\ file = [lines |-> <<>>, pending |-> [s \in Streams |-> 0]]
    /\ log = <<>>
    /\ ended = [s \in Streams |-> "open"]
    /\ broke = [s \in Streams |-> "no"] /\ lost = [s \in Streams |-> {}]

-----------------------------------------------------------------------------
Printed == UNION {{s} \X DOMAIN printed[s] : s \in Streams}

\* The child writes a line; its stream ends when it and its own children are gone.
WriteLine(s) ==
    /\ ended[s] = "open"
    /\ Cardinality(Printed) < MaxLines
    /\ \E l \in Lines : printed' = [printed EXCEPT ![s] = Append(@, l)]
    /\ UNCHANGED <<pipe, stream, file, log, ended, broke, lost>>

EndOfFile(s) ==
    /\ ended[s] = "open"
    /\ ended' = [ended EXCEPT ![s] = "eof"]
    /\ UNCHANGED <<printed, pipe, stream, file, log, broke, lost>>

-----------------------------------------------------------------------------
Block(s, ls) == [of |-> s, lines |-> ls, trace |-> FALSE]

Log(s, ls) == log' = Append(log, Block(s, ls))

\* Mutant of Flushed: the buffer is not cleared.
FlushedOnce(st) == [st EXCEPT !.balance = 0, !.collecting = FALSE]

Flushed(st)     == [st EXCEPT !.buffer = <<>>, !.balance = 0, !.collecting = FALSE]
Started(st, i, l) == [st EXCEPT !.buffer = <<i>>, !.balance = l.net, !.collecting = TRUE]
Added(st, i, l) == [st EXCEPT !.buffer = Append(@, i), !.balance = @ + l.net]
Complete(st, l) == st.balance <= 0 \/ l.report

\* A traceback in what was shown as JSON follows as an entry of its own.
WithTrace(st, i, trace) == IF trace THEN [st EXCEPT !.trace = i] ELSE st

\* What a line that is not JSON by itself does to the reassembly: it starts, adds
\* to or completes a block, which may carry a traceback, or is text.
Reassemble(s, i, l) ==
    LET st  == stream[s]
        new == IF st.collecting THEN Added(st, i, l) ELSE Started(st, i, l)
        done == IF st.collecting THEN Complete(new, l) ELSE new.balance <= 0
    IN IF ~st.collecting /\ ~l.opens
       THEN UNCHANGED stream /\ Log(s, <<i>>)
       ELSE \/ /\ ~done /\ UNCHANGED log
               /\ stream' = [stream EXCEPT ![s] = new]
            \/ /\ done /\ Log(s, new.buffer)
               /\ \E trace \in BOOLEAN :
                      stream' = [stream EXCEPT ![s] = WithTrace(Flushed(new), i, trace)]

\* The thread is ready for the next line, and there is one, which it mirrors first.
ReadLine(s) ==
    /\ broke[s] = "no" /\ pipe[s] < Len(printed[s]) /\ stream[s].trace = 0
    /\ pipe' = [pipe EXCEPT ![s] = @ + 1]
    /\ file' = [file EXCEPT !.pending[s] = @ + 1]

\* _handle_line.  JSON is shown at once, also in the middle of a block.
HandleLine(s) ==
    /\ ReadLine(s)
    /\ LET i == pipe[s] + 1
           l == printed[s][i]
       IN    IF l.blank THEN UNCHANGED <<stream, log>>
             ELSE IF l.json
             THEN Log(s, <<i>>) /\ stream' = [stream EXCEPT ![s] = WithTrace(@, i, l.trace)]
             ELSE Reassemble(s, i, l)
    /\ UNCHANGED <<printed, ended, broke, lost>>

\* The traceback goes to the console alone; another stream may come before it.
ShowTrace(s) ==
    /\ stream[s].trace # 0 /\ broke[s] = "no"
    /\ log' = Append(log, [Block(s, <<stream[s].trace>>) EXCEPT !.trace = TRUE])
    /\ stream' = [stream EXCEPT ![s].trace = 0]
    /\ UNCHANGED <<printed, pipe, file, ended, broke, lost>>

Faulty == Cardinality({s \in Streams : broke[s] # "no"} \cup UNION {{s} \X lost[s] : s \in Streams})
              < MaxFaults

\* An exception ends the thread: what the child wrote cannot be decoded, the console
\* fails in showing a traceback, or whatever goes wrong with a line that was mirrored.
DrainRaises(s) ==
    /\ Faulty /\ broke[s] = "no" /\ ended[s] # "closed"
    /\ \/ /\ broke' = [broke EXCEPT ![s] = "between"]
          /\ UNCHANGED <<pipe, file>>
       \/ /\ ReadLine(s)
          /\ broke' = [broke EXCEPT ![s] = "within"]
    /\ UNCHANGED <<printed, stream, log, ended, lost>>

\* Each stream writes the log file through a buffer of its own, from which a line goes
\* behind what is there ...
First(s)  == pipe[s] - file.pending[s] + 1
Taken(s)  == [file.pending EXCEPT ![s] = @ - 1]

WriteOut(s) ==
    /\ file.pending[s] > 0
    /\ file' = [lines |-> Append(file.lines, <<s, First(s)>>), pending |-> Taken(s)]
    /\ UNCHANGED <<printed, pipe, stream, log, ended, broke, lost>>

\* ... or is dropped with an error, which _write_tee and _close_stream pass over.
WriteFails(s) ==
    /\ Faulty /\ file.pending[s] > 0
    /\ file' = [file EXCEPT !.pending = Taken(s)]
    /\ lost' = [lost EXCEPT ![s] = @ \cup {First(s)}]
    /\ UNCHANGED <<printed, pipe, stream, log, ended, broke>>

\* At the end of the pipe, or of the thread, the buffer is written out and the file
\* closed; an unfinished block is dropped.
CloseStream(s) ==
    /\ ended[s] # "closed" /\ file.pending[s] = 0
    /\ broke[s] = "no" => ended[s] = "eof" /\ pipe[s] = Len(printed[s]) /\ stream[s].trace = 0
    /\ ended' = [ended EXCEPT ![s] = "closed"]
    /\ UNCHANGED <<printed, pipe, stream, file, log, broke, lost>>

Drain(s) == HandleLine(s) \/ ShowTrace(s) \/ DrainRaises(s) \/ CloseStream(s)
Mirror(s) == WriteOut(s) \/ WriteFails(s)

Next == \E s \in Streams : WriteLine(s) \/ EndOfFile(s) \/ Drain(s) \/ Mirror(s)

Spec == Init /\ [][Next]_bridgeVars

-----------------------------------------------------------------------------
Held(s)  == stream[s].buffer

\* The places where lines of a stream are: those of its blocks in the log, the tracebacks
\* aside, and those of the block that is held back, at 0.
Places(s) ==
    (UNION {{k} \X DOMAIN log[k].lines : k \in {k \in DOMAIN log : log[k].of = s /\ ~log[k].trace}})
        \cup ({0} \X DOMAIN Held(s))
LineAt(s) == [p \in Places(s) |-> IF p[1] = 0 THEN Held(s)[p[2]] ELSE log[p[1]].lines[p[2]]]

Opened(s, k) == {j \in 1..k : printed[s][Held(s)[j]].net = 1}
Shut(s, k)   == {j \in 1..k : printed[s][Held(s)[j]].net = -1}

\* The lines handled to the end: not the one in which the thread broke.
Shown(s) == IF broke[s] = "within" THEN pipe[s] - 1 ELSE pipe[s]

\* Every line handled is logged once or held back in a block, apart from
\* blank ones; and a line is held back only behind a line that opened a brace still
\* unclosed.  What is never shown is what such a block held at the end of the pipe.
LinesAccounted ==
    \A s \in Streams :
        /\ IsInjective(LineAt(s))
        /\ Range(LineAt(s)) = {i \in 1..Shown(s) : ~printed[s][i].blank}
        /\ Held(s) # <<>> =>
               /\ printed[s][Held(s)[1]].opens
               /\ \A k \in DOMAIN Held(s) : Cardinality(Opened(s, k)) > Cardinality(Shut(s, k))

\* The log file has the lines of a stream in order and none twice, whatever the other
\* stream writes and wherever either fails: of those that left the buffer, all but the ones
\* a write failed for; and of a closed stream all that were read, which are all that were
\* printed unless an exception ended its thread.
OwnLines(s) == {k \in DOMAIN file.lines : file.lines[k][1] = s}
Mirrored(s) == {file.lines[k][2] : k \in OwnLines(s)}
MirrorWhole ==
    \A s \in Streams :
        /\ \A j, k \in OwnLines(s) : j < k => file.lines[j][2] < file.lines[k][2]
        /\ Mirrored(s) = (1..(pipe[s] - file.pending[s])) \ lost[s]
        /\ ended[s] = "closed" =>
               /\ Mirrored(s) \cup lost[s] = 1..pipe[s]
               /\ broke[s] = "no" => pipe[s] = Len(printed[s])

\* Both: no line is lost unnoticed or doubled on either of its two ways.
LinesKept == LinesAccounted /\ MirrorWhole

-----------------------------------------------------------------------------
\* The invariant they rest on: a thread is at most where its stream is, its balance is
\* that of the block it holds, and it holds one as long as it collects.
PipesInv ==
    \A s \in Streams :
        /\ Len(printed[s]) <= MaxLines /\ pipe[s] <= Len(printed[s])
        /\ file.pending[s] <= pipe[s] /\ lost[s] \subseteq 1..(pipe[s] - file.pending[s])
        /\ broke[s] = "within" => pipe[s] > 0
        /\ ended[s] = "closed" => file.pending[s] = 0 /\ (broke[s] = "no" => pipe[s] = Len(printed[s]))

HeldInv ==
    \A s \in Streams :
        /\ stream[s].collecting = (Held(s) # <<>>)
        /\ stream[s].balance = Cardinality(Opened(s, Len(Held(s)))) - Cardinality(Shut(s, Len(Held(s))))

BridgeInv == TypeOK /\ PipesInv /\ HeldInv /\ LinesKept
=============================================================================
