----------------------------- MODULE NetworkDesign ----------------------------
(***************************************************************************)
(* The agent network designer: the coded tools that edit a network's        *)
(* definition in the sly_data of a conversation (agent_network_editor,      *)
(* agent_network_instructions_editor), the one that writes it to a file and *)
(* lists it in the manifest (agent_network_designer), and the one that      *)
(* loads it again (get_agent_network_definition.py).                        *)
(*                                                                          *)
(* A tool runs to its first await in one step.  Writing is not one: each    *)
(* open, read and write of a file is awaited, may raise, and opening a file *)
(* to write it empties it.  Two handles on a file write over each other.    *)
(* Conversations share the directory, and nothing else.                     *)
(* The validators and the files are external.                               *)
(***************************************************************************)
EXTENDS Naturals, FiniteSets

CONSTANTS Conversations, Agents, Names,
          Toolbox,     \* agent names that are tools of the toolbox
          NoName,      \* no network name in sly_data
          Inside,      \* pairs of names: the file name of one is a part of that of the other
          MaxEdits     \* bound: edits in all

VARIABLES
    definition,   \* agent_network_definition of each conversation
    netName,      \* agent_network_name of each
    persist,      \* what each conversation's call of the persistor does
    files,        \* network files: their definition, or Torn: emptied, or half written
    broken,       \* names whose file was left half written, or by two calls at once
    manifest,     \* whether it is whole, and the names in its text
    persisted,    \* names whose persistence returned
    overlapped,   \* two calls of the persistor have been in flight at once, or one was
                  \* cut off and left the manifest half written
    edits

designVars == <<definition, netName, persist, files, broken, manifest, persisted, overlapped, edits>>

\* "absent": no instructions, the agent is a tool; "empty": none written yet.
Agent      == [instructions : {"absent", "empty", "text"}, tools : SUBSET Agents]
Definition == UNION {[S -> Agent] : S \in SUBSET Agents}
Torn       == [text |-> [instructions |-> "torn", tools |-> {}]]   \* no definition
Idle       == [at |-> "idle"]
Persisting == [at : {"open", "write", "create", "read", "empty", "update"},
               name : Names, def : Definition, read : SUBSET Names]

TypeOK ==
    /\ definition \in [Conversations -> Definition]
    /\ netName \in [Conversations -> Names \cup {NoName}]
    /\ persist \in [Conversations -> {Idle} \cup Persisting]
    /\ DOMAIN files \subseteq Names
    /\ \A n \in DOMAIN files : files[n] = Torn \/ files[n] \in Definition
    /\ manifest \in [state : {"absent", "torn", "whole"}, names : SUBSET Names]
    /\ broken \subseteq Names /\ persisted \subseteq Names /\ edits \in 0..MaxEdits

Init ==
    /\ definition = [c \in Conversations |-> <<>>]
    /\ netName = [c \in Conversations |-> NoName]
    /\ persist = [c \in Conversations |-> Idle]
    /\ files = <<>> /\ broken = {} /\ manifest = [state |-> "absent", names |-> {}]
    /\ persisted = {} /\ overlapped = FALSE /\ edits = 0

-----------------------------------------------------------------------------
Fresh(isTool) == [instructions |-> IF isTool THEN "absent" ELSE "empty", tools |-> {}]

Edit(c, def) ==
    /\ edits < MaxEdits /\ edits' = edits + 1
    /\ definition' = [definition EXCEPT ![c] = def]
    /\ UNCHANGED <<persist, files, broken, manifest, persisted, overlapped>>

\* The definition is emptied before the arguments are looked at; bad: one is missing.
CreateNetwork(c, n, names, toolNames, bad) ==
    /\ Edit(c, IF bad THEN <<>> ELSE [a \in names |-> Fresh(a \in toolNames)])
    /\ netName' = IF bad THEN netName ELSE [netName EXCEPT ![c] = n]

\* An agent of that name is replaced.
AddAgent(c, a, isTool) ==
    /\ Edit(c, [b \in DOMAIN definition[c] \cup {a} |->
                   IF b = a THEN Fresh(isTool) ELSE definition[c][b]])
    /\ UNCHANGED netName

\* Other agents keep the name in their lists.
RemoveAgent(c, a) ==
    /\ a \in DOMAIN definition[c]
    /\ Edit(c, [b \in DOMAIN definition[c] \ {a} |-> definition[c][b]])
    /\ UNCHANGED netName

UpdateAgent(c, a, downChains) ==
    /\ a \in DOMAIN definition[c]
    /\ Edit(c, [definition[c] EXCEPT ![a].tools = downChains])
    /\ UNCHANGED netName

SetInstructions(c, a) ==
    /\ a \in DOMAIN definition[c] /\ definition[c][a].instructions # "absent"
    /\ Edit(c, [definition[c] EXCEPT ![a].instructions = "text"])
    /\ UNCHANGED netName

\* The definition in a network's file replaces the one in sly_data; the name stays.
LoadDefinition(c, n) ==
    /\ n \in DOMAIN files /\ files[n] # Torn
    /\ Edit(c, files[n])
    /\ UNCHANGED netName

EditNetwork(c) ==
    \/ \E n \in Names, names \in SUBSET Agents \ {{}} :
           \E tools \in SUBSET names, bad \in BOOLEAN :
               CreateNetwork(c, n, names, tools, bad)
    \/ \E a \in Agents : \/ (\E isTool \in BOOLEAN : AddAgent(c, a, isTool))
                         \/ RemoveAgent(c, a)
                         \/ \E tools \in SUBSET Agents : UpdateAgent(c, a, tools)
                         \/ SetInstructions(c, a)
    \/ \E n \in Names : LoadDefinition(c, n)

-----------------------------------------------------------------------------
Tops(def) == {a \in DOMAIN def : \A b \in DOMAIN def : a \notin def[b].tools}

\* No list names an agent that is missing, no cycle, one agent on top.
StructureValid(def) ==
    /\ \A a \in DOMAIN def : def[a].tools \subseteq DOMAIN def
    /\ \A S \in SUBSET DOMAIN def \ {{}} : \E a \in S : \A b \in S : a \notin def[b].tools
    /\ Cardinality(Tops(def)) = 1

KeywordValid(def) == \A a \in DOMAIN def : def[a].instructions # "empty"
ToolboxValid(def) == \A a \in DOMAIN def : def[a].instructions = "absent" => a \in Toolbox

Valid(def) == StructureValid(def) /\ KeywordValid(def) /\ ToolboxValid(def)

\* What the assembler writes for each agent.  An agent that leads others, or stands
\* on top, needs instructions: without them it raises.
Assembled(def) == \A a \in DOMAIN def :
                      (a \in Tops(def) \/ def[a].tools # {}) => def[a].instructions # "absent"

Goto(c, at) == persist' = [persist EXCEPT ![c].at = at]

\* PersistAgentNetwork: a copy is validated and assembled before the first await.
BeginPersist(c) ==
    LET def == definition[c] IN
    /\ persist[c] = Idle /\ def # <<>> /\ netName[c] # NoName
    /\ Valid(def) /\ Assembled(def)
    /\ persist' = [persist EXCEPT ![c] = [at |-> "open", name |-> netName[c], def |-> def,
                                          read |-> {}]]
    /\ overlapped' = (overlapped \/ \E d \in Conversations : persist[d] # Idle)
    /\ UNCHANGED <<definition, netName, files, broken, manifest, persisted, edits>>

Rest == UNCHANGED <<definition, netName, overlapped, edits>>

Put(n, def) == files' = [m \in DOMAIN files \cup {n} |-> IF m = n THEN def ELSE files[m]]

OpenFile(c) ==
    /\ persist[c].at = "open"
    /\ Put(persist[c].name, Torn) /\ broken' = broken \ {persist[c].name}
    /\ Goto(c, "write")
    /\ UNCHANGED <<manifest, persisted>> /\ Rest

Written(c, def) ==
    /\ persist[c].at = "write"
    /\ Put(persist[c].name, def)
    /\ Goto(c, IF manifest.state = "absent" THEN "create" ELSE "read")
    /\ UNCHANGED <<manifest, persisted>> /\ Rest

\* Mutant of WriteFile: what is written is the definition as it has become.
WriteFileLate(c) == Written(c, definition[c]) /\ broken' = broken \ {persist[c].name}

WriteFile(c) == Written(c, persist[c].def) /\ broken' = broken \ {persist[c].name}

\* Another call has written since this one emptied the file: what is longer of its text
\* stays behind this one's.
WriteOver(c) ==
    /\ persist[c].at = "write"
    /\ files[persist[c].name] # Torn \/ persist[c].name \in broken
    /\ Written(c, Torn) /\ broken' = broken \cup {persist[c].name}

CreateManifest(c) ==
    /\ persist[c].at = "create"
    /\ manifest' = [state |-> "whole", names |-> {}]
    /\ Goto(c, "read")
    /\ UNCHANGED <<files, broken, persisted>> /\ Rest

\* The text is searched for the file name, also as a part of another.
Mentioned(n, names) == \E m \in names : n = m \/ <<n, m>> \in Inside

Returns(c) ==
    /\ persist' = [persist EXCEPT ![c] = Idle]
    /\ persisted' = persisted \cup {persist[c].name}

\* A name that is in the text already needs no update.
ReadManifest(c) ==
    /\ persist[c].at = "read"
    /\ IF Mentioned(persist[c].name, manifest.names)
       THEN Returns(c)
       ELSE /\ persist' = [persist EXCEPT ![c].at = "empty",
                                          ![c].read = manifest.names]
            /\ UNCHANGED persisted
    /\ UNCHANGED <<files, broken, manifest>> /\ Rest

Emptied == [state |-> "torn", names |-> {}]

OpenManifest(c) ==
    /\ persist[c].at = "empty"
    /\ manifest' = Emptied
    /\ Goto(c, "update")
    /\ UNCHANGED <<files, broken, persisted>> /\ Rest

\* The names a call is about to write: those it read, and its own.
Listing(c) == persist[c].read \cup {persist[c].name}

\* If another call has written since this one emptied the file, the texts may mix.
UpdateManifest(c) ==
    /\ persist[c].at = "update"
    /\ \/ manifest' = [state |-> "whole", names |-> Listing(c)]
       \/ /\ manifest # Emptied
          /\ \E names \in SUBSET (manifest.names \cup Listing(c)) :
                 manifest' = [state |-> "torn", names |-> names]
    /\ Returns(c)
    /\ UNCHANGED <<files, broken>> /\ Rest

Persist(c) == \/ BeginPersist(c) \/ OpenFile(c) \/ WriteFile(c) \/ WriteOver(c)
              \/ CreateManifest(c) \/ ReadManifest(c) \/ OpenManifest(c) \/ UpdateManifest(c)

\* The calls of some conversations are cut off.  The file that one of them was writing is
\* empty, or some of the text is in it.
Half(D) == {persist[c].name : c \in {c \in D : persist[c].at = "write"}}

CutOff(D) ==
    /\ persist' = [c \in Conversations |-> IF c \in D THEN Idle ELSE persist[c]]
    /\ \E torn \in SUBSET Half(D) :
           files' = [n \in DOMAIN files |-> IF n \in torn THEN Torn ELSE files[n]]
    /\ broken' = broken \cup {n \in Half(D) : files'[n] = Torn}
    /\ \/ UNCHANGED manifest
       \/ /\ \E c \in D : persist[c].at \in {"create", "update"}
          /\ \E names \in SUBSET UNION {Listing(c) : c \in {c \in D : persist[c].at = "update"}} :
                 manifest' = [state |-> "torn", names |-> names]
    /\ overlapped' = (overlapped \/ manifest'.state = "torn")
    /\ UNCHANGED <<persisted, edits>>

\* An open, read or write that is awaited raises, and the server goes on.
PersistFails(c) ==
    /\ persist[c] # Idle
    /\ CutOff({c})
    /\ UNCHANGED <<definition, netName>>

ServerStops ==
    /\ definition' = [c \in Conversations |-> <<>>]
    /\ netName' = [c \in Conversations |-> NoName]
    /\ CutOff(Conversations)

Next == (\E c \in Conversations : EditNetwork(c) \/ Persist(c) \/ PersistFails(c)) \/ ServerStops

Spec == Init /\ [][Next]_designVars

-----------------------------------------------------------------------------
Writing(n) == \E c \in Conversations : persist[c].at = "write" /\ persist[c].name = n

\* Whatever order the editing tools were called in, also while a network was being
\* written, a file holds a network that is valid and that the assembler could write,
\* unless a call is writing it, or the last one that did was cut off or met another one
\* at the same file; and a network is listed only once its file is there.
FilesSound ==
    /\ \A n \in DOMAIN files :
           IF files[n] = Torn THEN Writing(n) \/ n \in broken
           ELSE Valid(files[n]) /\ Assembled(files[n])
    /\ manifest.names \subseteq DOMAIN files

\* A network whose persistence returned stays listed, or its file name a part of one that
\* is, as long as no two have been persisted at once and no call, cut off by the server's
\* end or an error of its own, left the manifest half written.
PersistedListed ==
    ~overlapped /\ manifest.state = "whole" => \A n \in persisted : Mentioned(n, manifest.names)

\* Both: what the designer leaves for the server to load.
StoreSound == FilesSound /\ PersistedListed

-----------------------------------------------------------------------------
\* The inductive invariant behind it.  What is being written was validated, its file is
\* there from the moment it was opened, and so are those of the names that were read.
PersistInv ==
    \A c \in Conversations : persist[c] # Idle =>
        /\ Valid(persist[c].def) /\ Assembled(persist[c].def)
        /\ persist[c].at # "open" => persist[c].name \in DOMAIN files
        /\ persist[c].read \subseteq DOMAIN files

\* As long as no two calls overlap: only a call that is about to update the manifest has
\* emptied it, with all that was listed at hand, and before the first one nothing was.
ManifestInv ==
    ~overlapped =>
        /\ \A c, d \in Conversations : persist[c] # Idle /\ persist[d] # Idle => c = d
        /\ manifest.state = "absent" => persisted = {}
        /\ manifest.state = "torn" => \E c \in Conversations : persist[c].at = "update"
        /\ \A c \in Conversations :
               /\ persist[c].at = "create" => manifest.state = "absent"
               /\ persist[c].at = "update" => manifest = Emptied
               /\ persist[c].at \in {"read", "empty"} => manifest.state = "whole"
               /\ persist[c].at \in {"empty", "update"} =>
                      \A n \in persisted : Mentioned(n, persist[c].read)
DesignInv == TypeOK /\ FilesSound /\ PersistInv /\ ManifestInv /\ PersistedListed
=============================================================================
