------------------------------ MODULE UserSettings ------------------------------
(***************************************************************************)
(* The settings of a user: API keys (store_key and delete_key in main.py,   *)
(* key_validator.py, api_key_repo.py) and preferences (preference_repo.py). *)
(* A key is shown to its provider before it is stored, for as long as ten   *)
(* seconds; requests overtake each other meanwhile.  A statement holds its  *)
(* row until the request's transaction ends.  A preference is abstracted to *)
(* whether it was ever set, encryption to whether it fails.                 *)
(***************************************************************************)
EXTENDS Naturals, FiniteSets

CONSTANTS Requests,          \* requests of the user that are under way at once
          Providers, Lenient,  \* Lenient: "anthropic", whose overload passes for a yes
          Keys, GoodKeys,    \* what users enter, and what their providers accept
          Fields,            \* preferred_provider, preferred_model, settings
          NoKey,
          MaxSubmitted       \* bound: requests that touch keys

VARIABLES keys,         \* per provider: the stored key
          preferences,  \* fields that are set
          request,      \* per request: the statement it has come for and where it is
          submitted,    \* requests that touch keys, so far
          latest,       \* history: per provider, the last submitted of those that succeeded
          named,        \* history: fields that a successful update named
          overlapped    \* history: providers for which two requests were under way at once

settingsVars == <<keys, preferences, request, submitted, latest, named, overlapped>>

Idle == [at |-> "idle", does |-> "none", row |-> "none", value |-> {}, nr |-> 0]

\* A statement of another request that has not been committed.
Locked(row) == \E r \in Requests : request[r].at = "commit" /\ request[r].row = row
Goto(r, at) == request' = [request EXCEPT ![r].at = at]
Ends(r)     == request' = [request EXCEPT ![r] = Idle]

Init == /\ keys = [p \in Providers |-> NoKey] /\ preferences = {}
        /\ request = [r \in Requests |-> Idle] /\ submitted = 0
        /\ latest = [p \in Providers |-> [nr |-> 0, value |-> {NoKey}]]
        /\ named = {} /\ overlapped = {}

Submit(r, at, does, p, key) ==
    /\ request[r] = Idle /\ submitted < MaxSubmitted
    /\ submitted' = submitted + 1
    /\ request' = [request EXCEPT ![r] = [at |-> at, does |-> does, row |-> p, value |-> {key},
                                          nr |-> submitted + 1]]
    /\ overlapped' = overlapped \cup {request[q].row : q \in {q \in Requests : request[q].row = p}}
    /\ UNCHANGED <<keys, preferences, latest, named>>

StoreKey(r, p, key) == Submit(r, "validate", "store", p, key)
DeleteKey(r, p)     == Submit(r, "write", "delete", p, NoKey)

\* validate_key says yes: status 200, for Anthropic also the 529 of an overload.
Accept(r) ==
    /\ request[r].at = "validate"
    /\ request[r].value \subseteq GoodKeys \/ request[r].row = Lenient
    /\ Goto(r, "write")
    /\ UNCHANGED <<keys, preferences, submitted, latest, named, overlapped>>

\* Any other status, a timeout or a network error: 422, nothing is stored.
Reject(r) ==
    /\ request[r].at = "validate"
    /\ Ends(r)
    /\ UNCHANGED <<keys, preferences, submitted, latest, named, overlapped>>

\* update_preferences; fields that the request leaves out are None.
Update(r) ==
    /\ request[r] = Idle
    /\ \E f \in SUBSET Fields :
           request' = [request EXCEPT ![r] = [at |-> "write", does |-> "update",
                                              row |-> "preferences", value |-> f, nr |-> 0]]
    /\ UNCHANGED <<keys, preferences, submitted, latest, named, overlapped>>

\* The upsert, or the deletion of a row that is there; both wait for the row.
Write(r) ==
    /\ request[r].at = "write" /\ ~Locked(request[r].row)
    /\ request[r].does = "delete" => keys[request[r].row] # NoKey
    /\ Goto(r, "commit")
    /\ UNCHANGED <<keys, preferences, submitted, latest, named, overlapped>>

\* 404: a row that is not committed yet is not seen, nor waited for.
DeletesNothing(r) ==
    /\ request[r].at = "write" /\ request[r].does = "delete" /\ keys[request[r].row] = NoKey
    /\ Ends(r)
    /\ UNCHANGED <<keys, preferences, submitted, latest, named, overlapped>>

\* Mutant of Stored: the insertion does nothing if the row exists.
StoredOnce(p, key) == IF keys[p] = NoKey \/ key = NoKey THEN key ELSE keys[p]

\* store replaces the key of the provider.
Stored(p, key) == key

Commit(r) ==
    /\ request[r].at = "commit"
    /\ LET q == request[r] IN
       IF q.does = "update"
         THEN /\ preferences' = preferences \cup q.value
              /\ named' = named \cup q.value
              /\ UNCHANGED <<keys, latest>>
         ELSE /\ keys' = [keys EXCEPT ![q.row] = Stored(q.row, CHOOSE k \in q.value : TRUE)]
              /\ latest' = IF q.nr > latest[q.row].nr
                             THEN [latest EXCEPT ![q.row] = [nr |-> q.nr, value |-> q.value]]
                             ELSE latest
              /\ UNCHANGED <<preferences, named>>
    /\ Ends(r)
    /\ UNCHANGED <<submitted, overlapped>>

\* No FERNET_KEY to encrypt with, a user without a row of its own, or a lost
\* connection: the transaction is rolled back.
Fails(r) ==
    /\ request[r].at \in {"write", "commit"}
    /\ Ends(r)
    /\ UNCHANGED <<keys, preferences, submitted, latest, named, overlapped>>

Next == \E r \in Requests :
    \/ \E p \in Providers : DeleteKey(r, p) \/ \E key \in Keys : StoreKey(r, p, key)
    \/ Accept(r) \/ Reject(r) \/ Update(r)
    \/ Write(r) \/ DeletesNothing(r) \/ Commit(r) \/ Fails(r)

Spec == Init /\ [][Next]_settingsVars

-----------------------------------------------------------------------------
\* Types; a row is written by one transaction at a time.
TypeOK ==
    /\ keys \in [Providers -> Keys \cup {NoKey}] /\ preferences \subseteq Fields
    /\ \A r \in Requests : /\ request[r].at \in {"idle", "validate", "write", "commit"}
                           /\ request[r].row \in Providers \cup {"preferences", "none"}
    /\ \A q, r \in Requests : request[q].at = "commit" /\ request[r].at = "commit" /\ q # r =>
                                  request[q].row # request[r].row
    /\ submitted \in 0..MaxSubmitted /\ named \subseteq Fields /\ overlapped \subseteq Providers

\* A stored key is one that its provider accepts, unless the provider's overload was
\* taken for a yes; it is the last one the user asked for, unless two requests for the
\* provider were under way at once; and no update takes back a preference that
\* another one set.
SettingsKept ==
    /\ \A p \in Providers \ {Lenient} : keys[p] \in GoodKeys \cup {NoKey}
    /\ \A p \in Providers \ overlapped : {keys[p]} = latest[p].value
    /\ named \subseteq preferences

-----------------------------------------------------------------------------
\* The inductive invariant behind it.  A request is for a key that its provider has
\* accepted once it writes it; two of them for a provider have overlapped there; and a
\* request is younger than what is stored, unless it has overlapped another.
Request == [at : {"idle", "validate", "write", "commit"},
            does : {"none", "store", "delete", "update"}, row : Providers \cup {"preferences", "none"},
            value : SUBSET (Keys \cup {NoKey} \cup Fields), nr : Nat]
Sound(q) ==
    /\ q.at = "idle" <=> q = Idle
    /\ q.does = "none" => q = Idle
    /\ q.row \in Providers <=> q.does \in {"store", "delete"}
    /\ q.does = "update" => q.value \subseteq Fields
    /\ q.does = "store"  => \E k \in Keys : q.value = {k}
    /\ q.does = "delete" => q.value = {NoKey}
    /\ q.does = "store" /\ q.at # "validate" /\ q.row # Lenient => q.value \subseteq GoodKeys
RequestsInv ==
    /\ request \in [Requests -> Request]
    /\ \A r \in Requests : Sound(request[r]) /\ request[r].nr <= submitted
OverlapInv ==
    /\ latest \in [Providers -> [nr : 0 .. submitted, value : SUBSET (Keys \cup {NoKey})]]
    /\ \A q, r \in Requests : q # r /\ request[q].row = request[r].row
                                   /\ request[q].row \in Providers => request[q].row \in overlapped
    /\ \A r \in Requests : request[r].row \in Providers \ overlapped
                               => latest[request[r].row].nr < request[r].nr
SettingsInv == TypeOK /\ RequestsInv /\ OverlapInv /\ SettingsKept
=============================================================================
