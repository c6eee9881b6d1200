---------------------------- MODULE BackendProofs ----------------------------
(***************************************************************************)
(* Proofs about the backend's small components in Periphery, for any        *)
(* verifications, requests, posts, networks, events, rows and bounds: the   *)
(* cache of signing keys, the settings of a user, the reports of the users, *)
(* the relationship tuples, the analytics pages, the history drawer, and    *)
(* the reader of responses.                                                 *)
(***************************************************************************)
EXTENDS Periphery, Lists, FiniteSetTheorems, SequenceTheorems, TLAPS

-----------------------------------------------------------------------------
(* JwksCache                                                               *)

LEMMA JwksTypes ==
  ASSUME Jwks!JwksInv
  PROVE  /\ Jwks!TypeOK /\ Jwks!AnswerInv /\ Jwks!AgeInv /\ Jwks!PublishedKeyFound
         /\ MaxKey \in Nat /\ TTL \in Nat /\ Jwks!KeyIds = 0 .. MaxKey /\ Jwks!Late = TTL + 2
         /\ issued \in Int /\ oldest \in Int /\ age \in Int
         /\ \A k \in Jwks!KeyIds : k \in Int /\ gone[k] \in Int
         /\ \A v \in Verifications : kid[v] \in Jwks!KeyIds /\ kid[v] \in Int /\ waited[v] \in {0, 1}
         /\ jwks \subseteq Jwks!KeyIds
         /\ \A v \in Verifications : got[v] \subseteq Jwks!KeyIds
  <1>1. MaxKey \in Nat /\ TTL \in Nat
    BY BoundsAssumption
  <1>2. Jwks!TypeOK /\ Jwks!AnswerInv /\ Jwks!AgeInv /\ Jwks!PublishedKeyFound
    BY DEF Jwks!JwksInv
  <1>3. Jwks!KeyIds = 0 .. MaxKey /\ Jwks!Late = TTL + 2
    BY DEF Jwks!KeyIds, Jwks!Late
  <1>4. /\ issued \in Int /\ oldest \in Int /\ age \in Int /\ jwks \subseteq Jwks!KeyIds
        /\ \A k \in Jwks!KeyIds : k \in Int /\ gone[k] \in Int
    BY <1>1, <1>2, <1>3 DEF Jwks!TypeOK
  <1>5. \A v \in Verifications : /\ kid[v] \in Jwks!KeyIds /\ kid[v] \in Int /\ waited[v] \in {0, 1}
                                 /\ got[v] \subseteq Jwks!KeyIds
    BY <1>1, <1>2, <1>3 DEF Jwks!TypeOK
  <1> QED
    BY <1>1, <1>2, <1>3, <1>4, <1>5

LEMMA JwksCall ==
  ASSUME Jwks!JwksInv, NEW v \in Verifications, NEW k \in Jwks!KeyIds, Jwks!Call(v, k)
  PROVE  Jwks!JwksInv'
  <1> USE JwksTypes DEF Jwks!Call, Jwks!goto, Jwks!issuerVars
  <1>1. Jwks!TypeOK'
    BY DEF Jwks!TypeOK
  <1>2. Jwks!AnswerInv'
    BY DEF Jwks!TypeOK, Jwks!AnswerInv
  <1>3. Jwks!AgeInv'
    BY DEF Jwks!TypeOK, Jwks!AgeInv
  <1>4. Jwks!PublishedKeyFound'
    BY DEF Jwks!TypeOK, Jwks!PublishedKeyFound, Jwks!Published
  <1> QED
    BY <1>1, <1>2, <1>3, <1>4 DEF Jwks!JwksInv

LEMMA JwksEnsure ==
  ASSUME Jwks!JwksInv, NEW v \in Verifications, Jwks!Ensure(v)
  PROVE  Jwks!JwksInv'
  <1> USE JwksTypes DEF Jwks!Ensure, Jwks!goto, Jwks!issuerVars
  <1>1. Jwks!TypeOK'
    BY DEF Jwks!TypeOK, Jwks!Fetching
  <1>2. Jwks!AnswerInv'
    BY DEF Jwks!TypeOK, Jwks!AnswerInv
  <1>3. Jwks!AgeInv'
    BY DEF Jwks!TypeOK, Jwks!AgeInv
  <1>4. Jwks!PublishedKeyFound'
    BY DEF Jwks!TypeOK, Jwks!PublishedKeyFound, Jwks!Published
  <1> QED
    BY <1>1, <1>2, <1>3, <1>4 DEF Jwks!JwksInv

LEMMA JwksAnswer ==
  ASSUME Jwks!JwksInv, NEW v \in Verifications, Jwks!Answer(v)
  PROVE  Jwks!JwksInv'
  <1> USE JwksTypes DEF Jwks!Answer, Jwks!goto, Jwks!issuerVars, Jwks!Published
  <1>1. Jwks!Published \in SUBSET Jwks!KeyIds
    BY DEF Jwks!TypeOK, Jwks!KeyIds
  <1>2. Jwks!TypeOK'
    BY <1>1 DEF Jwks!TypeOK, Jwks!Fetching
  <1>3. Jwks!AnswerInv'
    BY DEF Jwks!TypeOK, Jwks!AnswerInv
  <1>4. Jwks!AgeInv'
    BY <1>1 DEF Jwks!TypeOK, Jwks!AgeInv
  <1>5. Jwks!PublishedKeyFound'
    BY DEF Jwks!TypeOK, Jwks!PublishedKeyFound
  <1> QED
    BY <1>2, <1>3, <1>4, <1>5 DEF Jwks!JwksInv

LEMMA JwksStore ==
  ASSUME Jwks!JwksInv, NEW v \in Verifications, Jwks!Store(v)
  PROVE  Jwks!JwksInv'
  <1> USE JwksTypes DEF Jwks!Store, Jwks!goto, Jwks!issuerVars
  <1>1. Jwks!TypeOK'
    <2>1. /\ jwks' \subseteq Jwks!KeyIds /\ age' \in 0..Jwks!Late
          /\ UNCHANGED <<issued, oldest, gone, kid, refetched, got>>
      BY DEF Jwks!TypeOK, Jwks!Late
    <2>2. pc' \in [Verifications -> {"idle", "ensure", "stored", "lookup", "unknown", "found"}
                                        \cup Jwks!Fetching]
      BY DEF Jwks!TypeOK
    <2>3. /\ waited' \in [Verifications -> 0..1] /\ failed' \in [Verifications -> BOOLEAN]
          /\ overtaken' \in [Verifications -> BOOLEAN]
      BY DEF Jwks!TypeOK
    <2> QED
      BY <2>1, <2>2, <2>3 DEF Jwks!TypeOK
  <1>2. Jwks!AnswerInv'
    BY DEF Jwks!TypeOK, Jwks!AnswerInv
  <1>3. Jwks!AgeInv'
    <2>1. /\ jwks' = got[v] /\ age' = 0 /\ gone' = gone /\ got' = got /\ oldest' = oldest
          /\ pc' = [pc EXCEPT ![v] = "stored"] /\ waited' = [waited EXCEPT ![v] = 0]
          /\ pc[v] = "answer"
      OBVIOUS
    <2>2. \A k \in jwks' : gone'[k] <= age' + 1
      BY <2>1 DEF Jwks!AgeInv
    <2>3. \A w \in Verifications : w # v => pc'[w] = pc[w] /\ waited'[w] = waited[w]
      BY <2>1 DEF Jwks!TypeOK
    <2>4. pc'[v] = "stored"
      BY <2>1 DEF Jwks!TypeOK
    <2>5. \A w \in Verifications : pc'[w] = "answer" => \A k \in got'[w] : gone'[k] <= waited'[w]
      BY <2>1, <2>3, <2>4 DEF Jwks!AgeInv
    <2> QED
      BY <2>1, <2>2, <2>3, <2>4, <2>5 DEF Jwks!AgeInv
  <1>4. Jwks!PublishedKeyFound'
    BY DEF Jwks!TypeOK, Jwks!PublishedKeyFound, Jwks!Published
  <1> QED
    BY <1>1, <1>2, <1>3, <1>4 DEF Jwks!JwksInv

LEMMA JwksFetchFails ==
  ASSUME Jwks!JwksInv, NEW v \in Verifications, Jwks!FetchFails(v)
  PROVE  Jwks!JwksInv'
  <1> USE JwksTypes DEF Jwks!FetchFails, Jwks!goto, Jwks!issuerVars, Jwks!Fetching
  <1>1. Jwks!TypeOK'
    BY DEF Jwks!TypeOK
  <1>2. Jwks!AnswerInv'
    BY DEF Jwks!TypeOK, Jwks!AnswerInv
  <1>3. Jwks!AgeInv'
    BY DEF Jwks!TypeOK, Jwks!AgeInv
  <1>4. Jwks!PublishedKeyFound'
    BY DEF Jwks!TypeOK, Jwks!PublishedKeyFound, Jwks!Published
  <1> QED
    BY <1>1, <1>2, <1>3, <1>4 DEF Jwks!JwksInv

LEMMA JwksLookup ==
  ASSUME Jwks!JwksInv, NEW v \in Verifications, Jwks!Lookup(v)
  PROVE  Jwks!JwksInv'
  <1> USE JwksTypes DEF Jwks!Lookup, Jwks!goto, Jwks!issuerVars
  <1>1. Jwks!TypeOK'
    BY DEF Jwks!TypeOK, Jwks!Fetching
  <1>2. Jwks!AnswerInv'
    <2>1. \A w \in Verifications : \/ pc'[w] = pc[w] /\ refetched'[w] = refetched[w]
                                   \/ pc'[w] \in {"found", "unknown", "fetch"}
      BY DEF Jwks!TypeOK
    <2> QED
      BY <2>1 DEF Jwks!AnswerInv
  <1>3. Jwks!AgeInv'
    <2>1. \A w \in Verifications : \/ pc'[w] = pc[w]
                                   \/ pc'[w] \in {"found", "unknown", "fetch"}
      BY DEF Jwks!TypeOK
    <2>2. UNCHANGED <<oldest, gone, jwks, age, got, waited, failed>>
      OBVIOUS
    <2> QED
      BY ONLY Jwks!AgeInv, <2>1, <2>2 DEF Jwks!AgeInv, Jwks!KeyIds
  <1>4. Jwks!PublishedKeyFound'
    BY DEF Jwks!TypeOK, Jwks!PublishedKeyFound, Jwks!Published, Jwks!AnswerInv
  <1> QED
    BY <1>1, <1>2, <1>3, <1>4 DEF Jwks!JwksInv

LEMMA JwksReturn ==
  ASSUME Jwks!JwksInv, NEW v \in Verifications, Jwks!Return(v)
  PROVE  Jwks!JwksInv'
  <1> USE JwksTypes DEF Jwks!Return, Jwks!goto, Jwks!issuerVars
  <1>1. Jwks!TypeOK'
    BY DEF Jwks!TypeOK
  <1>2. Jwks!AnswerInv'
    BY DEF Jwks!TypeOK, Jwks!AnswerInv
  <1>3. Jwks!AgeInv'
    BY DEF Jwks!TypeOK, Jwks!AgeInv
  <1>4. Jwks!PublishedKeyFound'
    BY DEF Jwks!TypeOK, Jwks!PublishedKeyFound, Jwks!Published
  <1> QED
    BY <1>1, <1>2, <1>3, <1>4 DEF Jwks!JwksInv

\* The issuer publishes a key, which no token names yet, or withdraws its oldest.
LEMMA JwksRotates ==
  ASSUME Jwks!JwksInv, Jwks!Rotate \/ Jwks!Withdraw
  PROVE  Jwks!JwksInv'
  <1> USE JwksTypes DEF Jwks!Rotate, Jwks!Withdraw, Jwks!callVars
  <1>1. Jwks!TypeOK'
    <2>1. issued' \in Jwks!KeyIds /\ oldest' \in 0 .. issued'
      BY DEF Jwks!TypeOK
    <2> QED
      BY <2>1 DEF Jwks!TypeOK
  <1>2. Jwks!AnswerInv'
    BY DEF Jwks!TypeOK, Jwks!AnswerInv
  <1>3. Jwks!AgeInv'
    <2>1. UNCHANGED <<gone, jwks, age, pc, got, waited, failed>>
      OBVIOUS
    <2>2. \A k \in Jwks!KeyIds : k >= oldest' => k >= oldest
      BY DEF Jwks!TypeOK, Jwks!KeyIds
    <2> QED
      BY ONLY Jwks!AgeInv, <2>1, <2>2 DEF Jwks!AgeInv, Jwks!KeyIds
  <1>4. Jwks!PublishedKeyFound'
    BY DEF Jwks!TypeOK, Jwks!PublishedKeyFound, Jwks!Published, Jwks!AnswerInv
  <1> QED
    BY <1>1, <1>2, <1>3, <1>4 DEF Jwks!JwksInv

\* Time passes only while everyone waits: the cache and what is gone age together.
LEMMA JwksTick ==
  ASSUME Jwks!JwksInv, Jwks!Tick
  PROVE  Jwks!JwksInv'
  <1> USE JwksTypes DEF Jwks!Tick, Jwks!Fetching
  <1>1. \A k \in Jwks!KeyIds : gone'[k] = IF k < oldest THEN Jwks!Capped(gone[k]) ELSE 0
    OBVIOUS
  <1>2. \A v \in Verifications : waited'[v] = IF pc[v] \in Jwks!Fetching THEN 1 ELSE waited[v]
    OBVIOUS
  <1>3. Jwks!TypeOK'
    <2>1. \A n \in 0 .. Jwks!Late : Jwks!Capped(n) \in 0 .. Jwks!Late
      BY DEF Jwks!Capped
    <2>2. gone' \in [Jwks!KeyIds -> 0 .. Jwks!Late]
      BY <1>1, <2>1 DEF Jwks!TypeOK
    <2>3. waited' \in [Verifications -> 0 .. 1]
      BY <1>2 DEF Jwks!TypeOK
    <2>4. age' \in 0 .. Jwks!Late
      BY <2>1 DEF Jwks!TypeOK
    <2> QED
      BY <2>2, <2>3, <2>4 DEF Jwks!TypeOK
  <1>4. Jwks!AnswerInv'
    BY DEF Jwks!AnswerInv
  <1>5. Jwks!AgeInv'
    <2>1. age' = Jwks!Capped(age) /\ jwks' = jwks /\ got' = got /\ pc' = pc /\ oldest' = oldest
      OBVIOUS
    <2>2. /\ \A k \in Jwks!KeyIds : gone[k] <= TTL + 2 /\ gone[k] >= 0
          /\ age <= TTL + 2 /\ age >= 0
      BY DEF Jwks!TypeOK
    <2>3. \A k \in jwks : gone'[k] <= age' + 1
      BY <1>1, <2>1, <2>2 DEF Jwks!AgeInv, Jwks!Capped
    <2>4. ASSUME NEW v \in Verifications, pc[v] = "answer", NEW k \in got[v]
          PROVE  gone'[k] <= waited'[v]
      <3>1. waited[v] = 0 /\ waited'[v] = 1 /\ gone[k] <= 0 /\ k \in Jwks!KeyIds
        BY <1>2, <2>4 DEF Jwks!AgeInv
      <3> QED
        BY <1>1, <2>2, <3>1 DEF Jwks!Capped
    <2>5. \A v \in Verifications : pc[v] \notin {"stored", "lookup"}
      OBVIOUS
    <2>6. \A k \in Jwks!KeyIds : k >= oldest' => gone'[k] = 0
      BY <1>1, <2>1
    <2> QED
      BY <2>1, <2>3, <2>4, <2>5, <2>6 DEF Jwks!AgeInv
  <1>6. Jwks!PublishedKeyFound'
    BY DEF Jwks!PublishedKeyFound, Jwks!Published
  <1> QED
    BY <1>3, <1>4, <1>5, <1>6 DEF Jwks!JwksInv

LEMMA JwksBegins == Jwks!Init => Jwks!JwksInv
  <1> SUFFICES ASSUME Jwks!Init PROVE Jwks!JwksInv
    OBVIOUS
  <1>0. MaxKey \in Nat /\ TTL \in Nat
    BY BoundsAssumption
  <1>1. Jwks!TypeOK
    BY <1>0 DEF Jwks!Init, Jwks!TypeOK, Jwks!KeyIds, Jwks!Late
  <1>2. Jwks!AnswerInv /\ Jwks!PublishedKeyFound
    BY DEF Jwks!Init, Jwks!AnswerInv, Jwks!PublishedKeyFound
  <1>3. Jwks!AgeInv
    BY DEF Jwks!Init, Jwks!AgeInv
  <1> QED
    BY <1>1, <1>2, <1>3 DEF Jwks!JwksInv

\* A step of Periphery is one of the cache, or leaves it alone.
LEMMA JwksOrStill == [Next]_vars => [Jwks!Next]_jwksVars
  BY DEF Next, JwksStep, BoardStep, AuthStep, DrawerStep, BridgeStep, DesignStep, SlackStep,
         MemoryStep, VectorsStep, NewsStep, SettingsStep, FeedbackStep, BlocksStep, Still, vars

LEMMA JwksNext == Jwks!JwksInv /\ [Next]_vars => Jwks!JwksInv'
  <1> SUFFICES ASSUME Jwks!JwksInv, [Next]_vars PROVE Jwks!JwksInv'
    OBVIOUS
  <1>1. CASE Jwks!Next
    BY <1>1, JwksCall, JwksEnsure, JwksAnswer, JwksStore, JwksFetchFails, JwksLookup, JwksReturn,
       JwksRotates, JwksTick DEF Jwks!Next, Jwks!Verify
  <1>2. CASE UNCHANGED jwksVars
    BY <1>2 DEF jwksVars, Jwks!JwksInv, Jwks!TypeOK, Jwks!AnswerInv, Jwks!AgeInv,
                Jwks!PublishedKeyFound, Jwks!Published
  <1> QED
    BY <1>1, <1>2, JwksOrStill

\* Only a lookup finds a key: in a cache that was just filled, that is young, or that could
\* not be refreshed.
LEMMA FoundIsFresh ==
  ASSUME Jwks!JwksInv, [Next]_vars, NEW v \in Verifications,
         pc[v] \in {"stored", "lookup"}, pc'[v] = "found", gone[kid[v]] > TTL + 1
  PROVE  failed[v]
  <1>1. Jwks!Lookup(v)
    <2>1. Jwks!Next
      BY JwksOrStill DEF jwksVars
    <2>2. PICK w \in Verifications : (\E k \in Jwks!KeyIds : Jwks!Call(w, k)) \/ Jwks!Verify(w)
      BY <2>1 DEF Jwks!Next, Jwks!Rotate, Jwks!Withdraw, Jwks!Tick, Jwks!callVars
    <2>3. pc' = [pc EXCEPT ![w] = pc'[w]] /\ pc \in [Verifications -> {pc[u] : u \in Verifications}]
      BY <2>2, JwksTypes DEF Jwks!Verify, Jwks!Call, Jwks!Ensure, Jwks!Answer, Jwks!Store,
                  Jwks!FetchFails, Jwks!Lookup, Jwks!Return, Jwks!goto, Jwks!TypeOK
    <2>4. w = v
      BY <2>3
    <2> QED
      BY <2>2, <2>4, JwksTypes DEF Jwks!Verify, Jwks!Call, Jwks!Ensure, Jwks!Answer, Jwks!Store,
         Jwks!FetchFails, Jwks!Return, Jwks!goto, Jwks!TypeOK, Jwks!Fetching
  <1>2. kid[v] \in jwks
    BY <1>1, JwksTypes DEF Jwks!Lookup, Jwks!goto, Jwks!TypeOK
  <1> QED
    BY <1>1, <1>2, JwksTypes DEF Jwks!AgeInv

\* A request's token is judged by keys as fresh as its own refresh: a published key is
\* rejected only if the refresh failed or was overtaken, and a withdrawn one accepted no
\* longer than the cache lives and a fetch takes (_get_signing_key and _ensure_jwks).
THEOREM KeysAreFresh == Spec => KeysFresh
  <1>1. Init => Jwks!JwksInv
    BY JwksBegins DEF Init
  <1>2. Jwks!JwksInv => Jwks!PublishedKeyFound
    BY DEF Jwks!JwksInv
  <1>3. Jwks!JwksInv /\ [Next]_vars
        => [\A v \in Verifications :
              pc[v] \in {"stored", "lookup"} /\ pc'[v] = "found" /\ gone[kid[v]] > TTL + 1
                  => failed[v]]_(Jwks!jwksVars)
    BY FoundIsFresh
  <1> QED
    BY <1>1, <1>2, <1>3, JwksNext, PTL DEF Spec, KeysFresh, Jwks!KeysFresh, Jwks!WithdrawnKeyExpires

-----------------------------------------------------------------------------
(* UserSettings                                                            *)

LEMMA SettingsParts ==
  ASSUME Settings!SettingsInv
  PROVE  /\ Settings!TypeOK /\ Settings!RequestsInv /\ Settings!OverlapInv /\ Settings!SettingsKept
         /\ MaxSubmitted \in Nat /\ submitted \in 0 .. MaxSubmitted
         /\ "preferences" \notin Providers /\ "none" \notin Providers
         /\ request \in [Requests -> Settings!Request]
         /\ latest \in [Providers -> [nr : 0 .. submitted, value : SUBSET (Keys \cup {NoKey})]]
         /\ keys \in [Providers -> Keys \cup {NoKey}]
         /\ Settings!Idle \in Settings!Request
  BY BoundsAssumption, ProvidersAssumption
     DEF Settings!SettingsInv, Settings!TypeOK, Settings!RequestsInv, Settings!OverlapInv,
         Settings!Idle, Settings!Request

LEMMA RequestGoes ==
  ASSUME NEW q \in Settings!Request, NEW at
  PROVE  [q EXCEPT !.at = at] = [at |-> at, does |-> q.does, row |-> q.row, value |-> q.value,
                                 nr |-> q.nr]
  <1> DEFINE k == [at |-> q.at, does |-> q.does, row |-> q.row, value |-> q.value, nr |-> q.nr]
  <1>1. q = k
    BY DEF Settings!Request
  <1>2. [k EXCEPT !.at = at] = [at |-> at, does |-> q.does, row |-> q.row, value |-> q.value,
                                nr |-> q.nr]
    OBVIOUS
  <1> HIDE DEF k
  <1>3. [q EXCEPT !.at = at] = [k EXCEPT !.at = at]
    BY <1>1, Zenon
  <1> QED
    BY <1>2, <1>3, Zenon

\* One request is at another place, and what is said of a request holds of it.
LEMMA RequestKept ==
  ASSUME Settings!SettingsInv, NEW r \in Requests, NEW k \in Settings!Request,
         request' = [request EXCEPT ![r] = k], Settings!Sound(k), k.nr <= submitted',
         submitted' \in 0 .. MaxSubmitted, submitted <= submitted',
         k.at = "commit" => \A q \in Requests \ {r} :
                                ~(request[q].at = "commit" /\ request[q].row = k.row),
         keys' \in [Providers -> Keys \cup {NoKey}], preferences' \subseteq Fields,
         named' \subseteq Fields, crossing' \subseteq Providers
  PROVE  /\ Settings!TypeOK' /\ Settings!RequestsInv'
         /\ request'[r] = k /\ \A q \in Requests \ {r} : request'[q] = request[q]
  <1>1. /\ request' \in [Requests -> Settings!Request] /\ request'[r] = k
        /\ \A q \in Requests \ {r} : request'[q] = request[q]
    BY SettingsParts
  <1>2. \A q \in Requests : Settings!Sound(request'[q]) /\ request'[q].nr <= submitted'
    <2>1. \A q \in Requests : request[q].nr <= submitted /\ request[q].nr \in Nat
                              /\ Settings!Sound(request[q])
      BY SettingsParts DEF Settings!RequestsInv, Settings!Request
    <2> QED
      BY <1>1, <2>1, SettingsParts
  <1>3. Settings!RequestsInv'
    BY <1>1, <1>2 DEF Settings!RequestsInv, Settings!Sound, Settings!Idle, Settings!Request
  <1>4. \A q \in Requests : /\ request'[q].at \in {"idle", "validate", "write", "commit"}
                            /\ request'[q].row \in Providers \cup {"preferences", "none"}
    BY <1>1 DEF Settings!Request
  <1>5. \A q, u \in Requests : request'[q].at = "commit" /\ request'[u].at = "commit" /\ q # u =>
                                   request'[q].row # request'[u].row
    BY <1>1, SettingsParts DEF Settings!TypeOK
  <1>6. Settings!TypeOK'
    BY <1>4, <1>5 DEF Settings!TypeOK
  <1> QED
    BY <1>1, <1>3, <1>6

\* A request goes on or ends, and nothing else changes.
LEMMA OnlyRequest ==
  ASSUME Settings!SettingsInv, NEW r \in Requests, NEW k \in Settings!Request,
         request' = [request EXCEPT ![r] = k], Settings!Sound(k),
         (k.row = request[r].row /\ k.nr = request[r].nr) \/ (k.row \notin Providers /\ k.nr = 0),
         k.at = "commit" => \A q \in Requests \ {r} :
                                ~(request[q].at = "commit" /\ request[q].row = k.row),
         keys' = keys, preferences' = preferences, submitted' = submitted, latest' = latest,
         named' = named, crossing' = crossing
  PROVE  Settings!SettingsInv'
  <1>1. k.nr <= submitted' /\ submitted <= submitted'
    BY SettingsParts DEF Settings!RequestsInv
  <1>2. /\ Settings!TypeOK' /\ Settings!RequestsInv'
        /\ request'[r] = k /\ \A q \in Requests \ {r} : request'[q] = request[q]
    BY <1>1, SettingsParts, RequestKept DEF Settings!TypeOK
  <1>3. Settings!OverlapInv'
    <2>1. \A q, u \in Requests : q # u /\ request'[q].row = request'[u].row
                                   /\ request'[q].row \in Providers => request'[q].row \in crossing
      BY <1>2, SettingsParts DEF Settings!OverlapInv
    <2>2. \A q \in Requests : request'[q].row \in Providers \ crossing
                               => latest[request'[q].row].nr < request'[q].nr
      BY <1>2, SettingsParts DEF Settings!OverlapInv
    <2> QED
      BY <2>1, <2>2, SettingsParts DEF Settings!OverlapInv
  <1>4. Settings!SettingsKept'
    BY SettingsParts DEF Settings!SettingsKept
  <1> QED
    BY <1>2, <1>3, <1>4 DEF Settings!SettingsInv

LEMMA RequestEnds ==
  ASSUME Settings!SettingsInv, NEW r \in Requests, Settings!Ends(r),
         keys' = keys, preferences' = preferences, submitted' = submitted, latest' = latest,
         named' = named, crossing' = crossing
  PROVE  Settings!SettingsInv'
  <1>1. /\ Settings!Sound(Settings!Idle) /\ Settings!Idle.row \notin Providers
        /\ Settings!Idle.nr = 0 /\ Settings!Idle.at # "commit"
    BY SettingsParts DEF Settings!Sound, Settings!Idle
  <1> QED
    BY <1>1, SettingsParts, OnlyRequest DEF Settings!Ends

LEMMA RequestMoves ==
  ASSUME Settings!SettingsInv, NEW r \in Requests, NEW at \in {"write", "commit"},
         request[r].at # "idle", Settings!Goto(r, at),
         request[r].at = "validate" => request[r].value \subseteq GoodKeys \/ request[r].row = Lenient,
         at = "commit" => ~Settings!Locked(request[r].row),
         keys' = keys, preferences' = preferences, submitted' = submitted, latest' = latest,
         named' = named, crossing' = crossing
  PROVE  Settings!SettingsInv'
  <1> DEFINE q == request[r]
             k == [at |-> at, does |-> q.does, row |-> q.row, value |-> q.value, nr |-> q.nr]
  <1>1. q \in Settings!Request /\ Settings!Sound(q)
    BY SettingsParts DEF Settings!RequestsInv
  <1>2. request' = [request EXCEPT ![r] = k]
    BY <1>1, RequestGoes DEF Settings!Goto
  <1>3. /\ k \in Settings!Request
        /\ k.at = at /\ k.does = q.does /\ k.row = q.row /\ k.value = q.value /\ k.nr = q.nr
    BY <1>1 DEF Settings!Request
  <1>4. Settings!Sound(k)
    <2>1. k # Settings!Idle /\ k.at # "idle" /\ q # Settings!Idle
      BY <1>1, <1>3 DEF Settings!Idle, Settings!Sound
    <2> QED
      BY <1>1, <1>3, <2>1 DEF Settings!Sound
  <1> HIDE DEF k
  <1> QED
    BY <1>2, <1>3, <1>4, OnlyRequest DEF Settings!Locked

LEMMA SettingsSubmit ==
  ASSUME Settings!SettingsInv, NEW r \in Requests, NEW p \in Providers, NEW key, NEW at, NEW does,
         Settings!Submit(r, at, does, p, key),
         \/ at = "validate" /\ does = "store" /\ key \in Keys
         \/ at = "write" /\ does = "delete" /\ key = NoKey
  PROVE  Settings!SettingsInv'
  <1> DEFINE k == [at |-> at, does |-> does, row |-> p, value |-> {key}, nr |-> submitted + 1]
  <1>1. /\ request' = [request EXCEPT ![r] = k] /\ request[r] = Settings!Idle
        /\ submitted' = submitted + 1 /\ submitted' \in 0 .. MaxSubmitted
        /\ crossing' = crossing \cup {request[q].row : q \in {q \in Requests : request[q].row = p}}
        /\ keys' = keys /\ preferences' = preferences /\ latest' = latest /\ named' = named
    BY SettingsParts DEF Settings!Submit
  <1>2. crossing \subseteq crossing' /\ crossing' \subseteq crossing \cup {p}
        /\ \A q \in Requests : request[q].row = p => p \in crossing'
    BY <1>1
  <1>3. /\ k \in Settings!Request
        /\ k.at = at /\ k.does = does /\ k.row = p /\ k.value = {key} /\ k.nr = submitted + 1
    BY SettingsParts DEF Settings!Request
  <1>4. k # Settings!Idle
    BY <1>3, SettingsParts DEF Settings!Idle
  <1> HIDE DEF k
  <1>5. Settings!Sound(k) /\ k.at # "commit"
    BY <1>3, <1>4 DEF Settings!Sound
  <1>6. crossing' \subseteq Providers
    BY <1>2, SettingsParts DEF Settings!TypeOK
  <1>7. /\ Settings!TypeOK' /\ Settings!RequestsInv'
        /\ request'[r] = k /\ \A q \in Requests \ {r} : request'[q] = request[q]
    <2>1. /\ k.nr <= submitted' /\ submitted <= submitted' /\ preferences' \subseteq Fields
          /\ named' \subseteq Fields /\ keys' \in [Providers -> Keys \cup {NoKey}]
      BY <1>1, <1>3, SettingsParts DEF Settings!TypeOK
    <2> QED
      BY <1>1, <1>3, <1>5, <1>6, <2>1, RequestKept
  <1>8. Settings!OverlapInv'
    <2>1. \A q, u \in Requests : q # u /\ request'[q].row = request'[u].row
                                   /\ request'[q].row \in Providers => request'[q].row \in crossing'
      BY <1>2, <1>3, <1>7, SettingsParts DEF Settings!OverlapInv
    <2>2. \A q \in Providers : latest[q].nr \in 0 .. submitted
      BY SettingsParts
    <2>3. \A q \in Requests : request'[q].row \in Providers \ crossing'
                               => latest[request'[q].row].nr < request'[q].nr
      BY <1>2, <1>3, <1>7, <2>2, SettingsParts DEF Settings!OverlapInv
    <2>4. latest \in [Providers -> [nr : 0 .. submitted', value : SUBSET (Keys \cup {NoKey})]]
      BY <1>1, SettingsParts
    <2> QED
      BY <1>1, <2>1, <2>3, <2>4 DEF Settings!OverlapInv
  <1>9. Settings!SettingsKept'
    BY <1>1, <1>2, SettingsParts DEF Settings!SettingsKept
  <1> QED
    BY <1>7, <1>8, <1>9 DEF Settings!SettingsInv

LEMMA SettingsUpdate ==
  ASSUME Settings!SettingsInv, NEW r \in Requests, Settings!Update(r)
  PROVE  Settings!SettingsInv'
  <1>1. PICK f \in SUBSET Fields :
           request' = [request EXCEPT ![r] = [at |-> "write", does |-> "update",
                                              row |-> "preferences", value |-> f, nr |-> 0]]
    BY DEF Settings!Update
  <1> DEFINE k == [at |-> "write", does |-> "update", row |-> "preferences", value |-> f, nr |-> 0]
  <1>2. /\ k \in Settings!Request /\ k.at = "write" /\ k.does = "update"
        /\ k.row = "preferences" /\ k.value = f /\ k.nr = 0 /\ k # Settings!Idle
    BY DEF Settings!Request, Settings!Idle
  <1>3. request' = [request EXCEPT ![r] = k]
    BY <1>1
  <1> HIDE DEF k
  <1>4. Settings!Sound(k)
    BY <1>2, SettingsParts DEF Settings!Sound
  <1> QED
    BY <1>2, <1>3, <1>4, SettingsParts, OnlyRequest DEF Settings!Update

\* Fields are set; the request is gone.
LEMMA CommitUpdate ==
  ASSUME Settings!SettingsInv, NEW r \in Requests, Settings!Commit(r), request[r].does = "update"
  PROVE  Settings!SettingsInv'
  <1>1. /\ preferences' = preferences \cup request[r].value /\ named' = named \cup request[r].value
        /\ keys' = keys /\ latest' = latest /\ submitted' = submitted /\ crossing' = crossing
        /\ request' = [request EXCEPT ![r] = Settings!Idle]
    BY DEF Settings!Commit, Settings!Ends
  <1>2. /\ Settings!Sound(Settings!Idle) /\ Settings!Idle.row \notin Providers
        /\ Settings!Idle.nr = 0 /\ Settings!Idle.at # "commit"
    BY SettingsParts DEF Settings!Sound, Settings!Idle
  <1>3. request[r].value \subseteq Fields
    BY SettingsParts DEF Settings!RequestsInv, Settings!Sound
  <1>4. /\ Settings!TypeOK' /\ Settings!RequestsInv'
        /\ request'[r] = Settings!Idle /\ \A q \in Requests \ {r} : request'[q] = request[q]
    <2>1. /\ submitted' \in 0 .. MaxSubmitted /\ submitted <= submitted' /\ 0 <= submitted'
          /\ preferences' \subseteq Fields /\ named' \subseteq Fields /\ crossing' \subseteq Providers
          /\ keys' \in [Providers -> Keys \cup {NoKey}] /\ Settings!Idle \in Settings!Request
      BY <1>1, <1>3, SettingsParts DEF Settings!TypeOK
    <2> QED
      BY <1>1, <1>2, <2>1, RequestKept
  <1>5. Settings!OverlapInv'
    <2>1. \A q, u \in Requests : q # u /\ request'[q].row = request'[u].row
                                   /\ request'[q].row \in Providers => request'[q].row \in crossing
      BY <1>2, <1>4, SettingsParts DEF Settings!OverlapInv
    <2>2. \A q \in Requests : request'[q].row \in Providers \ crossing
                               => latest[request'[q].row].nr < request'[q].nr
      BY <1>2, <1>4, SettingsParts DEF Settings!OverlapInv
    <2> QED
      BY <1>1, <2>1, <2>2, SettingsParts DEF Settings!OverlapInv
  <1>6. Settings!SettingsKept'
    BY <1>1, SettingsParts DEF Settings!SettingsKept
  <1> QED
    BY <1>4, <1>5, <1>6 DEF Settings!SettingsInv

\* A key is replaced or deleted; whoever else is under way for its provider overlaps.
LEMMA CommitKey ==
  ASSUME Settings!SettingsInv, NEW r \in Requests, Settings!Commit(r), request[r].does # "update"
  PROVE  Settings!SettingsInv'
  <1> DEFINE q == request[r]
             p == q.row
  <1>1. q \in Settings!Request /\ Settings!Sound(q) /\ q.nr \in 0 .. submitted /\ q.at = "commit"
    BY SettingsParts DEF Settings!RequestsInv, Settings!Request, Settings!Commit
  <1>2. q # Settings!Idle /\ q.does \in {"store", "delete"} /\ p \in Providers
    BY <1>1 DEF Settings!Sound, Settings!Idle, Settings!Request
  <1>3. PICK key \in Keys \cup {NoKey} : /\ q.value = {key}
                                         /\ p # Lenient => key \in GoodKeys \cup {NoKey}
    BY <1>1, <1>2 DEF Settings!Sound
  <1>4. (CHOOSE k \in q.value : TRUE) = key
    BY <1>3
  <1>5. /\ keys' = [keys EXCEPT ![p] = key]
        /\ latest' = IF q.nr > latest[p].nr THEN [latest EXCEPT ![p] = [nr |-> q.nr, value |-> {key}]]
                                            ELSE latest
        /\ preferences' = preferences /\ named' = named /\ submitted' = submitted
        /\ crossing' = crossing /\ request' = [request EXCEPT ![r] = Settings!Idle]
    BY <1>3, <1>4 DEF Settings!Commit, Settings!Ends, Settings!Stored
  <1> HIDE DEF q, p
  <1>6. /\ Settings!Sound(Settings!Idle) /\ Settings!Idle.row \notin Providers
        /\ Settings!Idle.nr = 0 /\ Settings!Idle.at # "commit"
    BY SettingsParts DEF Settings!Sound, Settings!Idle
  <1>7. keys' \in [Providers -> Keys \cup {NoKey}] /\ keys'[p] = key
        /\ \A o \in Providers \ {p} : keys'[o] = keys[o]
    BY <1>2, <1>5, SettingsParts
  <1>8. /\ Settings!TypeOK' /\ Settings!RequestsInv'
        /\ request'[r] = Settings!Idle /\ \A u \in Requests \ {r} : request'[u] = request[u]
    <2>1. /\ submitted' \in 0 .. MaxSubmitted /\ submitted <= submitted' /\ 0 <= submitted'
          /\ preferences' \subseteq Fields /\ named' \subseteq Fields /\ crossing' \subseteq Providers
          /\ Settings!Idle \in Settings!Request
      BY <1>5, SettingsParts DEF Settings!TypeOK
    <2> QED
      BY <1>5, <1>6, <1>7, <2>1, RequestKept
  <1>9. /\ latest' \in [Providers -> [nr : 0 .. submitted, value : SUBSET (Keys \cup {NoKey})]]
        /\ \A o \in Providers \ {p} : latest'[o] = latest[o]
        /\ q.nr > latest[p].nr => latest'[p].value = {key}
    BY <1>1, <1>2, <1>5, SettingsParts
  <1>10. Settings!OverlapInv'
    <2>1. \A t, u \in Requests : t # u /\ request'[t].row = request'[u].row
                                   /\ request'[t].row \in Providers => request'[t].row \in crossing
      BY <1>6, <1>8, SettingsParts DEF Settings!OverlapInv
    <2>2. \A u \in Requests \ {r} : request[u].row = p => p \in crossing
      BY <1>2, SettingsParts DEF Settings!OverlapInv, q, p
    <2>3. \A u \in Requests : request'[u].row \in Providers \ crossing
                               => latest'[request'[u].row].nr < request'[u].nr
      BY <1>6, <1>8, <1>9, <2>2, SettingsParts DEF Settings!OverlapInv
    <2> QED
      BY <1>5, <1>9, <2>1, <2>3 DEF Settings!OverlapInv
  <1>11. Settings!SettingsKept'
    <2>1. p \notin crossing => latest[p].nr < q.nr
      BY <1>2, SettingsParts DEF Settings!OverlapInv, q, p
    <2>2. \A o \in Providers \ crossing : latest[o].nr \in Nat
      BY SettingsParts
    <2> QED
      BY <1>1, <1>2, <1>3, <1>5, <1>7, <1>9, <2>1, <2>2, SettingsParts DEF Settings!SettingsKept
  <1> QED
    BY <1>8, <1>10, <1>11 DEF Settings!SettingsInv

LEMMA SettingsBegins == Settings!Init => Settings!SettingsInv
  <1> SUFFICES ASSUME Settings!Init PROVE Settings!SettingsInv
    OBVIOUS
  <1>1. /\ keys = [p \in Providers |-> NoKey] /\ preferences = {} /\ submitted = 0
        /\ request = [r \in Requests |-> Settings!Idle] /\ named = {} /\ crossing = {}
        /\ latest = [p \in Providers |-> [nr |-> 0, value |-> {NoKey}]]
    BY DEF Settings!Init
  <1>2. /\ Settings!Idle \in Settings!Request /\ Settings!Sound(Settings!Idle)
        /\ Settings!Idle.nr = 0 /\ Settings!Idle.at = "idle" /\ Settings!Idle.row = "none"
        /\ "none" \notin Providers
    BY ProvidersAssumption DEF Settings!Sound, Settings!Idle, Settings!Request
  <1>3. \A r \in Requests : request[r] = Settings!Idle
    BY <1>1
  <1>4. Settings!TypeOK
    BY <1>1, <1>2, <1>3, BoundsAssumption DEF Settings!TypeOK
  <1>5. Settings!RequestsInv
    BY <1>1, <1>2, <1>3 DEF Settings!RequestsInv
  <1>6. Settings!OverlapInv
    BY <1>1, <1>2, <1>3 DEF Settings!OverlapInv
  <1>7. Settings!SettingsKept
    BY <1>1 DEF Settings!SettingsKept
  <1> QED
    BY <1>4, <1>5, <1>6, <1>7 DEF Settings!SettingsInv

LEMMA SettingsStep1 ==
  ASSUME Settings!SettingsInv, NEW r \in Requests,
         \/ \E p \in Providers : Settings!DeleteKey(r, p)
                                 \/ \E key \in Keys : Settings!StoreKey(r, p, key)
         \/ Settings!Accept(r) \/ Settings!Reject(r) \/ Settings!Update(r)
         \/ Settings!Write(r) \/ Settings!DeletesNothing(r) \/ Settings!Commit(r) \/ Settings!Fails(r)
  PROVE  Settings!SettingsInv'
  <1>1. ASSUME NEW p \in Providers, Settings!DeleteKey(r, p) PROVE Settings!SettingsInv'
    BY <1>1, SettingsSubmit DEF Settings!DeleteKey
  <1>2. ASSUME NEW p \in Providers, NEW key \in Keys, Settings!StoreKey(r, p, key)
        PROVE  Settings!SettingsInv'
    BY <1>2, SettingsSubmit DEF Settings!StoreKey
  <1>3. CASE Settings!Accept(r)
    BY <1>3, RequestMoves DEF Settings!Accept
  <1>4. CASE Settings!Write(r)
    BY <1>4, RequestMoves DEF Settings!Write
  <1>5. CASE Settings!Reject(r) \/ Settings!DeletesNothing(r) \/ Settings!Fails(r)
    BY <1>5, RequestEnds DEF Settings!Reject, Settings!DeletesNothing, Settings!Fails
  <1>6. CASE Settings!Commit(r)
    BY <1>6, CommitUpdate, CommitKey
  <1> QED
    BY <1>1, <1>2, <1>3, <1>4, <1>5, <1>6, SettingsUpdate

LEMMA SettingsNext == Settings!SettingsInv /\ [Next]_vars => Settings!SettingsInv'
  <1> SUFFICES ASSUME Settings!SettingsInv, [Next]_vars PROVE Settings!SettingsInv'
    OBVIOUS
  <1>1. [Settings!Next]_settingsVars
    BY DEF Next, JwksStep, BoardStep, AuthStep, DrawerStep, BridgeStep, DesignStep, SlackStep,
           MemoryStep, VectorsStep, NewsStep, SettingsStep, FeedbackStep, BlocksStep, Still, vars
  <1>2. CASE Settings!Next
    BY <1>2, SettingsStep1 DEF Settings!Next
  <1>3. CASE UNCHANGED settingsVars
    BY <1>3 DEF settingsVars, Settings!SettingsInv, Settings!TypeOK, Settings!RequestsInv,
                Settings!OverlapInv, Settings!SettingsKept
  <1> QED
    BY <1>1, <1>2, <1>3

\* A stored key is one its provider accepts, and the last one that was asked for unless
\* requests overlapped; no update takes a preference back (store_key, delete_key and
\* update_preferences).
THEOREM SettingsAreKept == Spec => []SettingsKept
  <1>1. Init => Settings!SettingsInv
    BY SettingsBegins DEF Init
  <1>2. Settings!SettingsInv => SettingsKept
    BY DEF Settings!SettingsInv, SettingsKept
  <1> QED
    BY <1>1, <1>2, SettingsNext, PTL DEF Spec

-----------------------------------------------------------------------------
(* FeedbackReports                                                         *)

LEMMA FeedbackParts ==
  ASSUME Feedback!FeedbackInv
  PROVE  /\ Feedback!TypeOK /\ Feedback!PostsInv /\ Feedback!TableInv /\ Feedback!ListsAgree
         /\ stored \subseteq Messages /\ None \notin Messages
         /\ posting \in [Posts -> Feedback!Report \cup {Feedback!Idle}]
         /\ reports \in Seq(Feedback!Report) /\ clicks \in Seq(Feedback!Opening)
         /\ page.at \in {"idle", "count", "shown"}
  BY MessagesAssumption DEF Feedback!FeedbackInv, Feedback!TypeOK, Feedback!PostsInv, Feedback!TableInv

\* The report that a request prepares.
LEMMA PostAt ==
  ASSUME Feedback!FeedbackInv, NEW q \in Posts, posting[q].at # "idle"
  PROVE  posting[q] \in Feedback!Report /\ Feedback!Prepared(posting[q])
  <1>1. posting[q] # Feedback!Idle
    BY DEF Feedback!Idle
  <1> QED
    BY <1>1, FeedbackParts DEF Feedback!PostsInv

\* A request goes on with its report, or has ended.
LEMMA PostKept ==
  ASSUME Feedback!FeedbackInv, NEW q \in Posts, NEW r, Feedback!Go(q, r),
         r = Feedback!Idle \/ (r \in Feedback!Report /\ Feedback!Prepared(r))
  PROVE  Feedback!FeedbackInv'
  <1>1. /\ posting' = [posting EXCEPT ![q] = r] /\ stored' = stored /\ reports' = reports
        /\ page' = page /\ clicks' = clicks /\ issues' = issues
    BY DEF Feedback!Go
  <1>2. Feedback!PostsInv'
    <2>1. posting' \in [Posts -> Feedback!Report \cup {Feedback!Idle}]
      BY <1>1, FeedbackParts
    <2>2. \A u \in Posts : posting'[u] # Feedback!Idle => Feedback!Prepared(posting'[u])
      BY <1>1, FeedbackParts DEF Feedback!PostsInv
    <2> QED
      BY <2>1, <2>2 DEF Feedback!PostsInv, Feedback!Prepared, Feedback!Open, Feedback!May,
                        Feedback!Report, Feedback!Idle
  <1>3. Feedback!TypeOK'
    <2>1. \A u \in Posts : posting'[u].at \in {"idle", "message", "conversation", "insert"}
      BY <1>1, FeedbackParts DEF Feedback!Idle, Feedback!Report
    <2> QED
      BY <1>1, <2>1, FeedbackParts DEF Feedback!TypeOK
  <1>4. Feedback!TableInv'
    BY <1>1, FeedbackParts DEF Feedback!TableInv, Feedback!Prepared, Feedback!Open, Feedback!May
  <1>5. Feedback!ListsAgree'
    BY <1>1, FeedbackParts DEF Feedback!ListsAgree
  <1> QED
    BY <1>2, <1>3, <1>4, <1>5 DEF Feedback!FeedbackInv

LEMMA FeedbackPostReport ==
  ASSUME Feedback!FeedbackInv, NEW q \in Posts, NEW u \in Users,
         NEW c \in Conversations \cup {None}, NEW msg \in Messages \cup {None},
         Feedback!PostReport(q, u, c, msg)
  PROVE  Feedback!FeedbackInv'
  <1> DEFINE r == [at |-> "message", user |-> u, conv |-> c, msg |-> msg, given |-> c,
                   seen |-> None, trace |-> None, network |-> None]
  <1>1. Feedback!Go(q, r)
    BY DEF Feedback!PostReport, Feedback!Go
  <1>2. /\ r \in Feedback!Report /\ r.at = "message" /\ r.conv = c /\ r.given = c
        /\ r.seen = None /\ r.trace = None /\ r.network = None
    BY DEF Feedback!Report
  <1> HIDE DEF r
  <1>3. Feedback!Prepared(r)
    BY <1>2 DEF Feedback!Prepared
  <1> QED
    BY <1>1, <1>2, <1>3, PostKept

\* A report at another place, with what has been found so far.
LEMMA ReportGoes ==
  ASSUME NEW r \in Feedback!Report, NEW at
  PROVE  [r EXCEPT !.at = at]
           = [at |-> at, user |-> r.user, conv |-> r.conv, msg |-> r.msg, given |-> r.given,
              seen |-> r.seen, trace |-> r.trace, network |-> r.network]
  <1> DEFINE k == [at |-> r.at, user |-> r.user, conv |-> r.conv, msg |-> r.msg, given |-> r.given,
                   seen |-> r.seen, trace |-> r.trace, network |-> r.network]
  <1>1. r = k
    BY DEF Feedback!Report
  <1>2. [k EXCEPT !.at = at]
          = [at |-> at, user |-> r.user, conv |-> r.conv, msg |-> r.msg, given |-> r.given,
             seen |-> r.seen, trace |-> r.trace, network |-> r.network]
    OBVIOUS
  <1> HIDE DEF k
  <1>3. [r EXCEPT !.at = at] = [k EXCEPT !.at = at]
    BY <1>1, Zenon
  <1> QED
    BY <1>2, <1>3, Zenon

LEMMA ReportFound ==
  ASSUME NEW r \in Feedback!Report, NEW trace, NEW conv
  PROVE  [r EXCEPT !.at = "conversation", !.seen = r.msg, !.trace = trace, !.conv = conv]
           = [at |-> "conversation", user |-> r.user, conv |-> conv, msg |-> r.msg, given |-> r.given,
              seen |-> r.msg, trace |-> trace, network |-> r.network]
  <1> DEFINE k == [at |-> "conversation", user |-> r.user, conv |-> r.conv, msg |-> r.msg, given |-> r.given,
                   seen |-> r.seen, trace |-> r.trace, network |-> r.network]
             l == [at |-> "conversation", user |-> r.user, conv |-> r.conv, msg |-> r.msg, given |-> r.given,
                   seen |-> r.msg, trace |-> r.trace, network |-> r.network]
             m == [at |-> "conversation", user |-> r.user, conv |-> r.conv, msg |-> r.msg, given |-> r.given,
                   seen |-> r.msg, trace |-> trace, network |-> r.network]
             n == [at |-> "conversation", user |-> r.user, conv |-> conv, msg |-> r.msg, given |-> r.given,
                   seen |-> r.msg, trace |-> trace, network |-> r.network]
  <1>1. [k EXCEPT !.seen = r.msg] = l
    OBVIOUS
  <1>2. [l EXCEPT !.trace = trace] = m
    OBVIOUS
  <1>3. [m EXCEPT !.conv = conv] = n
    OBVIOUS
  <1>4. [r EXCEPT !.at = "conversation"] = k
    BY ReportGoes, Zenon
  <1> HIDE DEF k, l, m, n
  <1>5. [r EXCEPT !.at = "conversation", !.seen = r.msg, !.trace = trace, !.conv = conv]
          = [[[[r EXCEPT !.at = "conversation"] EXCEPT !.seen = r.msg] EXCEPT !.trace = trace] EXCEPT !.conv = conv]
    OBVIOUS
  <1>6. [r EXCEPT !.at = "conversation", !.seen = r.msg, !.trace = trace, !.conv = conv] = n
    BY <1>1, <1>2, <1>3, <1>4, <1>5, Zenon
  <1> QED
    BY <1>6, Zenon DEF n

LEMMA ReportComplete ==
  ASSUME NEW r \in Feedback!Report, NEW at, NEW network
  PROVE  [r EXCEPT !.at = at, !.network = network]
           = [at |-> at, user |-> r.user, conv |-> r.conv, msg |-> r.msg, given |-> r.given,
              seen |-> r.seen, trace |-> r.trace, network |-> network]
  <1> DEFINE k == [at |-> at, user |-> r.user, conv |-> r.conv, msg |-> r.msg, given |-> r.given,
                   seen |-> r.seen, trace |-> r.trace, network |-> r.network]
             n == [at |-> at, user |-> r.user, conv |-> r.conv, msg |-> r.msg, given |-> r.given,
                   seen |-> r.seen, trace |-> r.trace, network |-> network]
  <1>1. [k EXCEPT !.network = network] = n
    OBVIOUS
  <1>2. [r EXCEPT !.at = at] = k
    BY ReportGoes, Zenon
  <1> HIDE DEF k, n
  <1>3. [r EXCEPT !.at = at, !.network = network] = [[r EXCEPT !.at = at] EXCEPT !.network = network]
    OBVIOUS
  <1>4. [r EXCEPT !.at = at, !.network = network] = n
    BY <1>1, <1>2, <1>3, Zenon
  <1> QED
    BY <1>4, Zenon DEF n

LEMMA FeedbackReadMessage ==
  ASSUME Feedback!FeedbackInv, NEW q \in Posts, Feedback!ReadMessage(q)
  PROVE  Feedback!FeedbackInv'
  <1> DEFINE r == posting[q]
  <1>1. r.at = "message" /\ r \in Feedback!Report /\ Feedback!Prepared(r)
    BY PostAt DEF Feedback!ReadMessage
  <1>2. /\ r.msg \in Messages \cup {None} /\ r.conv \in Conversations \cup {None}
        /\ r.user \in Users /\ r.given \in Conversations \cup {None}
        /\ r.seen = None /\ r.trace = None /\ r.network = None /\ r.conv = r.given
    BY <1>1 DEF Feedback!Report, Feedback!Prepared
  <1>3. CASE r.msg \notin stored
    <2> DEFINE k == [at |-> "conversation", user |-> r.user, conv |-> r.conv, msg |-> r.msg,
                     given |-> r.given, seen |-> r.seen, trace |-> r.trace, network |-> r.network]
    <2>1. Feedback!Go(q, [r EXCEPT !.at = "conversation"])
      BY <1>3 DEF Feedback!ReadMessage
    <2>2. [r EXCEPT !.at = "conversation"] = k
      BY <1>1, ReportGoes, Zenon
    <2>3. k \in Feedback!Report /\ k.at = "conversation" /\ k.seen = None /\ k.trace = None
          /\ k.network = None
      BY <1>2 DEF Feedback!Report
    <2> HIDE DEF k
    <2>4. Feedback!Prepared(k)
      BY <2>3 DEF Feedback!Prepared
    <2>5. Feedback!Go(q, k)
      BY <2>1, <2>2
    <2> QED
      BY <2>3, <2>4, <2>5, PostKept
  <1>4. CASE r.msg \in stored /\ ~Feedback!Readable(r)
    BY <1>4, PostKept DEF Feedback!ReadMessage
  <1>5. CASE r.msg \in stored /\ Feedback!Readable(r)
    <2> DEFINE trace == IF r.msg \in Traced THEN r.msg ELSE None
               conv == IF r.conv = None THEN In[r.msg] ELSE r.conv
               k == [at |-> "conversation", user |-> r.user, conv |-> conv, msg |-> r.msg,
                     given |-> r.given, seen |-> r.msg, trace |-> trace, network |-> r.network]
    <2>1. Feedback!Go(q, [r EXCEPT !.at = "conversation", !.seen = r.msg,
                                   !.trace = trace, !.conv = conv])
      BY <1>1, <1>5 DEF Feedback!ReadMessage
    <2>2. /\ r.msg \in Messages /\ r.msg # None /\ trace \in {None, r.msg}
          /\ conv \in Conversations \cup {None} /\ (r.given # None \/ conv = In[r.msg])
          /\ Feedback!May(r.user, In[r.msg])
      BY <1>2, <1>5, FeedbackParts, MessagesAssumption DEF Feedback!Readable
    <2> HIDE DEF trace, conv
    <2>3. [r EXCEPT !.at = "conversation", !.seen = r.msg, !.trace = trace, !.conv = conv] = k
      BY <1>1, ReportFound, Zenon
    <2>4. /\ k \in Feedback!Report /\ k.at = "conversation" /\ k.seen = r.msg /\ k.trace = trace
          /\ k.network = None /\ k.conv = conv /\ k.msg = r.msg /\ k.given = r.given
          /\ k.user = r.user
      BY <1>2, <2>2 DEF Feedback!Report
    <2> HIDE DEF k
    <2>5. Feedback!Prepared(k)
      BY <2>2, <2>4 DEF Feedback!Prepared
    <2>6. Feedback!Go(q, k)
      BY <2>1, <2>3
    <2> QED
      BY <2>4, <2>5, <2>6, PostKept
  <1> QED
    BY <1>3, <1>4, <1>5

LEMMA FeedbackReadConversation ==
  ASSUME Feedback!FeedbackInv, NEW q \in Posts, Feedback!ReadConversation(q)
  PROVE  Feedback!FeedbackInv'
  <1> DEFINE r == posting[q]
  <1>1. r.at = "conversation" /\ r \in Feedback!Report /\ Feedback!Prepared(r)
    BY PostAt DEF Feedback!ReadConversation
  <1>2. CASE r.conv # None /\ ~Feedback!May(r.user, r.conv)
    BY <1>2, PostKept DEF Feedback!ReadConversation
  <1>3. CASE r.conv # None => Feedback!May(r.user, r.conv)
    <2> DEFINE k == [at |-> "insert", user |-> r.user, conv |-> r.conv, msg |-> r.msg,
                     given |-> r.given, seen |-> r.seen, trace |-> r.trace, network |-> r.conv]
    <2>1. Feedback!Go(q, [r EXCEPT !.at = "insert", !.network = r.conv])
      BY <1>3 DEF Feedback!ReadConversation
    <2>2. [r EXCEPT !.at = "insert", !.network = r.conv] = k
      BY <1>1, ReportComplete, Zenon
    <2>3. /\ k \in Feedback!Report /\ k.at = "insert" /\ k.seen = r.seen /\ k.trace = r.trace
          /\ k.network = r.conv /\ k.conv = r.conv /\ k.msg = r.msg /\ k.given = r.given
          /\ k.user = r.user
      BY <1>1 DEF Feedback!Report
    <2> HIDE DEF k
    <2>4. Feedback!Prepared(k)
      BY <1>1, <1>3, <2>3 DEF Feedback!Prepared, Feedback!Open
    <2>5. Feedback!Go(q, k)
      BY <2>1, <2>2
    <2> QED
      BY <2>3, <2>4, <2>5, PostKept
  <1> QED
    BY <1>2, <1>3

\* The report is on top of the others, which keep their places.
LEMMA FeedbackAddReport ==
  ASSUME Feedback!FeedbackInv, NEW q \in Posts, Feedback!AddReport(q)
  PROVE  Feedback!FeedbackInv'
  <1> DEFINE r == posting[q]
  <1>1. r.at = "insert" /\ r \in Feedback!Report /\ Feedback!Prepared(r)
    BY PostAt DEF Feedback!AddReport
  <1>2. /\ reports' = Append(reports, r) /\ posting' = [posting EXCEPT ![q] = Feedback!Idle]
        /\ stored' = stored /\ page' = page /\ clicks' = clicks /\ issues' = issues
    BY DEF Feedback!AddReport
  <1> HIDE DEF r
  <1>3. /\ reports' \in Seq(Feedback!Report) /\ Len(reports') \in Nat
        /\ DOMAIN reports \subseteq DOMAIN reports'
        /\ \A i \in DOMAIN reports : reports'[i] = reports[i]
        /\ \A i \in DOMAIN reports' : i \in DOMAIN reports \/ reports'[i] = r
    BY <1>1, <1>2, FeedbackParts
  <1>4. Feedback!PostsInv'
    <2>1. posting' \in [Posts -> Feedback!Report \cup {Feedback!Idle}]
      BY <1>2, FeedbackParts
    <2>2. \A u \in Posts : posting'[u] # Feedback!Idle => Feedback!Prepared(posting'[u])
      BY <1>2, FeedbackParts DEF Feedback!PostsInv
    <2> QED
      BY <2>1, <2>2 DEF Feedback!PostsInv, Feedback!Prepared, Feedback!Open, Feedback!May,
                        Feedback!Report, Feedback!Idle
  <1>5. Feedback!TypeOK'
    <2>1. \A u \in Posts : posting'[u].at \in {"idle", "message", "conversation", "insert"}
      BY <1>2, FeedbackParts DEF Feedback!Idle, Feedback!Report
    <2> QED
      BY <1>2, <1>3, <2>1, FeedbackParts DEF Feedback!TypeOK
  <1>6. Feedback!TableInv'
    <2>1. \A i \in DOMAIN reports' : reports'[i].at = "insert" /\ Feedback!Prepared(reports'[i])
      BY <1>1, <1>3, FeedbackParts DEF Feedback!TableInv
    <2>2. \A k \in DOMAIN clicks : clicks[k].report \in DOMAIN reports'
      BY <1>3, FeedbackParts DEF Feedback!TableInv
    <2> QED
      BY <1>2, <1>3, <2>1, <2>2, FeedbackParts
         DEF Feedback!TableInv, Feedback!Prepared, Feedback!Open, Feedback!May
  <1>7. Feedback!ListsAgree'
    <2>1. \A k \in DOMAIN clicks : reports'[clicks[k].report] = reports[clicks[k].report]
      BY <1>3, FeedbackParts DEF Feedback!TableInv
    <2>2. page'.at = "shown" => Feedback!Cardinality(page'.shown) <= page'.total
      BY <1>2, FeedbackParts DEF Feedback!ListsAgree
    <2>3. \A k \in DOMAIN clicks : clicks[k].at = "told" =>
             \E issue \in issues : issue.click = k /\ issue.about = reports'[clicks[k].report]
      BY <2>1, FeedbackParts DEF Feedback!ListsAgree
    <2> QED
      BY <1>2, <2>2, <2>3 DEF Feedback!ListsAgree
  <1> QED
    BY <1>4, <1>5, <1>6, <1>7 DEF Feedback!FeedbackInv

\* The instance has a copy of the definition of Cardinality.
LEMMA PageCardinality == \A S : Feedback!Cardinality(S) = Cardinality(S)
  BY DEF Feedback!Cardinality, Cardinality

\* The list is read, counted and left; reports that come in between only raise the total.
LEMMA PageKept ==
  ASSUME Feedback!FeedbackInv, NEW p, page' = p, p.at \in {"idle", "count", "shown"},
         p.shown \subseteq DOMAIN reports,
         p.at = "shown" => Feedback!Cardinality(p.shown) <= p.total,
         UNCHANGED <<stored, reports, posting, clicks, issues>>
  PROVE  Feedback!FeedbackInv'
  <1>1. Feedback!TypeOK'
    BY FeedbackParts DEF Feedback!TypeOK
  <1>2. Feedback!PostsInv' /\ Feedback!TableInv'
    BY FeedbackParts DEF Feedback!PostsInv, Feedback!TableInv, Feedback!Prepared, Feedback!Open,
                         Feedback!May, Feedback!Report, Feedback!Idle
  <1>3. Feedback!ListsAgree'
    BY FeedbackParts DEF Feedback!ListsAgree
  <1> QED
    BY <1>1, <1>2, <1>3 DEF Feedback!FeedbackInv

LEMMA FeedbackList ==
  ASSUME Feedback!FeedbackInv, Feedback!ListReports \/ Feedback!CountReports \/ Feedback!LeaveList
  PROVE  Feedback!FeedbackInv'
  <1>1. CASE Feedback!ListReports
    <2> DEFINE first == {i \in DOMAIN reports : i > Len(reports) - PageSize}
               p == [at |-> "count", total |-> 0, shown |-> first]
    <2>1. page' = p
      BY <1>1 DEF Feedback!ListReports
    <2>2. first \subseteq DOMAIN reports
      OBVIOUS
    <2> HIDE DEF first
    <2>3. p.at = "count" /\ p.shown = first
      OBVIOUS
    <2> HIDE DEF p
    <2> QED
      BY <1>1, <2>1, <2>2, <2>3, PageKept DEF Feedback!ListReports
  <1>2. CASE Feedback!CountReports
    <2> DEFINE n == Len(reports)
               p == [at |-> "shown", total |-> n, shown |-> page.shown]
    <2>1. page' = p
      BY <1>2 DEF Feedback!CountReports
    <2>2. page.shown \subseteq DOMAIN reports /\ DOMAIN reports = 1 .. n /\ n \in Nat
      BY FeedbackParts DEF Feedback!TypeOK
    <2> HIDE DEF n
    <2>3. Cardinality(1 .. n) = n /\ IsFiniteSet(1 .. n)
      BY <2>2, FS_Interval
    <2>4. Cardinality(page.shown) <= n
      BY <2>2, <2>3, FS_Subset
    <2>5. p.at = "shown" /\ p.shown = page.shown /\ p.total = n
      OBVIOUS
    <2> HIDE DEF p
    <2>6. Feedback!Cardinality(p.shown) <= p.total
      BY <2>4, <2>5, PageCardinality
    <2> QED
      BY <1>2, <2>1, <2>2, <2>5, <2>6, PageKept DEF Feedback!CountReports
  <1>3. CASE Feedback!LeaveList
    <2>1. page' = Feedback!NoPage
      BY <1>3 DEF Feedback!LeaveList
    <2>2. Feedback!NoPage.at = "idle" /\ Feedback!NoPage.shown = {}
      BY DEF Feedback!NoPage
    <2> QED
      BY <1>3, <2>1, <2>2, PageKept DEF Feedback!LeaveList
  <1> QED
    BY <1>1, <1>2, <1>3

\* Clicks change, but not the reports they are about; one that is told has its issue.
LEMMA ClicksKept ==
  ASSUME Feedback!FeedbackInv, clicks' \in Seq(Feedback!Opening),
         \A k \in DOMAIN clicks' : clicks'[k].report \in DOMAIN reports,
         \A k \in DOMAIN clicks' : clicks'[k].at = "told" =>
             \E issue \in issues' : issue.click = k /\ issue.about = reports[clicks'[k].report],
         \A issue \in issues' : issue.click \in DOMAIN clicks',
         UNCHANGED <<stored, reports, posting, page>>
  PROVE  Feedback!FeedbackInv'
  <1>1. \A k \in DOMAIN clicks' : clicks'[k].at \in {"post", "told", "failed"}
    <2>1. \A k \in DOMAIN clicks' : clicks'[k] \in Feedback!Opening
      OBVIOUS
    <2> QED
      BY <2>1 DEF Feedback!Opening
  <1>2. Feedback!TypeOK'
    BY <1>1, FeedbackParts DEF Feedback!TypeOK
  <1>3. Feedback!PostsInv'
    BY FeedbackParts DEF Feedback!PostsInv, Feedback!Prepared, Feedback!Open,
                         Feedback!May, Feedback!Report, Feedback!Idle
  <1>4. Feedback!TableInv'
    BY FeedbackParts DEF Feedback!TableInv, Feedback!Prepared, Feedback!Open, Feedback!May,
                         Feedback!Report, Feedback!Opening
  <1>5. Feedback!ListsAgree'
    BY FeedbackParts DEF Feedback!ListsAgree
  <1> QED
    BY <1>2, <1>3, <1>4, <1>5 DEF Feedback!FeedbackInv

LEMMA FeedbackClick ==
  ASSUME Feedback!FeedbackInv, NEW i \in DOMAIN reports, Feedback!Click(i)
  PROVE  Feedback!FeedbackInv'
  <1> DEFINE k == [report |-> i, at |-> "post"]
  <1>1. /\ clicks' = Append(clicks, k) /\ issues' = issues
        /\ UNCHANGED <<stored, reports, posting, page>>
    BY DEF Feedback!Click
  <1>2. i \in Nat
    BY FeedbackParts
  <1>3. k \in Feedback!Opening /\ k.report = i /\ k.at = "post"
    BY <1>2 DEF Feedback!Opening
  <1> HIDE DEF k
  <1>4. /\ clicks' \in Seq(Feedback!Opening) /\ DOMAIN clicks \subseteq DOMAIN clicks'
        /\ \A j \in DOMAIN clicks' : clicks'[j] = k \/ (j \in DOMAIN clicks /\ clicks'[j] = clicks[j])
    BY <1>1, <1>3, FeedbackParts
  <1>5. \A j \in DOMAIN clicks' : clicks'[j].report \in DOMAIN reports
    BY <1>3, <1>4, FeedbackParts DEF Feedback!TableInv
  <1>6. ASSUME NEW j \in DOMAIN clicks', clicks'[j].at = "told"
        PROVE  \E issue \in issues : issue.click = j /\ issue.about = reports[clicks'[j].report]
    <2>1. j \in DOMAIN clicks /\ clicks'[j] = clicks[j]
      BY <1>3, <1>4, <1>6
    <2>2. clicks[j].at = "told"
      BY <1>6, <2>1
    <2>3. \E issue \in issues : issue.click = j /\ issue.about = reports[clicks[j].report]
      BY <2>1, <2>2, FeedbackParts DEF Feedback!ListsAgree
    <2> QED
      BY <2>1, <2>3
  <1>7. \A issue \in issues : issue.click \in DOMAIN clicks'
    BY <1>4, FeedbackParts DEF Feedback!TypeOK
  <1> QED
    BY <1>1, <1>4, <1>5, <1>6, <1>7, ClicksKept

LEMMA ClickAnswered ==
  ASSUME Feedback!FeedbackInv, NEW k \in DOMAIN clicks, NEW outcome \in {"told", "failed"},
         Feedback!Answer(k, outcome), issues \subseteq issues',
         \A issue \in issues' : issue.click \in DOMAIN clicks,
         outcome = "told" =>
             \E issue \in issues' : issue.click = k /\ issue.about = reports[clicks[k].report]
  PROVE  Feedback!FeedbackInv'
  <1> DEFINE c == [report |-> clicks[k].report, at |-> outcome]
  <1>1. clicks[k] \in Feedback!Opening
    BY FeedbackParts
  <1>2. [clicks[k] EXCEPT !.at = outcome] = c
    BY <1>1 DEF Feedback!Opening
  <1>3. clicks' = [clicks EXCEPT ![k] = c] /\ UNCHANGED <<stored, reports, posting, page>>
    BY <1>2 DEF Feedback!Answer
  <1>4. c \in Feedback!Opening /\ c.report = clicks[k].report /\ c.at = outcome
    BY <1>1 DEF Feedback!Opening
  <1> HIDE DEF c
  <1>5. /\ clicks' \in Seq(Feedback!Opening) /\ DOMAIN clicks' = DOMAIN clicks /\ clicks'[k] = c
        /\ \A j \in DOMAIN clicks : j # k => clicks'[j] = clicks[j]
    BY <1>3, <1>4, FeedbackParts
  <1>6. \A j \in DOMAIN clicks' : clicks'[j].report = clicks[j].report
                                  /\ clicks'[j].report \in DOMAIN reports
    BY <1>4, <1>5, FeedbackParts DEF Feedback!TableInv
  <1>7. \A j \in DOMAIN clicks' : clicks'[j].at = "told" =>
             \E issue \in issues' : issue.click = j /\ issue.about = reports[clicks'[j].report]
    BY <1>4, <1>5, <1>6, FeedbackParts DEF Feedback!ListsAgree
  <1> QED
    BY <1>3, <1>5, <1>6, <1>7, ClicksKept

LEMMA FeedbackAnswers ==
  ASSUME Feedback!FeedbackInv, NEW k \in DOMAIN clicks, Feedback!OpenIssue(k) \/ Feedback!IssueFails(k)
  PROVE  Feedback!FeedbackInv'
  <1>1. \A issue \in issues : issue.click \in DOMAIN clicks
    BY FeedbackParts DEF Feedback!TypeOK
  <1>2. CASE Feedback!OpenIssue(k)
    <2> DEFINE n == [click |-> k, about |-> reports[clicks[k].report]]
    <2>1. issues' = issues \cup {n} /\ n.click = k /\ n.about = reports[clicks[k].report]
      BY <1>2 DEF Feedback!OpenIssue
    <2> HIDE DEF n
    <2> QED
      BY <1>1, <1>2, <2>1, ClickAnswered DEF Feedback!OpenIssue
  <1>3. CASE Feedback!IssueFails(k)
    BY <1>1, <1>3, ClickAnswered DEF Feedback!IssueFails
  <1> QED
    BY <1>2, <1>3

LEMMA FeedbackStoreMessage ==
  ASSUME Feedback!FeedbackInv, NEW msg \in Messages, Feedback!StoreMessage(msg)
  PROVE  Feedback!FeedbackInv'
  <1> USE FeedbackParts DEF Feedback!StoreMessage
  <1>1. Feedback!TypeOK'
    BY DEF Feedback!TypeOK
  <1>2. Feedback!PostsInv'
    BY DEF Feedback!PostsInv, Feedback!Prepared, Feedback!Open, Feedback!May, Feedback!Report,
           Feedback!Idle
  <1>3. Feedback!TableInv'
    BY DEF Feedback!TableInv, Feedback!Prepared, Feedback!Open, Feedback!May, Feedback!Report,
           Feedback!Opening
  <1>4. Feedback!ListsAgree'
    BY DEF Feedback!ListsAgree
  <1> QED
    BY <1>1, <1>2, <1>3, <1>4 DEF Feedback!FeedbackInv

LEMMA FeedbackBegins == Feedback!Init => Feedback!FeedbackInv
  <1> SUFFICES ASSUME Feedback!Init PROVE Feedback!FeedbackInv
    OBVIOUS
  <1>1. /\ stored \subseteq Messages /\ reports = <<>> /\ page = Feedback!NoPage /\ clicks = <<>>
        /\ posting = [q \in Posts |-> Feedback!Idle] /\ issues = {}
    BY DEF Feedback!Init
  <1>2. /\ \A q \in Posts : posting[q] = Feedback!Idle /\ posting[q].at = "idle"
        /\ page.at = "idle" /\ page.shown = {} /\ DOMAIN reports = {} /\ DOMAIN clicks = {}
    BY <1>1 DEF Feedback!Idle, Feedback!NoPage
  <1>3. reports \in Seq(Feedback!Report) /\ clicks \in Seq(Feedback!Opening) /\ Len(reports) = 0
    BY <1>1
  <1> QED
    BY <1>1, <1>2, <1>3 DEF Feedback!FeedbackInv, Feedback!TypeOK, Feedback!PostsInv,
                            Feedback!TableInv, Feedback!ListsAgree

LEMMA FeedbackNext == Feedback!FeedbackInv /\ [Next]_vars => Feedback!FeedbackInv'
  <1> SUFFICES ASSUME Feedback!FeedbackInv, [Next]_vars PROVE Feedback!FeedbackInv'
    OBVIOUS
  <1>1. [Feedback!Next]_feedbackVars
    BY DEF Next, JwksStep, BoardStep, AuthStep, DrawerStep, BridgeStep, DesignStep, SlackStep,
           MemoryStep, VectorsStep, NewsStep, SettingsStep, FeedbackStep, BlocksStep, Still, vars
  <1>2. ASSUME NEW q \in Posts, Feedback!PostFails(q) PROVE Feedback!FeedbackInv'
    BY <1>2, PostKept DEF Feedback!PostFails
  <1>3. CASE Feedback!Next
    BY <1>2, <1>3, FeedbackStoreMessage, FeedbackPostReport, FeedbackReadMessage,
       FeedbackReadConversation, FeedbackAddReport, FeedbackList, FeedbackClick, FeedbackAnswers
       DEF Feedback!Next
  <1>4. CASE UNCHANGED feedbackVars
    <2> USE <1>4, FeedbackParts DEF feedbackVars
    <2>1. Feedback!TypeOK'
      BY DEF Feedback!TypeOK
    <2>2. Feedback!PostsInv'
      BY DEF Feedback!PostsInv, Feedback!Prepared, Feedback!Open, Feedback!May, Feedback!Report,
             Feedback!Idle
    <2>3. Feedback!TableInv'
      BY DEF Feedback!TableInv, Feedback!Prepared, Feedback!Open, Feedback!May, Feedback!Report,
             Feedback!Opening
    <2>4. Feedback!ListsAgree'
      BY DEF Feedback!ListsAgree
    <2> QED
      BY <2>1, <2>2, <2>3, <2>4 DEF Feedback!FeedbackInv
  <1> QED
    BY <1>1, <1>3, <1>4

\* A report says what its message and its conversation say, and these are open to its
\* author; the total covers the list, and a click that is told of an issue has opened it
\* (post_report, admin_list_reports and create_github_issue).
THEOREM ReportsAreSound == Spec => []ReportsSound
  <1>1. Init => Feedback!FeedbackInv
    BY FeedbackBegins DEF Init
  <1>2. Feedback!FeedbackInv => ReportsSound
    BY DEF Feedback!FeedbackInv, Feedback!TableInv, Feedback!Prepared, Feedback!Open,
           ReportsSound, Feedback!ReportsSound, Feedback!ContextFits
  <1> QED
    BY <1>1, <1>2, FeedbackNext, PTL DEF Spec

-----------------------------------------------------------------------------
(* AuthTuples                                                              *)

LEMMA AuthParts ==
  ASSUME Auth!AuthInv
  PROVE  /\ Auth!StartInv /\ Auth!LifeInv /\ Auth!EventInv /\ Auth!OneStore /\ Auth!TuplesPaired
         /\ models \in Seq(0..1)
         /\ life \in [Owned -> {"none", "create", "created", "delete", "deleted"}]
         /\ DOMAIN created = {n \in Owned : life[n] # "none"}
         /\ \A n \in DOMAIN created : /\ created[n] \in Orgs \X Users
                                      /\ created[n][1] \in Orgs /\ created[n][2] \in Users
  <1>1. Auth!StartInv /\ Auth!LifeInv /\ Auth!EventInv /\ Auth!OneStore /\ Auth!TuplesPaired
    BY DEF Auth!AuthInv, Auth!AuthSound
  <1>2. created \in [{n \in Owned : life[n] # "none"} -> Orgs \X Users]
    BY <1>1 DEF Auth!LifeInv
  <1>3. \A n \in DOMAIN created : created[n] \in Orgs \X Users
    BY <1>2
  <1> QED
    BY <1>1, <1>2, <1>3 DEF Auth!LifeInv, Auth!StartInv

\* The startup and the events of other kinds leave owners and organizations alone.
LEMMA NetworksKept ==
  ASSUME Auth!AuthInv, created' = created, life' = life,
         event' = event \/ event' = [e \in Events |-> Auth!NoEvent],
         \A n \in Owned, u \in Users : <<u, "owner", n>> \in tuples' <=> <<u, "owner", n>> \in tuples,
         \A n \in Owned, o \in Orgs :
             <<o, "container", n>> \in tuples' <=> <<o, "container", n>> \in tuples
  PROVE  Auth!LifeInv' /\ Auth!EventInv' /\ Auth!TuplesPaired'
  <1>1. \A n \in DOMAIN created : /\ n \in Owned
                                  /\ <<created[n][2], "owner", n>> \in tuples'
                                        <=> <<created[n][2], "owner", n>> \in tuples
                                  /\ <<created[n][1], "container", n>> \in tuples'
                                        <=> <<created[n][1], "container", n>> \in tuples
    BY AuthParts
  <1>2. Auth!LifeInv'
    BY AuthParts DEF Auth!LifeInv
  <1>3. Auth!TuplesPaired'
    BY <1>1, AuthParts DEF Auth!TuplesPaired, Auth!HasOwner, Auth!Placed
  <1>4. Auth!EventInv'
    <2>1. CASE event' = event
      <3>1. \A e \in Events : Auth!EventOK(event[e])
        BY AuthParts DEF Auth!EventInv
      <3>2. ASSUME NEW e \in Events PROVE Auth!EventOK(event[e])'
        <4>1. event'[e] = event[e] /\ Auth!EventOK(event[e])
          BY <2>1, <3>1
        <4>2. CASE event[e].kind = "create" /\ Auth!Creating(event[e])
          <5>1. Auth!Creating(event[e])'
            BY <1>1, <4>1, <4>2, AuthParts DEF Auth!Creating, Auth!HasOwner
          <5> QED
            BY <4>1, <4>2, <5>1 DEF Auth!EventOK
        <4>3. CASE event[e].kind = "delete" /\ Auth!Deleting(event[e])
          <5>1. Auth!Deleting(event[e])'
            BY <1>1, <4>1, <4>3, AuthParts DEF Auth!Deleting, Auth!HasOwner
          <5> QED
            BY <4>1, <4>3, <5>1 DEF Auth!EventOK
        <4> QED
          BY <4>1, <4>2, <4>3 DEF Auth!EventOK
      <3> QED
        BY <2>1, <3>2, AuthParts DEF Auth!EventInv
    <2>2. CASE event' = [e \in Events |-> Auth!NoEvent]
      BY <2>2 DEF Auth!EventInv, Auth!EventOK, Auth!NoEvent
    <2> QED
      BY <2>1, <2>2
  <1> QED
    BY <1>2, <1>3, <1>4

LEMMA OneLong ==
  ASSUME NEW s \in Seq(0..1), Len(s) <= 1, s # <<>>
  PROVE  Len(s) = 1
  <1> DEFINE n == Len(s)
  <1>1. n # 0 /\ n \in Nat /\ n <= 1
    BY EmptySeq, LenProperties
  <1> HIDE DEF n
  <1>2. n = 1
    BY <1>1
  <1> QED
    BY <1>2 DEF n

LEMMA AuthStart ==
  ASSUME Auth!AuthInv,
         \/ Auth!Start \/ Auth!ListStores \/ Auth!CreateStore \/ Auth!ReadModels \/ Auth!WriteModel
         \/ Auth!Bootstrap \/ Auth!StartupFails \/ Auth!Stop
  PROVE  Auth!AuthInv'
  <1> USE AuthParts DEF Auth!StartInv, Auth!OneStore, Auth!goto
  <1>1. Auth!StartInv' /\ Auth!OneStore'
    <2>1. CASE Auth!Start
      BY <2>1 DEF Auth!Start
    <2>2. CASE Auth!ListStores
      <3>1. models # <<>> => Len(models) = 1
        BY OneLong
      <3> QED
        BY <2>2, <3>1 DEF Auth!ListStores
    <2>3. CASE Auth!CreateStore
      <3>1. models = <<>> /\ models' = <<0>>
        BY <2>3 DEF Auth!CreateStore
      <3>2. models' \in Seq(0..1) /\ Len(models') = 1 /\ models'[1] = 0
        BY <3>1
      <3> QED
        BY <2>3, <3>2 DEF Auth!CreateStore
    <2>4. CASE Auth!ReadModels
      BY <2>4 DEF Auth!ReadModels
    <2>5. CASE Auth!WriteModel
      <3>0. init = "write"
        BY <2>5 DEF Auth!WriteModel
      <3>a. store = 1 /\ Len(models) = 1 /\ models[1] = 0
        BY <3>0
      <3>1. models' = [models EXCEPT ![1] = 1]
        BY <2>5, <3>a DEF Auth!WriteModel
      <3>2. models' \in Seq(0..1) /\ Len(models') = 1 /\ models'[1] = 1
        BY <3>a, <3>1
      <3> QED
        BY <2>5, <3>a, <3>2 DEF Auth!WriteModel
    <2>6. CASE Auth!Bootstrap
      BY <2>6 DEF Auth!Bootstrap
    <2>7. CASE Auth!StartupFails
      BY <2>7 DEF Auth!StartupFails
    <2>8. CASE Auth!Stop
      BY <2>8 DEF Auth!Stop
    <2> QED
      BY <2>1, <2>2, <2>3, <2>4, <2>5, <2>6, <2>7, <2>8
  <1>2. /\ created' = created /\ life' = life
        /\ event' = event \/ event' = [e \in Events |-> Auth!NoEvent]
        /\ tuples' = tuples \/ \E n : tuples' = tuples \cup {<<Everyone, "tourist", n>>}
    BY DEF Auth!Start, Auth!ListStores, Auth!CreateStore, Auth!ReadModels, Auth!WriteModel,
           Auth!Bootstrap, Auth!StartupFails, Auth!Stop
  <1>3. /\ \A n \in Owned, u \in Users :
               <<u, "owner", n>> \in tuples' <=> <<u, "owner", n>> \in tuples
        /\ \A n \in Owned, o \in Orgs :
               <<o, "container", n>> \in tuples' <=> <<o, "container", n>> \in tuples
    BY <1>2
  <1>4. Auth!LifeInv' /\ Auth!EventInv' /\ Auth!TuplesPaired'
    BY <1>2, <1>3, NetworksKept
  <1> QED
    BY <1>1, <1>4 DEF Auth!AuthInv, Auth!AuthSound

\* Nothing changes for the networks outside N.
OthersKept(N) ==
  /\ DOMAIN created' \subseteq DOMAIN created \cup N
  /\ \A m \in DOMAIN created \ N :
        /\ m \in DOMAIN created' /\ created'[m] = created[m] /\ life'[m] = life[m]
        /\ <<created[m][2], "owner", m>> \in tuples' <=> <<created[m][2], "owner", m>> \in tuples
        /\ <<created[m][1], "container", m>> \in tuples'
              <=> <<created[m][1], "container", m>> \in tuples

\* No other event is about the life of a network in N.
OnlyAbout(N, e) ==
  \A f \in Events \ {e} : event[f].kind \in {"create", "delete"} => event[f].of \notin N

\* An event begins, goes on or ends; if it is about the life of a network, it alone is, and
\* nothing changes for the other networks.
LEMMA EventKept ==
  ASSUME Auth!AuthInv, NEW e \in Events, NEW ev, NEW N \in SUBSET Owned,
         event' = [event EXCEPT ![e] = ev], OthersKept(N), OnlyAbout(N, e),
         ev.kind \in {"create", "delete"} => ev.of \in N,
         Auth!EventOK(event[e])'
  PROVE  Auth!EventInv'
  <1>1. /\ event'[e] = ev /\ \A f \in Events \ {e} : event'[f] = event[f]
        /\ DOMAIN event' = Events
    BY AuthParts DEF Auth!EventInv
  <1>2. ASSUME NEW f \in Events \ {e} PROVE Auth!EventOK(event[f])'
    <2>1. event'[f] = event[f] /\ Auth!EventOK(event[f])
      BY <1>1, AuthParts DEF Auth!EventInv
    <2>2. CASE event[f].kind \notin {"create", "delete"}
      BY <2>1, <2>2 DEF Auth!EventOK, Auth!NoEvent, Auth!Elsewhere, Auth!Subjects, Auth!Objects
    <2>3. CASE event[f].kind \in {"create", "delete"}
      <3> DEFINE m == event[f].of
      <3>1. m \notin N /\ m \in Owned /\ life[m] \in {"create", "delete"}
        BY <2>1, <2>3 DEF Auth!EventOK, Auth!Creating, Auth!Deleting, Auth!NoEvent, OnlyAbout
      <3>2. m \in DOMAIN created \ N
        BY <3>1, AuthParts
      <3>3. /\ created'[m] = created[m] /\ life'[m] = life[m]
            /\ <<created[m][2], "owner", m>> \in tuples' <=> <<created[m][2], "owner", m>> \in tuples
        BY <3>2 DEF OthersKept
      <3>4. CASE event[f].kind = "create"
        <4>1. Auth!Creating(event[f])
          BY <2>1, <3>4 DEF Auth!EventOK, Auth!NoEvent
        <4>2. Auth!Creating(event[f])'
          BY <2>1, <3>3, <4>1 DEF Auth!Creating, Auth!Grant, Auth!HasOwner
        <4> QED
          BY <2>1, <3>4, <4>2 DEF Auth!EventOK
      <3>5. CASE event[f].kind = "delete"
        <4>1. Auth!Deleting(event[f])
          BY <2>1, <3>5 DEF Auth!EventOK, Auth!NoEvent
        <4>2. Auth!Deleting(event[f])'
          BY <2>1, <3>3, <4>1 DEF Auth!Deleting, Auth!Revoke, Auth!HasOwner
        <4> QED
          BY <2>1, <3>5, <4>2 DEF Auth!EventOK
      <3> QED
        BY <2>3, <3>4, <3>5
    <2> QED
      BY <2>2, <2>3
  <1>3. \A f, g \in Events :
            event'[f].kind \in {"create", "delete"} /\ event'[g].kind \in {"create", "delete"}
                /\ event'[f].of = event'[g].of => f = g
    BY <1>1, AuthParts DEF Auth!EventInv, OnlyAbout
  <1> QED
    BY <1>1, <1>2, <1>3 DEF Auth!EventInv

\* Owners and organizations stay paired if they are for the networks in N.
LEMMA PairedKept ==
  ASSUME Auth!AuthInv, NEW N, OthersKept(N),
         \A n \in N : /\ life'[n] = "created" => Auth!HasOwner(n)' /\ Auth!Placed(n)'
                      /\ life'[n] = "deleted" => ~Auth!HasOwner(n)' /\ ~Auth!Placed(n)'
                      /\ life'[n] = "create"  => (Auth!Placed(n)' => Auth!HasOwner(n)')
  PROVE  Auth!TuplesPaired'
  BY AuthParts DEF Auth!TuplesPaired, Auth!HasOwner, Auth!Placed, OthersKept

LEMMA StartKept ==
  ASSUME Auth!AuthInv, models' = models, init' = init, store' = store
  PROVE  Auth!StartInv' /\ Auth!OneStore'
  BY AuthParts DEF Auth!StartInv, Auth!OneStore

\* An event that grants or revokes other relations begins.
LEMMA OtherBegins ==
  ASSUME Auth!AuthInv, NEW e \in Events, NEW kind \in {"join", "gone", "share"}, NEW o, NEW calls,
         Auth!Begin(e, kind, o, calls), Auth!Rest, calls # <<>>,
         calls \in Seq([does : {"grant", "revoke"}, tuple : Auth!Elsewhere])
  PROVE  Auth!AuthInv'
  <1> DEFINE ev == [kind |-> kind, of |-> o, todo |-> calls]
  <1>1. /\ event' = [event EXCEPT ![e] = ev] /\ ev.kind = kind /\ ev.todo = calls
        /\ models' = models /\ init' = init /\ store' = store /\ tuples' = tuples
        /\ created' = created /\ life' = life
    BY DEF Auth!Begin, Auth!Rest
  <1>2. Auth!LifeInv'
    BY <1>1, AuthParts DEF Auth!LifeInv
  <1>3. OthersKept({}) /\ OnlyAbout({}, e)
    BY <1>1 DEF OthersKept, OnlyAbout
  <1> HIDE DEF ev
  <1>4. event'[e] = ev
    BY <1>1, AuthParts DEF Auth!EventInv
  <1>5. Auth!EventOK(event[e])'
    BY <1>1, <1>4 DEF Auth!EventOK, Auth!Elsewhere, Auth!Subjects, Auth!Objects
  <1>6. Auth!EventInv'
    BY <1>1, <1>3, <1>5, EventKept
  <1>7. Auth!TuplesPaired'
    BY <1>3, PairedKept
  <1> QED
    BY <1>1, <1>2, <1>6, <1>7, StartKept DEF Auth!AuthInv, Auth!AuthSound

\* A call about one of the other relations.
LEMMA ElsewhereCalls ==
  ASSUME NEW u \in Users, NEW o \in Orgs \cup Owned, NEW does \in {"grant", "revoke"},
         NEW r \in {"admin", "member", "collaborator", "tourist"}
  PROVE  [does |-> does, tuple |-> <<u, r, o>>]
            \in [does : {"grant", "revoke"}, tuple : Auth!Elsewhere]
  BY DEF Auth!Elsewhere, Auth!Subjects, Auth!Objects

LEMMA OneCall ==
  ASSUME Auth!AuthInv, NEW e \in Events, NEW kind \in {"join", "gone", "share"}, Auth!Rest,
         NEW u \in Users, NEW o \in Orgs \cup Owned,
         NEW r \in {"admin", "member", "collaborator", "tourist"},
         \/ Auth!Begin(e, kind, o, <<Auth!Grant(u, r, o)>>)
         \/ Auth!Begin(e, kind, o, <<Auth!Revoke(u, r, o)>>)
         \/ Auth!Begin(e, kind, o, <<Auth!Revoke(u, "member", o), Auth!Revoke(u, "admin", o)>>)
  PROVE  Auth!AuthInv'
  <1> DEFINE C == [does : {"grant", "revoke"}, tuple : Auth!Elsewhere]
  <1>1. /\ Auth!Grant(u, r, o) \in C /\ Auth!Revoke(u, r, o) \in C
        /\ Auth!Revoke(u, "member", o) \in C /\ Auth!Revoke(u, "admin", o) \in C
    BY ElsewhereCalls DEF Auth!Grant, Auth!Revoke
  <1> HIDE DEF C
  <1>2. /\ <<Auth!Grant(u, r, o)>> \in Seq(C) /\ <<Auth!Revoke(u, r, o)>> \in Seq(C)
        /\ <<Auth!Revoke(u, "member", o), Auth!Revoke(u, "admin", o)>> \in Seq(C)
        /\ <<Auth!Grant(u, r, o)>> # <<>> /\ <<Auth!Revoke(u, r, o)>> # <<>>
        /\ <<Auth!Revoke(u, "member", o), Auth!Revoke(u, "admin", o)>> # <<>>
    BY <1>1
  <1>3. \A calls \in Seq(C) : calls # <<>> /\ Auth!Begin(e, kind, o, calls) => Auth!AuthInv'
    BY OtherBegins DEF C
  <1> QED
    BY <1>2, <1>3

\* The members leave one after the other.
LEMMA AuthOrgDeleted ==
  ASSUME Auth!AuthInv, NEW e \in Events, NEW o \in Orgs,
         NEW us \in Auth!Bijection(1 .. Auth!Cardinality(Users), Users),
         Auth!on_org_deleted(e, o, us)
  PROVE  Auth!AuthInv'
  <1> DEFINE C == [does : {"grant", "revoke"}, tuple : Auth!Elsewhere]
             n == Len(us)
             member(i) == us[(i + 1) \div 2]
             calls == [i \in 1 .. 2 * n |->
                          Auth!Revoke(member(i), IF i % 2 = 1 THEN "member" ELSE "admin", o)]
  <1>1. us \in Seq(Users) /\ n \in Nat /\ n # 0
    <2>1. Cardinality(Users) \in Nat /\ us \in [1 .. Auth!Cardinality(Users) -> Users]
      BY UsersAssumption, FS_CardinalityType DEF Auth!Bijection, Auth!Injection
    <2>2. Auth!Cardinality(Users) = Cardinality(Users)
      BY DEF Auth!Cardinality, Cardinality
    <2>3. us \in Seq(Users)
      BY <2>1, <2>2
    <2>4. us # <<>>
      BY DEF Auth!on_org_deleted
    <2> QED
      BY <2>3, <2>4
  <1>2. ASSUME NEW i \in 1 .. 2 * n PROVE member(i) \in Users
    <2>1. (i + 1) \div 2 \in 1 .. n
      BY <1>1
    <2> QED
      BY <1>1, <2>1
  <1>3. Auth!Begin(e, "gone", o, calls) /\ Auth!Rest
    BY DEF Auth!on_org_deleted
  <1> HIDE DEF member
  <1>4. \A i \in 1 .. 2 * n : Auth!Revoke(member(i), IF i % 2 = 1 THEN "member" ELSE "admin", o) \in C
    BY <1>2, ElsewhereCalls DEF Auth!Revoke
  <1> HIDE DEF C, n
  <1>5. calls \in Seq(C) /\ Len(calls) = 2 * n
    BY <1>1, <1>4
  <1>6. calls # <<>>
    BY <1>1, <1>5
  <1> HIDE DEF calls
  <1> QED
    BY <1>3, <1>5, <1>6, OtherBegins DEF C

LEMMA AuthOthers ==
  ASSUME Auth!AuthInv, NEW e \in Events, NEW o \in Orgs, NEW u \in Users,
         \/ Auth!on_org_created(e, o, u) \/ Auth!on_user_joined_org(e, o, u)
         \/ Auth!on_user_promoted_to_admin(e, o, u) \/ Auth!on_user_left_org(e, o, u)
  PROVE  Auth!AuthInv'
  BY OneCall DEF Auth!on_org_created, Auth!on_user_joined_org, Auth!on_user_promoted_to_admin,
                 Auth!on_user_left_org

LEMMA AuthShares ==
  ASSUME Auth!AuthInv, NEW e \in Events, NEW n \in Owned, NEW u \in Users,
         NEW r \in {"collaborator", "tourist"},
         Auth!on_network_shared(e, n, u, r) \/ Auth!on_network_unshared(e, n, u, r)
  PROVE  Auth!AuthInv'
  BY OneCall DEF Auth!on_network_shared, Auth!on_network_unshared

\* A network is created, for the first time or after a creation that failed.
LEMMA AuthCreated ==
  ASSUME Auth!AuthInv, NEW e \in Events, NEW n \in Owned, NEW o \in Orgs, NEW u \in Users,
         Auth!on_network_created(e, n, o, u)
  PROVE  Auth!AuthInv'
  <1> DEFINE calls == <<Auth!Grant(u, "owner", n), Auth!Grant(o, "container", n)>>
             ev == [kind |-> "create", of |-> n, todo |-> calls]
  <1>1. /\ event' = [event EXCEPT ![e] = ev] /\ ev.kind = "create" /\ ev.of = n /\ ev.todo = calls
        /\ models' = models /\ init' = init /\ store' = store /\ tuples' = tuples
        /\ life' = [life EXCEPT ![n] = "create"]
        /\ created' = [m \in DOMAIN created \cup {n} |-> IF m = n THEN <<o, u>> ELSE created[m]]
        /\ life[n] = "none" \/ (life[n] = "create" /\ created[n] = <<o, u>>)
        /\ \A f \in Events : event[f].of = n => event[f].kind \notin {"create", "delete"}
    BY DEF Auth!on_network_created, Auth!BeginLife, Auth!Begin
  <1> HIDE DEF ev
  <1>2. /\ life'[n] = "create" /\ \A m \in Owned \ {n} : life'[m] = life[m]
        /\ life' \in [Owned -> {"none", "create", "created", "delete", "deleted"}]
    BY <1>1, AuthParts
  <1>3. /\ DOMAIN created' = DOMAIN created \cup {n} /\ created'[n] = <<o, u>>
        /\ \A m \in DOMAIN created \ {n} : created'[m] = created[m]
    BY <1>1
  <1>4. DOMAIN created' = {m \in Owned : life'[m] # "none"}
    BY <1>2, <1>3, AuthParts
  <1>5. Auth!LifeInv'
    <2>1. created' \in [{m \in Owned : life'[m] # "none"} -> Orgs \X Users]
      BY <1>1, <1>3, <1>4, AuthParts
    <2>2. \A m \in Owned, q \in Orgs : <<q, "container", m>> \in tuples' => life'[m] # "none"
      BY <1>1, <1>2, AuthParts DEF Auth!LifeInv
    <2> QED
      BY <1>2, <2>1, <2>2 DEF Auth!LifeInv
  <1>6. <<o, "container", n>> \in tuples => <<u, "owner", n>> \in tuples
    <2>1. CASE life[n] = "none"
      BY <2>1, AuthParts DEF Auth!LifeInv
    <2>2. CASE life[n] = "create" /\ created[n] = <<o, u>>
      BY <2>2, AuthParts DEF Auth!TuplesPaired, Auth!HasOwner, Auth!Placed
    <2> QED
      BY <1>1, <2>1, <2>2
  <1>7. life'[n] = "create" /\ (Auth!Placed(n)' => Auth!HasOwner(n)')
    BY <1>1, <1>2, <1>3, <1>6 DEF Auth!HasOwner, Auth!Placed
  <1>8. OthersKept({n}) /\ OnlyAbout({n}, e)
    BY <1>1, <1>2, <1>3, AuthParts DEF OthersKept, OnlyAbout
  <1>9. Auth!TuplesPaired'
    BY <1>7, <1>8, PairedKept
  <1>10. event'[e] = ev /\ ev.todo = <<Auth!Grant(created'[n][2], "owner", n),
                                       Auth!Grant(created'[n][1], "container", n)>>
    BY <1>1, <1>3, AuthParts DEF Auth!EventInv
  <1>11. Auth!Creating(event[e])'
    BY <1>1, <1>7, <1>10 DEF Auth!Creating, Auth!Grant
  <1>12. Auth!EventOK(event[e])'
    BY <1>1, <1>10, <1>11 DEF Auth!EventOK
  <1>13. Auth!EventInv'
    BY <1>1, <1>8, <1>12, EventKept
  <1> QED
    BY <1>1, <1>5, <1>9, <1>13, StartKept DEF Auth!AuthInv, Auth!AuthSound

\* A network's deletion begins, also after one that failed or a creation that did.
LEMMA AuthDeleted ==
  ASSUME Auth!AuthInv, NEW e \in Events, NEW n \in Owned, Auth!on_network_deleted(e, n)
  PROVE  Auth!AuthInv'
  <1> DEFINE calls == <<Auth!Revoke(created[n][2], "owner", n), Auth!Revoke(created[n][1], "container", n)>>
             ev == [kind |-> "delete", of |-> n, todo |-> calls]
  <1>1. /\ event' = [event EXCEPT ![e] = ev] /\ ev.kind = "delete" /\ ev.of = n /\ ev.todo = calls
        /\ models' = models /\ init' = init /\ store' = store /\ tuples' = tuples
        /\ life' = [life EXCEPT ![n] = "delete"] /\ created' = created
        /\ life[n] \in {"create", "created", "delete"}
        /\ \A f \in Events : event[f].of = n => event[f].kind \notin {"create", "delete"}
    BY DEF Auth!on_network_deleted, Auth!BeginLife, Auth!Begin
  <1> HIDE DEF ev
  <1>2. /\ life'[n] = "delete" /\ \A m \in Owned \ {n} : life'[m] = life[m]
        /\ life' \in [Owned -> {"none", "create", "created", "delete", "deleted"}]
    BY <1>1, AuthParts
  <1>3. {m \in Owned : life'[m] # "none"} = {m \in Owned : life[m] # "none"}
    BY <1>1, <1>2
  <1>4. Auth!LifeInv'
    <2>1. created' \in [{m \in Owned : life'[m] # "none"} -> Orgs \X Users]
      BY <1>1, <1>3, AuthParts DEF Auth!LifeInv
    <2>2. \A m \in Owned, q \in Orgs : <<q, "container", m>> \in tuples' => life'[m] # "none"
      BY <1>1, <1>2, AuthParts DEF Auth!LifeInv
    <2> QED
      BY <1>2, <2>1, <2>2 DEF Auth!LifeInv
  <1>5. OthersKept({n}) /\ OnlyAbout({n}, e)
    BY <1>1, <1>2, AuthParts DEF OthersKept, OnlyAbout
  <1>6. Auth!TuplesPaired'
    BY <1>2, <1>5, PairedKept
  <1>7. event'[e] = ev /\ ev.todo = <<Auth!Revoke(created'[n][2], "owner", n),
                                      Auth!Revoke(created'[n][1], "container", n)>>
    BY <1>1, AuthParts DEF Auth!EventInv
  <1>8. Auth!Deleting(event[e])'
    BY <1>1, <1>2, <1>7 DEF Auth!Deleting, Auth!Revoke
  <1>9. Auth!EventOK(event[e])'
    BY <1>1, <1>7, <1>8 DEF Auth!EventOK
  <1>10. Auth!EventInv'
    BY <1>1, <1>5, <1>9, EventKept
  <1> QED
    BY <1>1, <1>4, <1>6, <1>10, StartKept DEF Auth!AuthInv, Auth!AuthSound

\* What is left of an event in flight.
LEMMA EventAt ==
  ASSUME Auth!AuthInv, NEW e \in Events, event[e] # Auth!NoEvent
  PROVE  \/ event[e].kind = "create" /\ Auth!Creating(event[e])
         \/ event[e].kind = "delete" /\ Auth!Deleting(event[e])
         \/ /\ event[e].kind \in {"join", "gone", "share"} /\ event[e].todo # <<>>
            /\ event[e].todo \in Seq([does : {"grant", "revoke"}, tuple : Auth!Elsewhere])
  BY AuthParts DEF Auth!EventInv, Auth!EventOK

\* A call about another relation changes no owner and no organization.
LEMMA ElsewhereApplied ==
  ASSUME NEW c \in [does : {"grant", "revoke"}, tuple : Auth!Elsewhere]
  PROVE  /\ \A n \in Owned, u \in Users :
                <<u, "owner", n>> \in Auth!Apply(c) <=> <<u, "owner", n>> \in tuples
         /\ \A n \in Owned, o \in Orgs :
                <<o, "container", n>> \in Auth!Apply(c) <=> <<o, "container", n>> \in tuples
  <1>1. c.tuple[2] \in {"admin", "member", "collaborator", "tourist"}
    BY DEF Auth!Elsewhere
  <1> QED
    BY <1>1 DEF Auth!Apply

LEMMA RestOfSeq ==
  ASSUME NEW C, NEW s \in Seq(C), s # <<>>
  PROVE  Head(s) \in C /\ Tail(s) \in Seq(C) /\ (Len(s) # 1 => Tail(s) # <<>>)
  <1>1. Len(s) \in Nat /\ Len(s) # 0
    BY EmptySeq, LenProperties
  <1>2. Head(s) \in C /\ Tail(s) \in Seq(C) /\ Len(Tail(s)) = Len(s) - 1
    BY HeadTailProperties
  <1>3. Len(s) # 1 => Len(Tail(s)) # 0
    BY <1>1, <1>2
  <1>4. Len(<<>>) = 0
    OBVIOUS
  <1> QED
    BY <1>2, <1>3, <1>4

\* An event of another kind makes its next call, or ends there.
LEMMA OtherCalls ==
  ASSUME Auth!AuthInv, NEW e \in Events, event[e].kind \in {"join", "gone", "share"},
         event[e] # Auth!NoEvent, Auth!CallReturns(e) \/ Auth!CallFails(e)
  PROVE  Auth!AuthInv'
  <1> DEFINE C == [does : {"grant", "revoke"}, tuple : Auth!Elsewhere]
             todo == event[e].todo
             after == [kind |-> event[e].kind, of |-> event[e].of, todo |-> Tail(todo)]
  <1>1. todo # <<>> /\ todo \in Seq(C)
    BY EventAt
  <1>2. Head(todo) \in C /\ Tail(todo) \in Seq(C) /\ (Len(todo) # 1 => Tail(todo) # <<>>)
    BY <1>1, RestOfSeq
  <1>3. tuples' = tuples \/ tuples' = Auth!Apply(Head(todo))
    BY DEF Auth!CallReturns, Auth!CallFails
  <1>4. /\ \A n \in Owned, u \in Users :
               <<u, "owner", n>> \in tuples' <=> <<u, "owner", n>> \in tuples
        /\ \A n \in Owned, o \in Orgs :
               <<o, "container", n>> \in tuples' <=> <<o, "container", n>> \in tuples
    BY <1>2, <1>3, ElsewhereApplied
  <1>5. /\ models' = models /\ init' = init /\ store' = store /\ created' = created /\ life' = life
        /\ \/ event' = [event EXCEPT ![e] = Auth!NoEvent]
           \/ event' = [event EXCEPT ![e] = after] /\ Len(todo) # 1
    BY DEF Auth!CallReturns, Auth!CallFails
  <1>6. Auth!LifeInv'
    BY <1>4, <1>5, AuthParts DEF Auth!LifeInv
  <1>7. after.kind \in {"join", "gone", "share"} /\ after.todo = Tail(todo)
    OBVIOUS
  <1>8. OthersKept({}) /\ OnlyAbout({}, e)
    BY <1>4, <1>5, AuthParts DEF OthersKept, OnlyAbout
  <1>9. Auth!TuplesPaired'
    BY <1>8, PairedKept
  <1> HIDE DEF todo, after
  <1>10. Auth!EventInv'
    <2>1. CASE event' = [event EXCEPT ![e] = Auth!NoEvent]
      <3>1. Auth!NoEvent.kind = "none" /\ event'[e] = Auth!NoEvent
        BY <2>1, AuthParts DEF Auth!NoEvent, Auth!EventInv
      <3>2. Auth!EventOK(event[e])'
        BY <3>1 DEF Auth!EventOK, Auth!NoEvent
      <3> QED
        BY <1>8, <2>1, <3>1, <3>2, EventKept
    <2>2. CASE event' = [event EXCEPT ![e] = after] /\ Len(todo) # 1
      <3>1. after.todo \in Seq(C) /\ after.todo # <<>> /\ event'[e] = after
        BY <1>2, <1>7, <2>2, AuthParts DEF Auth!EventInv
      <3>2. Auth!EventOK(event[e])'
        BY <1>7, <3>1 DEF Auth!EventOK, Auth!Elsewhere, Auth!Subjects, Auth!Objects
      <3> QED
        BY <1>7, <1>8, <2>2, <3>2, EventKept
    <2> QED
      BY <1>5, <2>1, <2>2
  <1> QED
    BY <1>5, <1>6, <1>9, <1>10, StartKept DEF Auth!AuthInv, Auth!AuthSound

LEMMA TwoCalls ==
  ASSUME NEW c, NEW d
  PROVE  /\ Head(<<c, d>>) = c /\ Tail(<<c, d>>) = <<d>> /\ Len(<<c, d>>) = 2
         /\ Head(<<d>>) = d /\ Len(<<d>>) = 1
  OBVIOUS

\* A creation makes its next call, or ends there: first the owner, then the organization.
LEMMA CreateCalls ==
  ASSUME Auth!AuthInv, NEW e \in Events, NEW n, event[e].of = n,
         event[e].kind = "create", event[e] # Auth!NoEvent,
         Auth!CallReturns(e) \/ Auth!CallFails(e)
  PROVE  Auth!AuthInv'
  <1> DEFINE o == created[n][1]
             u == created[n][2]
             owning == Auth!Grant(u, "owner", n)
             placing == Auth!Grant(o, "container", n)
             todo == event[e].todo
             rest == [kind |-> "create", of |-> n, todo |-> <<placing>>]
  <1>1. /\ n \in Owned /\ life[n] = "create"
        /\ \/ todo = <<owning, placing>>
           \/ todo = <<placing>> /\ Auth!HasOwner(n)
    BY EventAt DEF Auth!Creating
  <1>2. n \in DOMAIN created /\ o \in Orgs /\ u \in Users
    BY <1>1, AuthParts
  <1>3. /\ models' = models /\ init' = init /\ store' = store /\ created' = created
        /\ life' = life \/ (life' = [life EXCEPT ![n] = "created"] /\ Len(todo) = 1
                               /\ tuples' = Auth!Apply(Head(todo)))
        /\ tuples' = tuples \/ tuples' = Auth!Apply(Head(todo))
        /\ \/ event' = [event EXCEPT ![e] = Auth!NoEvent]
           \/ /\ event' = [event EXCEPT ![e] = [kind |-> "create", of |-> n, todo |-> Tail(todo)]]
              /\ Len(todo) # 1 /\ tuples' = Auth!Apply(Head(todo)) /\ life' = life
    BY DEF Auth!CallReturns, Auth!CallFails
  <1>4. /\ Auth!Apply(owning) = tuples \cup {<<u, "owner", n>>}
        /\ Auth!Apply(placing) = tuples \cup {<<o, "container", n>>}
    BY DEF Auth!Apply, Auth!Grant
  <1> HIDE DEF todo, owning, placing
  <1>5. /\ todo = <<owning, placing>> => Head(todo) = owning /\ Tail(todo) = <<placing>> /\ Len(todo) = 2
        /\ todo = <<placing>> => Head(todo) = placing /\ Len(todo) = 1
    <2>1. CASE todo = <<owning, placing>>
      BY <2>1, TwoCalls
    <2>2. CASE todo = <<placing>>
      BY <2>2, TwoCalls
    <2> QED
      BY <2>1, <2>2, TwoCalls
  \* The call gives the owner, or the organization once there is an owner, or nothing.
  <1>6. /\ \/ tuples' = tuples
           \/ tuples' = tuples \cup {<<u, "owner", n>>}
           \/ tuples' = tuples \cup {<<o, "container", n>>} /\ Auth!HasOwner(n)
        /\ \/ life' = life
           \/ /\ life' = [life EXCEPT ![n] = "created"] /\ Auth!HasOwner(n)
              /\ tuples' = tuples \cup {<<o, "container", n>>}
        /\ \/ event' = [event EXCEPT ![e] = Auth!NoEvent]
           \/ event' = [event EXCEPT ![e] = rest] /\ tuples' = tuples \cup {<<u, "owner", n>>}
              /\ life' = life
    <2>1. CASE todo = <<owning, placing>>
      <3>1. Len(todo) # 1 /\ Head(todo) = owning /\ Tail(todo) = <<placing>>
        BY <2>1, <1>5
      <3> QED
        BY <1>3, <1>4, <3>1
    <2>2. CASE todo = <<placing>> /\ Auth!HasOwner(n)
      BY <1>3, <1>4, <1>5, <2>2
    <2> QED
      BY <1>1, <2>1, <2>2
  <1>7. \A m \in Owned \ {n} : life'[m] = life[m]
    BY <1>6, AuthParts
  <1>8. life'[n] \in {"create", "created"} /\ (life'[n] = "created" => life' # life)
    BY <1>1, <1>6, AuthParts
  <1>9. OthersKept({n})
    BY <1>3, <1>6, <1>7, AuthParts DEF OthersKept
  <1>10. OnlyAbout({n}, e)
    BY AuthParts DEF OnlyAbout, Auth!EventInv
  <1>11. Auth!LifeInv'
    <2>1. life' \in [Owned -> {"none", "create", "created", "delete", "deleted"}]
      BY <1>6, AuthParts
    <2>2. {m \in Owned : life'[m] # "none"} = {m \in Owned : life[m] # "none"}
      BY <1>1, <1>7, <1>8
    <2>3. created' \in [{m \in Owned : life'[m] # "none"} -> Orgs \X Users]
      BY <1>3, <2>2, AuthParts DEF Auth!LifeInv
    <2>4. \A m \in Owned, q \in Orgs : <<q, "container", m>> \in tuples' => life'[m] # "none"
      BY <1>6, <1>7, <1>8, AuthParts DEF Auth!LifeInv
    <2> QED
      BY <2>1, <2>3, <2>4 DEF Auth!LifeInv
  <1>12. Auth!TuplesPaired'
    <2>1. Auth!Placed(n) => Auth!HasOwner(n)
      BY <1>1, <1>2, AuthParts DEF Auth!TuplesPaired
    <2>2. Auth!Placed(n)' => Auth!HasOwner(n)'
      BY <1>3, <1>6, <2>1 DEF Auth!HasOwner, Auth!Placed
    <2>3. life'[n] = "created" => Auth!HasOwner(n)' /\ Auth!Placed(n)'
      BY <1>3, <1>6, <1>8 DEF Auth!HasOwner, Auth!Placed
    <2> QED
      BY <1>8, <1>9, <2>2, <2>3, PairedKept
  <1>13. Auth!EventInv'
    <2>1. CASE event' = [event EXCEPT ![e] = Auth!NoEvent]
      <3>1. Auth!NoEvent.kind = "none" /\ event'[e] = Auth!NoEvent
        BY <2>1, AuthParts DEF Auth!NoEvent, Auth!EventInv
      <3>2. Auth!EventOK(event[e])'
        BY <3>1 DEF Auth!EventOK, Auth!NoEvent
      <3> QED
        BY <1>1, <1>9, <1>10, <2>1, <3>1, <3>2, EventKept
    <2>2. CASE event' = [event EXCEPT ![e] = rest] /\ tuples' = tuples \cup {<<u, "owner", n>>}
               /\ life' = life
      <3>1. event'[e] = rest /\ rest.kind = "create" /\ rest.of = n /\ rest.todo = <<placing>>
        BY <2>2, AuthParts DEF Auth!EventInv
      <3>2. Auth!HasOwner(n)' /\ life'[n] = "create"
        BY <1>1, <1>3, <2>2 DEF Auth!HasOwner
      <3>3. Auth!Creating(event[e])'
        BY <1>1, <1>3, <3>1, <3>2 DEF Auth!Creating, placing
      <3>4. Auth!EventOK(event[e])'
        BY <3>1, <3>3 DEF Auth!EventOK
      <3> HIDE DEF rest
      <3> QED
        BY <1>1, <1>9, <1>10, <2>2, <3>1, <3>4, EventKept
    <2> QED
      BY <1>6, <2>1, <2>2
  <1> QED
    BY <1>3, <1>11, <1>12, <1>13, StartKept DEF Auth!AuthInv, Auth!AuthSound

\* A deletion makes its next call, or ends there: first the owner goes, then the organization.
LEMMA DeleteCalls ==
  ASSUME Auth!AuthInv, NEW e \in Events, NEW n, event[e].of = n,
         event[e].kind = "delete", event[e] # Auth!NoEvent,
         Auth!CallReturns(e) \/ Auth!CallFails(e)
  PROVE  Auth!AuthInv'
  <1> DEFINE o == created[n][1]
             u == created[n][2]
             disowning == Auth!Revoke(u, "owner", n)
             removing == Auth!Revoke(o, "container", n)
             todo == event[e].todo
             rest == [kind |-> "delete", of |-> n, todo |-> <<removing>>]
  <1>1. /\ n \in Owned /\ life[n] = "delete"
        /\ \/ todo = <<disowning, removing>>
           \/ todo = <<removing>> /\ ~Auth!HasOwner(n)
    BY EventAt DEF Auth!Deleting
  <1>2. n \in DOMAIN created /\ o \in Orgs /\ u \in Users
    BY <1>1, AuthParts
  <1>3. /\ models' = models /\ init' = init /\ store' = store /\ created' = created
        /\ life' = life \/ (life' = [life EXCEPT ![n] = "deleted"] /\ Len(todo) = 1
                               /\ tuples' = Auth!Apply(Head(todo)))
        /\ tuples' = tuples \/ tuples' = Auth!Apply(Head(todo))
        /\ \/ event' = [event EXCEPT ![e] = Auth!NoEvent]
           \/ /\ event' = [event EXCEPT ![e] = [kind |-> "delete", of |-> n, todo |-> Tail(todo)]]
              /\ Len(todo) # 1 /\ tuples' = Auth!Apply(Head(todo)) /\ life' = life
    BY DEF Auth!CallReturns, Auth!CallFails
  <1>4. /\ Auth!Apply(disowning) = tuples \ {<<u, "owner", n>>}
        /\ Auth!Apply(removing) = tuples \ {<<o, "container", n>>}
    BY DEF Auth!Apply, Auth!Revoke
  <1> HIDE DEF todo, disowning, removing
  <1>5. /\ todo = <<disowning, removing>> =>
                 Head(todo) = disowning /\ Tail(todo) = <<removing>> /\ Len(todo) = 2
        /\ todo = <<removing>> => Head(todo) = removing /\ Len(todo) = 1
    <2>1. CASE todo = <<disowning, removing>>
      BY <2>1, TwoCalls
    <2>2. CASE todo = <<removing>>
      BY <2>2, TwoCalls
    <2> QED
      BY <2>1, <2>2, TwoCalls
  <1>6. /\ \/ tuples' = tuples
           \/ tuples' = tuples \ {<<u, "owner", n>>}
           \/ tuples' = tuples \ {<<o, "container", n>>}
        /\ \/ life' = life
           \/ /\ life' = [life EXCEPT ![n] = "deleted"] /\ ~Auth!HasOwner(n)
              /\ tuples' = tuples \ {<<o, "container", n>>}
        /\ \/ event' = [event EXCEPT ![e] = Auth!NoEvent]
           \/ event' = [event EXCEPT ![e] = rest] /\ tuples' = tuples \ {<<u, "owner", n>>}
              /\ life' = life
    <2>1. CASE todo = <<disowning, removing>>
      <3>1. Len(todo) # 1 /\ Head(todo) = disowning /\ Tail(todo) = <<removing>>
        BY <2>1, <1>5
      <3> QED
        BY <1>3, <1>4, <3>1
    <2>2. CASE todo = <<removing>> /\ ~Auth!HasOwner(n)
      BY <1>3, <1>4, <1>5, <2>2
    <2> QED
      BY <1>1, <2>1, <2>2
  <1>7. \A m \in Owned \ {n} : life'[m] = life[m]
    BY <1>6, AuthParts
  <1>8. life'[n] \in {"delete", "deleted"} /\ (life'[n] = "deleted" => life' # life)
    BY <1>1, <1>6, AuthParts
  <1>9. OthersKept({n})
    BY <1>3, <1>6, <1>7, AuthParts DEF OthersKept
  <1>10. OnlyAbout({n}, e)
    BY AuthParts DEF OnlyAbout, Auth!EventInv
  <1>11. Auth!LifeInv'
    <2>1. life' \in [Owned -> {"none", "create", "created", "delete", "deleted"}]
      BY <1>6, AuthParts
    <2>2. {m \in Owned : life'[m] # "none"} = {m \in Owned : life[m] # "none"}
      BY <1>1, <1>7, <1>8
    <2>3. created' \in [{m \in Owned : life'[m] # "none"} -> Orgs \X Users]
      BY <1>3, <2>2, AuthParts DEF Auth!LifeInv
    <2>4. \A m \in Owned, q \in Orgs : <<q, "container", m>> \in tuples' => life'[m] # "none"
      BY <1>6, <1>7, <1>8, AuthParts DEF Auth!LifeInv
    <2> QED
      BY <2>1, <2>3, <2>4 DEF Auth!LifeInv
  <1>12. Auth!TuplesPaired'
    <2>1. life'[n] = "deleted" => ~Auth!HasOwner(n)' /\ ~Auth!Placed(n)'
      BY <1>3, <1>6, <1>8 DEF Auth!HasOwner, Auth!Placed
    <2> QED
      BY <1>8, <1>9, <2>1, PairedKept
  <1>13. Auth!EventInv'
    <2>1. CASE event' = [event EXCEPT ![e] = Auth!NoEvent]
      <3>1. Auth!NoEvent.kind = "none" /\ event'[e] = Auth!NoEvent
        BY <2>1, AuthParts DEF Auth!NoEvent, Auth!EventInv
      <3>2. Auth!EventOK(event[e])'
        BY <3>1 DEF Auth!EventOK, Auth!NoEvent
      <3> QED
        BY <1>1, <1>9, <1>10, <2>1, <3>1, <3>2, EventKept
    <2>2. CASE event' = [event EXCEPT ![e] = rest] /\ tuples' = tuples \ {<<u, "owner", n>>}
               /\ life' = life
      <3>1. event'[e] = rest /\ rest.kind = "delete" /\ rest.of = n /\ rest.todo = <<removing>>
        BY <2>2, AuthParts DEF Auth!EventInv
      <3>2. ~Auth!HasOwner(n)' /\ life'[n] = "delete"
        BY <1>1, <1>3, <2>2 DEF Auth!HasOwner
      <3>3. Auth!Deleting(event[e])'
        BY <1>1, <1>3, <3>1, <3>2 DEF Auth!Deleting, removing
      <3>4. Auth!EventOK(event[e])'
        BY <3>1, <3>3 DEF Auth!EventOK
      <3> HIDE DEF rest
      <3> QED
        BY <1>1, <1>9, <1>10, <2>2, <3>1, <3>4, EventKept
    <2> QED
      BY <1>6, <2>1, <2>2
  <1> QED
    BY <1>3, <1>11, <1>12, <1>13, StartKept DEF Auth!AuthInv, Auth!AuthSound

LEMMA AuthCalls ==
  ASSUME Auth!AuthInv, NEW e \in Events, Auth!CallReturns(e) \/ Auth!CallFails(e)
  PROVE  Auth!AuthInv'
  <1>1. event[e] # Auth!NoEvent
    BY DEF Auth!CallReturns, Auth!CallFails
  <1> QED
    BY <1>1, EventAt, OtherCalls, CreateCalls, DeleteCalls

LEMMA AuthBegins == Auth!Init => Auth!AuthInv
  <1> SUFFICES ASSUME Auth!Init PROVE Auth!AuthInv
    OBVIOUS
  <1>1. /\ models = <<>> /\ tuples = {} /\ init = "down" /\ created = <<>> /\ DOMAIN created = {}
        /\ event = [e \in Events |-> Auth!NoEvent] /\ life = [n \in Owned |-> "none"]
    BY DEF Auth!Init
  <1>2. Auth!StartInv /\ Auth!OneStore
    BY <1>1 DEF Auth!StartInv, Auth!OneStore
  <1>3. {n \in Owned : life[n] # "none"} = {}
    BY <1>1
  <1>4. created \in [{} -> Orgs \X Users]
    BY <1>1
  <1>5. Auth!LifeInv
    BY <1>1, <1>3, <1>4 DEF Auth!LifeInv
  <1>6. Auth!EventInv
    BY <1>1 DEF Auth!EventInv, Auth!EventOK, Auth!NoEvent
  <1>7. Auth!TuplesPaired
    BY <1>1 DEF Auth!TuplesPaired
  <1> QED
    BY <1>2, <1>5, <1>6, <1>7 DEF Auth!AuthInv, Auth!AuthSound

LEMMA AuthNext == Auth!AuthInv /\ [Auth!Next]_authVars => Auth!AuthInv'
  <1> SUFFICES ASSUME Auth!AuthInv, [Auth!Next]_authVars PROVE Auth!AuthInv'
    OBVIOUS
  <1>1. CASE Auth!Next
    <2>1. ASSUME NEW e \in Events, Auth!Event(e) PROVE Auth!AuthInv'
      <3>1. ASSUME NEW o \in Orgs, NEW u \in Users,
                   \/ Auth!on_org_created(e, o, u) \/ Auth!on_user_joined_org(e, o, u)
                   \/ Auth!on_user_promoted_to_admin(e, o, u) \/ Auth!on_user_left_org(e, o, u)
            PROVE  Auth!AuthInv'
        BY <3>1, AuthOthers
      <3>2. ASSUME NEW o \in Orgs, NEW u \in Users, NEW n \in Owned,
                   Auth!on_network_created(e, n, o, u)
            PROVE  Auth!AuthInv'
        BY <3>2, AuthCreated
      <3>3. ASSUME NEW o \in Orgs, NEW us \in Auth!Bijection(1 .. Auth!Cardinality(Users), Users),
                   Auth!on_org_deleted(e, o, us)
            PROVE  Auth!AuthInv'
        BY <3>3, AuthOrgDeleted
      <3>4. ASSUME NEW n \in Owned, Auth!on_network_deleted(e, n)
            PROVE  Auth!AuthInv'
        BY <3>4, AuthDeleted
      <3>5. ASSUME NEW n \in Owned, NEW u \in Users, NEW r \in {"collaborator", "tourist"},
                   Auth!on_network_shared(e, n, u, r) \/ Auth!on_network_unshared(e, n, u, r)
            PROVE  Auth!AuthInv'
        BY <3>5, AuthShares
      <3> QED
        BY <2>1, <3>1, <3>2, <3>3, <3>4, <3>5, AuthCalls DEF Auth!Event
    <2> QED
      BY <1>1, <2>1, AuthStart DEF Auth!Next
  <1>2. CASE UNCHANGED authVars
    <2>1. Auth!LifeInv' /\ Auth!EventInv' /\ Auth!TuplesPaired'
      BY <1>2, NetworksKept DEF authVars
    <2> QED
      BY <1>2, <2>1, StartKept DEF authVars, Auth!AuthInv, Auth!AuthSound
  <1> QED
    BY <1>1, <1>2

\* The startup keeps the types.
LEMMA TypesAtStart ==
  ASSUME Auth!TypeOK, Auth!AuthInv,
         \/ Auth!Start \/ Auth!ListStores \/ Auth!CreateStore \/ Auth!ReadModels \/ Auth!WriteModel
         \/ Auth!Bootstrap \/ Auth!StartupFails \/ Auth!Stop
  PROVE  Auth!TypeOK'
  <1> USE DEF Auth!TypeOK, Auth!goto
  <1>1. /\ created' = created /\ life' = life
        /\ event' = event \/ event' = [e \in Events |-> Auth!NoEvent]
    BY DEF Auth!Start, Auth!ListStores, Auth!CreateStore, Auth!ReadModels, Auth!WriteModel,
           Auth!Bootstrap, Auth!StartupFails, Auth!Stop
  <1>2. event' \in [Events -> Auth!Pending \cup {Auth!NoEvent}]
    BY <1>1
  <1>3. init' \in {"down", "list", "create", "models", "write", "bootstrap", "up", "off"}
    BY DEF Auth!Start, Auth!ListStores, Auth!CreateStore, Auth!ReadModels, Auth!WriteModel,
           Auth!Bootstrap, Auth!StartupFails, Auth!Stop
  <1>4. /\ models' \in Seq(0..1) /\ Len(models') <= MaxStores /\ store' \in 0..MaxStores
        /\ Auth!StartInv'
    <2>1. Auth!StartInv'
      BY AuthStart DEF Auth!AuthInv
    <2>2. models' \in Seq(0..1)
      BY <2>1 DEF Auth!StartInv
    <2>3. MaxStores \in Nat /\ Len(models) \in Nat
      BY BoundsAssumption
    <2>4. CASE Auth!ListStores
      <3>1. models # <<>> => Len(models) # 0
        BY EmptySeq
      <3>2. models # <<>> => 1 \in 0..MaxStores
        BY <2>3, <3>1
      <3> QED
        BY <2>1, <2>2, <2>4, <3>2 DEF Auth!ListStores
    <2>5. CASE Auth!CreateStore
      <3>1. models' = Append(models, 0) /\ Len(models) < MaxStores /\ store' \in {store, Len(models')}
        BY <2>5 DEF Auth!CreateStore
      <3>2. Len(models') = Len(models) + 1
        BY <3>1
      <3> QED
        BY <2>1, <2>2, <2>3, <3>1, <3>2
    <2>6. CASE Auth!WriteModel
      <3>1. models' = [models EXCEPT ![store] = models[store] + 1] /\ store' = store
        BY <2>6 DEF Auth!WriteModel
      <3>2. Len(models') = Len(models)
        BY <3>1
      <3> QED
        BY <2>1, <2>2, <3>1, <3>2
    <2>7. CASE Auth!Start \/ Auth!ReadModels \/ Auth!Bootstrap \/ Auth!StartupFails \/ Auth!Stop
      <3>1. models' = models /\ store' \in {store, 0}
        BY <2>7 DEF Auth!Start, Auth!ReadModels, Auth!Bootstrap, Auth!StartupFails, Auth!Stop
      <3> QED
        BY <2>1, <2>2, <2>3, <3>1
    <2> QED
      BY <2>4, <2>5, <2>6, <2>7
  <1>5. tuples' \subseteq Auth!Tuple /\ toBootstrap' \subseteq Builtins
    <2>1. CASE Auth!Bootstrap
      <3>1. \A n \in Builtins : <<Everyone, "tourist", n>> \in Auth!Tuple
        BY DEF Auth!Tuple, Auth!Subjects, Auth!Objects
      <3> QED
        BY <2>1, <3>1 DEF Auth!Bootstrap
    <2>2. CASE ~Auth!Bootstrap
      BY <2>2 DEF Auth!Start, Auth!ListStores, Auth!CreateStore, Auth!ReadModels, Auth!WriteModel,
                  Auth!StartupFails, Auth!Stop
    <2> QED
      BY <2>1, <2>2
  <1> QED
    BY <1>1, <1>2, <1>3, <1>4, <1>5

\* An event with calls that are calls is one that may be in flight.
LEMMA EventBegun ==
  ASSUME NEW kind, NEW o, NEW calls \in Seq(Auth!Call),
         \/ kind \in {"join", "gone"} /\ o \in Orgs
         \/ kind \in {"create", "delete", "share"} /\ o \in Owned
  PROVE  [kind |-> kind, of |-> o, todo |-> calls] \in Auth!Pending
  BY DEF Auth!Pending

\* So an event that begins with such calls keeps the types.
LEMMA TypesAtBegin ==
  ASSUME Auth!TypeOK, NEW e \in Events, NEW kind, NEW o, NEW calls \in Seq(Auth!Call),
         \/ kind \in {"join", "gone"} /\ o \in Orgs
         \/ kind \in {"create", "delete", "share"} /\ o \in Owned,
         Auth!Begin(e, kind, o, calls),
         DOMAIN created' \subseteq Owned,
         life' \in [Owned -> {"none", "create", "created", "delete", "deleted"}]
  PROVE  Auth!TypeOK'
  <1> DEFINE ev == [kind |-> kind, of |-> o, todo |-> calls]
  <1>1. ev \in Auth!Pending
    BY EventBegun
  <1>2. event' = [event EXCEPT ![e] = ev] /\ UNCHANGED <<models, tuples, init, store, toBootstrap>>
    BY DEF Auth!Begin
  <1> HIDE DEF ev
  <1> QED
    BY <1>1, <1>2 DEF Auth!TypeOK

\* A call about a tuple is one.
LEMMA CallsTyped ==
  /\ \A u \in Users, o \in Orgs \cup Owned,
        r \in {"admin", "member", "owner", "collaborator", "tourist"} :
          Auth!Grant(u, r, o) \in Auth!Call /\ Auth!Revoke(u, r, o) \in Auth!Call
  /\ \A o \in Orgs, n \in Owned :
          /\ Auth!Grant(o, "container", n) \in Auth!Call
          /\ Auth!Revoke(o, "container", n) \in Auth!Call
  BY DEF Auth!Grant, Auth!Revoke, Auth!Call, Auth!Tuple, Auth!Subjects, Auth!Objects

LEMMA TypesAtOrg ==
  ASSUME Auth!TypeOK, NEW e \in Events, NEW o \in Orgs, NEW u \in Users,
         \/ Auth!on_org_created(e, o, u) \/ Auth!on_user_joined_org(e, o, u)
         \/ Auth!on_user_promoted_to_admin(e, o, u) \/ Auth!on_user_left_org(e, o, u)
  PROVE  Auth!TypeOK'
  <1> DEFINE C == Auth!Call
  <1>1. /\ DOMAIN created' \subseteq Owned
        /\ life' \in [Owned -> {"none", "create", "created", "delete", "deleted"}]
    BY DEF Auth!on_org_created, Auth!on_user_joined_org, Auth!on_user_promoted_to_admin,
           Auth!on_user_left_org, Auth!Rest, Auth!TypeOK
  <1>2. \A r \in {"admin", "member"} : Auth!Grant(u, r, o) \in C /\ Auth!Revoke(u, r, o) \in C
    BY CallsTyped
  <1> HIDE DEF C
  <1>3. /\ <<Auth!Grant(u, "admin", o)>> \in Seq(C) /\ <<Auth!Grant(u, "member", o)>> \in Seq(C)
        /\ <<Auth!Revoke(u, "member", o), Auth!Revoke(u, "admin", o)>> \in Seq(C)
    BY <1>2
  <1>4. \A calls \in Seq(C) : Auth!Begin(e, "join", o, calls) => Auth!TypeOK'
    BY <1>1, TypesAtBegin DEF C
  <1> QED
    BY <1>3, <1>4 DEF Auth!on_org_created, Auth!on_user_joined_org, Auth!on_user_promoted_to_admin,
                      Auth!on_user_left_org

LEMMA TypesAtOrgDeleted ==
  ASSUME Auth!TypeOK, NEW e \in Events, NEW o \in Orgs,
         NEW us \in Auth!Bijection(1 .. Auth!Cardinality(Users), Users),
         Auth!on_org_deleted(e, o, us)
  PROVE  Auth!TypeOK'
  <1> DEFINE C == Auth!Call
             n == Len(us)
             member(i) == us[(i + 1) \div 2]
             calls == [i \in 1 .. 2 * n |->
                          Auth!Revoke(member(i), IF i % 2 = 1 THEN "member" ELSE "admin", o)]
  <1>1. us \in Seq(Users) /\ n \in Nat
    <2>1. Cardinality(Users) \in Nat /\ us \in [1 .. Auth!Cardinality(Users) -> Users]
      BY UsersAssumption, FS_CardinalityType DEF Auth!Bijection, Auth!Injection
    <2>2. Auth!Cardinality(Users) = Cardinality(Users)
      BY DEF Auth!Cardinality, Cardinality
    <2> QED
      BY <2>1, <2>2
  <1>2. ASSUME NEW i \in 1 .. 2 * n PROVE member(i) \in Users
    <2>1. (i + 1) \div 2 \in 1 .. n
      BY <1>1
    <2> QED
      BY <1>1, <2>1
  <1>3. Auth!Begin(e, "gone", o, calls)
    BY DEF Auth!on_org_deleted
  <1>4. /\ DOMAIN created' \subseteq Owned
        /\ life' \in [Owned -> {"none", "create", "created", "delete", "deleted"}]
    BY DEF Auth!on_org_deleted, Auth!Rest, Auth!TypeOK
  <1> HIDE DEF member
  <1>5. \A i \in 1 .. 2 * n : Auth!Revoke(member(i), IF i % 2 = 1 THEN "member" ELSE "admin", o) \in C
    BY <1>2, CallsTyped
  <1> HIDE DEF C, n
  <1>6. calls \in Seq(C)
    BY <1>1, <1>5
  <1> HIDE DEF calls
  <1> QED
    BY <1>3, <1>4, <1>6, TypesAtBegin DEF C

LEMMA TypesAtCreated ==
  ASSUME Auth!TypeOK, NEW e \in Events, NEW n \in Owned, NEW o \in Orgs, NEW u \in Users,
         Auth!on_network_created(e, n, o, u)
  PROVE  Auth!TypeOK'
  <1> DEFINE C == Auth!Call
             calls == <<Auth!Grant(u, "owner", n), Auth!Grant(o, "container", n)>>
  <1>1. Auth!Begin(e, "create", n, calls)
    BY DEF Auth!on_network_created, Auth!BeginLife
  <1>2. DOMAIN created' \subseteq Owned
    BY DEF Auth!on_network_created, Auth!TypeOK
  <1>3. life' \in [Owned -> {"none", "create", "created", "delete", "deleted"}]
    BY DEF Auth!on_network_created, Auth!BeginLife, Auth!TypeOK
  <1>4. Auth!Grant(u, "owner", n) \in C /\ Auth!Grant(o, "container", n) \in C
    BY CallsTyped
  <1> HIDE DEF C
  <1>5. calls \in Seq(C)
    BY <1>4
  <1> HIDE DEF calls
  <1> QED
    BY <1>1, <1>2, <1>3, <1>5, TypesAtBegin DEF C

LEMMA TypesAtDeleted ==
  ASSUME Auth!TypeOK, Auth!AuthInv, NEW e \in Events, NEW n \in Owned, Auth!on_network_deleted(e, n)
  PROVE  Auth!TypeOK'
  <1> DEFINE C == Auth!Call
             o == created[n][1]
             u == created[n][2]
             calls == <<Auth!Revoke(u, "owner", n), Auth!Revoke(o, "container", n)>>
  <1>1. Auth!Begin(e, "delete", n, calls)
    BY DEF Auth!on_network_deleted, Auth!BeginLife
  <1>2. DOMAIN created' \subseteq Owned
    BY DEF Auth!on_network_deleted, Auth!TypeOK
  <1>3. life' \in [Owned -> {"none", "create", "created", "delete", "deleted"}]
    BY DEF Auth!on_network_deleted, Auth!BeginLife, Auth!TypeOK
  <1>4. o \in Orgs /\ u \in Users
    BY AuthParts DEF Auth!on_network_deleted
  <1>5. Auth!Revoke(u, "owner", n) \in C /\ Auth!Revoke(o, "container", n) \in C
    BY <1>4, CallsTyped
  <1> HIDE DEF C, o, u
  <1>6. calls \in Seq(C)
    BY <1>5
  <1> HIDE DEF calls
  <1> QED
    BY <1>1, <1>2, <1>3, <1>6, TypesAtBegin DEF C

LEMMA TypesAtShare ==
  ASSUME Auth!TypeOK, NEW e \in Events, NEW n \in Owned, NEW u \in Users,
         NEW r \in {"collaborator", "tourist"},
         Auth!on_network_shared(e, n, u, r) \/ Auth!on_network_unshared(e, n, u, r)
  PROVE  Auth!TypeOK'
  <1> DEFINE C == Auth!Call
  <1>1. /\ DOMAIN created' \subseteq Owned
        /\ life' \in [Owned -> {"none", "create", "created", "delete", "deleted"}]
    BY DEF Auth!on_network_shared, Auth!on_network_unshared, Auth!Rest, Auth!TypeOK
  <1>2. Auth!Grant(u, r, n) \in C /\ Auth!Revoke(u, r, n) \in C
    BY CallsTyped
  <1> HIDE DEF C
  <1>3. <<Auth!Grant(u, r, n)>> \in Seq(C) /\ <<Auth!Revoke(u, r, n)>> \in Seq(C)
    BY <1>2
  <1>4. \A calls \in Seq(C) : Auth!Begin(e, "share", n, calls) => Auth!TypeOK'
    BY <1>1, TypesAtBegin DEF C
  <1> QED
    BY <1>3, <1>4 DEF Auth!on_network_shared, Auth!on_network_unshared

\* An event in flight has a call left, on one of the tuples, and what is left after it are calls.
LEMMA NextCall ==
  ASSUME Auth!TypeOK, Auth!AuthInv, NEW e \in Events, event[e] # Auth!NoEvent
  PROVE  /\ event[e] \in Auth!Pending
         /\ Head(event[e].todo) \in Auth!Call
         /\ Tail(event[e].todo) \in Seq(Auth!Call)
  <1> DEFINE C == Auth!Call
             todo == event[e].todo
  <1>1. event[e] \in Auth!Pending
    BY DEF Auth!TypeOK
  <1>2. todo \in Seq(C)
    BY <1>1 DEF Auth!Pending
  <1>3. todo # <<>>
    BY EventAt DEF Auth!Creating, Auth!Deleting
  <1> HIDE DEF C, todo
  <1>4. Head(todo) \in C /\ Tail(todo) \in Seq(C)
    BY <1>2, <1>3
  <1> QED
    BY <1>1, <1>4 DEF C, todo

LEMMA TypesAtCall ==
  ASSUME Auth!TypeOK, Auth!AuthInv, NEW e \in Events, Auth!CallReturns(e) \/ Auth!CallFails(e)
  PROVE  Auth!TypeOK'
  <1> DEFINE todo == event[e].todo
             rest == [kind |-> event[e].kind, of |-> event[e].of, todo |-> Tail(todo)]
  <1>0. event[e] # Auth!NoEvent
    BY DEF Auth!CallReturns, Auth!CallFails
  <1>1. event[e] \in Auth!Pending /\ Head(todo) \in Auth!Call /\ Tail(todo) \in Seq(Auth!Call)
    BY <1>0, NextCall
  <1>2. rest \in Auth!Pending
    BY <1>1 DEF Auth!Pending
  <1>3. /\ UNCHANGED <<models, init, store, toBootstrap, created>>
        /\ tuples' \in {tuples, Auth!Apply(Head(todo))}
        /\ \/ event' = [event EXCEPT ![e] = Auth!NoEvent]
           \/ event' = [event EXCEPT ![e] = rest]
        /\ \/ life' = life
           \/ life' = [life EXCEPT ![event[e].of] = "created"]
           \/ life' = [life EXCEPT ![event[e].of] = "deleted"]
    BY DEF Auth!CallReturns, Auth!CallFails
  <1>4. life' \in [Owned -> {"none", "create", "created", "delete", "deleted"}]
    BY <1>3 DEF Auth!TypeOK
  <1>5. Head(todo).tuple \in Auth!Tuple
    BY <1>1 DEF Auth!Call
  <1> HIDE DEF todo, rest
  <1>6. tuples' \subseteq Auth!Tuple
    BY <1>3, <1>5 DEF Auth!Apply, Auth!TypeOK
  <1> QED
    BY <1>2, <1>3, <1>4, <1>6 DEF Auth!TypeOK

LEMMA AuthTypesBegin == Auth!Init => Auth!TypeOK
  <1> SUFFICES ASSUME Auth!Init PROVE Auth!TypeOK
    OBVIOUS
  <1>1. models \in Seq(0..1) /\ Len(models) = 0 /\ DOMAIN created = {}
    BY DEF Auth!Init
  <1>2. MaxStores \in Nat
    BY BoundsAssumption
  <1> QED
    BY <1>1, <1>2 DEF Auth!Init, Auth!TypeOK

LEMMA AuthTypesKept ==
  Auth!TypeOK /\ Auth!AuthInv /\ [Auth!Next]_authVars => Auth!TypeOK'
  <1> SUFFICES ASSUME Auth!TypeOK, Auth!AuthInv, [Auth!Next]_authVars PROVE Auth!TypeOK'
    OBVIOUS
  <1>1. CASE Auth!Next
    <2>1. ASSUME NEW e \in Events, Auth!Event(e) PROVE Auth!TypeOK'
      BY <2>1, TypesAtOrg, TypesAtOrgDeleted, TypesAtCreated, TypesAtDeleted, TypesAtShare,
         TypesAtCall DEF Auth!Event
    <2> QED
      BY <1>1, <2>1, TypesAtStart DEF Auth!Next
  <1>2. CASE UNCHANGED authVars
    BY <1>2 DEF authVars, Auth!TypeOK
  <1> QED
    BY <1>1, <1>2

\* Startup that is cut short any number of times leaves one store and one model
\* (CruseOpenFGAClient.init), and a network's owner and organization come and go together,
\* across restarts and calls that fail with or without their effect (on_network_created and
\* on_network_deleted of TupleManager).
THEOREM TuplesAreSound == Spec => []AuthSound
  <1> DEFINE I == part = "auth" => Auth!AuthInv
  <1>1. Init => I
    BY AuthBegins DEF Init
  <1>2. I /\ [Next]_vars => I'
    <2> SUFFICES ASSUME I, [Next]_vars, part' = "auth" PROVE Auth!AuthInv'
      OBVIOUS
    <2>1. part = "auth" /\ [Auth!Next]_authVars
      BY DEF Next, vars, Still, JwksStep, BoardStep, AuthStep, DrawerStep, BridgeStep, DesignStep,
             SlackStep, MemoryStep, VectorsStep, NewsStep, SettingsStep, FeedbackStep, BlocksStep
    <2> QED
      BY <2>1, AuthNext
  <1>3. I => AuthSound
    BY DEF AuthSound, Auth!AuthInv
  <1> QED
    BY <1>1, <1>2, <1>3, PTL DEF Spec

-----------------------------------------------------------------------------
(* UsageDashboard                                                          *)

\* The instance's copies of the operators on sets.
LEMMA BoardSets == /\ \A S : Board!Cardinality(S) = Cardinality(S)
                   /\ \A S : Board!IsFiniteSet(S) <=> IsFiniteSet(S)
  BY DEF Board!Cardinality, Cardinality, Board!IsFiniteSet, IsFiniteSet

\* The pairs of a group and one of as many as are in it.
Tally(R, K, key) == UNION {{k} \X (1..Cardinality({i \in R : key[i] = k})) : k \in K}

\* As many as there are in the groups of a set, by any key, there are in the set.
LEMMA Grouped ==
  ASSUME NEW R, IsFiniteSet(R), NEW K, NEW key \in [R -> K]
  PROVE  Cardinality(Tally(R, K, key)) = Cardinality(R)
  <1> DEFINE G(k) == {i \in R : key[i] = k}
             n(k) == Cardinality(G(k))
             T == UNION {{k} \X (1..n(k)) : k \in K}
             b == [k \in K |-> CHOOSE f : f \in Bijection(1..n(k), G(k))]
             h == [p \in T |-> b[p[1]][p[2]]]
  <1>1. ASSUME NEW k \in K PROVE b[k] \in Bijection(1..n(k), G(k))
    <2>1. IsFiniteSet(G(k))
      BY FS_Subset
    <2>2. \E f : f \in Bijection(1..n(k), G(k))
      BY <2>1, FS_CardinalityType DEF ExistsBijection
    <2> QED
      BY <2>2
  <1>2. ASSUME NEW p \in T PROVE p[1] \in K /\ p[2] \in 1..n(p[1]) /\ p = <<p[1], p[2]>>
    <2>1. PICK k \in K : p \in {k} \X (1..n(k))
      OBVIOUS
    <2> HIDE DEF n, T
    <2>2. p[1] \in {k} /\ p[2] \in 1..n(k) /\ p = <<p[1], p[2]>>
      BY <2>1
    <2> QED
      BY <2>2
  <1>3. ASSUME NEW k \in K, NEW j \in 1..n(k) PROVE <<k, j>> \in T
    <2>1. <<k, j>> \in {k} \X (1..n(k))
      OBVIOUS
    <2> HIDE DEF n
    <2> QED
      BY <2>1
  <1> HIDE DEF n, G, T, b
  <1>4. ASSUME NEW k \in K
        PROVE /\ \A j \in 1..n(k) : b[k][j] \in G(k)
              /\ \A i, j \in 1..n(k) : b[k][i] = b[k][j] => i = j
              /\ \A x \in G(k) : \E j \in 1..n(k) : b[k][j] = x
    BY <1>1 DEF Bijection, Injection, Surjection, IsInjective
  <1>5. ASSUME NEW p \in T PROVE h[p] \in G(p[1])
    BY <1>2, <1>4
  <1>6. h \in [T -> R]
    BY <1>5 DEF G
  <1>7. ASSUME NEW p \in T, NEW q \in T, h[p] = h[q] PROVE p = q
    <2>1. p[1] = q[1]
      BY <1>5, <1>7 DEF G
    <2>2. p[2] = q[2]
      BY <2>1, <1>2, <1>4, <1>7
    <2> QED
      BY <2>1, <2>2, <1>2
  <1>8. ASSUME NEW x \in R PROVE \E p \in T : h[p] = x
    <2>1. key[x] \in K /\ x \in G(key[x])
      BY DEF G
    <2>2. PICK j \in 1..n(key[x]) : b[key[x]][j] = x
      BY <2>1, <1>4
    <2>3. <<key[x], j>> \in T
      BY <2>1, <1>3
    <2> QED
      BY <2>2, <2>3
  <1> HIDE DEF h
  <1>9. h \in Injection(T, R) /\ h \in Surjection(T, R)
    BY <1>6, <1>7, <1>8 DEF Injection, Surjection, IsInjective
  <1>10. Cardinality(T) = Cardinality(R)
    BY <1>9, FS_Injection
  <1> QED
    BY <1>10 DEF T, n, G, Tally

\* What is in the table, and which rows a statement reads, said without the instance.
LEMMA BoardParts ==
  ASSUME Board!BoardInv
  PROVE  /\ rows \in Seq(Board!Row) /\ Len(rows) \in 0..MaxRows /\ Len(rows) \in Nat
         /\ day \in 0..MaxTime /\ day \in Nat /\ Period \in Nat /\ Period > 0
         /\ \A i \in DOMAIN rows : rows[i].day \in 0..day
  <1>1. MaxRows \in Nat
    BY BoundsAssumption
  <1>2. rows \in Seq(Board!Row) /\ Len(rows) \in 0..MaxRows
    BY <1>1 DEF Board!BoardInv, Board!TypeOK
  <1>3. \A i \in DOMAIN rows : rows[i].day \in Nat /\ rows[i].day <= day
    <2>1. \A i \in DOMAIN rows : rows[i] \in Board!Row
      BY <1>2
    <2>2. \A r \in Board!Row : r.day \in Nat
      BY BoundsAssumption DEF Board!Row
    <2> QED
      BY <2>1, <2>2 DEF Board!BoardInv, Board!PastInv
  <1>4. day \in 0..MaxTime /\ day \in Nat
    BY BoundsAssumption DEF Board!BoardInv, Board!TypeOK
  <1> QED
    BY <1>2, <1>3, <1>4, PeriodAssumption

\* Rows are read as they were; those of a day that is over are all there.
LEMMA RowsStay ==
  ASSUME Board!BoardInv, NEW r \in Board!Row, r.day = day, rows' = Append(rows, r), day' = day
  PROVE  /\ \A d \in 0..day-1 : /\ Board!Until(d)' = Board!Until(d)
                                /\ Board!Errors(Board!Until(d))' = Board!Errors(Board!Until(d))
                                /\ {rows'[i].user : i \in Board!Until(d)'} =
                                        {rows[i].user : i \in Board!Until(d)}
         /\ Board!Current' = Board!Current \cup {Len(rows) + 1}
         /\ Len(rows') = Len(rows) + 1 /\ rows' \in Seq(Board!Row)
         /\ \A i \in DOMAIN rows' : rows'[i].day <= day
         /\ Len(rows) + 1 \notin Board!Current
  <1>1. /\ rows' \in Seq(Board!Row) /\ Len(rows') = Len(rows) + 1
        /\ DOMAIN rows' = 1..Len(rows) + 1 /\ DOMAIN rows = 1..Len(rows)
        /\ \A i \in DOMAIN rows : rows'[i] = rows[i]
        /\ rows'[Len(rows) + 1] = r
    BY BoardParts, AppendProperties
  <1>2. ASSUME NEW d \in 0..day-1
        PROVE /\ Board!Until(d)' = Board!Until(d) /\ Board!Until(d) \subseteq DOMAIN rows
    BY <1>1, BoardParts DEF Board!Until
  <1>3. ASSUME NEW d \in 0..day-1
        PROVE Board!Errors(Board!Until(d))' = Board!Errors(Board!Until(d))
    <2> DEFINE S == Board!Until(d)
    <2>1. S' = S /\ S \subseteq DOMAIN rows
      BY <1>2
    <2> HIDE DEF S
    <2>2. {i \in S' : rows'[i].failed} = {i \in S : rows[i].failed}
      BY <2>1, <1>1
    <2> QED
      BY <2>2 DEF Board!Errors, S
  <1>4. ASSUME NEW d \in 0..day-1
        PROVE {rows'[i].user : i \in Board!Until(d)'} = {rows[i].user : i \in Board!Until(d)}
    <2> DEFINE S == Board!Until(d)
    <2>1. S' = S /\ S \subseteq DOMAIN rows
      BY <1>2
    <2> HIDE DEF S
    <2>2. {rows'[i].user : i \in S'} = {rows[i].user : i \in S}
      BY <2>1, <1>1
    <2> QED
      BY <2>2 DEF S
  <1>5. Board!Current' = Board!Current \cup {Len(rows) + 1}
    BY <1>1, BoardParts DEF Board!Current, Board!Since
  <1>6. \A i \in DOMAIN rows' : rows'[i].day <= day
    BY <1>1, BoardParts
  <1>7. Len(rows) + 1 \notin Board!Current
    BY <1>1, BoardParts DEF Board!Current, Board!Since
  <1> QED
    BY <1>1, <1>2, <1>3, <1>4, <1>5, <1>6, <1>7

\* The rows of the period are finitely many.
LEMMA CurrentFinite ==
  ASSUME Board!BoardInv
  PROVE  IsFiniteSet(Board!Current) /\ Cardinality(Board!Current) \in Nat
  <1>1. IsFiniteSet(DOMAIN rows)
    BY BoardParts, FS_Interval
  <1>2. Board!Current \subseteq DOMAIN rows
    BY DEF Board!Current, Board!Since
  <1> QED
    BY <1>1, <1>2, FS_Subset, FS_CardinalityType

LEMMA BoardLogRequest ==
  ASSUME Board!BoardInv, NEW u \in Reporters, NEW n \in Networks, NEW bad \in BOOLEAN,
         Board!LogRequest(u, n, bad)
  PROVE  Board!BoardInv'
  <1> DEFINE r == [day |-> day, user |-> u, network |-> n, failed |-> bad]
  <1>1. r \in Board!Row /\ r.day = day /\ rows' = Append(rows, r) /\ day' = day
    BY BoardParts DEF Board!Row, Board!LogRequest
  <1>2. UNCHANGED <<day, rated, dash, past>> /\ Len(rows) < MaxRows
    BY DEF Board!LogRequest
  <1> HIDE DEF r
  <1>3. Board!TypeOK'
    <2>1. Len(rows) + 1 \in 0..MaxRows
      <3>1. MaxRows \in Nat
        BY BoundsAssumption
      <3>2. Len(rows) \in Nat
        BY BoardParts
      <3> QED
        BY <1>2, <3>1, <3>2
    <2>3. rows' \in Seq(Board!Row) /\ Len(rows') = Len(rows) + 1
      BY <1>1, RowsStay
    <2>2. rows' \in Seq(Board!Row) /\ Len(rows') <= MaxRows
      BY <2>1, <2>3, BoundsAssumption
    <2>5. DOMAIN rows \subseteq DOMAIN rows'
      BY <2>3, BoardParts
    <2> QED
      BY <2>2, <2>5, <1>2 DEF Board!BoardInv, Board!TypeOK
  <1>4. Board!PastInv'
    <2>1. Board!PastInv
      BY DEF Board!BoardInv
    <2>2. \A i \in DOMAIN rows' : rows'[i].day <= day'
      BY <1>1, RowsStay
    <2>3. ASSUME NEW d \in DOMAIN past'
          PROVE  /\ past'[d].total = Board!Cardinality(Board!Until(d)')
                 /\ past'[d].errors = Board!Errors(Board!Until(d))'
                 /\ past'[d].users = Board!Cardinality({rows'[i].user : i \in Board!Until(d)'})
      <3>1. d \in 0..day-1 /\ d \in DOMAIN past /\ past' = past
        BY <2>1, <1>2 DEF Board!PastInv
      <3>2. /\ Board!Until(d)' = Board!Until(d)
            /\ Board!Errors(Board!Until(d))' = Board!Errors(Board!Until(d))
            /\ {rows'[i].user : i \in Board!Until(d)'} = {rows[i].user : i \in Board!Until(d)}
        BY <3>1, <1>1, RowsStay
      <3> QED
        BY <2>1, <3>1, <3>2 DEF Board!PastInv
    <2>4. DOMAIN past' = 0 .. day' - 1
      BY <2>1, <1>2 DEF Board!PastInv
    <2> QED
      BY <2>2, <2>3, <2>4 DEF Board!PastInv
  <1>5. Board!DashInv'
    <2>1. Cardinality(Board!Current') = Cardinality(Board!Current) + 1
      BY <1>1, RowsStay, CurrentFinite, FS_AddElement
    <2>2. Board!Liked' = Board!Liked
      BY <1>2 DEF Board!Liked, Board!Rated
    <2>3. Len(rows') = Len(rows) + 1 /\ Len(rows) \in Nat
      BY <1>1, RowsStay, BoardParts
    <2>4. Board!DashInv
      BY DEF Board!BoardInv
    <2>5. /\ \A g : Board!TotalOf(g)' = Board!TotalOf(g)
          /\ \A g : Board!LikedIn(g)' = Board!LikedIn(g)
      BY DEF Board!TotalOf, Board!LikedIn
    <2>6. "overview" \in DOMAIN dash => dash.began \in 0..Len(rows)' /\ dash.since \in 0..day'
      BY <2>3, <2>4, <1>2 DEF Board!DashInv
    <2>7. ASSUME "overview" \in DOMAIN dash, Board!Today PROVE Board!Today'
      <3>1. dash.began \in Nat /\ dash.overview.total \in Nat
        BY <2>3, <2>4, <2>7 DEF Board!DashInv, Board!Today
      <3>2. Cardinality(Board!Current) = dash.overview.total + Len(rows) - dash.began
        BY <2>7, BoardSets DEF Board!Today
      <3>3. Cardinality(Board!Current') = dash.overview.total + Len(rows') - dash.began
        <4>1. \A i, j, t, b \in Nat : i = t + j - b => i + 1 = t + (j + 1) - b
          OBVIOUS
        <4> QED
          BY <2>1, <2>3, <3>1, <3>2, <4>1, CurrentFinite
      <3>4. Cardinality(Board!Current) \in Nat /\ Cardinality(Board!Current) <= Cardinality(Board!Current')
        BY <2>1, CurrentFinite
      <3>5. /\ "days" \in DOMAIN dash =>
                    Board!TotalOf(dash.days) \in dash.overview.total .. Cardinality(Board!Current')
            /\ "networks" \in DOMAIN dash =>
                    Board!TotalOf(dash.networks) \in Board!TotalOf(dash.days) .. Cardinality(Board!Current')
        <4> DEFINE before == Cardinality(Board!Current)
                   after  == Cardinality(Board!Current')
        <4>1. /\ "days" \in DOMAIN dash => Board!TotalOf(dash.days) \in dash.overview.total..before
              /\ "networks" \in DOMAIN dash => Board!TotalOf(dash.networks) \in Board!TotalOf(dash.days)..before
          BY <2>7, BoardSets DEF Board!Today
        <4>2. before \in Nat /\ after \in Nat /\ before <= after
          BY <2>1, <3>4
        <4> HIDE DEF before, after
        <4>3. \A a, x : x \in a..before => x \in a..after
          BY <4>2
        <4>4. /\ "days" \in DOMAIN dash => Board!TotalOf(dash.days) \in dash.overview.total..after
              /\ "networks" \in DOMAIN dash => Board!TotalOf(dash.networks) \in Board!TotalOf(dash.days)..after
          BY <4>1, <4>3
        <4> QED
          BY <4>4 DEF after
      <3>6. /\ "satisfaction" \in DOMAIN dash /\ ~dash.rerated => dash.satisfaction.up = Board!Liked
            /\ "liked" \in DOMAIN dash /\ ~dash.rerated => Board!LikedIn(dash.liked) = dash.satisfaction.up
        BY <2>7 DEF Board!Today
      <3> QED
        BY <2>2, <2>5, <3>1, <3>3, <3>5, <3>6, <1>2, BoardSets DEF Board!Today
    <2> QED
      BY <2>4, <2>6, <2>7, <1>2 DEF Board!DashInv
  <1>6. Board!ReadInv'
    BY <1>2 DEF Board!BoardInv, Board!ReadInv
  <1> QED
    BY <1>3, <1>4, <1>5, <1>6 DEF Board!BoardInv

\* The groups of a statement count the rows of the period, the thumbs of the networks
\* those of the ratings of the period.
LEMMA DaysTotal ==
  ASSUME Board!BoardInv
  PROVE  Board!TotalOf(Board!GetRequestsOverTime) = Cardinality(Board!Current)
  <1> DEFINE R == Board!Current
             K == {rows[i].day : i \in R}
             key == [i \in R |-> rows[i].day]
             c(k) == Cardinality({i \in R : key[i] = k})
             groups == Board!GetRequestsOverTime
  <1>1. DOMAIN groups = K
    BY DEF Board!GetRequestsOverTime, Board!GroupBy, Board!Column
  <1>2. ASSUME NEW k \in K PROVE groups[k].count = c(k)
    <2>1. groups[k].count = Board!Cardinality({i \in R : rows[i].day = k})
      BY DEF Board!GetRequestsOverTime, Board!GroupBy, Board!Column
    <2>2. {i \in R : rows[i].day = k} = {i \in R : key[i] = k}
      OBVIOUS
    <2> QED
      BY <2>1, <2>2, BoardSets
  <1>3. IsFiniteSet(R) /\ key \in [R -> K]
    BY CurrentFinite
  <1>4. Cardinality(Tally(R, K, key)) = Cardinality(R)
    BY <1>3, Grouped
  <1> HIDE DEF groups, K, c, R, key
  <1>5. {{k} \X (1..groups[k].count) : k \in DOMAIN groups} = {{k} \X (1..c(k)) : k \in K}
    BY <1>1, <1>2
  <1>6. Board!TotalOf(groups) = Cardinality(Tally(R, K, key))
    BY <1>5, BoardSets DEF Tally, c, Board!TotalOf
  <1> QED
    BY <1>4, <1>6 DEF R, groups

LEMMA NetworksTotal ==
  ASSUME Board!BoardInv
  PROVE  Board!TotalOf(Board!GetTopNetworks) = Cardinality(Board!Current)
  <1> DEFINE R == Board!Current
             K == {rows[i].network : i \in R}
             key == [i \in R |-> rows[i].network]
             c(k) == Cardinality({i \in R : key[i] = k})
             groups == Board!GetTopNetworks
  <1>1. DOMAIN groups = K
    BY DEF Board!GetTopNetworks, Board!GroupBy, Board!Column
  <1>2. ASSUME NEW k \in K PROVE groups[k].count = c(k)
    <2>1. groups[k].count = Board!Cardinality({i \in R : rows[i].network = k})
      BY DEF Board!GetTopNetworks, Board!GroupBy, Board!Column
    <2>2. {i \in R : rows[i].network = k} = {i \in R : key[i] = k}
      OBVIOUS
    <2> QED
      BY <2>1, <2>2, BoardSets
  <1>3. IsFiniteSet(R) /\ key \in [R -> K]
    BY CurrentFinite
  <1>4. Cardinality(Tally(R, K, key)) = Cardinality(R)
    BY <1>3, Grouped
  <1> HIDE DEF groups, K, c, R, key
  <1>5. {{k} \X (1..groups[k].count) : k \in DOMAIN groups} = {{k} \X (1..c(k)) : k \in K}
    BY <1>1, <1>2
  <1>6. Board!TotalOf(groups) = Cardinality(Tally(R, K, key))
    BY <1>5, BoardSets DEF Tally, c, Board!TotalOf
  <1> QED
    BY <1>4, <1>6 DEF R, groups

LEMMA LikedTotal ==
  ASSUME Board!BoardInv
  PROVE  Board!LikedIn(Board!GetNetworkSatisfaction) = Board!Liked
  <1> DEFINE R == {i \in Board!Rated : rated[i].value = 1}
             K == {rows[i].network : i \in Board!Rated}
             key == [i \in R |-> rows[i].network]
             c(k) == Cardinality({i \in R : key[i] = k})
             groups == Board!GetNetworkSatisfaction
  <1>1. DOMAIN groups = K
    BY DEF Board!GetNetworkSatisfaction, Board!Column
  <1>2. ASSUME NEW k \in K PROVE groups[k].up = c(k)
    <2>1. groups[k].up =
            Board!Cardinality({i \in {j \in Board!Rated : rows[j].network = k} : rated[i].value = 1})
      BY DEF Board!GetNetworkSatisfaction, Board!Votes, Board!Column
    <2>2. {i \in {j \in Board!Rated : rows[j].network = k} : rated[i].value = 1}
             = {i \in R : key[i] = k}
      OBVIOUS
    <2> QED
      BY <2>1, <2>2, BoardSets
  <1>3. IsFiniteSet(R)
    <2>1. IsFiniteSet(DOMAIN rows)
      BY BoardParts, FS_Interval
    <2>2. R \subseteq DOMAIN rows
      BY DEF Board!Rated, Board!BoardInv, Board!TypeOK
    <2> QED
      BY <2>1, <2>2, FS_Subset
  <1>4. key \in [R -> K]
    OBVIOUS
  <1>5. Cardinality(Tally(R, K, key)) = Cardinality(R)
    BY <1>3, <1>4, Grouped
  <1>6. Board!Liked = Cardinality(R)
    BY BoardSets DEF Board!Liked
  <1> HIDE DEF groups, K, c, R, key
  <1>7. {{k} \X (1..groups[k].up) : k \in DOMAIN groups} = {{k} \X (1..c(k)) : k \in K}
    BY <1>1, <1>2
  <1>8. Board!LikedIn(groups) = Cardinality(Tally(R, K, key))
    BY <1>7, BoardSets DEF Tally, c, Board!LikedIn
  <1> QED
    BY <1>5, <1>6, <1>8 DEF groups

\* What was said of a day stays so as long as rows, days and what was said do.
LEMMA PastStays ==
  ASSUME Board!PastInv, UNCHANGED <<day, rows, past>>
  PROVE  Board!PastInv'
  <1>1. \A d : Board!Until(d)' = Board!Until(d)
    BY DEF Board!Until
  <1>2. \A S : Board!Errors(S)' = Board!Errors(S)
    BY DEF Board!Errors
  <1>3. ASSUME NEW d \in DOMAIN past'
        PROVE  /\ past'[d].total = Board!Cardinality(Board!Until(d)')
               /\ past'[d].errors = Board!Errors(Board!Until(d))'
               /\ past'[d].users = Board!Cardinality({rows'[i].user : i \in Board!Until(d)'})
    BY <1>1, <1>2 DEF Board!PastInv
  <1>4. DOMAIN past' = 0 .. day' - 1 /\ \A i \in DOMAIN rows' : rows'[i].day <= day'
    BY DEF Board!PastInv
  <1> QED
    BY <1>3, <1>4 DEF Board!PastInv

\* What is rated does not change the rows, and a dashboard under way is marked.
LEMMA BoardRerated ==
  ASSUME Board!BoardInv, Board!Rerated, UNCHANGED <<day, rows, past>>, Board!TypeOK'
  PROVE  Board!BoardInv'
  <1>1. Board!PastInv'
    BY PastStays DEF Board!BoardInv
  <1>2. \/ dash = <<>> /\ dash' = <<>>
        \/ /\ "overview" \in DOMAIN dash /\ DOMAIN dash' = DOMAIN dash
           /\ dash'.rerated = TRUE
           /\ \A p \in DOMAIN dash \ {"rerated"} : dash'[p] = dash[p]
    BY DEF Board!BoardInv, Board!ReadInv, Board!DashInv, Board!Rerated
  <1>3. Board!ReadInv'
    BY <1>2 DEF Board!BoardInv, Board!ReadInv
  <1>4. Board!DashInv'
    <2>1. CASE dash' = <<>>
      BY <2>1 DEF Board!DashInv, Board!Today
    <2>2. CASE /\ "overview" \in DOMAIN dash /\ DOMAIN dash' = DOMAIN dash
               /\ dash'.rerated = TRUE
               /\ \A p \in DOMAIN dash \ {"rerated"} : dash'[p] = dash[p]
      <3>1. Board!Current' = Board!Current /\ Board!Cardinality(Board!Current)' = Board!Cardinality(Board!Current)
        BY DEF Board!Current, Board!Since
      <3>2. /\ {"since", "began", "rerated"} \subseteq DOMAIN dash
            /\ dash'.overview = dash.overview /\ dash'.since = dash.since
            /\ dash'.began = dash.began
        BY <2>2 DEF Board!BoardInv, Board!DashInv, Board!Today
      <3>3. /\ "days" \in DOMAIN dash => dash'.days = dash.days
            /\ "networks" \in DOMAIN dash => dash'.networks = dash.networks /\ "days" \in DOMAIN dash
        BY <2>2 DEF Board!BoardInv, Board!ReadInv
      <3>4. \A g : Board!TotalOf(g)' = Board!TotalOf(g)
        BY DEF Board!TotalOf
      <3> QED
        BY <2>2, <3>1, <3>2, <3>3, <3>4 DEF Board!BoardInv, Board!DashInv, Board!Today
    <2> QED
      BY <1>2, <2>1, <2>2
  <1> QED
    BY <1>1, <1>3, <1>4 DEF Board!BoardInv

LEMMA BoardAddRating ==
  ASSUME Board!BoardInv, NEW i \in DOMAIN rows, NEW v \in Board!Ratings, Board!AddRating(i, v)
  PROVE  Board!BoardInv'
  <1> DEFINE r == [value |-> v, day |-> IF i \in DOMAIN rated THEN rated[i].day ELSE day]
  <1>1. r \in [value : Board!Ratings, day : 0..MaxTime]
    BY BoardParts DEF Board!BoardInv, Board!TypeOK
  <1>2. rated' = Board!With(rated, i, r) /\ Board!Rerated /\ UNCHANGED <<day, rows, past>>
    BY DEF Board!AddRating
  <1> HIDE DEF r
  <1>3. /\ DOMAIN rated' = DOMAIN rated \cup {i}
        /\ \A j \in DOMAIN rated' : rated'[j] = r \/ (j \in DOMAIN rated /\ rated'[j] = rated[j])
    BY <1>2 DEF Board!With
  <1>4. DOMAIN dash' = DOMAIN dash
    BY <1>2 DEF Board!Rerated
  <1>5. Board!TypeOK'
    BY <1>1, <1>2, <1>3, <1>4 DEF Board!BoardInv, Board!TypeOK
  <1> QED
    BY <1>2, <1>5, BoardRerated

LEMMA BoardDeleteRating ==
  ASSUME Board!BoardInv, NEW i \in DOMAIN rows, Board!DeleteRating(i)
  PROVE  Board!BoardInv'
  <1>1. /\ DOMAIN rated' = DOMAIN rated \ {i}
        /\ \A j \in DOMAIN rated' : rated'[j] = rated[j]
        /\ Board!Rerated /\ UNCHANGED <<day, rows, past>>
    BY DEF Board!DeleteRating, Board!Restrict
  <1>2. DOMAIN dash' = DOMAIN dash
    BY <1>1 DEF Board!Rerated
  <1>3. Board!TypeOK'
    BY <1>1, <1>2 DEF Board!BoardInv, Board!TypeOK
  <1> QED
    BY <1>1, <1>3, BoardRerated

\* The day ends: what an overview would have said of it is what it will always say.
LEMMA BoardTick ==
  ASSUME Board!BoardInv, Board!Tick
  PROVE  Board!BoardInv'
  <1>1. /\ day < MaxTime /\ day' = day + 1 /\ past' = Board!With(past, day, Board!GetOverview)
        /\ UNCHANGED <<rows, rated, dash>>
    BY DEF Board!Tick
  <1>2. day' \in 0..MaxTime /\ 0..day'-1 = (0..day-1) \cup {day} /\ day \notin 0..day-1
    <2>1. MaxTime \in Nat
      BY BoundsAssumption
    <2>2. day \in Nat
      BY BoardParts
    <2> QED
      BY <1>1, <2>1, <2>2
  <1>3. DOMAIN past' = 0..day'-1 /\ past'[day] = Board!GetOverview
        /\ \A d \in 0..day-1 : d \in DOMAIN past /\ past'[d] = past[d]
    BY <1>1, <1>2 DEF Board!With, Board!BoardInv, Board!PastInv
  <1>4. Board!TypeOK'
    <2>1. 0..day'-1 \subseteq 0..MaxTime
      <3>1. MaxTime \in Nat
        BY BoundsAssumption
      <3>2. day \in Nat
        BY BoardParts
      <3> QED
        BY <1>1, <3>1, <3>2
    <2> QED
      BY <1>1, <1>2, <1>3, <2>1 DEF Board!BoardInv, Board!TypeOK
  <1>5. Board!PastInv'
    <2>1. \A i \in DOMAIN rows : rows[i].day <= day + 1
      BY BoardParts
    <2>2. Board!Until(day) = Board!Current
      BY BoardParts DEF Board!Until, Board!Current, Board!Since
    <2>3. /\ past'[day].total = Board!Cardinality(Board!Until(day))
          /\ past'[day].errors = Board!Errors(Board!Until(day))
          /\ past'[day].users = Board!Cardinality({rows[i].user : i \in Board!Until(day)})
      BY <1>3, <2>2 DEF Board!GetOverview, Board!Column
    <2>4. \A d \in 0..day-1 :
             /\ past'[d].total = Board!Cardinality(Board!Until(d))
             /\ past'[d].errors = Board!Errors(Board!Until(d))
             /\ past'[d].users = Board!Cardinality({rows[i].user : i \in Board!Until(d)})
      BY <1>3 DEF Board!BoardInv, Board!PastInv
    <2>5. \A d : Board!Until(d)' = Board!Until(d)
      BY <1>1 DEF Board!Until
    <2>6. \A S : Board!Errors(S)' = Board!Errors(S)
      BY <1>1 DEF Board!Errors
    <2>7. ASSUME NEW d \in DOMAIN past'
          PROVE  /\ past'[d].total = Board!Cardinality(Board!Until(d)')
                 /\ past'[d].errors = Board!Errors(Board!Until(d))'
                 /\ past'[d].users = Board!Cardinality({rows'[i].user : i \in Board!Until(d)'})
      <3>1. d = day \/ d \in 0..day-1
        BY <1>2, <1>3
      <3>2. Board!Until(d)' = Board!Until(d) /\ Board!Errors(Board!Until(d))' = Board!Errors(Board!Until(d))
        BY <1>1, <2>5, <2>6
      <3>3. {rows'[i].user : i \in Board!Until(d)'} = {rows[i].user : i \in Board!Until(d)}
        BY <3>2, <1>1
      <3>4. CASE d = day
        BY <3>2, <3>3, <3>4, <2>3
      <3>5. CASE d \in 0..day-1
        BY <3>2, <3>3, <3>5, <2>4
      <3> QED
        BY <3>1, <3>4, <3>5
    <2>8. \A i \in DOMAIN rows' : rows'[i].day <= day'
      BY <1>1, <2>1
    <2>9. DOMAIN past' = 0 .. day' - 1
      BY <1>3
    <2> QED
      BY <2>7, <2>8, <2>9 DEF Board!PastInv
  <1>6. Board!ReadInv'
    BY <1>1 DEF Board!BoardInv, Board!ReadInv
  <1>7. Board!DashInv'
    BY <1>1, BoardParts DEF Board!BoardInv, Board!DashInv
  <1> QED
    BY <1>4, <1>5, <1>6, <1>7 DEF Board!BoardInv

\* Reading a part leaves all but the dashboard alone.
LEMMA BoardReads ==
  ASSUME Board!BoardInv, UNCHANGED <<day, rows, rated, past>>,
         DOMAIN dash' \subseteq Board!Parts \cup {"since", "began", "rerated"},
         Board!DashInv', Board!ReadInv'
  PROVE  Board!BoardInv'
  <1>1. Board!PastInv'
    BY PastStays DEF Board!BoardInv
  <1>2. Board!TypeOK'
    BY DEF Board!BoardInv, Board!TypeOK
  <1> QED
    BY <1>1, <1>2 DEF Board!BoardInv

LEMMA BoardBeginDashboard ==
  ASSUME Board!BoardInv, Board!BeginDashboard
  PROVE  Board!BoardInv'
  <1> DEFINE o == Board!GetOverview
  <1>1. /\ DOMAIN dash' = {"since", "began", "rerated", "overview"}
        /\ dash'.since = day /\ dash'.began = Len(rows) /\ dash'.rerated = FALSE
        /\ dash'.overview = o
        /\ UNCHANGED <<day, rows, rated, past>>
    BY DEF Board!BeginDashboard
  <1>2. o.total = Board!Cardinality(Board!Current)
    BY DEF Board!GetOverview
  <1> HIDE DEF o
  <1>3. Board!Current' = Board!Current
    BY <1>1 DEF Board!Current, Board!Since
  <1>4. Board!ReadInv'
    BY <1>1 DEF Board!ReadInv
  <1>5. Board!DashInv'
    <2>1. /\ "days" \notin DOMAIN dash' /\ "networks" \notin DOMAIN dash'
          /\ "satisfaction" \notin DOMAIN dash' /\ "liked" \notin DOMAIN dash'
      BY <1>1
    <2>2. o.total = Cardinality(Board!Current) /\ o.total \in Nat
      BY <1>2, BoardSets, CurrentFinite
    <2>3. Board!Cardinality(Board!Current)' = o.total /\ o.total = o.total + Len(rows') - Len(rows)
      BY <1>1, <2>2, <1>3, BoardSets, BoardParts
    <2>4. day' \in 0..day' /\ Len(rows) \in Nat /\ Len(rows) \in 0..Len(rows)
      BY <1>1, BoardParts
    <2>5. Board!Today'
      BY <1>1, <2>1, <2>2, <2>3 DEF Board!Today
    <2> QED
      BY <1>1, <2>4, <2>5 DEF Board!DashInv
  <1> QED
    BY <1>1, <1>4, <1>5, BoardReads DEF Board!Parts

LEMMA BoardShowDashboard ==
  ASSUME Board!BoardInv, Board!ShowDashboard
  PROVE  Board!BoardInv'
  <1>1. dash' = <<>> /\ DOMAIN dash' = {} /\ UNCHANGED <<day, rows, rated, past>>
    BY DEF Board!ShowDashboard
  <1> QED
    BY <1>1, BoardReads DEF Board!DashInv, Board!ReadInv

\* A part is read when those before it are there, and those after it are not.
LEMMA BoardReadOn ==
  ASSUME Board!BoardInv, Board!ReadOn
  PROVE  Board!BoardInv'
  <1> DEFINE Added(p, w) ==
         /\ p \notin DOMAIN dash /\ DOMAIN dash' = DOMAIN dash \cup {p} /\ dash'[p] = w
         /\ \A q \in DOMAIN dash : dash'[q] = dash[q]
         /\ UNCHANGED <<day, rows, rated, past>>
  <1>1. ASSUME NEW p, NEW w, NEW S, Board!Read(p, w, S) PROVE Added(p, w) /\ S \subseteq DOMAIN dash
    BY <1>1 DEF Board!Read, Board!With
  <1>2. ASSUME NEW p, NEW w, Added(p, w)
        PROVE  /\ Board!Current' = Board!Current /\ Board!Liked' = Board!Liked
               /\ \A g : Board!TotalOf(g)' = Board!TotalOf(g)
               /\ \A g : Board!LikedIn(g)' = Board!LikedIn(g)
    BY <1>2 DEF Board!Current, Board!Since, Board!Liked, Board!Rated, Board!TotalOf, Board!LikedIn
  <1>3. ASSUME NEW p \in Board!Parts, NEW w, Added(p, w), Board!DashInv', Board!ReadInv'
        PROVE  Board!BoardInv'
    <2>1. DOMAIN dash' \subseteq Board!Parts \cup {"since", "began", "rerated"}
      BY <1>3 DEF Board!BoardInv, Board!TypeOK
    <2> QED
      BY <1>3, <2>1, BoardReads
  <1>5. CASE Board!Read("satisfaction", Board!GetSatisfactionScore, {"overview"})
    <2> DEFINE w == Board!GetSatisfactionScore
    <2>1. Added("satisfaction", w) /\ "overview" \in DOMAIN dash
      BY <1>1, <1>5
    <2>2. w.up = Board!Liked
      BY DEF Board!GetSatisfactionScore, Board!Votes, Board!Liked
    <2> HIDE DEF w
    <2>3. Board!ReadInv'
      BY <2>1 DEF Board!BoardInv, Board!ReadInv
    <2>4. Board!DashInv'
      BY <2>1, <2>2, <1>2 DEF Board!BoardInv, Board!ReadInv, Board!DashInv, Board!Today
    <2> QED
      BY <2>1, <2>3, <2>4, <1>3 DEF Board!Parts
  <1>6. CASE Board!Read("days", Board!GetRequestsOverTime, {"satisfaction"})
    <2> DEFINE w == Board!GetRequestsOverTime
    <2>1. Added("days", w) /\ "satisfaction" \in DOMAIN dash
      BY <1>1, <1>6
    <2>2. Board!TotalOf(w) = Cardinality(Board!Current)
      BY DaysTotal
    <2> HIDE DEF w
    <2>3. Board!ReadInv'
      BY <2>1 DEF Board!BoardInv, Board!ReadInv
    <2>4. Board!DashInv'
      <3>1. Board!DashInv /\ Board!ReadInv /\ Board!Cardinality(Board!Current) = Cardinality(Board!Current)
        BY BoardSets DEF Board!BoardInv
      <3>2. "liked" \notin DOMAIN dash' /\ "networks" \notin DOMAIN dash'
        BY <2>1, <3>1 DEF Board!ReadInv
      <3>3. Board!TotalOf(dash'.days) = Cardinality(Board!Current) /\ Cardinality(Board!Current) \in Nat
        BY <2>1, <2>2, CurrentFinite
      <3>4. /\ {"overview", "since", "began", "rerated"} \subseteq DOMAIN dash
            /\ dash'.overview = dash.overview /\ dash'.since = dash.since
            /\ dash'.began = dash.began /\ dash'.rerated = dash.rerated
            /\ "satisfaction" \in DOMAIN dash /\ dash'.satisfaction = dash.satisfaction
        BY <2>1, <3>1 DEF Board!DashInv, Board!ReadInv
      <3>5. /\ Board!Current' = Board!Current /\ Board!Liked' = Board!Liked
            /\ UNCHANGED <<day, rows>>
        BY <2>1, <1>2
      <3>6. dash.since = day => /\ dash.overview.total \in Nat /\ dash.began \in 0..Len(rows) /\ Len(rows) \in Nat
                               /\ Cardinality(Board!Current) = dash.overview.total + Len(rows) - dash.began
        BY <3>1, <3>4, BoardParts DEF Board!DashInv, Board!Today
      <3>7. Board!Cardinality(Board!Current') = Cardinality(Board!Current)
        BY <3>1, <3>5
      <3>8. dash.since = day => Board!Today'
        <4> SUFFICES ASSUME dash.since = day PROVE Board!Today'
          OBVIOUS
        <4>1. /\ dash'.overview.total \in Nat
              /\ Cardinality(Board!Current) = dash'.overview.total + Len(rows') - dash'.began
              /\ Board!TotalOf(dash'.days) \in dash'.overview.total .. Cardinality(Board!Current)
          BY <3>3, <3>4, <3>5, <3>6
        <4>2. ~dash'.rerated => dash'.satisfaction.up = Board!Liked'
          BY <3>1, <3>4, <3>5 DEF Board!DashInv, Board!Today
        <4> QED
          BY <3>2, <3>7, <4>1, <4>2 DEF Board!Today
      <3> QED
        BY <2>1, <3>1, <3>4, <3>5, <3>8 DEF Board!DashInv
    <2> QED
      BY <2>1, <2>3, <2>4, <1>3 DEF Board!Parts
  <1>7. CASE Board!Read("networks", Board!GetTopNetworks, {"days"})
    <2> DEFINE w == Board!GetTopNetworks
    <2>1. Added("networks", w) /\ "days" \in DOMAIN dash
      BY <1>1, <1>7
    <2>2. Board!TotalOf(w) = Cardinality(Board!Current)
      BY NetworksTotal
    <2> HIDE DEF w
    <2>3. Board!ReadInv'
      BY <2>1 DEF Board!BoardInv, Board!ReadInv
    <2>4. Board!DashInv'
      <3>1. Board!DashInv /\ Board!ReadInv /\ Board!Cardinality(Board!Current) = Cardinality(Board!Current)
        BY BoardSets DEF Board!BoardInv
      <3>2. "liked" \notin DOMAIN dash'
        BY <2>1, <3>1 DEF Board!ReadInv
      <3>3. Board!TotalOf(dash'.networks) = Cardinality(Board!Current) /\ Cardinality(Board!Current) \in Nat
        BY <2>1, <2>2, CurrentFinite
      <3>4. /\ {"overview", "since", "began", "rerated", "days"} \subseteq DOMAIN dash
            /\ dash'.days = dash.days /\ dash'.overview = dash.overview /\ dash'.since = dash.since
            /\ dash'.began = dash.began /\ dash'.rerated = dash.rerated /\ dash'.networks = w
            /\ "satisfaction" \in DOMAIN dash /\ dash'.satisfaction = dash.satisfaction
        BY <2>1, <3>1 DEF Board!DashInv, Board!ReadInv
      <3>5. /\ Board!Current' = Board!Current /\ Board!Liked' = Board!Liked
            /\ Board!TotalOf(dash'.days) = Board!TotalOf(dash.days)
            /\ UNCHANGED <<day, rows>>
        BY <2>1, <1>2, <3>4
      <3>6. dash.since = day => Board!TotalOf(dash.days) \in dash.overview.total .. Cardinality(Board!Current)
                             /\ dash.overview.total \in Nat
        BY <3>1, <3>4 DEF Board!DashInv, Board!Today
      <3>7. Board!Cardinality(Board!Current') = Cardinality(Board!Current)
        BY <3>1, <3>5
      <3>8. dash.since = day => Board!Today'
        <4> SUFFICES ASSUME dash.since = day PROVE Board!Today'
          OBVIOUS
        <4>1. /\ dash'.overview.total \in Nat
              /\ Cardinality(Board!Current) = dash'.overview.total + Len(rows') - dash'.began
              /\ Board!TotalOf(dash'.days) \in dash'.overview.total .. Cardinality(Board!Current)
          BY <3>1, <3>4, <3>5 DEF Board!DashInv, Board!Today
        <4>2. ~dash'.rerated => dash'.satisfaction.up = Board!Liked'
          BY <3>1, <3>4, <3>5 DEF Board!DashInv, Board!Today
        <4>3. Board!TotalOf(dash'.networks) \in Board!TotalOf(dash'.days) .. Cardinality(Board!Current)
          BY <3>3, <3>6, <4>1
        <4> QED
          BY <3>2, <3>7, <4>1, <4>2, <4>3 DEF Board!Today
      <3> QED
        BY <2>1, <3>1, <3>4, <3>5, <3>8 DEF Board!DashInv
    <2> QED
      BY <2>1, <2>3, <2>4, <1>3 DEF Board!Parts
  <1>8. CASE Board!Read("liked", Board!GetNetworkSatisfaction, {"networks"})
    <2> DEFINE w == Board!GetNetworkSatisfaction
    <2>1. Added("liked", w) /\ "networks" \in DOMAIN dash
      BY <1>1, <1>8
    <2>2. Board!LikedIn(w) = Board!Liked
      BY LikedTotal
    <2> HIDE DEF w
    <2>3. Board!ReadInv'
      BY <2>1 DEF Board!BoardInv, Board!ReadInv
    <2>4. Board!DashInv'
      BY <2>1, <2>2, <1>2 DEF Board!BoardInv, Board!ReadInv, Board!DashInv, Board!Today
    <2> QED
      BY <2>1, <2>3, <2>4, <1>3 DEF Board!Parts
  <1> QED
    BY <1>5, <1>6, <1>7, <1>8 DEF Board!ReadOn

LEMMA BoardBegins == Board!Init => Board!BoardInv
  <1> SUFFICES ASSUME Board!Init PROVE Board!BoardInv
    OBVIOUS
  <1>1. day = 0 /\ rows = <<>> /\ rated = <<>> /\ dash = <<>> /\ past = <<>>
    BY DEF Board!Init
  <1>2. rows \in Seq(Board!Row) /\ Len(rows) <= MaxRows
    <2>1. MaxRows \in Nat
      BY BoundsAssumption
    <2> QED
      BY <1>1, <2>1
  <1>3. DOMAIN rows = {} /\ DOMAIN rated = {} /\ DOMAIN dash = {} /\ DOMAIN past = {} /\ 0..day-1 = {}
    BY <1>1
  <1>4. Board!TypeOK
    BY <1>1, <1>2, <1>3, BoundsAssumption DEF Board!TypeOK
  <1> QED
    BY <1>1, <1>3, <1>4 DEF Board!BoardInv, Board!PastInv, Board!DashInv, Board!ReadInv

LEMMA BoardNext == Board!BoardInv /\ [Board!Next]_dashboardVars => Board!BoardInv'
  <1> SUFFICES ASSUME Board!BoardInv, [Board!Next]_dashboardVars PROVE Board!BoardInv'
    OBVIOUS
  <1>1. CASE UNCHANGED dashboardVars
    BY <1>1, PastStays DEF dashboardVars, Board!BoardInv, Board!TypeOK, Board!DashInv, Board!Today, Board!ReadInv,
                Board!Current, Board!Since, Board!Liked, Board!Rated,
                Board!TotalOf, Board!LikedIn
  <1> QED
    BY <1>1, BoardLogRequest, BoardAddRating, BoardDeleteRating, BoardTick, BoardBeginDashboard,
       BoardReadOn, BoardShowDashboard DEF Board!Next

\* The previous period is the one that ended a period ago; the parts of a dashboard
\* differ by the rows since it was begun.
LEMMA BoardAgrees == Board!BoardInv => Board!ReportsAgree
  <1> SUFFICES ASSUME Board!BoardInv PROVE Board!ReportsAgree
    OBVIOUS
  <1>1. Board!PeriodsAgree
    <2> SUFFICES ASSUME day >= Period PROVE Board!PeriodsAgree
      BY DEF Board!PeriodsAgree
    <2> DEFINE d == day - Period
    <2>1. d \in DOMAIN past
      <3>1. day \in Nat /\ Period \in Nat /\ Period > 0 /\ DOMAIN past = 0..day-1
        BY BoardParts DEF Board!BoardInv, Board!PastInv
      <3> QED
        BY <3>1
    <2>2. Board!Previous = Board!Until(d)
      BY BoardParts DEF Board!Previous, Board!Current, Board!Since, Board!Until
    <2>3. /\ past[d].total = Board!Cardinality(Board!Until(d))
          /\ past[d].errors = Board!Errors(Board!Until(d))
          /\ past[d].users = Board!Cardinality({rows[i].user : i \in Board!Until(d)})
      BY <2>1 DEF Board!BoardInv, Board!PastInv
    <2>4. /\ Board!GetOverview.prev_total = Board!Cardinality(Board!Previous)
          /\ Board!GetOverview.prev_errors = Board!Errors(Board!Previous)
          /\ Board!GetOverview.prev_users = Board!Cardinality({rows[i].user : i \in Board!Previous})
      BY DEF Board!GetOverview, Board!Column
    <2> QED
      BY <2>2, <2>3, <2>4 DEF Board!PeriodsAgree
  <1>2. Board!PartsAgree
    BY BoardSets, CurrentFinite, BoardParts DEF Board!BoardInv, Board!ReadInv, Board!DashInv, Board!Today, Board!PartsAgree
  <1> QED
    BY <1>1, <1>2 DEF Board!ReportsAgree

-----------------------------------------------------------------------------
(* Lists                                                                   *)

\* What is left of a list is what stood at some of its places, in their order.
IsKept(list, these, n, place) ==
    /\ n \in Nat /\ place \in [1..n -> DOMAIN list]
    /\ n = Cardinality({i \in DOMAIN list : list[i] \notin these})
    /\ Without(list, these) = [k \in 1..n |-> list[place[k]]]
    /\ \A k \in 1..n : list[place[k]] \notin these
    /\ \A i \in DOMAIN list : list[i] \notin these => \E k \in 1..n : place[k] = i
    /\ \A k, l \in 1..n : k < l <=> place[k] < place[l]

LEMMA PlacesKept ==
  ASSUME NEW T, NEW list \in Seq(T), NEW these
  PROVE  \E n, place : IsKept(list, these, n, place)
  <1> DEFINE kept == {i \in DOMAIN list : list[i] \notin these}
             n == Cardinality(kept)
             upto(i) == {j \in kept : j <= i}
             rank == [i \in kept |-> Cardinality(upto(i))]
             place == [k \in 1..n |-> CHOOSE i \in kept : Cardinality(upto(i)) = k]
  <1>1. DOMAIN list = 1..Len(list) /\ Len(list) \in Nat /\ IsFiniteSet(DOMAIN list)
    BY FS_Interval
  <1>2. IsFiniteSet(kept) /\ n \in Nat /\ kept \subseteq DOMAIN list
    BY <1>1, FS_Subset, FS_CardinalityType
  <1> HIDE DEF kept
  <1>3. ASSUME NEW i \in kept
        PROVE  IsFiniteSet(upto(i)) /\ rank[i] = Cardinality(upto(i)) /\ rank[i] \in 1..n
    <2>1. upto(i) \subseteq kept /\ i \in upto(i)
      BY <1>1, <1>2
    <2>2. IsFiniteSet(upto(i)) /\ Cardinality(upto(i)) <= n
      BY <1>2, <2>1, FS_Subset
    <2>3. Cardinality(upto(i)) \in Nat /\ Cardinality(upto(i)) # 0
      BY <2>1, <2>2, FS_CardinalityType, FS_EmptySet
    <2> QED
      BY <2>2, <2>3, <1>2
  <1>30. rank \in [kept -> 1..n] /\ \A i \in kept : i \in Nat /\ rank[i] \in Nat
    <2>1. rank \in [kept -> 1..n]
      BY <1>3
    <2> HIDE DEF rank, n
    <2>2. ASSUME NEW i \in kept PROVE i \in Nat /\ rank[i] \in Nat
      BY <2>1, <1>1, <1>2
    <2> QED
      BY <2>1, <2>2
  <1>4. ASSUME NEW i \in kept, NEW j \in kept, i < j PROVE rank[i] < rank[j]
    <2>1. upto(i) \subseteq upto(j) /\ upto(i) # upto(j)
      BY <1>1, <1>2, <1>4
    <2>2. Cardinality(upto(i)) <= Cardinality(upto(j)) /\ Cardinality(upto(i)) # Cardinality(upto(j))
      BY <2>1, <1>3, FS_Subset
    <2>3. rank[i] <= rank[j] /\ rank[i] # rank[j]
      BY <2>2, <1>3
    <2> HIDE DEF rank
    <2> QED
      BY <2>3, <1>30
  <1>5. ASSUME NEW i \in kept, NEW j \in kept, rank[i] = rank[j] PROVE i = j
    <2> HIDE DEF rank
    <2>1. i \in Nat /\ j \in Nat /\ rank[i] \in Nat
      BY <1>30
    <2> QED
      BY <2>1, <1>4, <1>5
  <1>6. rank \in Injection(kept, 1..n)
    BY <1>30, <1>5 DEF Injection, IsInjective
  <1>7. IsFiniteSet(1..n) /\ Cardinality(1..n) = n
    BY <1>2, FS_Interval
  <1>8. rank \in Surjection(kept, 1..n)
    BY <1>6, <1>7, FS_Injection
  <1>9. ASSUME NEW k \in 1..n PROVE place[k] \in kept /\ rank[place[k]] = k
    <2>1. \E i \in kept : rank[i] = k
      BY <1>8 DEF Surjection
    <2>2. \E i \in kept : Cardinality(upto(i)) = k
      BY <2>1, <1>3
    <2> HIDE DEF upto
    <2>3. place[k] \in kept /\ Cardinality(upto(place[k])) = k
      BY <2>2
    <2> QED
      BY <2>3, <1>3
  <1>10. Without(list, these) = [k \in 1..n |-> list[place[k]]]
    <2>1. Without(list, these) =
             [k \in 1..n |-> list[CHOOSE i \in kept : Cardinality(upto(i)) = k]]
      BY DEF Without, kept
    <2> QED
      BY <2>1
  <1> HIDE DEF place, rank, n
  <1>11. ASSUME NEW k \in 1..n, NEW l \in 1..n PROVE k < l <=> place[k] < place[l]
    <2>1. /\ place[k] \in kept /\ place[l] \in kept
          /\ rank[place[k]] = k /\ rank[place[l]] = l
          /\ place[k] \in Nat /\ place[l] \in Nat
      BY <1>9, <1>1, <1>2
    <2>2. place[k] < place[l] => k < l
      BY <2>1, <1>4
    <2>3. place[l] < place[k] => l < k
      BY <2>1, <1>4
    <2> QED
      BY <2>1, <2>2, <2>3, <1>2
  <1>12. ASSUME NEW i \in kept PROVE \E k \in 1..n : place[k] = i
    <2>1. rank[i] \in 1..n /\ rank[place[rank[i]]] = rank[i] /\ place[rank[i]] \in kept
      BY <1>3, <1>9
    <2> QED
      BY <2>1, <1>5
  <1>13. place \in [1..n -> DOMAIN list] /\ \A k \in 1..n : list[place[k]] \notin these
    <2>1. ASSUME NEW k \in 1..n PROVE place[k] \in DOMAIN list /\ list[place[k]] \notin these
      BY <1>9 DEF kept
    <2> QED
      BY <2>1 DEF place
  <1>14. \A i \in DOMAIN list : list[i] \notin these => \E k \in 1..n : place[k] = i
    BY <1>12 DEF kept
  <1>15. n = Cardinality({i \in DOMAIN list : list[i] \notin these})
    BY DEF n, kept
  <1>16. IsKept(list, these, n, place)
    BY <1>2, <1>10, <1>11, <1>13, <1>14, <1>15 DEF IsKept
  <1> QED
    BY <1>16

\* So it is a list, of the same elements without these, and without new repetitions.
LEMMA WithoutIs ==
  ASSUME NEW T, NEW list \in Seq(T), NEW these
  PROVE  /\ Without(list, these) \in Seq(T)
         /\ Len(Without(list, these)) = Cardinality({i \in DOMAIN list : list[i] \notin these})
         /\ \A x : (\E k \in DOMAIN Without(list, these) : Without(list, these)[k] = x)
                      <=> x \notin these /\ \E i \in DOMAIN list : list[i] = x
         /\ (\A i, j \in DOMAIN list : list[i] = list[j] => i = j) =>
                \A k, l \in DOMAIN Without(list, these) :
                    Without(list, these)[k] = Without(list, these)[l] => k = l
  <1>0. PICK n, place : IsKept(list, these, n, place)
    BY PlacesKept
  <1>1. /\ n \in Nat /\ place \in [1..n -> DOMAIN list]
        /\ n = Cardinality({i \in DOMAIN list : list[i] \notin these})
        /\ Without(list, these) = [k \in 1..n |-> list[place[k]]]
        /\ \A k \in 1..n : list[place[k]] \notin these
        /\ \A i \in DOMAIN list : list[i] \notin these => \E k \in 1..n : place[k] = i
        /\ \A k, l \in 1..n : k < l <=> place[k] < place[l]
    BY <1>0 DEF IsKept
  <1> DEFINE w == Without(list, these)
  <1>2. DOMAIN w = 1..n /\ \A k \in 1..n : w[k] = list[place[k]] /\ place[k] \in DOMAIN list
    BY <1>1
  <1>3. w \in Seq(T) /\ Len(w) = n
    BY <1>1, <1>2
  <1> HIDE DEF w
  <1>4. ASSUME NEW x
        PROVE (\E k \in DOMAIN w : w[k] = x) <=> x \notin these /\ \E i \in DOMAIN list : list[i] = x
    <2>1. ASSUME NEW k \in DOMAIN w, w[k] = x
          PROVE  x \notin these /\ \E i \in DOMAIN list : list[i] = x
      BY <2>1, <1>1, <1>2
    <2>2. ASSUME NEW i \in DOMAIN list, list[i] = x, x \notin these
          PROVE  \E k \in DOMAIN w : w[k] = x
      <3>1. PICK k \in 1..n : place[k] = i
        BY <2>2, <1>1
      <3> QED
        BY <3>1, <2>2, <1>2
    <2> QED
      BY <2>1, <2>2
  <1>5. ASSUME \A i, j \in DOMAIN list : list[i] = list[j] => i = j,
               NEW k \in DOMAIN w, NEW l \in DOMAIN w, w[k] = w[l]
        PROVE  k = l
    <2>1. place[k] = place[l] /\ k \in 1..n /\ l \in 1..n /\ place[k] \in DOMAIN list
      BY <1>2, <1>5
    <2> QED
      BY <2>1, <1>1
  <1> QED
    BY <1>1, <1>3, <1>4, <1>5 DEF w

-----------------------------------------------------------------------------
(* HistoryDrawer                                                           *)

\* The instance's copies of the operators on lists and sets.
LEMMA DrawerSets == /\ \A S : Drawer!Cardinality(S) = Cardinality(S)
                    /\ \A list, these : Drawer!Without(list, these) = Without(list, these)
  BY DEF Drawer!Cardinality, Cardinality, Drawer!Without, Without

LEMMA InRange == \A list, x : x \in Drawer!Range(list) <=> \E k \in DOMAIN list : list[k] = x
  BY DEF Drawer!Range

\* One element comes before another in a list.
Before(list, y, x) == \E i, k \in DOMAIN list : i < k /\ list[i] = y /\ list[k] = x

LEMMA AheadIs ==
  ASSUME NEW x
  PROVE  Drawer!Ahead(x) = {y \in Drawer!Range(order) \ archived : Before(order, y, x)}
  BY DEF Drawer!Ahead, Drawer!Range, Before

\* A list with a conversation put at its top, instead of its place if it had one.
LEMMA OnTop ==
  ASSUME NEW T, NEW c \in T, NEW list \in Seq(T), Drawer!IsInjective(list),
         NEW top, \/ top = <<c>> \o Without(list, {c})
                  \/ top = <<c>> \o list /\ c \notin Drawer!Range(list)
  PROVE  /\ top \in Seq(T) /\ Drawer!IsInjective(top)
         /\ Drawer!Range(top) = Drawer!Range(list) \cup {c}
         /\ \A x, y \in T \ {c} : Before(top, y, x) <=> Before(list, y, x)
         /\ \A x \in Drawer!Range(list) \ {c} : Before(top, c, x)
  <1>1. PICK rest : /\ rest \in Seq(T) /\ top = <<c>> \o rest /\ Drawer!IsInjective(rest)
                    /\ Drawer!Range(rest) = Drawer!Range(list) \ {c}
                    /\ \A x, y \in T \ {c} : Before(rest, y, x) <=> Before(list, y, x)
    <2>1. CASE top = <<c>> \o list /\ c \notin Drawer!Range(list)
      BY <2>1
    <2>2. CASE top = <<c>> \o Without(list, {c})
      <3> DEFINE rest == Without(list, {c})
      <3>0. PICK n, place : IsKept(list, {c}, n, place)
        BY PlacesKept
      <3>1. /\ n \in Nat /\ DOMAIN rest = 1..n
            /\ \A k \in 1..n : rest[k] = list[place[k]] /\ place[k] \in DOMAIN list
            /\ \A i \in DOMAIN list : list[i] # c => \E k \in 1..n : place[k] = i
            /\ \A k, l \in 1..n : k < l <=> place[k] < place[l]
        BY <3>0 DEF IsKept
      <3>2. rest \in Seq(T) /\ Drawer!IsInjective(rest) /\ Drawer!Range(rest) = Drawer!Range(list) \ {c}
        <4>1. rest \in Seq(T)
          BY WithoutIs
        <4>2. \A x : (\E k \in DOMAIN rest : rest[k] = x) <=> x \notin {c} /\ \E i \in DOMAIN list : list[i] = x
          BY WithoutIs
        <4>3. \A k, l \in DOMAIN rest : rest[k] = rest[l] => k = l
          BY WithoutIs DEF Drawer!IsInjective
        <4> HIDE DEF rest
        <4>4. Drawer!IsInjective(rest)
          BY <4>3 DEF Drawer!IsInjective
        <4>5. \A x : x \in Drawer!Range(rest) <=> x \in Drawer!Range(list) \ {c}
          BY <4>2, InRange
        <4>6. Drawer!Range(rest) = Drawer!Range(list) \ {c}
          BY <4>5
        <4> QED
          BY <4>1, <4>4, <4>6
      <3> HIDE DEF rest
      <3>3. ASSUME NEW x \in T \ {c}, NEW y \in T \ {c}, Before(rest, y, x) PROVE Before(list, y, x)
        <4>1. PICK i, k \in 1..n : i < k /\ rest[i] = y /\ rest[k] = x
          BY <3>1, <3>3 DEF Before
        <4>2. place[i] < place[k] /\ list[place[i]] = y /\ list[place[k]] = x
              /\ place[i] \in DOMAIN list /\ place[k] \in DOMAIN list
          BY <3>1, <4>1
        <4> QED
          BY <4>2 DEF Before
      <3>4. ASSUME NEW x \in T \ {c}, NEW y \in T \ {c}, Before(list, y, x) PROVE Before(rest, y, x)
        <4>1. PICK i, k \in DOMAIN list : i < k /\ list[i] = y /\ list[k] = x
          BY <3>4 DEF Before
        <4>2. PICK j, l \in 1..n : place[j] = i /\ place[l] = k
          BY <3>1, <4>1
        <4>3. j < l /\ rest[j] = y /\ rest[l] = x
          BY <3>1, <4>1, <4>2
        <4> QED
          BY <3>1, <4>3 DEF Before
      <3> QED
        BY <2>2, <3>2, <3>3, <3>4 DEF rest
    <2> QED
      BY <2>1, <2>2
  <1>2. /\ top \in Seq(T) /\ Len(top) = Len(rest) + 1 /\ top[1] = c
        /\ \A i \in 1..Len(rest) : top[i + 1] = rest[i]
        /\ DOMAIN top = 1..Len(rest) + 1 /\ DOMAIN rest = 1..Len(rest) /\ Len(rest) \in Nat
    <2>1. <<c>> \in Seq(T) /\ Len(<<c>>) = 1 /\ <<c>>[1] = c
      OBVIOUS
    <2> QED
      BY <1>1, <2>1, ConcatProperties
  <1>3. \A i \in DOMAIN top : (i = 1 /\ top[i] = c) \/ (i - 1 \in DOMAIN rest /\ i > 1 /\ top[i] = rest[i - 1])
    <2>1. ASSUME NEW i \in DOMAIN top, i # 1 PROVE i - 1 \in 1..Len(rest) /\ i > 1 /\ (i - 1) + 1 = i
      BY <1>2, <2>1
    <2> QED
      BY <1>2, <2>1
  <1>4. \A i \in DOMAIN rest : rest[i] # c /\ rest[i] \in T
    BY <1>1 DEF Drawer!Range
  <1>5. Drawer!IsInjective(top)
    BY <1>1, <1>2, <1>3, <1>4 DEF Drawer!IsInjective
  <1>6. Drawer!Range(top) = Drawer!Range(list) \cup {c}
    <2>1. ASSUME NEW x \in Drawer!Range(top) PROVE x \in Drawer!Range(rest) \cup {c}
      BY <1>3 DEF Drawer!Range
    <2>2. ASSUME NEW x \in Drawer!Range(rest) PROVE x \in Drawer!Range(top)
      <3>1. PICK i \in 1..Len(rest) : rest[i] = x
        BY <1>2, InRange
      <3>2. i + 1 \in DOMAIN top /\ top[i + 1] = x
        BY <3>1, <1>2
      <3> QED
        BY <3>2, InRange
    <2>3. c \in Drawer!Range(top)
      BY <1>2 DEF Drawer!Range
    <2>4. Drawer!Range(list) \subseteq Drawer!Range(rest) \cup {c} /\ Drawer!Range(rest) \subseteq Drawer!Range(list)
      BY <1>1
    <2> QED
      BY <2>1, <2>2, <2>3, <2>4
  <1>7. ASSUME NEW x \in T \ {c}, NEW y \in T \ {c} PROVE Before(top, y, x) <=> Before(rest, y, x)
    <2>1. ASSUME Before(top, y, x) PROVE Before(rest, y, x)
      <3>1. PICK i, k \in DOMAIN top : i < k /\ top[i] = y /\ top[k] = x
        BY <2>1 DEF Before
      <3>2. /\ i - 1 \in DOMAIN rest /\ k - 1 \in DOMAIN rest /\ i - 1 < k - 1
            /\ rest[i - 1] = y /\ rest[k - 1] = x
        BY <3>1, <1>2, <1>3
      <3> QED
        BY <3>2 DEF Before
    <2>2. ASSUME Before(rest, y, x) PROVE Before(top, y, x)
      <3>1. PICK i, k \in DOMAIN rest : i < k /\ rest[i] = y /\ rest[k] = x
        BY <2>2 DEF Before
      <3>2. /\ i + 1 \in DOMAIN top /\ k + 1 \in DOMAIN top /\ i + 1 < k + 1
            /\ top[i + 1] = y /\ top[k + 1] = x
        BY <3>1, <1>2
      <3> QED
        BY <3>2 DEF Before
    <2> QED
      BY <2>1, <2>2
  <1>8. ASSUME NEW x \in Drawer!Range(list) \ {c} PROVE Before(top, c, x)
    <2>1. PICK k \in DOMAIN rest : rest[k] = x
      BY <1>1 DEF Drawer!Range
    <2>2. 1 \in DOMAIN top /\ k + 1 \in DOMAIN top /\ 1 < k + 1 /\ top[k + 1] = x /\ top[1] = c
      BY <1>2, <2>1
    <2> QED
      BY <2>2 DEF Before
  <1> QED
    BY <1>1, <1>2, <1>5, <1>6, <1>7, <1>8

LEMMA DrawerParts ==
  ASSUME Drawer!TypeOK
  PROVE  /\ order \in Seq(Conversations) /\ shown \in Seq(Conversations) /\ Drawer!IsInjective(order)
         /\ Len(shown) \in Nat
         /\ PageSize \in Nat /\ MaxLoads \in Nat /\ MaxMoves \in Nat
         /\ \A f \in loads : /\ f \in Drawer!Fetch /\ f.offset \in Nat /\ f.rows \subseteq Conversations
                             /\ f.page \in Seq(Conversations) /\ f.nr \in 0..MaxLoads
                             /\ f.answered \in BOOLEAN /\ f.more \in BOOLEAN
  <1>1. PageSize \in Nat /\ MaxLoads \in Nat /\ MaxMoves \in Nat
    BY BoundsAssumption
  <1>2. order \in Seq(Conversations) /\ shown \in Seq(Conversations) /\ Drawer!IsInjective(order)
    BY DEF Drawer!TypeOK
  <1>3. \A f \in loads : /\ f \in Drawer!Fetch /\ f.offset \in Nat /\ f.rows \subseteq Conversations
                         /\ f.page \in Seq(Conversations) /\ f.nr \in 0..MaxLoads
                         /\ f.answered \in BOOLEAN /\ f.more \in BOOLEAN
    BY DEF Drawer!TypeOK, Drawer!Fetch
  <1> QED
    BY <1>1, <1>2, <1>3

\* What is ahead of a conversation and what counts of a list are finite.
LEMMA DrawerFinite ==
  ASSUME Drawer!TypeOK
  PROVE  /\ IsFiniteSet(Drawer!Range(order))
         /\ \A x : /\ IsFiniteSet(Drawer!Ahead(x)) /\ Cardinality(Drawer!Ahead(x)) \in Nat
                   /\ Drawer!Cardinality(Drawer!Ahead(x)) = Cardinality(Drawer!Ahead(x))
         /\ \A list \in Seq(Conversations) :
                /\ IsFiniteSet(Drawer!Own(list)) /\ Cardinality(Drawer!Own(list)) \in Nat
                /\ Drawer!Cardinality(Drawer!Own(list)) = Cardinality(Drawer!Own(list))
  <1>1. IsFiniteSet(Drawer!Range(order))
    <2> DEFINE g == [i \in DOMAIN order |-> order[i]]
    <2>1. g \in Surjection(DOMAIN order, Drawer!Range(order))
      BY DEF Surjection, Drawer!Range
    <2>2. IsFiniteSet(DOMAIN order)
      BY DrawerParts, FS_Interval
    <2> QED
      BY <2>1, <2>2, FS_Surjection
  <1>2. ASSUME NEW x PROVE IsFiniteSet(Drawer!Ahead(x)) /\ Cardinality(Drawer!Ahead(x)) \in Nat
    <2>1. Drawer!Ahead(x) \subseteq Drawer!Range(order)
      BY AheadIs
    <2> QED
      BY <1>1, <2>1, FS_Subset, FS_CardinalityType
  <1>3. ASSUME NEW list \in Seq(Conversations)
        PROVE  IsFiniteSet(Drawer!Own(list)) /\ Cardinality(Drawer!Own(list)) \in Nat
    <2>1. Drawer!Own(list) \subseteq DOMAIN list
      BY DEF Drawer!Own
    <2>2. IsFiniteSet(DOMAIN list)
      BY FS_Interval
    <2> QED
      BY <2>1, <2>2, FS_Subset, FS_CardinalityType
  <1> QED
    BY <1>1, <1>2, <1>3, DrawerSets

\* Conversations that come to the top or are archived, the shown ones at most, keep what
\* was true of the pages.
LEMMA OrderMoves ==
  ASSUME Drawer!DrawerInv, Drawer!TypeOK', NEW c,
         UNCHANGED <<shown, hasMore, loading, loads, fetches, slipped>>,
         leaving' \subseteq archived', archived \subseteq archived', archived' \subseteq archived \cup {c},
         c \in Drawer!Range(shown) \/ archived' = archived,
         Drawer!Left' \subseteq Drawer!Left,
         \A x \in Drawer!Left' : Drawer!Ahead(x) \ archived' \subseteq Drawer!Ahead(x)'
  PROVE  Drawer!DrawerInv'
  <1>1. Drawer!TypeOK
    BY DEF Drawer!DrawerInv
  <1>2. ASSUME NEW x \in Drawer!Left', NEW a \in Nat,
               Cardinality(Drawer!Ahead(x)) >= Cardinality(Drawer!Own(shown)) + a
        PROVE  /\ Cardinality(Drawer!Ahead(x)') >= Cardinality(Drawer!Own(shown)') + a
               /\ Cardinality(Drawer!Ahead(x)') \in Nat
    <2> DEFINE A == Drawer!Ahead(x)
               B == Drawer!Ahead(x)'
               P == Drawer!Own(shown)
               Q == Drawer!Own(shown)'
    <2>1. IsFiniteSet(A) /\ IsFiniteSet(P) /\ Cardinality(A) \in Nat /\ Cardinality(P) \in Nat
      BY <1>1, DrawerFinite, DrawerParts
    <2>2. IsFiniteSet(B) /\ Cardinality(B) \in Nat
      <3>1. IsFiniteSet(Drawer!Range(order'))
        <4> DEFINE g == [i \in DOMAIN order' |-> order'[i]]
        <4>1. g \in Surjection(DOMAIN order', Drawer!Range(order'))
          BY DEF Surjection, Drawer!Range
        <4>2. order' \in Seq(Conversations)
          BY DEF Drawer!TypeOK
        <4>3. IsFiniteSet(DOMAIN order')
          BY <4>2, FS_Interval
        <4> QED
          BY <4>1, <4>3, FS_Surjection
      <3>2. B \subseteq Drawer!Range(order')
        BY DEF Drawer!Ahead, Drawer!Range
      <3> QED
        BY <3>1, <3>2, FS_Subset, FS_CardinalityType
    <2>3. Q \subseteq P
      BY DEF Drawer!Own
    <2>4. A \ archived' \subseteq B
      OBVIOUS
    <2>5. A \cap archived = {}
      BY AheadIs
    <2>6. CASE archived' = archived
      <3>1. A \subseteq B
        BY <2>4, <2>5, <2>6
      <3>2. Cardinality(A) <= Cardinality(B) /\ Cardinality(Q) <= Cardinality(P) /\ Cardinality(Q) \in Nat
        BY <3>1, <2>1, <2>2, <2>3, FS_Subset, FS_CardinalityType
      <3> HIDE DEF A, B, P, Q
      <3> QED
        BY <3>2, <2>1, <2>2, <1>2 DEF A, B, P, Q
    <2>7. CASE archived' # archived
      <3>1. archived' = archived \cup {c} /\ c \notin archived
        BY <2>7
      <3>2. PICK i \in DOMAIN shown : shown[i] = c
        BY <2>7, InRange
      <3>3. i \in P /\ i \notin Q
        BY <3>1, <3>2 DEF Drawer!Own
      <3>4. Q \subseteq P \ {i} /\ A \ {c} \subseteq B
        BY <2>3, <2>4, <2>5, <3>1, <3>3
      <3> HIDE DEF A, B, P, Q
      <3>5. IsFiniteSet(P \ {i}) /\ Cardinality(P \ {i}) = Cardinality(P) - 1
        BY <2>1, <3>3, FS_RemoveElement
      <3>6. IsFiniteSet(A \ {c}) /\ Cardinality(A \ {c}) >= Cardinality(A) - 1
        <4>1. IsFiniteSet(A \ {c})
          BY <2>1, FS_RemoveElement
        <4>2. Cardinality(A \ {c}) = IF c \in A THEN Cardinality(A) - 1 ELSE Cardinality(A)
          BY <2>1, FS_RemoveElement
        <4> QED
          BY <4>1, <4>2, <2>1
      <3>7. Cardinality(Q) <= Cardinality(P \ {i}) /\ Cardinality(Q) \in Nat
        BY <3>4, <3>5, FS_Subset, FS_CardinalityType
      <3>8. Cardinality(A \ {c}) <= Cardinality(B)
        BY <3>4, <2>2, FS_Subset
      <3>9. Cardinality(A) >= Cardinality(P) + a
        BY <1>2 DEF A, P
      <3>10. Cardinality(A \ {c}) \in Nat
        BY <3>6, FS_CardinalityType
      <3>11. Cardinality(B) >= Cardinality(Q) + a
        BY <3>5, <3>6, <3>7, <3>8, <3>9, <3>10, <2>1, <2>2
      <3> QED
        BY <3>11, <2>2 DEF B, Q
    <2> QED
      BY <2>6, <2>7
  <1>3. ASSUME NEW list \in Seq(Conversations)
        PROVE  /\ Cardinality(Drawer!Own(list)') <= Cardinality(Drawer!Own(list))
               /\ Cardinality(Drawer!Own(list)') \in Nat
    <2>1. Drawer!Own(list)' \subseteq Drawer!Own(list)
      BY DEF Drawer!Own
    <2> QED
      BY <2>1, <1>1, DrawerFinite, FS_Subset, FS_CardinalityType
  <1> SUFFICES ASSUME fetches > 0, ~slipped
               PROVE  Drawer!OneLoad' /\ Drawer!Complete' /\ Drawer!PageComplete'
    BY DEF Drawer!DrawerInv
  <1>4. Drawer!OneLoad /\ Drawer!Complete /\ Drawer!PageComplete
    BY DEF Drawer!DrawerInv
  <1>5. Drawer!OneLoad'
    BY <1>4 DEF Drawer!OneLoad
  <1>6. Drawer!Complete'
    <2>1. ASSUME \A f \in loads : f.offset > 0, NEW x \in Drawer!Left' \ Drawer!Range(shown)
          PROVE  Drawer!Cardinality(Drawer!Ahead(x)') >= Drawer!Cardinality(Drawer!Own(shown)')
      <3>1. Cardinality(Drawer!Ahead(x)) >= Cardinality(Drawer!Own(shown))
        BY <1>4, <2>1, DrawerSets DEF Drawer!Complete
      <3>2. Cardinality(Drawer!Own(shown)) \in Nat /\ Cardinality(Drawer!Own(shown)') \in Nat
        BY <1>1, <1>3, DrawerFinite, DrawerParts
      <3>3. Cardinality(Drawer!Ahead(x)') >= Cardinality(Drawer!Own(shown)') + 0
        BY <3>1, <3>2, <1>2
      <3> QED
        BY <3>2, <3>3, DrawerSets
    <2>2. loads = {} /\ ~hasMore => Drawer!Left' \subseteq Drawer!Range(shown)
      BY <1>4 DEF Drawer!Complete
    <2> QED
      BY <2>1, <2>2 DEF Drawer!Complete
  <1>7. Drawer!PageComplete'
    <2> SUFFICES ASSUME NEW f \in loads, f.answered
                 PROVE  /\ f.offset = 0 =>
                               /\ Drawer!IsInjective(f.page)
                               /\ ~f.more => Drawer!Left' \subseteq Drawer!Range(f.page)
                               /\ \A x \in Drawer!Left' \ Drawer!Range(f.page) :
                                      Drawer!Range(f.page) \ archived' \subseteq Drawer!Ahead(x)'
                        /\ f.offset > 0 =>
                               /\ ~f.more => Drawer!Left' \subseteq Drawer!Range(shown) \cup Drawer!Range(f.page)
                               /\ \A x \in Drawer!Left' \ (Drawer!Range(shown) \cup Drawer!Range(f.page)) :
                                      Drawer!Cardinality(Drawer!Ahead(x)') >=
                                          Drawer!Cardinality(Drawer!Own(shown)') + Drawer!Cardinality(Drawer!Own(f.page)')
      BY DEF Drawer!PageComplete
    <2>1. CASE f.offset = 0
      BY <2>1, <1>4 DEF Drawer!PageComplete
    <2>2. CASE f.offset > 0
      <3>1. ~f.more => Drawer!Left' \subseteq Drawer!Range(shown) \cup Drawer!Range(f.page)
        BY <2>2, <1>4 DEF Drawer!PageComplete
      <3>2. ASSUME NEW x \in Drawer!Left' \ (Drawer!Range(shown) \cup Drawer!Range(f.page))
            PROVE  Drawer!Cardinality(Drawer!Ahead(x)') >=
                      Drawer!Cardinality(Drawer!Own(shown)') + Drawer!Cardinality(Drawer!Own(f.page)')
        <4> DEFINE p == f.page
        <4>1. p \in Seq(Conversations)
          BY <1>1, DrawerParts
        <4>2. Cardinality(Drawer!Ahead(x)) >= Cardinality(Drawer!Own(shown)) + Cardinality(Drawer!Own(p))
          BY <2>2, <1>4, DrawerSets DEF Drawer!PageComplete
        <4> HIDE DEF p
        <4>3. /\ Cardinality(Drawer!Own(p)) \in Nat /\ Cardinality(Drawer!Own(p)') \in Nat
              /\ Cardinality(Drawer!Own(p)') <= Cardinality(Drawer!Own(p))
          BY <1>1, <1>3, <4>1, DrawerFinite
        <4>4. /\ Cardinality(Drawer!Ahead(x)') >= Cardinality(Drawer!Own(shown)') + Cardinality(Drawer!Own(p))
              /\ Cardinality(Drawer!Ahead(x)') \in Nat
          BY <4>2, <4>3, <1>2
        <4>5. Cardinality(Drawer!Own(shown)') \in Nat
          BY <1>1, <1>3, DrawerParts
        <4>6. Cardinality(Drawer!Ahead(x)') >= Cardinality(Drawer!Own(shown)') + Cardinality(Drawer!Own(p)')
          BY <4>3, <4>4, <4>5
        <4> QED
          BY <4>6, DrawerSets DEF p
      <3> QED
        BY <2>2, <3>1, <3>2
    <2>3. f.offset \in Nat
      BY <1>1, DrawerParts
    <2> QED
      BY <2>1, <2>2, <2>3
  <1> QED
    BY <1>5, <1>6, <1>7

\* Putting a conversation that is archived or remembered as moved at the top takes no row
\* from ahead of the others.
LEMMA TopMoves ==
  ASSUME Drawer!DrawerInv, Drawer!TypeOK', NEW c \in Conversations,
         UNCHANGED <<shown, hasMore, loading, loads, fetches, slipped>>,
         leaving' \subseteq archived', archived \subseteq archived', archived' \subseteq archived \cup {c},
         c \in Drawer!Range(shown) \/ archived' = archived,
         moved \subseteq moved', c \in moved' \cup archived',
         \/ order' = Drawer!ToTop(c)
         \/ order' = <<c>> \o order /\ c \notin Drawer!Range(order)
  PROVE  Drawer!DrawerInv'
  <1>1. Drawer!TypeOK /\ order \in Seq(Conversations) /\ Drawer!IsInjective(order)
    BY DrawerParts DEF Drawer!DrawerInv
  <1>2. \/ order' = <<c>> \o Without(order, {c})
        \/ order' = <<c>> \o order /\ c \notin Drawer!Range(order)
    BY DrawerSets DEF Drawer!ToTop
  <1>3. /\ Drawer!Range(order') = Drawer!Range(order) \cup {c}
        /\ \A x, y \in Conversations \ {c} : Before(order', y, x) <=> Before(order, y, x)
        /\ \A x \in Drawer!Range(order) \ {c} : Before(order', c, x)
    BY <1>1, <1>2, OnTop
  <1>4. Drawer!Range(order) \subseteq Conversations
    BY <1>1 DEF Drawer!Range
  <1>5. Drawer!Left' \subseteq Drawer!Left
    BY <1>3 DEF Drawer!Left
  <1>6. ASSUME NEW x \in Drawer!Left' PROVE Drawer!Ahead(x) \ archived' \subseteq Drawer!Ahead(x)'
    <2>1. x \in Drawer!Range(order) \ {c} /\ x \in Conversations
      BY <1>3, <1>4 DEF Drawer!Left
    <2>2. Drawer!Ahead(x)' = {y \in Drawer!Range(order') \ archived' : Before(order', y, x)}
      BY DEF Drawer!Ahead, Drawer!Range, Before
    <2>3. ASSUME NEW y \in Drawer!Ahead(x) \ archived' PROVE y \in Drawer!Ahead(x)'
      <3>1. y \in Drawer!Range(order) /\ y \in Conversations /\ Before(order, y, x)
        BY <1>4, AheadIs
      <3>2. Before(order', y, x)
        BY <1>3, <2>1, <3>1
      <3> QED
        BY <1>3, <2>2, <2>3, <3>1, <3>2
    <2> QED
      BY <2>3
  <1> QED
    BY <1>5, <1>6, OrderMoves

LEMMA DrawerUpdateTitle ==
  ASSUME Drawer!DrawerInv, NEW c \in Conversations, Drawer!UpdateTitle(c)
  PROVE  Drawer!DrawerInv'
  <1>1. Drawer!TypeOK /\ order \in Seq(Conversations) /\ Drawer!IsInjective(order) /\ MaxMoves \in Nat
    BY DrawerParts DEF Drawer!DrawerInv
  <1>2. order' = <<c>> \o Without(order, {c})
    BY DrawerSets DEF Drawer!UpdateTitle, Drawer!ToTop
  <1>3. /\ order' \in Seq(Conversations) /\ Drawer!IsInjective(order')
        /\ Drawer!Range(order') = Drawer!Range(order) \cup {c}
    BY <1>1, <1>2, OnTop
  <1>4. Drawer!TypeOK'
    BY <1>1, <1>3 DEF Drawer!TypeOK, Drawer!UpdateTitle
  <1> QED
    BY <1>4, TopMoves DEF Drawer!UpdateTitle, Drawer!DrawerInv

LEMMA DrawerCreate ==
  ASSUME Drawer!DrawerInv, NEW c \in Conversations, Drawer!Create(c)
  PROVE  Drawer!DrawerInv'
  <1>1. Drawer!TypeOK /\ order \in Seq(Conversations) /\ Drawer!IsInjective(order)
    BY DrawerParts DEF Drawer!DrawerInv
  <1>2. order' = <<c>> \o order /\ c \notin Drawer!Range(order)
    BY DEF Drawer!Create
  <1>3. /\ order' \in Seq(Conversations) /\ Drawer!IsInjective(order')
        /\ Drawer!Range(order') = Drawer!Range(order) \cup {c}
    BY <1>1, <1>2, OnTop
  <1>4. Drawer!TypeOK'
    BY <1>1, <1>3 DEF Drawer!TypeOK, Drawer!Create
  <1> QED
    BY <1>4, TopMoves DEF Drawer!Create, Drawer!DrawerInv

LEMMA DrawerArchive ==
  ASSUME Drawer!DrawerInv, NEW c \in Conversations, Drawer!Archive(c)
  PROVE  Drawer!DrawerInv'
  <1>1. Drawer!TypeOK /\ order \in Seq(Conversations) /\ Drawer!IsInjective(order)
    BY DrawerParts DEF Drawer!DrawerInv
  <1>2. order' = <<c>> \o Without(order, {c})
    BY DrawerSets DEF Drawer!Archive, Drawer!ToTop
  <1>3. /\ order' \in Seq(Conversations) /\ Drawer!IsInjective(order')
        /\ Drawer!Range(order') = Drawer!Range(order) \cup {c}
    BY <1>1, <1>2, OnTop
  <1>4. Drawer!TypeOK'
    BY <1>1, <1>3 DEF Drawer!TypeOK, Drawer!Archive
  <1> QED
    BY <1>4, TopMoves DEF Drawer!Archive, Drawer!DrawerInv

\* A list without some rows has no more that count.
LEMMA OwnWithout ==
  ASSUME NEW list \in Seq(Conversations), NEW c
  PROVE  /\ IsFiniteSet(Drawer!Own(list)) /\ IsFiniteSet(Drawer!Own(Without(list, {c})))
         /\ Cardinality(Drawer!Own(Without(list, {c}))) <= Cardinality(Drawer!Own(list))
         /\ Cardinality(Drawer!Own(Without(list, {c}))) \in Nat /\ Cardinality(Drawer!Own(list)) \in Nat
  <1>0. PICK n, place : IsKept(list, {c}, n, place)
    BY PlacesKept
  <1> DEFINE rest == Without(list, {c})
             P == Drawer!Own(list)
             Q == Drawer!Own(rest)
             g == [k \in Q |-> place[k]]
  <1>1. /\ n \in Nat /\ DOMAIN rest = 1..n
        /\ \A k \in 1..n : rest[k] = list[place[k]] /\ place[k] \in DOMAIN list
        /\ \A k, l \in 1..n : k < l <=> place[k] < place[l]
    BY <1>0 DEF IsKept
  <1>2. P \subseteq DOMAIN list /\ Q \subseteq 1..n
    BY <1>1 DEF Drawer!Own
  <1>3. IsFiniteSet(P) /\ Cardinality(P) \in Nat
    <2>1. IsFiniteSet(DOMAIN list)
      BY FS_Interval
    <2> QED
      BY <1>2, <2>1, FS_Subset, FS_CardinalityType
  <1>4. \A k \in Q : place[k] \in P
    BY <1>1 DEF Drawer!Own
  <1>5. \A k, l \in Q : place[k] = place[l] => k = l
    <2> SUFFICES ASSUME NEW k \in 1..n, NEW l \in 1..n, place[k] = place[l] PROVE k = l
      BY <1>2
    <2>1. place[k] \in Nat /\ place[l] \in Nat
      BY <1>1
    <2>2. ~(k < l) /\ ~(l < k)
      BY <1>1, <2>1
    <2> QED
      BY <1>1, <2>2
  <1> HIDE DEF P, Q
  <1>6. g \in Injection(Q, P)
    BY <1>4, <1>5 DEF Injection, IsInjective
  <1>7. IsFiniteSet(Q) /\ Cardinality(Q) <= Cardinality(P) /\ Cardinality(Q) \in Nat
    BY <1>3, <1>6, FS_Injection, FS_CardinalityType
  <1> QED
    BY <1>3, <1>7 DEF P, Q

\* Nothing is taken out of a list that has not got it.
LEMMA NothingLeaves ==
  ASSUME NEW list \in Seq(Conversations), NEW c, c \notin Drawer!Range(list)
  PROVE  Len(Without(list, {c})) = Len(list)
  <1>1. {i \in DOMAIN list : list[i] \notin {c}} = 1..Len(list)
    BY InRange
  <1>2. Cardinality(1..Len(list)) = Len(list)
    <2>1. Cardinality(1..Len(list)) = IF 1 > Len(list) THEN 0 ELSE Len(list) - 1 + 1
      BY FS_Interval
    <2> QED
      BY <2>1
  <1> QED
    BY <1>1, <1>2, WithoutIs

LEMMA DrawerArchived ==
  ASSUME Drawer!DrawerInv, NEW c \in Conversations, Drawer!Archived(c)
  PROVE  Drawer!DrawerInv'
  <1>1. Drawer!TypeOK /\ shown \in Seq(Conversations) /\ c \in archived
    BY DrawerParts DEF Drawer!DrawerInv, Drawer!Archived
  <1>2. UNCHANGED <<order, archived, moves, hasMore, loading, loads, fetches, moved, slipped>>
    BY DEF Drawer!Archived, Drawer!server
  <1>3. /\ shown' \in Seq(Conversations) /\ Drawer!Range(shown') = Drawer!Range(shown) \ ({c} \ Drawer!Range(shown'))
        /\ Len(shown') \in Nat
        /\ c \notin Drawer!Range(shown) => Len(shown') = Len(shown)
        /\ Cardinality(Drawer!Own(shown)') <= Cardinality(Drawer!Own(shown))
        /\ Cardinality(Drawer!Own(shown)') \in Nat
    <2>0. Drawer!Own(shown)' = Drawer!Own(shown')
      BY <1>2 DEF Drawer!Own
    <2>1. CASE shown' = shown
      BY <2>0, <2>1, <1>1, DrawerFinite
    <2>2. CASE shown' = Without(shown, {c})
      <3>1. shown' \in Seq(Conversations) /\ \A x : x \in Drawer!Range(shown') <=> x # c /\ x \in Drawer!Range(shown)
        <4>1. shown' \in Seq(Conversations)
          BY <1>1, <2>2, WithoutIs
        <4>2. \A x : (\E k \in DOMAIN shown' : shown'[k] = x) <=> x \notin {c} /\ \E i \in DOMAIN shown : shown[i] = x
          <5> DEFINE w == Without(shown, {c})
          <5>1. \A x : (\E k \in DOMAIN w : w[k] = x) <=> x \notin {c} /\ \E i \in DOMAIN shown : shown[i] = x
            BY <1>1, WithoutIs
          <5> QED
            BY <2>2, <5>1
        <4> QED
          BY <4>1, <4>2, InRange
      <3>2. c \notin Drawer!Range(shown) => Len(shown') = Len(shown)
        BY <1>1, <2>2, NothingLeaves
      <3>3. /\ Cardinality(Drawer!Own(shown')) <= Cardinality(Drawer!Own(shown))
            /\ Cardinality(Drawer!Own(shown')) \in Nat
        BY <1>1, <2>2, OwnWithout
      <3> QED
        BY <2>0, <3>1, <3>2, <3>3
    <2> QED
      BY <2>1, <2>2, DrawerSets DEF Drawer!Archived
  <1>4. Drawer!TypeOK'
    BY <1>1, <1>2, <1>3 DEF Drawer!TypeOK, Drawer!Archived
  <1> SUFFICES ASSUME fetches > 0, ~slipped
               PROVE  Drawer!OneLoad' /\ Drawer!Complete' /\ Drawer!PageComplete'
    BY <1>2, <1>4 DEF Drawer!DrawerInv, Drawer!Archived
  <1>5. Drawer!OneLoad /\ Drawer!Complete /\ Drawer!PageComplete
    BY DEF Drawer!DrawerInv
  <1>6. Drawer!OneLoad'
    BY <1>1, <1>2, <1>3, <1>5 DEF Drawer!OneLoad
  <1>7. /\ Drawer!Left' = Drawer!Left /\ c \notin Drawer!Left
        /\ \A x : Drawer!Ahead(x)' = Drawer!Ahead(x)
        /\ \A p : Drawer!Own(p)' = Drawer!Own(p)
    BY <1>1, <1>2 DEF Drawer!Left, Drawer!Ahead, Drawer!Own
  <1>8. Drawer!Complete'
    <2>1. ASSUME \A f \in loads : f.offset > 0, NEW x \in Drawer!Left \ Drawer!Range(shown')
          PROVE  Drawer!Cardinality(Drawer!Ahead(x)) >= Drawer!Cardinality(Drawer!Own(shown)')
      <3>1. x \notin Drawer!Range(shown)
        BY <1>3, <1>7, <2>1
      <3>2. Cardinality(Drawer!Ahead(x)) >= Cardinality(Drawer!Own(shown))
        BY <1>5, <2>1, <3>1, DrawerSets DEF Drawer!Complete
      <3>3. Cardinality(Drawer!Own(shown)) \in Nat /\ Cardinality(Drawer!Ahead(x)) \in Nat
        BY <1>1, DrawerFinite
      <3>4. Cardinality(Drawer!Ahead(x)) >= Cardinality(Drawer!Own(shown)')
        BY <1>3, <3>2, <3>3
      <3> QED
        BY <3>4, DrawerSets
    <2>2. loads = {} /\ ~hasMore => Drawer!Left \subseteq Drawer!Range(shown')
      BY <1>3, <1>5, <1>7 DEF Drawer!Complete
    <2> QED
      BY <1>2, <1>7, <2>1, <2>2 DEF Drawer!Complete
  <1>9. Drawer!PageComplete'
    <2> SUFFICES ASSUME NEW f \in loads, f.answered
                 PROVE  /\ f.offset = 0 =>
                               /\ Drawer!IsInjective(f.page)
                               /\ ~f.more => Drawer!Left \subseteq Drawer!Range(f.page)
                               /\ \A x \in Drawer!Left \ Drawer!Range(f.page) :
                                      Drawer!Range(f.page) \ archived \subseteq Drawer!Ahead(x)
                        /\ f.offset > 0 =>
                               /\ ~f.more => Drawer!Left \subseteq Drawer!Range(shown') \cup Drawer!Range(f.page)
                               /\ \A x \in Drawer!Left \ (Drawer!Range(shown') \cup Drawer!Range(f.page)) :
                                      Drawer!Cardinality(Drawer!Ahead(x)) >=
                                          Drawer!Cardinality(Drawer!Own(shown)') + Drawer!Cardinality(Drawer!Own(f.page))
      BY <1>2, <1>7 DEF Drawer!PageComplete
    <2>1. CASE f.offset = 0
      BY <2>1, <1>5 DEF Drawer!PageComplete
    <2>2. CASE f.offset > 0
      <3>1. ~f.more => Drawer!Left \subseteq Drawer!Range(shown') \cup Drawer!Range(f.page)
        BY <2>2, <1>3, <1>5, <1>7 DEF Drawer!PageComplete
      <3>2. ASSUME NEW x \in Drawer!Left \ (Drawer!Range(shown') \cup Drawer!Range(f.page))
            PROVE  Drawer!Cardinality(Drawer!Ahead(x)) >=
                      Drawer!Cardinality(Drawer!Own(shown)') + Drawer!Cardinality(Drawer!Own(f.page))
        <4> DEFINE p == f.page
        <4>1. p \in Seq(Conversations)
          BY <1>1, DrawerParts
        <4>2. x \in Drawer!Left \ (Drawer!Range(shown) \cup Drawer!Range(p))
          BY <1>3, <1>7, <3>2
        <4>3. Cardinality(Drawer!Ahead(x)) >= Cardinality(Drawer!Own(shown)) + Cardinality(Drawer!Own(p))
          BY <2>2, <1>5, <4>2, DrawerSets DEF Drawer!PageComplete
        <4> HIDE DEF p
        <4>4. /\ Cardinality(Drawer!Own(p)) \in Nat /\ Cardinality(Drawer!Own(shown)) \in Nat
              /\ Cardinality(Drawer!Ahead(x)) \in Nat
          BY <1>1, <4>1, DrawerFinite
        <4>5. Cardinality(Drawer!Ahead(x)) >= Cardinality(Drawer!Own(shown)') + Cardinality(Drawer!Own(p))
          BY <1>3, <4>3, <4>4
        <4> QED
          BY <4>5, DrawerSets DEF p
      <3> QED
        BY <2>2, <3>1, <3>2
    <2>3. f.offset \in Nat
      BY <1>1, DrawerParts
    <2> QED
      BY <2>1, <2>2, <2>3
  <1> QED
    BY <1>6, <1>8, <1>9

LEMMA DrawerOpen ==
  ASSUME Drawer!DrawerInv, Drawer!Open
  PROVE  Drawer!DrawerInv'
  <1> DEFINE w == Drawer!Waiting(0, {})
  <1>1. Drawer!TypeOK /\ MaxLoads \in Nat /\ fetches \in 0..MaxLoads
    BY DrawerParts DEF Drawer!DrawerInv, Drawer!TypeOK
  <1>2. /\ w \in Drawer!Fetch /\ w.offset = 0 /\ ~w.answered
    BY <1>1, BoundsAssumption DEF Drawer!Waiting, Drawer!Fetch
  <1>3. /\ UNCHANGED <<order, archived, moves, shown, hasMore, leaving>> /\ loads' = loads \cup {w}
        /\ fetches' = fetches + 1 /\ fetches < MaxLoads /\ moved' = {} /\ slipped' = (loads # {})
        /\ loading' = TRUE
    BY DEF Drawer!Open, Drawer!server
  <1> HIDE DEF w
  <1>4. Drawer!TypeOK'
    BY <1>1, <1>2, <1>3 DEF Drawer!TypeOK
  <1> SUFFICES ASSUME ~slipped'
               PROVE  Drawer!OneLoad' /\ Drawer!Complete' /\ Drawer!PageComplete'
    BY <1>1, <1>3, <1>4 DEF Drawer!DrawerInv
  <1>5. loads' = {w}
    BY <1>3
  <1>6. Drawer!OneLoad' /\ Drawer!PageComplete'
    <2>1. \A f \in loads' : f = w /\ f.offset = 0 /\ ~f.answered
      BY <1>2, <1>5
    <2>2. loading' = (loads' # {})
      BY <1>3, <1>5
    <2> QED
      BY <2>1, <2>2 DEF Drawer!OneLoad, Drawer!PageComplete
  <1>7. Drawer!Complete'
    <2>1. ~(\A f \in loads' : f.offset > 0) /\ loads' # {}
      BY <1>2, <1>5
    <2> QED
      BY <2>1 DEF Drawer!Complete
  <1> QED
    BY <1>6, <1>7

LEMMA DrawerLoadMore ==
  ASSUME Drawer!DrawerInv, Drawer!LoadMore
  PROVE  Drawer!DrawerInv'
  <1> DEFINE w == Drawer!Waiting(Len(shown), Drawer!Range(shown))
  <1>1. /\ Drawer!TypeOK /\ MaxLoads \in Nat /\ fetches \in 0..MaxLoads
        /\ shown \in Seq(Conversations) /\ Len(shown) \in Nat
    BY DrawerParts DEF Drawer!DrawerInv, Drawer!TypeOK
  <1>2. Drawer!Range(shown) \subseteq Conversations
    BY <1>1 DEF Drawer!Range
  <1>3. w \in Drawer!Fetch /\ w.offset = Len(shown) /\ ~w.answered /\ w.rows = Drawer!Range(shown)
    BY <1>1, <1>2, BoundsAssumption DEF Drawer!Waiting, Drawer!Fetch
  <1>4. /\ UNCHANGED <<order, archived, moves, shown, hasMore, leaving, moved, slipped>>
        /\ loads' = loads \cup {w} /\ hasMore /\ ~loading
        /\ fetches' = fetches + 1 /\ fetches < MaxLoads /\ loading' = TRUE
    BY DEF Drawer!LoadMore, Drawer!server
  <1> HIDE DEF w
  <1>5. Drawer!TypeOK'
    BY <1>1, <1>3, <1>4 DEF Drawer!TypeOK
  <1> SUFFICES ASSUME ~slipped
               PROVE  Drawer!OneLoad' /\ Drawer!Complete' /\ Drawer!PageComplete'
    BY <1>1, <1>4, <1>5 DEF Drawer!DrawerInv
  <1>6. fetches > 0
    BY <1>1, <1>4 DEF Drawer!DrawerInv
  <1>7. Drawer!OneLoad /\ Drawer!Complete /\ loads = {}
    BY <1>4, <1>6 DEF Drawer!DrawerInv, Drawer!OneLoad
  <1>8. loads' = {w}
    BY <1>4, <1>7
  <1>9. Drawer!OneLoad' /\ Drawer!PageComplete'
    BY <1>3, <1>4, <1>8 DEF Drawer!OneLoad, Drawer!PageComplete
  <1>10. Drawer!Left' = Drawer!Left /\ Drawer!Own(shown)' = Drawer!Own(shown) /\ \A x : Drawer!Ahead(x)' = Drawer!Ahead(x)
    BY <1>4 DEF Drawer!Left, Drawer!Own, Drawer!Ahead
  <1>11. Drawer!Complete'
    BY <1>4, <1>7, <1>8, <1>10 DEF Drawer!Complete
  <1> QED
    BY <1>9, <1>11

LEMMA DrawerLoadFails ==
  ASSUME Drawer!DrawerInv, NEW f \in loads, Drawer!LoadFails(f)
  PROVE  Drawer!DrawerInv'
  <1>1. Drawer!TypeOK /\ f.offset \in Nat
    BY DrawerParts DEF Drawer!DrawerInv
  <1>2. /\ UNCHANGED <<order, archived, moves, shown, hasMore, leaving, fetches, moved>>
        /\ loads' = loads \ {f} /\ slipped' = (slipped \/ f.offset = 0) /\ loading' = FALSE
    BY DEF Drawer!LoadFails, Drawer!server
  <1>3. Drawer!TypeOK'
    BY <1>1, <1>2 DEF Drawer!TypeOK
  <1>4. fetches # 0 /\ fetches \in Nat
    BY <1>1, DrawerParts DEF Drawer!DrawerInv, Drawer!TypeOK
  <1> SUFFICES ASSUME ~slipped, f.offset > 0, fetches > 0
               PROVE  Drawer!OneLoad' /\ Drawer!Complete' /\ Drawer!PageComplete'
    <2>1. leaving' \subseteq archived' /\ fetches' > 0
      BY <1>2, <1>4 DEF Drawer!DrawerInv
    <2>2. ASSUME ~slipped' PROVE ~slipped /\ f.offset > 0
      <3>1. ~slipped /\ f.offset # 0
        BY <1>2, <2>2
      <3> QED
        BY <1>1, <3>1
    <2> QED
      BY <1>2, <1>3, <1>4, <2>1, <2>2 DEF Drawer!DrawerInv
  <1>5. Drawer!OneLoad /\ Drawer!Complete
    BY DEF Drawer!DrawerInv
  <1>6. loads = {f} /\ loads' = {} /\ hasMore
    BY <1>2, <1>5 DEF Drawer!OneLoad
  <1>7. Drawer!OneLoad' /\ Drawer!PageComplete'
    BY <1>2, <1>6 DEF Drawer!OneLoad, Drawer!PageComplete
  <1>8. Drawer!Left' = Drawer!Left /\ Drawer!Own(shown)' = Drawer!Own(shown) /\ \A x : Drawer!Ahead(x)' = Drawer!Ahead(x)
    BY <1>2 DEF Drawer!Left, Drawer!Own, Drawer!Ahead
  <1>9. Drawer!Complete'
    BY <1>2, <1>5, <1>6, <1>8 DEF Drawer!Complete
  <1> QED
    BY <1>7, <1>9

\* Rows that count in a list with another appended to it.
LEMMA OwnConcat ==
  ASSUME NEW s \in Seq(Conversations), NEW p \in Seq(Conversations)
  PROVE  /\ s \o p \in Seq(Conversations)
         /\ Drawer!Range(s \o p) = Drawer!Range(s) \cup Drawer!Range(p)
         /\ Cardinality(Drawer!Own(s \o p)) <= Cardinality(Drawer!Own(s)) + Cardinality(Drawer!Own(p))
         /\ Cardinality(Drawer!Own(s \o p)) \in Nat
         /\ Cardinality(Drawer!Own(s)) \in Nat /\ Cardinality(Drawer!Own(p)) \in Nat
  <1> DEFINE t == s \o p
             m == Len(s)
             n == Len(p)
             A == Drawer!Own(s)
             B == Drawer!Own(p)
             C == {j \in (m + 1)..(m + n) : j - m \in B}
             g == [j \in C |-> j - m]
  <1>1. /\ m \in Nat /\ n \in Nat /\ DOMAIN s = 1..m /\ DOMAIN p = 1..n
        /\ t \in Seq(Conversations) /\ DOMAIN t = 1..(m + n)
        /\ \A i \in 1..(m + n) : t[i] = IF i <= m THEN s[i] ELSE p[i - m]
    <2>1. t \in Seq(Conversations) /\ Len(t) = m + n
          /\ \A i \in 1..(m + n) : t[i] = IF i <= m THEN s[i] ELSE p[i - m]
      BY ConcatProperties
    <2> QED
      BY <2>1
  <1>2. A \subseteq 1..m /\ B \subseteq 1..n
    BY <1>1 DEF Drawer!Own
  <1>3. Drawer!Own(t) \subseteq A \cup C
    <2> SUFFICES ASSUME NEW i \in 1..(m + n), t[i] \notin archived PROVE i \in A \cup C
      BY <1>1 DEF Drawer!Own
    <2>1. CASE i <= m
      BY <2>1, <1>1 DEF Drawer!Own
    <2>2. CASE i > m
      <3>1. i - m \in 1..n /\ p[i - m] \notin archived
        BY <2>2, <1>1
      <3> QED
        BY <2>2, <3>1, <1>1 DEF Drawer!Own
    <2> QED
      BY <2>1, <2>2, <1>1
  <1>4. Drawer!Range(t) = Drawer!Range(s) \cup Drawer!Range(p)
    <2>1. ASSUME NEW x \in Drawer!Range(t) PROVE x \in Drawer!Range(s) \cup Drawer!Range(p)
      <3>1. PICK i \in 1..(m + n) : t[i] = x
        BY <1>1, <2>1, InRange
      <3>2. CASE i <= m
        BY <1>1, <3>1, <3>2, InRange
      <3>3. CASE i > m
        <4>1. i - m \in DOMAIN p /\ p[i - m] = x
          BY <1>1, <3>1, <3>3
        <4> QED
          BY <4>1, InRange
      <3> QED
        BY <1>1, <3>2, <3>3
    <2>2. ASSUME NEW x \in Drawer!Range(s) PROVE x \in Drawer!Range(t)
      <3>1. PICK i \in 1..m : s[i] = x
        BY <1>1, <2>2, InRange
      <3>2. i \in DOMAIN t /\ t[i] = x
        BY <1>1, <3>1
      <3> QED
        BY <3>2, InRange
    <2>3. ASSUME NEW x \in Drawer!Range(p) PROVE x \in Drawer!Range(t)
      <3>1. PICK i \in 1..n : p[i] = x
        BY <1>1, <2>3, InRange
      <3>2. m + i \in DOMAIN t /\ t[m + i] = x
        BY <1>1, <3>1
      <3> QED
        BY <3>2, InRange
    <2> QED
      BY <2>1, <2>2, <2>3
  <1> HIDE DEF t, m, n, A, B
  <1>5. IsFiniteSet(A) /\ IsFiniteSet(B) /\ Cardinality(A) \in Nat /\ Cardinality(B) \in Nat
    <2>1. IsFiniteSet(1..m) /\ IsFiniteSet(1..n)
      BY <1>1, FS_Interval
    <2> QED
      BY <1>2, <2>1, FS_Subset, FS_CardinalityType
  <1>6. g \in Injection(C, B)
    BY <1>1 DEF Injection, IsInjective
  <1>7. IsFiniteSet(C) /\ Cardinality(C) <= Cardinality(B) /\ Cardinality(C) \in Nat
    BY <1>5, <1>6, FS_Injection, FS_CardinalityType
  <1> HIDE DEF C
  <1>8. IsFiniteSet(A \cup C) /\ Cardinality(A \cup C) = Cardinality(A) + Cardinality(C) - Cardinality(A \cap C)
    BY <1>5, <1>7, FS_Union
  <1>9. Cardinality(A \cap C) \in Nat
    BY <1>5, FS_Intersection, FS_CardinalityType
  <1>10. Cardinality(Drawer!Own(t)) <= Cardinality(A \cup C) /\ Cardinality(Drawer!Own(t)) \in Nat
    BY <1>3, <1>8, FS_Subset, FS_CardinalityType
  <1>11. Cardinality(Drawer!Own(t)) <= Cardinality(A) + Cardinality(B)
    BY <1>5, <1>7, <1>8, <1>9, <1>10
  <1> QED
    BY <1>1, <1>4, <1>5, <1>10, <1>11 DEF t, A, B

\* The rows that count of a page without repetitions, if they are all ahead of one.
LEMMA OwnAhead ==
  ASSUME Drawer!TypeOK, NEW p \in Seq(Conversations), Drawer!IsInjective(p), NEW x,
         Drawer!Range(p) \ archived \subseteq Drawer!Ahead(x)
  PROVE  Cardinality(Drawer!Ahead(x)) >= Cardinality(Drawer!Own(p))
  <1> DEFINE P == Drawer!Own(p)
             A == Drawer!Ahead(x)
             g == [i \in P |-> p[i]]
  <1>1. P \subseteq DOMAIN p /\ \A i \in P : p[i] \in A
    BY DEF Drawer!Own, Drawer!Range
  <1>2. \A i, j \in P : p[i] = p[j] => i = j
    BY <1>1 DEF Drawer!IsInjective
  <1>3. IsFiniteSet(A) /\ Cardinality(A) \in Nat
    BY DrawerFinite
  <1>4. IsFiniteSet(P) /\ Cardinality(P) \in Nat
    BY DrawerFinite
  <1> HIDE DEF P, A
  <1>5. g \in Injection(P, A)
    BY <1>1, <1>2 DEF Injection, IsInjective
  <1>6. Cardinality(P) <= Cardinality(A)
    BY <1>3, <1>5, FS_Injection
  <1> QED
    BY <1>3, <1>4, <1>6 DEF P, A

LEMMA DrawerTakePage ==
  ASSUME Drawer!DrawerInv, NEW f \in loads, Drawer!TakePage(f)
  PROVE  Drawer!DrawerInv'
  <1> DEFINE p == f.page
  <1>1. /\ Drawer!TypeOK /\ f.offset \in Nat /\ f.more \in BOOLEAN /\ f.answered
        /\ p \in Seq(Conversations) /\ shown \in Seq(Conversations)
    BY DrawerParts DEF Drawer!DrawerInv, Drawer!TakePage
  <1>2. /\ UNCHANGED <<order, archived, moves, leaving, fetches, moved, slipped>>
        /\ loads' = loads \ {f} /\ loading' = FALSE /\ hasMore' = f.more
        /\ shown' = IF f.offset = 0 THEN p ELSE shown \o p
    BY DEF Drawer!TakePage, Drawer!server
  <1>3. Drawer!PageComplete /\ fetches > 0 /\ ~slipped =>
        /\ f.offset = 0 =>
               /\ Drawer!IsInjective(p)
               /\ ~f.more => Drawer!Left \subseteq Drawer!Range(p)
               /\ \A x \in Drawer!Left \ Drawer!Range(p) : Drawer!Range(p) \ archived \subseteq Drawer!Ahead(x)
        /\ f.offset > 0 =>
               /\ ~f.more => Drawer!Left \subseteq Drawer!Range(shown) \cup Drawer!Range(p)
               /\ \A x \in Drawer!Left \ (Drawer!Range(shown) \cup Drawer!Range(p)) :
                      Cardinality(Drawer!Ahead(x)) >= Cardinality(Drawer!Own(shown)) + Cardinality(Drawer!Own(p))
    BY <1>1, DrawerSets DEF Drawer!PageComplete
  <1> HIDE DEF p
  <1>4. /\ shown \o p \in Seq(Conversations)
        /\ Drawer!Range(shown \o p) = Drawer!Range(shown) \cup Drawer!Range(p)
        /\ Cardinality(Drawer!Own(shown \o p)) <= Cardinality(Drawer!Own(shown)) + Cardinality(Drawer!Own(p))
        /\ Cardinality(Drawer!Own(shown \o p)) \in Nat
        /\ Cardinality(Drawer!Own(shown)) \in Nat /\ Cardinality(Drawer!Own(p)) \in Nat
    BY <1>1, OwnConcat
  <1>5. Drawer!TypeOK'
    BY <1>1, <1>2, <1>4 DEF Drawer!TypeOK
  <1>6. fetches # 0
    BY DEF Drawer!DrawerInv
  <1> SUFFICES ASSUME fetches > 0, ~slipped
               PROVE  Drawer!OneLoad' /\ Drawer!Complete' /\ Drawer!PageComplete'
    BY <1>2, <1>5, <1>6 DEF Drawer!DrawerInv
  <1>7. Drawer!OneLoad /\ Drawer!Complete /\ Drawer!PageComplete
    BY DEF Drawer!DrawerInv
  <1>8. loads' = {}
    BY <1>2, <1>7 DEF Drawer!OneLoad
  <1>9. Drawer!OneLoad' /\ Drawer!PageComplete'
    BY <1>2, <1>8 DEF Drawer!OneLoad, Drawer!PageComplete
  <1>10. /\ Drawer!Left' = Drawer!Left /\ Drawer!Own(shown)' = Drawer!Own(shown')
         /\ \A x : Drawer!Ahead(x)' = Drawer!Ahead(x)
    BY <1>2 DEF Drawer!Left, Drawer!Own, Drawer!Ahead
  <1>11. /\ \A x \in Drawer!Left \ Drawer!Range(shown') :
                Cardinality(Drawer!Ahead(x)) >= Cardinality(Drawer!Own(shown'))
         /\ ~f.more => Drawer!Left \subseteq Drawer!Range(shown')
    <2>1. CASE f.offset = 0
      <3>1. shown' = p
        BY <1>2, <2>1
      <3>2. ~f.more => Drawer!Left \subseteq Drawer!Range(p)
        BY <1>3, <1>7, <2>1
      <3>3. ASSUME NEW x \in Drawer!Left \ Drawer!Range(p)
            PROVE  Cardinality(Drawer!Ahead(x)) >= Cardinality(Drawer!Own(p))
        <4>1. Drawer!IsInjective(p) /\ Drawer!Range(p) \ archived \subseteq Drawer!Ahead(x)
          BY <1>3, <1>7, <2>1, <3>3
        <4> QED
          BY <1>1, <4>1, OwnAhead
      <3> QED
        BY <3>1, <3>2, <3>3
    <2>2. CASE f.offset > 0
      <3>1. shown' = shown \o p
        BY <1>2, <2>2
      <3>2. ~f.more => Drawer!Left \subseteq Drawer!Range(shown')
        BY <1>3, <1>4, <1>7, <2>2, <3>1
      <3>3. ASSUME NEW x \in Drawer!Left \ Drawer!Range(shown \o p)
            PROVE  Cardinality(Drawer!Ahead(x)) >= Cardinality(Drawer!Own(shown \o p))
        <4>1. Cardinality(Drawer!Ahead(x)) >= Cardinality(Drawer!Own(shown)) + Cardinality(Drawer!Own(p))
          BY <1>3, <1>4, <1>7, <2>2, <3>3
        <4>2. Cardinality(Drawer!Ahead(x)) \in Nat
          BY <1>1, DrawerFinite
        <4> QED
          BY <4>1, <4>2, <1>4
      <3> QED
        BY <3>1, <3>2, <3>3
    <2> QED
      BY <2>1, <2>2, <1>1
  <1>12. Drawer!Complete'
    BY <1>2, <1>8, <1>10, <1>11, DrawerSets DEF Drawer!Complete
  <1> QED
    BY <1>9, <1>12

\* What the statement reads: the rows at the offset, one more than the page has if there
\* is one.
LEMMA CutIs ==
  ASSUME NEW L \in Seq(Conversations), NEW off \in Nat, NEW n \in Nat
  PROVE  /\ Drawer!Cut(L, off, n) \in Seq(Conversations)
         /\ Len(Drawer!Cut(L, off, n)) =
                IF off + n < Len(L) THEN n ELSE IF off < Len(L) THEN Len(L) - off ELSE 0
         /\ \A i \in 1..Len(Drawer!Cut(L, off, n)) : Drawer!Cut(L, off, n)[i] = L[off + i]
  <1> DEFINE z == IF off + n < Len(L) THEN off + n ELSE Len(L)
  <1>1. z \in Int /\ off + 1 \in Int /\ Len(L) \in Nat
    OBVIOUS
  <1>2. \A i \in (off + 1)..z : L[i] \in Conversations
    OBVIOUS
  <1>3. Drawer!Cut(L, off, n) = SubSeq(L, off + 1, z)
    BY DEF Drawer!Cut
  <1>4. z = IF off + n < Len(L) THEN off + n ELSE Len(L)
    OBVIOUS
  <1> HIDE DEF z
  <1> DEFINE c == SubSeq(L, off + 1, z)
  <1>5. /\ c \in Seq(Conversations)
        /\ Len(c) = IF off + 1 <= z THEN z - (off + 1) + 1 ELSE 0
        /\ \A i \in 1..z - (off + 1) + 1 : c[i] = L[off + 1 + i - 1]
    BY <1>1, <1>2, SubSeqProperties
  <1> HIDE DEF c
  <1>6. Len(c) = IF off + n < Len(L) THEN n ELSE IF off < Len(L) THEN Len(L) - off ELSE 0
    BY <1>1, <1>4, <1>5
  <1>7. ASSUME NEW i \in 1..Len(c) PROVE c[i] = L[off + i]
    <2>1. off + 1 <= z
      BY <1>5, <1>7, <1>1
    <2>2. i \in 1..z - (off + 1) + 1 /\ off + 1 + i - 1 = off + i
      BY <1>5, <1>7, <1>1, <2>1
    <2> QED
      BY <1>5, <2>2
  <1> QED
    BY <1>3, <1>5, <1>6, <1>7 DEF c

\* The page and its flag.
IsPage(L, off, p, more) ==
    /\ p \in Seq(Conversations) /\ Len(p) <= PageSize
    /\ \A i \in 1..Len(p) : off + i \in DOMAIN L /\ p[i] = L[off + i]
    /\ \A j \in DOMAIN L : j > off /\ j <= off + PageSize => j - off \in 1..Len(p)
    /\ more = (Len(L) > off + PageSize)

LEMMA PageIs ==
  ASSUME NEW L \in Seq(Conversations), NEW off \in Nat, PageSize \in Nat
  PROVE  IsPage(L, off, Drawer!Cut(Drawer!Cut(L, off, PageSize + 1), 0, PageSize),
                Len(Drawer!Cut(L, off, PageSize + 1)) > PageSize)
  <1> DEFINE read == Drawer!Cut(L, off, PageSize + 1)
             p == Drawer!Cut(read, 0, PageSize)
  <1>1. /\ read \in Seq(Conversations) /\ Len(read) \in Nat /\ Len(L) \in Nat
        /\ Len(read) = IF off + (PageSize + 1) < Len(L) THEN PageSize + 1
                       ELSE IF off < Len(L) THEN Len(L) - off ELSE 0
        /\ \A i \in 1..Len(read) : read[i] = L[off + i]
    <2> DEFINE more == PageSize + 1
    <2>1. more \in Nat
      OBVIOUS
    <2> HIDE DEF more
    <2>2. /\ Drawer!Cut(L, off, more) \in Seq(Conversations)
          /\ Len(Drawer!Cut(L, off, more)) \in Nat /\ Len(L) \in Nat
          /\ Len(Drawer!Cut(L, off, more)) = IF off + more < Len(L) THEN more
                                             ELSE IF off < Len(L) THEN Len(L) - off ELSE 0
          /\ \A i \in 1..Len(Drawer!Cut(L, off, more)) : Drawer!Cut(L, off, more)[i] = L[off + i]
      <3>1. Len(L) \in Nat
        OBVIOUS
      <3>2. /\ Drawer!Cut(L, off, more) \in Seq(Conversations)
            /\ Len(Drawer!Cut(L, off, more)) = IF off + more < Len(L) THEN more
                                               ELSE IF off < Len(L) THEN Len(L) - off ELSE 0
            /\ \A i \in 1..Len(Drawer!Cut(L, off, more)) : Drawer!Cut(L, off, more)[i] = L[off + i]
        BY <2>1, CutIs
      <3>3. Len(Drawer!Cut(L, off, more)) \in Nat
        BY <3>2
      <3> QED
        BY <3>1, <3>2, <3>3
    <2> QED
      BY <2>2 DEF more
  <1> HIDE DEF read
  <1>2. /\ p \in Seq(Conversations) /\ Len(p) \in Nat
        /\ Len(p) = IF 0 + PageSize < Len(read) THEN PageSize
                    ELSE IF 0 < Len(read) THEN Len(read) - 0 ELSE 0
        /\ \A i \in 1..Len(p) : p[i] = read[0 + i]
    <2>1. 0 \in Nat
      OBVIOUS
    <2>2. p \in Seq(Conversations)
      BY <1>1, <2>1, CutIs
    <2>3. Len(p) = IF 0 + PageSize < Len(read) THEN PageSize
                   ELSE IF 0 < Len(read) THEN Len(read) - 0 ELSE 0
      BY <1>1, <2>1, CutIs
    <2>4. \A i \in 1..Len(p) : p[i] = read[0 + i]
      BY <1>1, <2>1, CutIs
    <2> QED
      BY <2>2, <2>3, <2>4
  <1> HIDE DEF p
  <1>3. Len(p) <= PageSize /\ Len(p) <= Len(read)
    BY <1>1, <1>2
  <1>4. ASSUME NEW i \in 1..Len(p) PROVE off + i \in DOMAIN L /\ p[i] = L[off + i]
    <2>1. i \in 1..Len(read) /\ 0 + i = i /\ i \in Nat
      BY <1>1, <1>2, <1>3
    <2>2. off + i <= Len(L)
      BY <2>1, <1>1
    <2> QED
      BY <1>1, <1>2, <2>1, <2>2
  <1>5. ASSUME NEW j \in DOMAIN L, j > off, j <= off + PageSize PROVE j - off \in 1..Len(p)
    BY <1>1, <1>2, <1>5
  <1>6. (Len(read) > PageSize) = (Len(L) > off + PageSize)
    BY <1>1
  <1> QED
    BY <1>2, <1>3, <1>4, <1>5, <1>6 DEF IsPage, read, p

\* The list that pages are cut from: the rows that are not archived, each after those
\* that are ahead of it.
LEMMA ListedIs ==
  ASSUME Drawer!TypeOK
  PROVE  /\ Drawer!Listed \in Seq(Conversations) /\ Len(Drawer!Listed) \in Nat
         /\ Drawer!IsInjective(Drawer!Listed)
         /\ Drawer!Range(Drawer!Listed) = Drawer!Range(order) \ archived
         /\ \A i, j \in DOMAIN Drawer!Listed :
                j < i => Drawer!Listed[j] \in Drawer!Ahead(Drawer!Listed[i])
         /\ \A i \in DOMAIN Drawer!Listed : Cardinality(Drawer!Ahead(Drawer!Listed[i])) = i - 1
  <1> DEFINE L == Drawer!Listed
  <1>0. order \in Seq(Conversations) /\ Drawer!IsInjective(order) /\ L = Without(order, archived)
    BY DrawerParts, DrawerSets DEF Drawer!Listed
  <1>1. PICK n, place : IsKept(order, archived, n, place)
    BY <1>0, PlacesKept
  <1>2. /\ n \in Nat /\ DOMAIN L = 1..n /\ DOMAIN order = 1..Len(order) /\ Len(order) \in Nat
        /\ \A k \in 1..n : L[k] = order[place[k]] /\ place[k] \in DOMAIN order /\ order[place[k]] \notin archived
        /\ \A i \in DOMAIN order : order[i] \notin archived => \E k \in 1..n : place[k] = i
        /\ \A k, l \in 1..n : k < l <=> place[k] < place[l]
    <2>1. /\ n \in Nat /\ place \in [1..n -> DOMAIN order]
          /\ L = [k \in 1..n |-> order[place[k]]]
          /\ \A k \in 1..n : order[place[k]] \notin archived
          /\ \A i \in DOMAIN order : order[i] \notin archived => \E k \in 1..n : place[k] = i
          /\ \A k, l \in 1..n : k < l <=> place[k] < place[l]
      BY <1>0, <1>1 DEF IsKept
    <2> HIDE DEF L
    <2>2. DOMAIN L = 1..n /\ \A k \in 1..n : L[k] = order[place[k]]
      BY <2>1
    <2>3. DOMAIN order = 1..Len(order) /\ Len(order) \in Nat
      BY <1>0
    <2> QED
      BY <2>1, <2>2, <2>3
  <1>3. L \in Seq(Conversations) /\ Drawer!IsInjective(L) /\ Drawer!Range(L) = Drawer!Range(order) \ archived
    <2>1. L \in Seq(Conversations)
      BY <1>0, WithoutIs
    <2>2. \A x : (\E k \in DOMAIN L : L[k] = x) <=> x \notin archived /\ \E i \in DOMAIN order : order[i] = x
      <3> DEFINE w == Without(order, archived)
      <3>1. \A x : (\E k \in DOMAIN w : w[k] = x) <=> x \notin archived /\ \E i \in DOMAIN order : order[i] = x
        BY <1>0, WithoutIs
      <3>2. L = w
        BY <1>0
      <3> HIDE DEF w, L
      <3> QED
        BY <3>1, <3>2
    <2>3. \A k, l \in DOMAIN L : L[k] = L[l] => k = l
      <3>1. \A i, j \in DOMAIN order : order[i] = order[j] => i = j
        BY <1>0 DEF Drawer!IsInjective
      <3>2. \A k, l \in DOMAIN Without(order, archived) :
               Without(order, archived)[k] = Without(order, archived)[l] => k = l
        BY <1>0, <3>1, WithoutIs
      <3> QED
        BY <1>0, <3>2
    <2> HIDE DEF L
    <2> QED
      BY <2>1, <2>2, <2>3, InRange DEF Drawer!IsInjective
  <1> HIDE DEF L
  <1>4. ASSUME NEW i \in 1..n
        PROVE  /\ \A j \in 1..i-1 : L[j] \in Drawer!Ahead(L[i])
               /\ \A y \in Drawer!Ahead(L[i]) : \E j \in 1..i-1 : L[j] = y
    <2>1. ASSUME NEW j \in 1..i-1 PROVE L[j] \in Drawer!Ahead(L[i])
      <3>1. j \in 1..n /\ j < i
        BY <1>2, <2>1
      <3>2. place[j] < place[i] /\ place[j] \in DOMAIN order /\ place[i] \in DOMAIN order
        BY <1>2, <3>1
      <3>3. Before(order, L[j], L[i])
        BY <1>2, <3>1, <3>2 DEF Before
      <3>4. L[j] \in Drawer!Range(order) \ archived
        BY <1>2, <3>1, <3>2, InRange
      <3> QED
        BY <3>3, <3>4, AheadIs
    <2>2. ASSUME NEW y \in Drawer!Ahead(L[i]) PROVE \E j \in 1..i-1 : L[j] = y
      <3>1. y \notin archived /\ Before(order, y, L[i])
        BY <2>2, AheadIs
      <3>2. PICK a, b \in DOMAIN order : a < b /\ order[a] = y /\ order[b] = L[i]
        BY <3>1 DEF Before
      <3>3. b = place[i]
        BY <1>0, <1>2, <3>2 DEF Drawer!IsInjective
      <3>4. PICK j \in 1..n : place[j] = a
        BY <1>2, <3>1, <3>2
      <3>5. j < i /\ L[j] = y
        BY <1>2, <3>2, <3>3, <3>4
      <3>6. j \in 1..i-1
        BY <1>2, <3>5
      <3> QED
        BY <3>5, <3>6
    <2> QED
      BY <2>1, <2>2
  <1>5. ASSUME NEW i \in 1..n PROVE Cardinality(Drawer!Ahead(L[i])) = i - 1
    <2> DEFINE A == Drawer!Ahead(L[i])
               g == [j \in 1..i-1 |-> L[j]]
    <2>0. \A j \in 1..i-1 : j \in DOMAIN L
      BY <1>2
    <2>1. \A j, k \in 1..i-1 : L[j] = L[k] => j = k
      BY <1>3, <2>0 DEF Drawer!IsInjective
    <2>2. (\A j \in 1..i-1 : L[j] \in A) /\ \A y \in A : \E j \in 1..i-1 : L[j] = y
      BY <1>4
    <2> HIDE DEF A
    <2>3. g \in [1..i-1 -> A] /\ (\A j, k \in 1..i-1 : g[j] = g[k] => j = k)
          /\ \A y \in A : \E j \in 1..i-1 : g[j] = y
      BY <2>1, <2>2
    <2>4. g \in Injection(1..i-1, A) /\ g \in Surjection(1..i-1, A)
      BY <2>3 DEF Injection, Surjection, IsInjective
    <2>5. IsFiniteSet(1..i-1) /\ Cardinality(1..i-1) = i - 1
      <3>1. 1 \in Int /\ i - 1 \in Int /\ i \in Nat /\ i >= 1
        BY <1>2, <1>5
      <3>2. Cardinality(1..i-1) = IF 1 > i - 1 THEN 0 ELSE i - 1 - 1 + 1
        BY <3>1, FS_Interval
      <3> QED
        BY <3>1, <3>2, FS_Interval
    <2>6. Cardinality(A) = Cardinality(1..i-1)
      BY <2>4, <2>5, FS_Surjection
    <2> QED
      BY <2>5, <2>6 DEF A
  <1>6. Len(L) \in Nat
    BY <1>3
  <1>7. \A i, j \in 1..n : j < i => j \in 1..i-1
    BY <1>2
  <1> QED
    BY <1>2, <1>3, <1>4, <1>5, <1>6, <1>7 DEF L

\* A page that no slipped offset names begins behind no conversation that is still due.
LEMMA DrawerReadPage ==
  ASSUME Drawer!DrawerInv, NEW f \in loads, Drawer!ReadPage(f)
  PROVE  Drawer!DrawerInv'
  <1> DEFINE L == Drawer!Listed
             off == f.offset
             p == Drawer!Cut(Drawer!Cut(L, off, PageSize + 1), 0, PageSize)
             more == Len(Drawer!Cut(L, off, PageSize + 1)) > PageSize
             g == [f EXCEPT !.answered = TRUE, !.page = p, !.more = more]
  <1>1. /\ Drawer!TypeOK /\ PageSize \in Nat /\ f \in Drawer!Fetch /\ off \in Nat
        /\ ~f.answered /\ shown \in Seq(Conversations) /\ Len(shown) \in Nat
    BY DrawerParts DEF Drawer!DrawerInv, Drawer!ReadPage
  <1>2. /\ UNCHANGED <<order, archived, moves, shown, hasMore, loading, leaving, fetches, moved>>
        /\ loads' = (loads \ {f}) \cup {g}
        /\ slipped' = (slipped \/ f.rows \cap archived # {})
    BY DEF Drawer!ReadPage, Drawer!server
  <1>3. /\ L \in Seq(Conversations) /\ Len(L) \in Nat
        /\ Drawer!IsInjective(L) /\ Drawer!Range(L) = Drawer!Range(order) \ archived
        /\ \A i, j \in DOMAIN L : j < i => L[j] \in Drawer!Ahead(L[i])
        /\ \A i \in DOMAIN L : Cardinality(Drawer!Ahead(L[i])) = i - 1
    BY <1>1, ListedIs
  <1> HIDE DEF L
  <1>4. IsPage(L, off, p, more)
    BY <1>1, <1>3, PageIs
  <1> HIDE DEF p, more
  <1>4a. p \in Seq(Conversations) /\ more \in BOOLEAN
    BY <1>4 DEF IsPage
  <1>5. /\ g \in Drawer!Fetch /\ g.offset = off /\ g.rows = f.rows /\ g.answered
        /\ g.page = p /\ g.more = more
    BY <1>1, <1>4a DEF Drawer!Fetch
  <1> HIDE DEF g
  <1>6. Drawer!TypeOK'
    BY <1>1, <1>2, <1>5 DEF Drawer!TypeOK
  <1>7. fetches # 0
    BY DEF Drawer!DrawerInv
  <1> SUFFICES ASSUME fetches > 0, ~slipped, f.rows \cap archived = {}
               PROVE  Drawer!OneLoad' /\ Drawer!Complete' /\ Drawer!PageComplete'
    BY <1>2, <1>6, <1>7 DEF Drawer!DrawerInv
  <1>8. Drawer!OneLoad /\ Drawer!Complete
    BY DEF Drawer!DrawerInv
  <1>9. loads = {f} /\ loads' = {g}
    BY <1>2, <1>8 DEF Drawer!OneLoad
  <1>10. Drawer!OneLoad'
    BY <1>2, <1>5, <1>8, <1>9 DEF Drawer!OneLoad
  <1>11. /\ Drawer!Left' = Drawer!Left
         /\ \A q : Drawer!Own(q)' = Drawer!Own(q)
         /\ \A x : Drawer!Ahead(x)' = Drawer!Ahead(x)
    BY <1>2 DEF Drawer!Left, Drawer!Own, Drawer!Ahead
  <1>12. Drawer!Complete'
    BY <1>2, <1>5, <1>8, <1>9, <1>11 DEF Drawer!Complete
  <1>13. /\ p \in Seq(Conversations) /\ Len(p) \in Nat /\ Len(p) <= PageSize /\ DOMAIN p = 1..Len(p)
         /\ \A i \in 1..Len(p) : off + i \in DOMAIN L /\ p[i] = L[off + i]
         /\ \A j \in DOMAIN L : j > off /\ j <= off + PageSize => j - off \in 1..Len(p)
         /\ more = (Len(L) > off + PageSize) /\ DOMAIN L = 1..Len(L)
    BY <1>3, <1>4 DEF IsPage
  \* The place in the list of a conversation that is due.
  <1>14. ASSUME NEW x \in Drawer!Left
         PROVE  \E i \in DOMAIN L : /\ L[i] = x /\ Cardinality(Drawer!Ahead(x)) = i - 1
                                    /\ i > off /\ i <= off + PageSize => x \in Drawer!Range(p)
                                    /\ ~more => i <= off + PageSize
    <2>1. PICK i \in DOMAIN L : L[i] = x
      BY <1>3, <1>14, InRange DEF Drawer!Left
    <2>2. Cardinality(Drawer!Ahead(x)) = i - 1
      BY <1>3, <2>1
    <2>3. ASSUME i > off, i <= off + PageSize PROVE x \in Drawer!Range(p)
      <3>1. i - off \in 1..Len(p) /\ off + (i - off) = i
        BY <1>1, <1>13, <2>3
      <3>2. p[i - off] = x
        BY <1>13, <2>1, <3>1
      <3> QED
        BY <1>13, <3>1, <3>2, InRange
    <2>4. ASSUME ~more PROVE i <= off + PageSize
      <3>1. ~(Len(L) > off + PageSize)
        BY <1>13, <2>4
      <3>2. i <= Len(L) /\ i \in Nat /\ Len(L) \in Nat
        BY <1>3, <1>13
      <3> QED
        BY <1>1, <3>1, <3>2
    <2> QED
      BY <2>1, <2>2, <2>3, <2>4
  <1>15. off = 0 =>
            /\ Drawer!IsInjective(p)
            /\ ~more => Drawer!Left \subseteq Drawer!Range(p)
            /\ \A x \in Drawer!Left \ Drawer!Range(p) : Drawer!Range(p) \ archived \subseteq Drawer!Ahead(x)
    <2> SUFFICES ASSUME off = 0
                 PROVE  /\ Drawer!IsInjective(p)
                        /\ ~more => Drawer!Left \subseteq Drawer!Range(p)
                        /\ \A x \in Drawer!Left \ Drawer!Range(p) :
                              Drawer!Range(p) \ archived \subseteq Drawer!Ahead(x)
      OBVIOUS
    <2>1. ASSUME NEW i \in 1..Len(p) PROVE p[i] = L[i] /\ i \in DOMAIN L
      BY <1>13, <2>1
    <2>2. Drawer!IsInjective(p)
      BY <1>3, <1>13, <2>1 DEF Drawer!IsInjective
    <2>3. ASSUME ~more, NEW x \in Drawer!Left PROVE x \in Drawer!Range(p)
      BY <1>1, <1>13, <1>14, <2>3
    <2>4. ASSUME NEW x \in Drawer!Left \ Drawer!Range(p), NEW y \in Drawer!Range(p)
          PROVE  y \in Drawer!Ahead(x)
      <3>1. PICK i \in DOMAIN L : L[i] = x /\ i > PageSize
        BY <1>1, <1>13, <1>14, <2>4
      <3>2. PICK j \in 1..Len(p) : p[j] = y
        BY <1>13, <2>4, InRange
      <3>3. j \in DOMAIN L /\ L[j] = y /\ j < i
        BY <1>1, <1>13, <2>1, <3>1, <3>2
      <3> QED
        BY <1>3, <3>1, <3>3
    <2> QED
      BY <2>2, <2>3, <2>4
  <1>16. off > 0 =>
            /\ ~more => Drawer!Left \subseteq Drawer!Range(shown) \cup Drawer!Range(p)
            /\ \A x \in Drawer!Left \ (Drawer!Range(shown) \cup Drawer!Range(p)) :
                   Cardinality(Drawer!Ahead(x)) >= Cardinality(Drawer!Own(shown)) + Cardinality(Drawer!Own(p))
    <2> SUFFICES ASSUME off > 0
                 PROVE  /\ ~more => Drawer!Left \subseteq Drawer!Range(shown) \cup Drawer!Range(p)
                        /\ \A x \in Drawer!Left \ (Drawer!Range(shown) \cup Drawer!Range(p)) :
                               Cardinality(Drawer!Ahead(x)) >=
                                   Cardinality(Drawer!Own(shown)) + Cardinality(Drawer!Own(p))
      OBVIOUS
    <2>1. Len(shown) = off /\ Drawer!Range(shown) \cap archived = {}
      BY <1>1, <1>8 DEF Drawer!OneLoad
    <2>2. Cardinality(Drawer!Own(shown)) = off
      <3>1. Drawer!Own(shown) = 1..off
        BY <1>1, <2>1, InRange DEF Drawer!Own
      <3>2. off \in Nat
        BY <1>1
      <3>3. Cardinality(1..off) = IF 1 > off THEN 0 ELSE off - 1 + 1
        BY <3>2, FS_Interval
      <3> QED
        BY <3>1, <3>2, <3>3
    <2>3. Cardinality(Drawer!Own(p)) <= PageSize /\ Cardinality(Drawer!Own(p)) \in Nat
      <3>1. Drawer!Own(p) \subseteq 1..Len(p)
        BY <1>13 DEF Drawer!Own
      <3>2. IsFiniteSet(1..Len(p)) /\ Cardinality(1..Len(p)) = Len(p)
        <4>1. Len(p) \in Nat
          BY <1>13
        <4>2. Cardinality(1..Len(p)) = IF 1 > Len(p) THEN 0 ELSE Len(p) - 1 + 1
          BY <4>1, FS_Interval
        <4>3. IsFiniteSet(1..Len(p))
          BY <4>1, FS_Interval
        <4> QED
          BY <4>1, <4>2, <4>3
      <3>3. Cardinality(Drawer!Own(p)) <= Len(p) /\ Cardinality(Drawer!Own(p)) \in Nat
        BY <3>1, <3>2, FS_Subset, FS_CardinalityType
      <3> QED
        BY <1>1, <1>13, <3>3
    <2>4. ASSUME NEW x \in Drawer!Left \ Drawer!Range(shown)
          PROVE  \E i \in DOMAIN L : /\ Cardinality(Drawer!Ahead(x)) = i - 1 /\ i > off
                                     /\ i <= off + PageSize => x \in Drawer!Range(p)
                                     /\ ~more => i <= off + PageSize
      <3>1. PICK i \in DOMAIN L : /\ Cardinality(Drawer!Ahead(x)) = i - 1
                                  /\ i > off /\ i <= off + PageSize => x \in Drawer!Range(p)
                                  /\ ~more => i <= off + PageSize
        BY <1>14, <2>4
      <3>2. Cardinality(Drawer!Ahead(x)) >= Cardinality(Drawer!Own(shown))
        BY <1>8, <1>9, <2>4, DrawerSets DEF Drawer!Complete
      <3>3. i > off
        BY <1>1, <1>13, <2>2, <3>1, <3>2
      <3> QED
        BY <3>1, <3>3
    <2>5. ASSUME ~more, NEW x \in Drawer!Left PROVE x \in Drawer!Range(shown) \cup Drawer!Range(p)
      BY <2>4, <2>5
    <2>6. ASSUME NEW x \in Drawer!Left \ (Drawer!Range(shown) \cup Drawer!Range(p))
          PROVE  Cardinality(Drawer!Ahead(x)) >= Cardinality(Drawer!Own(shown)) + Cardinality(Drawer!Own(p))
      <3>1. PICK i \in DOMAIN L : Cardinality(Drawer!Ahead(x)) = i - 1 /\ ~(i <= off + PageSize)
        BY <2>4, <2>6
      <3> QED
        BY <1>1, <1>13, <2>2, <2>3, <3>1
    <2> QED
      BY <2>5, <2>6
  <1>17. Drawer!PageComplete'
    BY <1>2, <1>5, <1>9, <1>11, <1>15, <1>16, DrawerSets DEF Drawer!PageComplete
  <1> QED
    BY <1>10, <1>12, <1>17

\* The drawer has not been opened.
LEMMA DrawerBegins == Drawer!Init => Drawer!DrawerInv
  <1> SUFFICES ASSUME Drawer!Init PROVE Drawer!DrawerInv
    OBVIOUS
  <1>1. order \in Seq(Conversations) /\ Drawer!IsInjective(order)
    <2>1. PICK m \in PageSize..Drawer!Cardinality(Conversations) :
             order \in [1..m -> Conversations] /\ Drawer!IsInjective(order)
      BY DEF Drawer!Init
    <2>2. m \in Nat
      BY <2>1, BoundsAssumption
    <2> QED
      BY <2>1, <2>2
  <1>2. /\ archived = {} /\ shown = <<>> /\ hasMore = FALSE /\ loading = FALSE
        /\ loads = {} /\ leaving = {} /\ fetches = 0 /\ moves = 0
        /\ moved = {} /\ slipped = FALSE
    BY DEF Drawer!Init
  <1>3. shown \in Seq(Conversations) /\ fetches \in 0..MaxLoads /\ moves \in 0..MaxMoves
    BY <1>2, BoundsAssumption
  <1>4. Drawer!TypeOK
    BY <1>1, <1>2, <1>3 DEF Drawer!TypeOK
  <1> QED
    BY <1>2, <1>4 DEF Drawer!DrawerInv

LEMMA DrawerNext == Drawer!DrawerInv /\ [Drawer!Next]_drawerVars => Drawer!DrawerInv'
  <1> SUFFICES ASSUME Drawer!DrawerInv, [Drawer!Next]_drawerVars PROVE Drawer!DrawerInv'
    OBVIOUS
  <1>1. CASE UNCHANGED drawerVars
    BY <1>1 DEF drawerVars, Drawer!DrawerInv, Drawer!TypeOK, Drawer!OneLoad, Drawer!Complete,
                Drawer!PageComplete, Drawer!Left, Drawer!Own, Drawer!Ahead
  <1> QED
    BY <1>1, DrawerOpen, DrawerLoadMore, DrawerReadPage, DrawerTakePage, DrawerLoadFails,
       DrawerArchive, DrawerArchived, DrawerCreate, DrawerUpdateTitle DEF Drawer!Next

LEMMA DrawerShowsAll == Drawer!DrawerInv => Drawer!DrawerComplete
  BY DEF Drawer!DrawerInv, Drawer!DrawerComplete, Drawer!Complete, Drawer!Left

\* The numbers of an overview and of a dashboard agree with the requests they are of
\* (get_overview and its callers in analytics), and a history drawer that offers no more
\* rows shows every conversation that neither was archived nor came to the top meanwhile
\* (list_conversations and HistoryDrawer.tsx), for all lists, pages and orders of events.
THEOREM ViewsAreComplete == Spec => []ViewsComplete
  <1> DEFINE I == /\ part = "board" => Board!BoardInv
                  /\ part = "drawer" => Drawer!DrawerInv
  <1>1. Init => I
    BY BoardBegins, DrawerBegins DEF Init
  <1>2. I /\ [Next]_vars => I'
    <2>1. ASSUME I, [Next]_vars, part' = "board" PROVE Board!BoardInv'
      <3>1. part = "board" /\ [Board!Next]_dashboardVars
        BY <2>1 DEF Next, vars, Still, JwksStep, BoardStep, AuthStep, DrawerStep, BridgeStep, DesignStep,
               SlackStep, MemoryStep, VectorsStep, NewsStep, SettingsStep, FeedbackStep, BlocksStep
      <3> QED
        BY <2>1, <3>1, BoardNext
    <2>2. ASSUME I, [Next]_vars, part' = "drawer" PROVE Drawer!DrawerInv'
      <3>1. part = "drawer" /\ [Drawer!Next]_drawerVars
        BY <2>2 DEF Next, vars, Still, JwksStep, BoardStep, AuthStep, DrawerStep, BridgeStep, DesignStep,
               SlackStep, MemoryStep, VectorsStep, NewsStep, SettingsStep, FeedbackStep, BlocksStep
      <3> QED
        BY <2>2, <3>1, DrawerNext
    <2> QED
      BY <2>1, <2>2
  <1>3. I => ViewsComplete
    BY BoardAgrees, DrawerShowsAll DEF ViewsComplete
  <1> QED
    BY <1>1, <1>2, <1>3, PTL DEF Spec

-----------------------------------------------------------------------------
(* ResponseBlocks                                                          *)

\* Some of a set of numbers is the smallest: the ranges 0..m up to them are ordered by inclusion,
\* which is well founded.
LEMMA SmallestOf ==
  ASSUME NEW S \in SUBSET Nat, S # {}
  PROVE  \E m \in S : \A i \in S : m <= i
  <1> DEFINE initial == {0..m : m \in S}
  <1>1. initial \subseteq FiniteSubsetsOf(Nat) /\ initial # {}
    <2>1. ASSUME NEW m \in S PROVE 0..m \in SUBSET Nat /\ IsFiniteSet(0..m)
      <3>1. m \in Int /\ 0 \in Int
        OBVIOUS
      <3> QED
        BY <3>1, FS_Interval, SMT
    <2> QED
      BY <2>1 DEF FiniteSubsetsOf
  <1>2. IsWellFoundedOn(StrictSubsetOrdering(Nat), FiniteSubsetsOf(Nat))
    BY FS_StrictSubsetOrderingWellFounded
  <1> HIDE DEF initial
  <1>3. PICK x \in initial : \A y \in initial : ~(<<y, x>> \in StrictSubsetOrdering(Nat))
    BY <1>1, <1>2, WFMin
  <1>4. PICK m \in S : x = 0..m
    BY DEF initial
  <1>5. ASSUME NEW i \in S, i < m PROVE FALSE
    <2>1. 0..i \in initial
      BY DEF initial
    <2>2. 0..i \subseteq 0..m /\ 0..i # 0..m /\ 0..i \subseteq Nat /\ 0..m \subseteq Nat
      <3>1. m \in 0..m /\ m \notin 0..i
        BY <1>5
      <3> QED
        BY <1>5, <3>1
    <2>3. <<0..i, 0..m>> \in StrictSubsetOrdering(Nat)
      BY <2>2 DEF StrictSubsetOrdering
    <2> QED
      BY <1>3, <1>4, <2>1, <2>3
  <1> QED
    BY <1>5

\* And some is the greatest, if they are bounded.
LEMMA GreatestOf ==
  ASSUME NEW S \in SUBSET Nat, S # {}, NEW n \in Nat, \A i \in S : i <= n
  PROVE  \E m \in S : \A i \in S : i <= m
  <1> DEFINE below == {n - i : i \in S}
  <1>1. below \in SUBSET Nat /\ below # {}
    <2>1. ASSUME NEW i \in S PROVE n - i \in Nat
      OBVIOUS
    <2> QED
      BY <2>1
  <1> HIDE DEF below
  <1>2. PICK d \in below : \A e \in below : d <= e
    BY <1>1, SmallestOf
  <1>3. PICK m \in S : d = n - m
    BY DEF below
  <1>4. ASSUME NEW i \in S PROVE i <= m
    <2>1. n - i \in below
      BY DEF below
    <2> QED
      BY <1>2, <1>3, <2>1
  <1> QED
    BY <1>4

LEMMA BlockSets ==
  /\ \A S : Blocks!Cardinality(S) = Cardinality(S)
  /\ \A list, these : Blocks!Without(list, these) = Without(list, these)
  /\ \A list, x : x \in Blocks!Range(list) <=> \E k \in DOMAIN list : list[k] = x
  BY DEF Blocks!Cardinality, Cardinality, Blocks!Without, Without, Blocks!Range

LEMMA MaxIs ==
  ASSUME NEW S \in SUBSET Nat, NEW m \in S, \A i \in S : i <= m
  PROVE  Blocks!Max(S) = m
  <1>1. \A i \in S : m >= i
    OBVIOUS
  <1> DEFINE x == Blocks!Max(S)
  <1>2. x \in S /\ \A i \in S : x >= i
    BY <1>1 DEF Blocks!Max
  <1> HIDE DEF x
  <1>3. x \in Nat /\ m \in Nat /\ x >= m /\ x <= m
    BY <1>2
  <1>4. x = m
    BY <1>3
  <1> QED
    BY <1>4 DEF x

LEMMA MinIs ==
  ASSUME NEW S \in SUBSET Nat, NEW m \in S, \A i \in S : m <= i
  PROVE  Blocks!Min(S) = m
  <1> DEFINE x == Blocks!Min(S)
  <1>1. x \in S /\ \A i \in S : x <= i
    BY DEF Blocks!Min
  <1> HIDE DEF x
  <1>2. x \in Nat /\ m \in Nat /\ x >= m /\ x <= m
    BY <1>1
  <1>3. x = m
    BY <1>2
  <1> QED
    BY <1>3 DEF x

\* The k-th of the numbers from a to b.
LEMMA PlaceIn ==
  ASSUME NEW a \in Nat, NEW b \in Nat, NEW size \in Nat, NEW f \in Nat, NEW k \in 1..(b - a + 1),
         b <= size, 1 <= a
  PROVE  a + k - 1 \in 1..size /\ f + (a + k - 1) - 1 = f + a + k - 2
  OBVIOUS

\* What is left of some lines without blank ones at either end.
IsStripped(lines, rest, a, b) ==
    /\ a \in DOMAIN lines /\ b \in DOMAIN lines /\ a <= b
    /\ ~Blocks!Blank(lines[a]) /\ ~Blocks!Blank(lines[b])
    /\ \A k \in DOMAIN lines : ~Blocks!Blank(lines[k]) => a <= k /\ k <= b
    /\ Len(rest) = b - a + 1 /\ DOMAIN rest = 1..(b - a + 1)
    /\ \A k \in 1..(b - a + 1) : rest[k] = lines[a + k - 1]

LEMMA StripIs ==
  ASSUME NEW T, NEW lines \in Seq(T)
  PROVE  /\ Blocks!Strip(lines) \in Seq(T)
         /\ \/ Blocks!Strip(lines) = <<>> /\ \A k \in DOMAIN lines : Blocks!Blank(lines[k])
            \/ \E a, b : IsStripped(lines, Blocks!Strip(lines), a, b)
  <1> DEFINE kept == {k \in DOMAIN lines : ~Blocks!Blank(lines[k])}
             rest == Blocks!Strip(lines)
  <1>1. Len(lines) \in Nat /\ DOMAIN lines = 1..Len(lines)
    OBVIOUS
  <1>2. CASE kept = {}
    <2>1. rest = <<>>
      BY <1>2 DEF Blocks!Strip
    <2> QED
      BY <1>2, <2>1
  <1>3. CASE kept # {}
    <2>1. kept \in SUBSET Nat /\ \A i \in kept : i <= Len(lines)
      BY <1>1
    <2> HIDE DEF kept
    <2>2. PICK a \in kept : \A i \in kept : a <= i
      BY <1>3, <2>1, SmallestOf
    <2>3. PICK b \in kept : \A i \in kept : i <= b
      BY <1>1, <1>3, <2>1, GreatestOf
    <2>4. Blocks!Min(kept) = a /\ Blocks!Max(kept) = b
      BY <2>1, <2>2, <2>3, MinIs, MaxIs
    <2>5. a \in DOMAIN lines /\ b \in DOMAIN lines /\ a <= b /\ a \in Int /\ b \in Int
      BY <1>1, <2>2, <2>3 DEF kept
    <2>6. \A i \in a..b : lines[i] \in T
      BY <1>1, <2>5
    <2>7. rest = SubSeq(lines, a, b)
      BY <1>3, <2>4 DEF Blocks!Strip, kept
    <2> HIDE DEF rest
    <2>8. /\ rest \in Seq(T) /\ Len(rest) = b - a + 1
          /\ \A i \in 1..(b - a + 1) : rest[i] = lines[a + i - 1]
      BY <2>5, <2>6, <2>7, SubSeqProperties
    <2>9. DOMAIN rest = 1..(b - a + 1)
      BY <2>8
    <2>10. IsStripped(lines, rest, a, b)
      BY <2>2, <2>3, <2>5, <2>8, <2>9 DEF IsStripped, kept
    <2> QED
      BY <2>8, <2>10 DEF rest
  <1> QED
    BY <1>2, <1>3

\* A JSON value is one line among blank ones.
LEMMA ValueIs ==
  ASSUME NEW T, NEW lines \in Seq(T), Blocks!IsValue(lines)
  PROVE  \E m \in DOMAIN lines : /\ Blocks!Text(lines[m]) = "json"
                                 /\ \A k \in DOMAIN lines \ {m} : Blocks!Text(lines[k]) = "blank"
  <1>1. Len(Blocks!Strip(lines)) = 1 /\ Blocks!Text(Blocks!Strip(lines)[1]) = "json"
    BY DEF Blocks!IsValue
  <1>2. PICK a, b : IsStripped(lines, Blocks!Strip(lines), a, b)
    <2>1. Blocks!Strip(lines) # <<>>
      BY <1>1
    <2> QED
      BY <2>1, StripIs
  <1>3. /\ a \in DOMAIN lines /\ b \in DOMAIN lines /\ a <= b
        /\ \A k \in DOMAIN lines : ~Blocks!Blank(lines[k]) => a <= k /\ k <= b
        /\ Len(Blocks!Strip(lines)) = b - a + 1
        /\ \A k \in 1..(b - a + 1) : Blocks!Strip(lines)[k] = lines[a + k - 1]
    BY <1>2 DEF IsStripped
  <1>4. a \in Int /\ b \in Int /\ DOMAIN lines \subseteq Int
    BY <1>3
  <1>5. a = b /\ 1 \in 1..(b - a + 1) /\ a + 1 - 1 = a
    BY <1>1, <1>3, <1>4
  <1>6. Blocks!Text(lines[a]) = "json"
    BY <1>1, <1>3, <1>5
  <1>7. ASSUME NEW k \in DOMAIN lines \ {a} PROVE Blocks!Text(lines[k]) = "blank"
    BY <1>3, <1>4, <1>5 DEF Blocks!Blank
  <1> QED
    BY <1>3, <1>6, <1>7

\* Fences around it make no difference.
LEMMA JsonIs ==
  ASSUME NEW T, NEW lines \in Seq(T), Blocks!IsValue(lines) \/ Blocks!Fenced(lines)
  PROVE  Cardinality({j \in Blocks!Range(lines) : Blocks!Text(j) = "json"}) = 1
  <1>1. \E m \in DOMAIN lines : /\ Blocks!Text(lines[m]) = "json"
                                /\ \A k \in DOMAIN lines \ {m} : Blocks!Text(lines[k]) # "json"
    <2>1. CASE Blocks!IsValue(lines)
      BY <2>1, ValueIs
    <2>2. CASE Blocks!Fenced(lines)
      <3> DEFINE inner == SubSeq(lines, 2, Len(lines) - 1)
      <3>1. /\ Len(lines) >= 3 /\ Blocks!Text(lines[1]) = "fence" /\ Blocks!Text(lines[Len(lines)]) = "fence"
            /\ Blocks!IsValue(inner) /\ Len(lines) \in Nat /\ DOMAIN lines = 1..Len(lines)
        BY <2>2 DEF Blocks!Fenced
      <3>2. \A i \in 2..(Len(lines) - 1) : lines[i] \in T
        BY <3>1
      <3>3. /\ inner \in Seq(T) /\ DOMAIN inner = 1..(Len(lines) - 2)
            /\ \A i \in 1..(Len(lines) - 2) : inner[i] = lines[i + 1]
        <4> DEFINE n == Len(lines) - 1
        <4>1. n \in Int /\ 2 \in Int /\ 2 <= n /\ n - 2 + 1 = Len(lines) - 2
          BY <3>1
        <4>2. \A i \in 2..n : lines[i] \in T
          BY <3>2
        <4> HIDE DEF n
        <4>3. /\ SubSeq(lines, 2, n) \in Seq(T) /\ Len(SubSeq(lines, 2, n)) = n - 2 + 1
              /\ \A i \in 1..(n - 2 + 1) : SubSeq(lines, 2, n)[i] = lines[2 + i - 1]
          BY <4>1, <4>2, SubSeqProperties
        <4>4. inner = SubSeq(lines, 2, n)
          BY DEF n
        <4> HIDE DEF inner
        <4>5. \A i \in 1..(Len(lines) - 2) : inner[i] = lines[i + 1]
          <5>1. ASSUME NEW i \in 1..(Len(lines) - 2) PROVE inner[i] = lines[i + 1]
            <6>1. i \in 1..(n - 2 + 1) /\ 2 + i - 1 = i + 1
              BY <4>1
            <6> QED
              BY <4>3, <4>4, <6>1
          <5> QED
            BY <5>1
        <4> QED
          BY <4>1, <4>3, <4>4, <4>5
      <3> HIDE DEF inner
      <3>4. PICK m \in DOMAIN inner : /\ Blocks!Text(inner[m]) = "json"
                                      /\ \A k \in DOMAIN inner \ {m} : Blocks!Text(inner[k]) = "blank"
        BY <3>1, <3>3, ValueIs
      <3>5. m + 1 \in DOMAIN lines /\ Blocks!Text(lines[m + 1]) = "json"
        BY <3>1, <3>3, <3>4
      <3>6. ASSUME NEW k \in DOMAIN lines \ {m + 1} PROVE Blocks!Text(lines[k]) # "json"
        <4>1. CASE k = 1 \/ k = Len(lines)
          BY <3>1, <4>1
        <4>2. CASE k # 1 /\ k # Len(lines)
          <5>1. k - 1 \in DOMAIN inner \ {m} /\ k - 1 \in 1..(Len(lines) - 2) /\ (k - 1) + 1 = k
            BY <3>1, <3>3, <3>6, <4>2
          <5>2. Blocks!Text(inner[k - 1]) = "blank" /\ inner[k - 1] = lines[k]
            BY <3>3, <3>4, <5>1
          <5> QED
            BY <5>2
        <4> QED
          BY <4>1, <4>2
      <3> QED
        BY <3>5, <3>6
    <2> QED
      BY <2>1, <2>2
  <1>2. PICK m \in DOMAIN lines : /\ Blocks!Text(lines[m]) = "json"
                                  /\ \A k \in DOMAIN lines \ {m} : Blocks!Text(lines[k]) # "json"
    BY <1>1
  <1>3. {j \in Blocks!Range(lines) : Blocks!Text(j) = "json"} = {lines[m]}
    BY <1>2, BlockSets
  <1> QED
    BY <1>3, FS_Singleton

\* The section a line is in begins with the last prefix up to it.
LEMMA StartOfIs ==
  ASSUME response \in Seq(Blocks!Line), NEW i \in Blocks!Starts, NEW j \in Nat, i <= j,
         \A h \in Blocks!Starts : h <= i \/ h > j
  PROVE  Blocks!StartOf(j) = i
  <1> DEFINE S == {h \in Blocks!Starts : h <= j}
  <1>1. Blocks!Starts \subseteq Nat
    BY DEF Blocks!Starts
  <1>2. S \in SUBSET Nat /\ i \in S /\ \A h \in S : h <= i
    <2>1. i \in S
      OBVIOUS
    <2>2. ASSUME NEW h \in S PROVE h \in Nat /\ h <= i
      <3>1. h \in Blocks!Starts /\ h <= j /\ h \in Nat
        BY <1>1
      <3>2. ~(h > j)
        BY <3>1
      <3> QED
        BY <3>1, <3>2
    <2> HIDE DEF S
    <2> QED
      BY <2>1, <2>2
  <1> HIDE DEF S
  <1>3. Blocks!Max(S) = i
    BY <1>2, MaxIs
  <1> QED
    BY <1>3 DEF S, Blocks!StartOf

\* What a block has of the lines from f up to n, if these have one prefix.
IsSection(b, f, n) ==
    /\ b.kind \in Blocks!Markers \ {"none"} /\ b.kind = response[f].prefix /\ b.lines \in Seq(f..(n - 1))
    /\ b \in [kind : Blocks!Markers \ {"none"}, lines : Seq(1..(n - 1))]
    /\ b.lines # <<>> => ~Blocks!Blank(b.lines[1])
    /\ \A j \in Blocks!Range(b.lines) : Blocks!StartOf(j) = f
    /\ \A k, l \in DOMAIN b.lines : k < l => b.lines[k] < b.lines[l]
    /\ \A j \in f..(n - 1) : ~Blocks!Blank(j) => j \in Blocks!Range(b.lines)

LEMMA SectionIs ==
  ASSUME response \in Seq(Blocks!Line), NEW f \in Blocks!Starts, NEW n \in Nat, f < n,
         \A h \in Blocks!Starts : h <= f \/ h >= n,
         NEW kind, kind = response[f].prefix, NEW lines, lines = [k \in 1..(n - f) |-> f + k - 1]
  PROVE  IsSection(Blocks!Block(kind, lines), f, n)
  <1> DEFINE rest == Blocks!Strip(lines)
             T == f..(n - 1)
             size == n - f
  <1>1. f \in Nat /\ f >= 1 /\ kind \in Blocks!Markers \ {"none"} /\ size \in Nat
    <2>1. f \in DOMAIN response /\ response[f].prefix # "none"
      BY DEF Blocks!Starts
    <2>2. f \in Nat /\ f >= 1 /\ response[f] \in Blocks!Line
      BY <2>1
    <2>3. kind \in Blocks!Markers
      BY <2>2 DEF Blocks!Line
    <2>4. n - f \in Nat
      BY <2>2
    <2> QED
      BY <2>1, <2>2, <2>3, <2>4
  <1>2. lines \in Seq(T) /\ DOMAIN lines = 1..size /\ \A k \in 1..size : lines[k] = f + k - 1
    <2>1. \A k \in 1..size : f + k - 1 \in T
      BY <1>1
    <2> HIDE DEF T
    <2> QED
      BY <1>1, <2>1
  <1>3. /\ rest \in Seq(T)
        /\ \/ rest = <<>> /\ \A k \in DOMAIN lines : Blocks!Blank(lines[k])
           \/ \E a, b : IsStripped(lines, rest, a, b)
    BY <1>2, StripIs
  <1> HIDE DEF rest
  <1>4. T \subseteq 1..(n - 1) /\ T \subseteq Nat
    BY <1>1
  <1>5. rest \in Seq(1..(n - 1)) /\ \A k \in DOMAIN rest : rest[k] \in T
    <2> DEFINE U == 1..(n - 1)
    <2>1. T \subseteq U
      BY <1>4
    <2> HIDE DEF T, U
    <2>2. rest \in Seq(U) /\ \A k \in DOMAIN rest : rest[k] \in T
      BY <1>3, <2>1
    <2> QED
      BY <2>2 DEF U
  <1>6. \A j \in Blocks!Range(rest) : Blocks!StartOf(j) = f
    <2>1. ASSUME NEW j \in T PROVE Blocks!StartOf(j) = f
      <3>1. j \in Nat /\ f <= j /\ j < n
        BY <1>1
      <3>2. \A h \in Blocks!Starts : h <= f \/ h > j
        BY <1>1, <3>1 DEF Blocks!Starts
      <3> QED
        BY <3>1, <3>2, StartOfIs
    <2> QED
      BY <1>5, <2>1, BlockSets
  <1> DEFINE body == Blocks!Block(kind, lines)
  <1>7. body.kind = kind /\ body.lines = rest /\ body = [kind |-> kind, lines |-> rest]
    BY DEF Blocks!Block, rest
  <1> HIDE DEF body
  <1>8. /\ rest # <<>> => ~Blocks!Blank(rest[1])
        /\ \A k, l \in DOMAIN rest : k < l => rest[k] < rest[l]
        /\ \A j \in T : ~Blocks!Blank(j) => j \in Blocks!Range(rest)
    <2>1. CASE rest = <<>> /\ \A k \in DOMAIN lines : Blocks!Blank(lines[k])
      <3>1. ASSUME NEW j \in T PROVE Blocks!Blank(j)
        <4>1. j - f + 1 \in 1..size /\ f + (j - f + 1) - 1 = j
          BY <1>1
        <4> QED
          BY <1>2, <2>1, <4>1
      <3> QED
        BY <2>1, <3>1
    <2>2. ASSUME NEW a, NEW b, IsStripped(lines, rest, a, b)
          PROVE  /\ ~Blocks!Blank(rest[1])
                 /\ \A k, l \in DOMAIN rest : k < l => rest[k] < rest[l]
                 /\ \A j \in T : ~Blocks!Blank(j) => j \in Blocks!Range(rest)
      <3>1. /\ a \in 1..size /\ b \in 1..size /\ a <= b /\ ~Blocks!Blank(lines[a])
            /\ \A k \in 1..size : ~Blocks!Blank(lines[k]) => a <= k /\ k <= b
            /\ DOMAIN rest = 1..(b - a + 1) /\ \A k \in 1..(b - a + 1) : rest[k] = lines[a + k - 1]
        BY <1>2, <2>2 DEF IsStripped
      <3>2. a \in Nat /\ b \in Nat /\ 1 \in 1..(b - a + 1) /\ a + 1 - 1 = a
        <4>1. a \in Nat /\ b \in Nat /\ a <= b
          BY <1>1, <3>1
        <4> QED
          BY <4>1
      <3>3. ASSUME NEW k \in DOMAIN rest PROVE rest[k] = f + a + k - 2
        <4>1. k \in 1..(b - a + 1) /\ a + k - 1 \in 1..size /\ f + (a + k - 1) - 1 = f + a + k - 2
          <5>1. k \in 1..(b - a + 1) /\ size \in Nat /\ f \in Nat /\ a \in Nat /\ b \in Nat /\ b <= size /\ 1 <= a
            BY <1>1, <3>1, <3>2, <3>3
          <5> HIDE DEF size
          <5>2. a + k - 1 \in 1..size
            BY <5>1, PlaceIn
          <5>3. f + (a + k - 1) - 1 = f + a + k - 2
            BY <5>1, PlaceIn
          <5> QED
            BY <5>1, <5>2, <5>3
        <4> QED
          BY <1>2, <3>1, <4>1
      <3>4. ASSUME NEW k \in DOMAIN rest, NEW l \in DOMAIN rest, k < l PROVE rest[k] < rest[l]
        <4>1. k \in Nat /\ l \in Nat
          BY <3>1, <3>2
        <4> QED
          BY <1>1, <3>2, <3>3, <3>4, <4>1
      <3>5. ASSUME NEW j \in T, ~Blocks!Blank(j) PROVE j \in Blocks!Range(rest)
        <4>1. j - f + 1 \in 1..size /\ f + (j - f + 1) - 1 = j
          BY <1>1
        <4>2. a <= j - f + 1 /\ j - f + 1 <= b
          BY <1>2, <3>1, <3>5, <4>1
        <4> DEFINE k == j - f + 2 - a
        <4>3. k \in 1..(b - a + 1) /\ f + a + k - 2 = j
          BY <1>1, <3>2, <4>1, <4>2
        <4> HIDE DEF k
        <4>4. rest[k] = j /\ k \in DOMAIN rest
          BY <3>1, <3>3, <4>3
        <4> QED
          BY <4>4, BlockSets
      <3> QED
        BY <3>1, <3>2, <3>4, <3>5
    <2> QED
      BY <1>3, <2>1, <2>2
  <1>9. body \in [kind : Blocks!Markers \ {"none"}, lines : Seq(1..(n - 1))]
    BY <1>1, <1>5, <1>7
  <1> HIDE DEF size
  <1> QED
    BY <1>1, <1>3, <1>6, <1>7, <1>8, <1>9 DEF IsSection, body, T

\* The invariant, in parts.
LEMMA BlockParts ==
  ASSUME Blocks!BlocksInv
  PROVE  /\ response \in Seq(Blocks!Line) /\ Len(response) \in Nat /\ DOMAIN response = 1..Len(response)
         /\ next \in Nat /\ next >= 1 /\ next <= Len(response) + 2 /\ current.kind \in Blocks!Markers
         /\ current.lines \in Seq(Nat) /\ Blocks!CurrentInv /\ Blocks!BlocksExact
         /\ Blocks!Starts \subseteq DOMAIN response
  <1>1. response \in Seq(Blocks!Line) /\ Len(response) \in Nat /\ DOMAIN response = 1..Len(response)
    BY DEF Blocks!BlocksInv
  <1>2. next \in 1..(Len(response) + 2) /\ current.kind \in Blocks!Markers
    BY DEF Blocks!BlocksInv, Blocks!TypeOK
  <1>3. current.lines \in Seq(Nat) /\ Blocks!CurrentInv /\ Blocks!BlocksExact
    BY DEF Blocks!BlocksInv
  <1> QED
    BY <1>1, <1>2, <1>3 DEF Blocks!Starts

\* The parts of Sections.
SectionOf(b, line) ==
    /\ b \in [kind : Blocks!Markers \ {"none"}, lines : Seq(1 .. line - 1)]
    /\ b.lines # <<>> => ~Blocks!Blank(b.lines[1])
    /\ \E i \in Blocks!Starts : /\ b.kind = response[i].prefix
                                /\ \A j \in Blocks!Range(b.lines) : i <= j /\ Blocks!StartOf(j) = i

Ascending(bs) ==
    \A k, l \in DOMAIN bs : \A i \in DOMAIN bs[k].lines, j \in DOMAIN bs[l].lines :
        k < l \/ (k = l /\ i < j) => bs[k].lines[i] < bs[l].lines[j]

CoveredBelow(bs, line) ==
    \A j \in Blocks!Covered : j < line => \E k \in DOMAIN bs : j \in Blocks!Range(bs[k].lines)

SectionType(line) == [kind : Blocks!Markers \ {"none"}, lines : Seq(1 .. line - 1)]

LEMMA SectionsAre ==
  ASSUME NEW bs, NEW line
  PROVE  Blocks!Sections(bs, line) <=>
            /\ bs \in Seq(SectionType(line)) /\ \A k \in DOMAIN bs : SectionOf(bs[k], line)
            /\ Ascending(bs) /\ CoveredBelow(bs, line)
  <1> DEFINE T == SectionType(line)
  <1>1. ASSUME bs \in Seq(T), NEW k \in DOMAIN bs PROVE bs[k] \in T
    <2> HIDE DEF T
    <2> QED
      BY <1>1
  <1>2. Ascending(bs) <=>
          \A k, l \in DOMAIN bs : \A i \in DOMAIN bs[k].lines, j \in DOMAIN bs[l].lines :
              Blocks!Before(<<k, i>>, <<l, j>>) => bs[k].lines[i] < bs[l].lines[j]
    BY DEF Ascending, Blocks!Before
  <1> QED
    BY <1>1, <1>2 DEF Blocks!Sections, SectionOf, CoveredBelow, SectionType

LEMMA SectionAsc ==
  ASSUME NEW b, NEW f \in Nat, NEW n \in Nat, IsSection(b, f, n)
  PROVE  /\ b.lines \in Seq(f..(n - 1)) /\ \A i \in DOMAIN b.lines : b.lines[i] \in f..(n - 1)
         /\ \A j \in Blocks!Range(b.lines) : f <= j
  <1> DEFINE T == f..(n - 1)
  <1>1. b.lines \in Seq(T)
    BY DEF IsSection
  <1> HIDE DEF T
  <1>2. \A i \in DOMAIN b.lines : b.lines[i] \in T
    BY <1>1
  <1>3. \A j \in T : f <= j
    BY DEF T
  <1> QED
    BY <1>1, <1>2, <1>3, BlockSets DEF T

LEMMA SectionsGrow ==
  ASSUME NEW bs, NEW f \in Blocks!Starts, f \in Nat, NEW n \in Nat, f < n, Blocks!Sections(bs, f),
         NEW b, IsSection(b, f, n), response \in Seq(Blocks!Line)
  PROVE  Blocks!Sections(Append(bs, b), n)
  <1> DEFINE S == SectionType(f)
             T == SectionType(n)
             cs == Append(bs, b)
             m == Len(bs)
  <1>1. /\ bs \in Seq(S) /\ \A k \in DOMAIN bs : SectionOf(bs[k], f)
        /\ Ascending(bs) /\ CoveredBelow(bs, f)
    BY SectionsAre
  <1>2. ASSUME NEW r \in S PROVE r \in T /\ \A i \in DOMAIN r.lines : r.lines[i] < f /\ r.lines[i] \in Nat
    <2> DEFINE U == 1..(f - 1)
               V == 1..(n - 1)
    <2>1. U \subseteq V
      OBVIOUS
    <2>2. r.kind \in Blocks!Markers \ {"none"} /\ r.lines \in Seq(U) /\ r = [kind |-> r.kind, lines |-> r.lines]
      BY DEF SectionType
    <2> HIDE DEF U, V
    <2>3. r.lines \in Seq(V) /\ \A i \in DOMAIN r.lines : r.lines[i] \in U
      BY <2>1, <2>2
    <2>4. r \in T
      BY <2>2, <2>3 DEF SectionType, V
    <2>5. \A i \in U : i < f /\ i \in Nat
      BY DEF U
    <2> QED
      BY <2>3, <2>4, <2>5
  <1>3. b \in T
    BY DEF IsSection, SectionType
  <1> HIDE DEF S, T
  <1>4. S \subseteq T
    BY <1>2
  <1>5. m \in Nat /\ DOMAIN bs = 1..m
    BY <1>1
  <1>6. cs \in Seq(T) /\ DOMAIN cs = 1..(m + 1) /\ cs[m + 1] = b /\ \A k \in 1..m : cs[k] = bs[k] /\ cs[k] \in S
    BY <1>1, <1>3, <1>4
  <1> HIDE DEF cs, m
  <1>7. ASSUME NEW k \in DOMAIN cs PROVE SectionOf(cs[k], n)
    <2>1. CASE k \in 1..m
      <3>1. SectionOf(bs[k], f) /\ bs[k] = cs[k] /\ cs[k] \in T
        BY <1>1, <1>2, <1>5, <1>6, <2>1
      <3> QED
        BY <3>1 DEF SectionOf, T, SectionType
    <2>2. CASE k = m + 1
      <3>1. cs[k] = b
        BY <1>6, <2>2
      <3>2. b.kind = response[f].prefix /\ \A j \in Blocks!Range(b.lines) : f <= j /\ Blocks!StartOf(j) = f
        BY SectionAsc DEF IsSection
      <3> QED
        BY <1>3, <3>1, <3>2 DEF SectionOf, IsSection
    <2> QED
      BY <1>5, <1>6, <1>7, <2>1, <2>2
  <1>8. Ascending(cs)
    <2> SUFFICES ASSUME NEW k \in DOMAIN cs, NEW l \in DOMAIN cs, NEW i \in DOMAIN cs[k].lines,
                        NEW j \in DOMAIN cs[l].lines, k < l \/ (k = l /\ i < j)
                 PROVE  cs[k].lines[i] < cs[l].lines[j]
      BY DEF Ascending
    <2>1. CASE k \in 1..m /\ l \in 1..m
      <3>1. cs[k] = bs[k] /\ cs[l] = bs[l] /\ k \in DOMAIN bs /\ l \in DOMAIN bs
        BY <1>5, <1>6, <2>1
      <3> QED
        BY <1>1, <3>1 DEF Ascending
    <2>2. CASE k \in 1..m /\ l = m + 1
      <3>1. cs[k].lines[i] < f /\ cs[k].lines[i] \in Nat
        BY <1>2, <1>6, <2>2
      <3>2. cs[l] = b
        BY <1>6, <2>2
      <3>3. cs[l].lines[j] \in f..(n - 1)
        BY <3>2, SectionAsc
      <3> QED
        BY <3>1, <3>3
    <2>3. CASE k = m + 1 /\ l = m + 1
      <3>1. i < j /\ cs[k] = b /\ cs[l] = b
        BY <1>5, <1>6, <2>3
      <3> QED
        BY <3>1 DEF IsSection
    <2>4. k \in 1..(m + 1) /\ l \in 1..(m + 1) /\ (k < l \/ k = l)
      BY <1>6
    <2>5. ~(k = m + 1 /\ l \in 1..m)
      BY <1>5, <2>4
    <2>6. (k \in 1..m \/ k = m + 1) /\ (l \in 1..m \/ l = m + 1)
      BY <1>5, <2>4
    <2> QED
      BY <2>1, <2>2, <2>3, <2>5, <2>6
  <1>9. CoveredBelow(cs, n)
    <2> SUFFICES ASSUME NEW j \in Blocks!Covered, j < n
                 PROVE  \E k \in DOMAIN cs : j \in Blocks!Range(cs[k].lines)
      BY DEF CoveredBelow
    <2>1. j \in Nat /\ ~Blocks!Blank(j)
      <3>1. j \in DOMAIN response /\ ~Blocks!Blank(j)
        BY DEF Blocks!Covered
      <3> QED
        BY <3>1
    <2>2. CASE j < f
      <3>1. PICK k \in DOMAIN bs : j \in Blocks!Range(bs[k].lines)
        BY <1>1, <2>2 DEF CoveredBelow
      <3>2. k \in DOMAIN cs /\ cs[k] = bs[k]
        BY <1>5, <1>6
      <3> QED
        BY <3>1, <3>2
    <2>3. CASE j >= f
      <3>1. j \in f..(n - 1)
        BY <2>1, <2>3
      <3>2. j \in Blocks!Range(b.lines)
        BY <2>1, <3>1 DEF IsSection
      <3>3. m + 1 \in DOMAIN cs /\ cs[m + 1] = b
        BY <1>5, <1>6
      <3> QED
        BY <3>2, <3>3
    <2> QED
      BY <2>1, <2>2, <2>3
  <1> QED
    BY <1>6, <1>7, <1>8, <1>9, SectionsAre DEF cs, T

LEMMA SectionsClosed ==
  ASSUME Blocks!BlocksInv, next <= Len(response) + 1
  PROVE  Blocks!Sections(Blocks!Close, next)
  <1>1. response \in Seq(Blocks!Line) /\ next \in Nat /\ Blocks!CurrentInv /\ Blocks!Starts \subseteq Nat
    <2>1. DOMAIN response \subseteq Nat
      BY BlockParts
    <2> QED
      BY <2>1, BlockParts
  <1>2. CASE current.kind = "none"
    <2>1. Blocks!Close = <<>> /\ \A i \in Blocks!Starts : i >= next
      BY <1>1, <1>2 DEF Blocks!CurrentInv, Blocks!Close
    <2>2. CoveredBelow(<<>>, next)
      <3> SUFFICES ASSUME NEW j \in Blocks!Covered, j < next PROVE FALSE
        BY DEF CoveredBelow
      <3>1. PICK i \in Blocks!Starts : i <= j
        BY DEF Blocks!Covered
      <3>2. j \in Nat
        BY <1>1 DEF Blocks!Covered
      <3> QED
        BY <1>1, <2>1, <3>1, <3>2
    <2>3. <<>> \in Seq(SectionType(next)) /\ DOMAIN <<>> = {}
      OBVIOUS
    <2>4. Ascending(<<>>) /\ \A k \in DOMAIN <<>> : SectionOf(<<>>[k], next)
      BY DEF Ascending
    <2> QED
      BY <2>1, <2>2, <2>3, <2>4, SectionsAre
  <1>3. CASE current.kind # "none"
    <2> DEFINE f == current.lines[1]
               lines == current.lines
               kind == current.kind
    <2>1. /\ f \in Blocks!Starts /\ f < next /\ kind = response[f].prefix
          /\ lines = [k \in 1 .. next - f |-> f + k - 1]
          /\ \A i \in Blocks!Starts : i <= f \/ i >= next
          /\ Blocks!Sections(blocks, f)
      BY <1>1, <1>3 DEF Blocks!CurrentInv
    <2>2. Blocks!Close = Append(blocks, Blocks!Block(kind, lines))
      BY <1>3 DEF Blocks!Close
    <2> HIDE DEF f, lines, kind
    <2>3. IsSection(Blocks!Block(kind, lines), f, next)
      BY <1>1, <2>1, SectionIs
    <2>4. f \in Nat
      BY <1>1, <2>1
    <2> QED
      BY <1>1, <2>1, <2>2, <2>3, <2>4, SectionsGrow
  <1> QED
    BY <1>2, <1>3

\* What the result has to be.
PlacesIn(res) == UNION {{k} \X DOMAIN res[k].lines : k \in DOMAIN res}
LineIn(res, p) == res[p[1]].lines[p[2]]

ExactIn(res) ==
    IF Blocks!Covered = {} THEN res = Blocks!Whole
    ELSE /\ {LineIn(res, p) : p \in PlacesIn(res)} \cap {i \in DOMAIN response : ~Blocks!Blank(i)} = Blocks!Covered
         /\ \A p, q \in PlacesIn(res) : Blocks!Before(p, q) => LineIn(res, p) < LineIn(res, q)
         /\ \A k \in DOMAIN res :
                /\ \A j \in Blocks!Range(res[k].lines) : Blocks!StartOf(j) = Blocks!StartOf(res[k].lines[1])
                /\ (res[k].kind = "say") = (response[Blocks!StartOf(res[k].lines[1])].prefix = "say")
                /\ res[k].kind = "gui_json" =>
                       Cardinality({j \in Blocks!Range(res[k].lines) : Blocks!Text(j) = "json"}) = 1

LEMMA ExactIs ==
  ASSUME response' = response, ExactIn(result')
  PROVE  Blocks!BlocksExact'
  <1>1. Blocks!Covered' = Blocks!Covered
    BY DEF Blocks!Covered, Blocks!Starts, Blocks!Blank, Blocks!Text
  <1>2. CASE Blocks!Covered = {}
    <2>1. Blocks!Whole' = Blocks!Whole
      BY DEF Blocks!Whole, Blocks!Blank, Blocks!Text
    <2> QED
      BY <1>1, <1>2, <2>1 DEF ExactIn, Blocks!BlocksExact
  <1>3. CASE Blocks!Covered # {}
    <2>1. /\ \A p : Blocks!LineAt(p)' = LineIn(result', p)
          /\ Blocks!Places' = PlacesIn(result')
      BY DEF Blocks!LineAt, LineIn, Blocks!Places, PlacesIn
    <2>2. \A j : /\ Blocks!StartOf(j)' = Blocks!StartOf(j) /\ Blocks!Text(j)' = Blocks!Text(j)
                 /\ Blocks!Blank(j)' = Blocks!Blank(j)
      BY DEF Blocks!StartOf, Blocks!Starts, Blocks!Text, Blocks!Blank
    <2>3. {i \in DOMAIN response : ~Blocks!Blank(i)}' = {i \in DOMAIN response : ~Blocks!Blank(i)}
      BY <2>2
    <2>4. /\ {LineIn(result', p) : p \in PlacesIn(result')} \cap {i \in DOMAIN response : ~Blocks!Blank(i)} = Blocks!Covered
          /\ \A p, q \in PlacesIn(result') : Blocks!Before(p, q) => LineIn(result', p) < LineIn(result', q)
          /\ \A k \in DOMAIN result' :
                /\ \A j \in Blocks!Range(result'[k].lines) : Blocks!StartOf(j) = Blocks!StartOf(result'[k].lines[1])
                /\ (result'[k].kind = "say") = (response[Blocks!StartOf(result'[k].lines[1])].prefix = "say")
                /\ result'[k].kind = "gui_json" =>
                       Cardinality({j \in Blocks!Range(result'[k].lines) : Blocks!Text(j) = "json"}) = 1
      BY <1>3 DEF ExactIn
    <2>5. {Blocks!LineAt(p) : p \in Blocks!Places}' = {LineIn(result', p) : p \in PlacesIn(result')}
      BY <2>1
    <2>6. (\A p, q \in Blocks!Places : Blocks!Before(p, q) => Blocks!LineAt(p) < Blocks!LineAt(q))'
      BY <2>1, <2>4
    <2>7. \A k \in DOMAIN result' :
              Blocks!Cardinality({j \in Blocks!Range(result'[k].lines) : Blocks!Text(j)' = "json"})
                  = Cardinality({j \in Blocks!Range(result'[k].lines) : Blocks!Text(j) = "json"})
      BY <2>2, BlockSets
    <2>8. (\A k \in DOMAIN result : LET b == result[k] IN
                    /\ \A j \in Blocks!Range(b.lines) : Blocks!StartOf(j) = Blocks!StartOf(b.lines[1])
                    /\ (b.kind = "say") = (response[Blocks!StartOf(b.lines[1])].prefix = "say")
                    /\ b.kind = "gui_json" =>
                           Blocks!Cardinality({j \in Blocks!Range(b.lines) : Blocks!Text(j) = "json"}) = 1)'
      BY <2>2, <2>4, <2>7
    <2> QED
      BY <1>1, <1>3, <2>3, <2>4, <2>5, <2>6, <2>8 DEF Blocks!BlocksExact
  <1> QED
    BY <1>2, <1>3

LEMMA KindIs ==
  ASSUME NEW T, NEW b, b.lines \in Seq(T)
  PROVE  /\ (Blocks!Kind(b) = "say") = (b.kind = "say")
         /\ Blocks!Kind(b) = "gui_json" =>
                Cardinality({j \in Blocks!Range(b.lines) : Blocks!Text(j) = "json"}) = 1
  <1>1. (Blocks!Kind(b) = "say") = (b.kind = "say")
    BY DEF Blocks!Kind
  <1>2. ASSUME Blocks!Kind(b) = "gui_json" PROVE Blocks!IsValue(b.lines) \/ Blocks!Fenced(b.lines)
    BY <1>2 DEF Blocks!Kind
  <1> QED
    BY <1>1, <1>2, JsonIs

\* The blocks that are returned are those of the answer that have a line.
IsParsed(cs, ps, n, place) ==
    /\ n \in Nat /\ place \in [1..n -> DOMAIN cs] /\ Len(ps) = n /\ DOMAIN ps = 1..n /\ (ps = <<>> => n = 0) /\ (n = 0 => ps = <<>>)
    /\ \A k \in 1..n : /\ ps[k].lines = cs[place[k]].lines /\ ps[k].kind = Blocks!Kind(cs[place[k]])
                       /\ ps[k].lines # <<>>
    /\ \A i \in DOMAIN cs : cs[i].lines # <<>> => \E k \in 1..n : place[k] = i
    /\ \A k, l \in 1..n : k < l <=> place[k] < place[l]

LEMMA ParsedIs ==
  ASSUME NEW line, Blocks!Close \in Seq(SectionType(line))
  PROVE  \E n, place : IsParsed(Blocks!Close, Blocks!Parsed, n, place)
  <1> DEFINE cs == Blocks!Close
             ps == Blocks!Parsed
             T == SectionType(line)
             bare == {b \in Blocks!Range(cs) : b.lines = <<>>}
             done == Without(cs, bare)
  <1>1. cs \in Seq(T)
    OBVIOUS
  <1>2. ps = [k \in DOMAIN done |-> [done[k] EXCEPT !.kind = Blocks!Kind(done[k])]]
    BY BlockSets DEF Blocks!Parsed
  <1> HIDE DEF cs, ps, T
  <1>3. \A i \in DOMAIN cs : cs[i] \in T /\ (cs[i] \in bare <=> cs[i].lines = <<>>)
    BY <1>1, BlockSets
  <1> HIDE DEF bare
  <1>4. PICK n, place : IsKept(cs, bare, n, place)
    BY <1>1, PlacesKept
  <1>5. /\ n \in Nat /\ place \in [1..n -> DOMAIN cs]
        /\ done = [k \in 1..n |-> cs[place[k]]]
        /\ \A k \in 1..n : cs[place[k]] \notin bare
        /\ \A i \in DOMAIN cs : cs[i] \notin bare => \E k \in 1..n : place[k] = i
        /\ \A k, l \in 1..n : k < l <=> place[k] < place[l]
    BY <1>4 DEF IsKept
  <1> HIDE DEF done
  <1>6. ps = [k \in 1..n |-> [cs[place[k]] EXCEPT !.kind = Blocks!Kind(cs[place[k]])]]
    BY <1>2, <1>5
  <1>7. ASSUME NEW k \in 1..n
        PROVE  /\ ps[k].lines = cs[place[k]].lines /\ ps[k].kind = Blocks!Kind(cs[place[k]])
               /\ ps[k].lines # <<>>
    <2> DEFINE b == cs[place[k]]
               kind == Blocks!Kind(b)
    <2>1. b \in T /\ b.lines # <<>> /\ ps[k] = [b EXCEPT !.kind = kind]
      BY <1>3, <1>5, <1>6, <1>7
    <2> HIDE DEF b, kind
    <2>2. ps[k].lines = b.lines /\ ps[k].kind = kind
      BY <2>1 DEF T, SectionType
    <2> QED
      BY <2>1, <2>2 DEF b, kind
  <1>8. Len(ps) = n /\ DOMAIN ps = 1..n /\ (ps = <<>> => n = 0) /\ (n = 0 => ps = <<>>)
    <2> DEFINE U == {ps[k] : k \in 1..n}
    <2>1. DOMAIN ps = 1..n /\ ps = [k \in 1..n |-> ps[k]]
      BY <1>6
    <2>2. ps \in [1..n -> U]
      BY <2>1
    <2> HIDE DEF U
    <2>3. ps \in Seq(U) /\ Len(ps) = n
      BY <1>5, <2>2
    <2>4. n = 0 => ps = <<>>
      BY <2>3, EmptySeq
    <2>5. ps = <<>> => n = 0
      BY <2>3
    <2> QED
      BY <2>1, <2>3, <2>4, <2>5
  <1>9. \A i \in DOMAIN cs : cs[i].lines # <<>> => \E k \in 1..n : place[k] = i
    BY <1>3, <1>5
  <1>10. IsParsed(cs, ps, n, place)
    BY <1>5, <1>7, <1>8, <1>9 DEF IsParsed
  <1> QED
    BY <1>10 DEF cs, ps

LEMMA ResultExact ==
  ASSUME Blocks!BlocksInv, next = Len(response) + 1, NEW res,
         res = IF Blocks!Parsed # <<>> THEN Blocks!Parsed ELSE Blocks!Whole
  PROVE  ExactIn(res)
  <1> DEFINE cs == Blocks!Close
             ps == Blocks!Parsed
  <1>1. /\ cs \in Seq(SectionType(next)) /\ \A k \in DOMAIN cs : SectionOf(cs[k], next)
        /\ Ascending(cs) /\ CoveredBelow(cs, next)
    BY BlockParts, SectionsClosed, SectionsAre
  <1>2. Len(response) \in Nat /\ DOMAIN response = 1..Len(response) /\ Blocks!Starts \subseteq DOMAIN response
    BY BlockParts
  <1>3. PICK n, place : IsParsed(cs, ps, n, place)
    BY <1>1, ParsedIs
  <1> HIDE DEF cs, ps
  <1>4. /\ n \in Nat /\ place \in [1..n -> DOMAIN cs] /\ DOMAIN ps = 1..n /\ (ps = <<>> <=> n = 0)
        /\ \A k \in 1..n : /\ ps[k].lines = cs[place[k]].lines /\ ps[k].kind = Blocks!Kind(cs[place[k]])
                           /\ ps[k].lines # <<>>
        /\ \A i \in DOMAIN cs : cs[i].lines # <<>> => \E k \in 1..n : place[k] = i
        /\ \A k, l \in 1..n : k < l <=> place[k] < place[l]
    BY <1>3 DEF IsParsed
  \* A block that is returned, and its section.
  <1>5. ASSUME NEW k \in 1..n
        PROVE  /\ ps[k].lines \in Seq(1..Len(response)) /\ 1 \in DOMAIN ps[k].lines
               /\ ~Blocks!Blank(ps[k].lines[1]) /\ \A i \in DOMAIN ps[k].lines : ps[k].lines[i] \in DOMAIN response
               /\ \E i \in Blocks!Starts : /\ cs[place[k]].kind = response[i].prefix
                                           /\ \A j \in Blocks!Range(ps[k].lines) : i <= j /\ Blocks!StartOf(j) = i
    <2> DEFINE b == cs[place[k]]
               T == 1..Len(response)
    <2>1. SectionOf(b, next) /\ ps[k].lines = b.lines /\ b.lines # <<>>
      BY <1>1, <1>4
    <2>2. next - 1 = Len(response)
      BY <1>2
    <2> HIDE DEF b, T
    <2>3. /\ b.lines \in Seq(T) /\ ~Blocks!Blank(b.lines[1])
          /\ \E i \in Blocks!Starts : /\ b.kind = response[i].prefix
                                      /\ \A j \in Blocks!Range(b.lines) : i <= j /\ Blocks!StartOf(j) = i
      BY <2>1, <2>2 DEF SectionOf, T
    <2>4. 1 \in DOMAIN b.lines /\ \A i \in DOMAIN b.lines : b.lines[i] \in T
      BY <2>1, <2>3
    <2> QED
      BY <1>2, <2>1, <2>3, <2>4 DEF b, T
  <1>6. ASSUME NEW k \in 1..n, NEW j \in Blocks!Range(ps[k].lines), ~Blocks!Blank(j)
        PROVE  j \in Blocks!Covered
    <2>1. j \in DOMAIN response
      BY <1>5, BlockSets
    <2>2. \E i \in Blocks!Starts : i <= j
      BY <1>5
    <2> QED
      BY <1>6, <2>1, <2>2 DEF Blocks!Covered
  <1>7. ASSUME NEW j \in Blocks!Covered
        PROVE  \E k \in 1..n : j \in Blocks!Range(ps[k].lines)
    <2>1. j < next
      <3>1. j \in 1..Len(response)
        BY <1>2 DEF Blocks!Covered
      <3> QED
        BY <1>2, <3>1
    <2>2. PICK i \in DOMAIN cs : j \in Blocks!Range(cs[i].lines)
      BY <1>1, <2>1 DEF CoveredBelow
    <2>3. cs[i].lines # <<>>
      BY <2>2 DEF Blocks!Range
    <2>4. PICK k \in 1..n : place[k] = i
      BY <1>4, <2>2, <2>3
    <2> QED
      BY <1>4, <2>2, <2>4
  <1>8. CASE Blocks!Covered = {}
    <2>1. n = 0
      <3> SUFFICES ASSUME n # 0 PROVE FALSE
        OBVIOUS
      <3>1. 1 \in 1..n
        BY <1>4
      <3>2. ps[1].lines[1] \in Blocks!Range(ps[1].lines) /\ ~Blocks!Blank(ps[1].lines[1])
        BY <1>5, <3>1, BlockSets
      <3> QED
        BY <1>6, <1>8, <3>1, <3>2
    <2> QED
      BY <1>4, <1>8, <2>1 DEF ExactIn, ps
  <1>9. CASE Blocks!Covered # {}
    <2>1. res = ps
      <3>1. n # 0
        BY <1>4, <1>7, <1>9
      <3> QED
        BY <1>4, <3>1 DEF ps
    <2>2. \A k, i : <<k, i>> \in PlacesIn(ps) <=> k \in 1..n /\ i \in DOMAIN ps[k].lines
      BY <1>4 DEF PlacesIn
    <2>3. \A p \in PlacesIn(ps) : p = <<p[1], p[2]>> /\ p[1] \in 1..n /\ p[2] \in DOMAIN ps[p[1]].lines
      BY <1>4 DEF PlacesIn
    <2>4. \A p \in PlacesIn(ps) : LineIn(ps, p) \in Blocks!Range(ps[p[1]].lines)
      BY <2>3, BlockSets DEF LineIn
    <2>5. {LineIn(ps, p) : p \in PlacesIn(ps)} \cap {i \in DOMAIN response : ~Blocks!Blank(i)} = Blocks!Covered
      <3>1. ASSUME NEW p \in PlacesIn(ps), ~Blocks!Blank(LineIn(ps, p)) PROVE LineIn(ps, p) \in Blocks!Covered
        BY <1>6, <2>3, <2>4, <3>1
      <3>2. ASSUME NEW j \in Blocks!Covered
            PROVE  j \in DOMAIN response /\ ~Blocks!Blank(j) /\ \E p \in PlacesIn(ps) : LineIn(ps, p) = j
        <4>1. PICK k \in 1..n : j \in Blocks!Range(ps[k].lines)
          BY <1>7
        <4>2. PICK i \in DOMAIN ps[k].lines : ps[k].lines[i] = j
          BY <4>1, BlockSets
        <4>3. <<k, i>> \in PlacesIn(ps) /\ LineIn(ps, <<k, i>>) = j
          BY <2>2, <4>2 DEF LineIn
        <4> QED
          BY <4>3 DEF Blocks!Covered
      <3> QED
        BY <3>1, <3>2
    <2>6. ASSUME NEW p \in PlacesIn(ps), NEW q \in PlacesIn(ps), Blocks!Before(p, q)
          PROVE  LineIn(ps, p) < LineIn(ps, q)
      <3> DEFINE k == p[1]
                 l == q[1]
                 i == p[2]
                 j == q[2]
      <3>1. k \in 1..n /\ l \in 1..n /\ i \in DOMAIN ps[k].lines /\ j \in DOMAIN ps[l].lines
        BY <2>3
      <3>2. k < l \/ (k = l /\ i < j)
        BY <2>6 DEF Blocks!Before
      <3> HIDE DEF k, l, i, j
      <3>3. place[k] < place[l] \/ (place[k] = place[l] /\ i < j)
        BY <1>4, <3>1, <3>2
      <3>4. /\ ps[k].lines = cs[place[k]].lines /\ ps[l].lines = cs[place[l]].lines
            /\ place[k] \in DOMAIN cs /\ place[l] \in DOMAIN cs
        BY <1>4, <3>1
      <3>5. ps[k].lines[i] < ps[l].lines[j]
        BY <1>1, <3>1, <3>3, <3>4 DEF Ascending
      <3> QED
        BY <3>5 DEF LineIn, k, l, i, j
    <2>7. ASSUME NEW k \in DOMAIN ps
          PROVE /\ \A j \in Blocks!Range(ps[k].lines) : Blocks!StartOf(j) = Blocks!StartOf(ps[k].lines[1])
                /\ (ps[k].kind = "say") = (response[Blocks!StartOf(ps[k].lines[1])].prefix = "say")
                /\ ps[k].kind = "gui_json" =>
                       Cardinality({j \in Blocks!Range(ps[k].lines) : Blocks!Text(j) = "json"}) = 1
      <3> DEFINE b == cs[place[k]]
      <3>1. /\ k \in 1..n /\ ps[k].lines = b.lines /\ ps[k].kind = Blocks!Kind(b)
            /\ b.lines \in Seq(1..Len(response)) /\ 1 \in DOMAIN b.lines
        BY <1>4, <1>5
      <3>2. PICK i \in Blocks!Starts : /\ b.kind = response[i].prefix
                                       /\ \A j \in Blocks!Range(b.lines) : Blocks!StartOf(j) = i
        BY <1>5, <3>1
      <3> HIDE DEF b
      <3>3. Blocks!StartOf(b.lines[1]) = i
        BY <3>1, <3>2, BlockSets
      <3>4. /\ (Blocks!Kind(b) = "say") = (b.kind = "say")
            /\ Blocks!Kind(b) = "gui_json" =>
                Cardinality({j \in Blocks!Range(b.lines) : Blocks!Text(j) = "json"}) = 1
        BY <3>1, KindIs
      <3> QED
        BY <3>1, <3>2, <3>3, <3>4
    <2> QED
      <3>1. ExactIn(ps)
        BY <1>9, <2>5, <2>6, <2>7 DEF ExactIn
      <3> QED
        BY <2>1, <3>1
  <1> QED
    BY <1>8, <1>9

LEMMA BlocksBegin == Blocks!Init => Blocks!BlocksInv
  <1> SUFFICES ASSUME Blocks!Init PROVE Blocks!BlocksInv
    OBVIOUS
  <1>1. response \in Seq(Blocks!Line)
    <2>1. PICK m \in 0..MaxLines : response \in [1..m -> Blocks!Line]
      BY DEF Blocks!Init
    <2>2. m \in Nat
      BY <2>1
    <2> QED
      BY <2>1, <2>2
  <1>2. Len(response) \in Nat /\ DOMAIN response = 1..Len(response)
    BY <1>1
  <1>3. next = 1 /\ blocks = <<>> /\ current = Blocks!Block("none", <<>>)
    BY DEF Blocks!Init
  <1>4. current.kind = "none" /\ current.lines = <<>>
    <2>1. Blocks!Strip(<<>>) = <<>>
      BY DEF Blocks!Strip
    <2> QED
      BY <1>3, <2>1 DEF Blocks!Block
  <1>5. Blocks!TypeOK
    <2>1. next \in 1 .. Len(response) + 2
      BY <1>2, <1>3
    <2>2. current.kind \in Blocks!Markers /\ Blocks!Range(current.lines) \subseteq DOMAIN response
      BY <1>4, BlockSets DEF Blocks!Markers
    <2> QED
      BY <2>1, <2>2 DEF Blocks!TypeOK
  <1>6. Blocks!CurrentInv
    <2>1. \A i \in Blocks!Starts : i >= next
      BY <1>2, <1>3 DEF Blocks!Starts
    <2> QED
      BY <1>3, <1>4, <2>1 DEF Blocks!CurrentInv
  <1>7. Blocks!BlocksExact
    <2>1. next # Len(response) + 2
      BY <1>2, <1>3
    <2> QED
      BY <2>1 DEF Blocks!BlocksExact
  <1>8. current.lines \in Seq(Nat)
    BY <1>4
  <1> QED
    BY <1>1, <1>5, <1>6, <1>7, <1>8 DEF Blocks!BlocksInv

\* Nothing is due before the end, and what is known of the answer stays known.
LEMMA BlockGoesOn ==
  ASSUME Blocks!BlocksInv, response' = response, next <= Len(response), next' = next + 1,
         current'.kind \in Blocks!Markers, current'.lines \in Seq(DOMAIN response),
         current'.kind = "none" => blocks' = <<>> /\ \A i \in Blocks!Starts : i >= next + 1,
         NEW f, current'.kind # "none" =>
             /\ f = current'.lines[1] /\ f \in Blocks!Starts /\ f < next + 1 /\ current'.kind = response[f].prefix
             /\ current'.lines = [k \in 1..(next' - f) |-> f + k - 1]
             /\ \A i \in Blocks!Starts : i <= f \/ i >= next + 1
             /\ Blocks!Sections(blocks', f)
  PROVE  Blocks!BlocksInv'
  <1>1. /\ response \in Seq(Blocks!Line) /\ Len(response) \in Nat /\ DOMAIN response = 1..Len(response)
        /\ next \in Nat /\ next >= 1
    BY BlockParts
  <1>2. Blocks!TypeOK' /\ current'.lines \in Seq(Nat)
    <2> DEFINE T == DOMAIN response
               ls == current'.lines
    <2>1. T \subseteq Nat
      BY <1>1
    <2> HIDE DEF T, ls
    <2>2. ls \in Seq(T)
      BY DEF T, ls
    <2>3. ls \in Seq(Nat) /\ \A k \in DOMAIN ls : ls[k] \in T
      <3> DEFINE V == Nat
      <3>1. T \subseteq V
        BY <2>1
      <3> HIDE DEF V
      <3>2. \A k \in DOMAIN ls : ls[k] \in T
        BY <2>2
      <3>3. ls \in Seq(V)
        BY <2>2, <3>1
      <3> QED
        BY <3>2, <3>3 DEF V
    <2>4. Blocks!Range(ls) \subseteq T
      BY <2>3, BlockSets
    <2>5. next' \in 1 .. Len(response') + 2
      BY <1>1
    <2> QED
      BY <2>3, <2>4, <2>5 DEF Blocks!TypeOK, T, ls
  <1>3. Blocks!Starts' = Blocks!Starts
    BY DEF Blocks!Starts
  <1>5. current'.kind # "none" => (Blocks!Sections(blocks, current.lines[1]))'
    <2> SUFFICES ASSUME current'.kind # "none" PROVE (Blocks!Sections(blocks, current.lines[1]))'
      OBVIOUS
    <2>1. Blocks!Sections(blocks', f) /\ f = current'.lines[1]
      OBVIOUS
    <2>2. \A j : Blocks!StartOf(j)' = Blocks!StartOf(j) /\ Blocks!Blank(j)' = Blocks!Blank(j)
      BY DEF Blocks!StartOf, Blocks!Starts, Blocks!Blank, Blocks!Text
    <2>3. Blocks!Covered' = Blocks!Covered
      BY DEF Blocks!Covered, Blocks!Starts, Blocks!Blank, Blocks!Text
    <2> QED
      BY <1>3, <2>1, <2>2, <2>3 DEF Blocks!Sections
  <1>6. Blocks!CurrentInv'
    <2>1. CASE current'.kind = "none"
      BY <1>3, <2>1 DEF Blocks!CurrentInv
    <2>2. CASE current'.kind # "none"
      <3>1. /\ current'.lines[1] \in Blocks!Starts' /\ current'.lines[1] < next'
            /\ current'.kind = response'[current'.lines[1]].prefix
            /\ current'.lines = [k \in 1 .. next' - current'.lines[1] |-> current'.lines[1] + k - 1]
            /\ \A i \in Blocks!Starts' : i <= current'.lines[1] \/ i >= next'
        <4>0. f = current'.lines[1] /\ next' = next + 1 /\ response' = response
          BY <2>2
        <4>1. f \in Blocks!Starts' /\ f < next' /\ current'.kind = response'[f].prefix
          BY <1>3, <2>2, <4>0
        <4>2. current'.lines = [k \in 1 .. next' - f |-> f + k - 1]
          BY <2>2
        <4>3. \A i \in Blocks!Starts' : i <= f \/ i >= next'
          BY <1>3, <2>2, <4>0
        <4> QED
          BY <4>0, <4>1, <4>2, <4>3, Zenon
      <3> QED
        BY <1>5, <2>2, <3>1 DEF Blocks!CurrentInv
    <2> QED
      BY <2>1, <2>2
  <1>7. Blocks!BlocksExact'
    <2>1. next' # Len(response') + 2
      BY <1>1
    <2> QED
      BY <2>1 DEF Blocks!BlocksExact
  <1> QED
    BY <1>1, <1>2, <1>6, <1>7 DEF Blocks!BlocksInv

LEMMA BlocksAddLine ==
  ASSUME Blocks!BlocksInv, Blocks!AddLine
  PROVE  Blocks!BlocksInv'
  <1> DEFINE lines == current.lines
             then == Append(lines, next)
             f == lines[1]
  <1>1. /\ next <= Len(response) /\ response[next].prefix = "none" /\ next' = next + 1
        /\ current' = [current EXCEPT !.lines = then] /\ UNCHANGED <<response, blocks, result>>
    BY DEF Blocks!AddLine
  <1>2. /\ response \in Seq(Blocks!Line) /\ Len(response) \in Nat /\ DOMAIN response = 1..Len(response)
        /\ next \in Nat /\ next >= 1 /\ Blocks!Starts \subseteq DOMAIN response /\ Blocks!CurrentInv
        /\ lines \in Seq(Nat) /\ current.kind \in Blocks!Markers
    BY BlockParts
  <1>3. next \in DOMAIN response /\ next \notin Blocks!Starts
    BY <1>1, <1>2 DEF Blocks!Starts
  <1>4. lines \in Seq(DOMAIN response)
    <2> DEFINE T == DOMAIN response
    <2>1. Blocks!Range(lines) \subseteq T
      BY DEF Blocks!BlocksInv, Blocks!TypeOK
    <2> HIDE DEF T, lines
    <2>2. \A k \in 1..Len(lines) : lines[k] \in T
      BY <1>2, <2>1, BlockSets
    <2>3. Len(lines) \in Nat /\ lines = [k \in 1..Len(lines) |-> lines[k]]
      BY <1>2
    <2>4. lines \in [1..Len(lines) -> T]
      BY <2>2, <2>3
    <2>5. lines \in Seq(T)
      BY <2>3, <2>4
    <2> QED
      BY <2>5 DEF T
  <1>5. current'.kind = current.kind /\ current'.lines = then
    BY <1>1 DEF Blocks!BlocksInv
  <1>6. then \in Seq(DOMAIN response)
    <2> DEFINE T == DOMAIN response
    <2> HIDE DEF T, lines
    <2>1. lines \in Seq(T) /\ next \in T
      BY <1>3, <1>4 DEF T
    <2> QED
      BY <2>1 DEF T
  <1>7. current.kind = "none" => blocks' = <<>> /\ \A i \in Blocks!Starts : i >= next + 1
    <2> SUFFICES ASSUME current.kind = "none" PROVE blocks' = <<>> /\ \A i \in Blocks!Starts : i >= next + 1
      OBVIOUS
    <2>1. blocks = <<>> /\ \A i \in Blocks!Starts : i >= next
      BY <1>1, <1>2 DEF Blocks!CurrentInv
    <2>2. ASSUME NEW i \in Blocks!Starts PROVE i >= next + 1
      <3>1. i \in Nat /\ i >= next /\ i # next
        BY <1>2, <1>3, <2>1
      <3> QED
        BY <1>2, <3>1
    <2> QED
      BY <1>1, <2>1, <2>2
  <1>8. current.kind # "none" =>
             /\ f = then[1] /\ f \in Blocks!Starts /\ f < next + 1 /\ current.kind = response[f].prefix
             /\ then = [k \in 1..(next' - f) |-> f + k - 1]
             /\ \A i \in Blocks!Starts : i <= f \/ i >= next + 1
             /\ Blocks!Sections(blocks', f)
    <2> SUFFICES ASSUME current.kind # "none"
                 PROVE  /\ f = then[1] /\ f \in Blocks!Starts /\ f < next + 1 /\ current.kind = response[f].prefix
                        /\ then = [k \in 1..(next' - f) |-> f + k - 1]
                        /\ \A i \in Blocks!Starts : i <= f \/ i >= next + 1
                        /\ Blocks!Sections(blocks', f)
      OBVIOUS
    <2>1. /\ f \in Blocks!Starts /\ f < next /\ current.kind = response[f].prefix
          /\ lines = [k \in 1 .. next - f |-> f + k - 1]
          /\ \A i \in Blocks!Starts : i <= f \/ i >= next
          /\ Blocks!Sections(blocks, f)
      BY <1>1, <1>2 DEF Blocks!CurrentInv
    <2> DEFINE size == next - f
    <2> HIDE DEF f
    <2>2. f \in Nat /\ size \in Nat /\ size >= 1
      BY <1>2, <2>1
    <2>3. Len(lines) = size /\ \A k \in 1..size : lines[k] = f + k - 1
      BY <2>1, <2>2
    <2> HIDE DEF lines
    <2>4. DOMAIN then = 1..(size + 1) /\ then[size + 1] = next /\ \A k \in 1..size : then[k] = f + k - 1
      BY <1>2, <2>2, <2>3
    <2>5. then \in Seq(Nat) /\ next = f + (size + 1) - 1 /\ size + 1 = next' - f
      BY <1>1, <1>2, <2>2
    <2> HIDE DEF size, then
    <2>6. \A k \in 1..(size + 1) : then[k] = f + k - 1
      BY <2>2, <2>4, <2>5
    <2>7. then = [k \in 1..(next' - f) |-> f + k - 1]
      <3>1. DOMAIN then = 1..(next' - f) /\ \A k \in 1..(next' - f) : then[k] = f + k - 1
        BY <2>4, <2>5, <2>6
      <3>2. then = [k \in DOMAIN then |-> then[k]]
        BY <2>5
      <3> QED
        BY <3>1, <3>2
    <2>8. f = then[1]
      BY <2>2, <2>6
    <2>9. \A i \in Blocks!Starts : i <= f \/ i >= next + 1
      <3>1. ASSUME NEW i \in Blocks!Starts, ~(i <= f) PROVE i >= next + 1
        <4>1. i \in Nat /\ i >= next /\ i # next
          BY <1>2, <1>3, <2>1, <3>1
        <4> QED
          BY <1>2, <4>1
      <3> QED
        BY <3>1
    <2>10. f < next + 1
      BY <1>2, <2>1, <2>2
    <2> QED
      BY <1>1, <2>1, <2>5, <2>7, <2>8, <2>9, <2>10
  <1> HIDE DEF then, f, lines
  <1> QED
    BY <1>1, <1>2, <1>5, <1>6, <1>7, <1>8, BlockGoesOn

LEMMA BlocksStartBlock ==
  ASSUME Blocks!BlocksInv, Blocks!StartBlock
  PROVE  Blocks!BlocksInv'
  <1>1. /\ next <= Len(response) /\ response[next].prefix # "none" /\ next' = next + 1
        /\ blocks' = Blocks!Close /\ current' = [kind |-> response[next].prefix, lines |-> <<next>>]
        /\ UNCHANGED <<response, result>>
    BY DEF Blocks!StartBlock
  <1>2. /\ response \in Seq(Blocks!Line) /\ Len(response) \in Nat /\ DOMAIN response = 1..Len(response)
        /\ next \in Nat /\ next >= 1 /\ Blocks!Starts \subseteq DOMAIN response
    BY BlockParts
  <1>3. next \in DOMAIN response /\ next \in Blocks!Starts /\ response[next] \in Blocks!Line
    BY <1>1, <1>2 DEF Blocks!Starts
  <1>4. current'.kind = response[next].prefix /\ current'.lines = <<next>> /\ current'.kind \in Blocks!Markers
    BY <1>1, <1>3 DEF Blocks!Line
  <1>5. <<next>> \in Seq(DOMAIN response)
    BY <1>3
  <1>6. Blocks!Sections(blocks', next)
    <2>1. next <= Len(response) + 1
      BY <1>1, <1>2
    <2> QED
      BY <1>1, <2>1, SectionsClosed
  <1>7. <<next>> = [k \in 1..(next' - next) |-> next + k - 1] /\ next < next + 1
    <2>1. next' - next = 1 /\ next + 1 - 1 = next /\ 1..1 = {1}
      BY <1>1, <1>2
    <2> QED
      BY <1>2, <2>1
  <1>8. \A i \in Blocks!Starts : i <= next \/ i >= next + 1
    <2>1. ASSUME NEW i \in Blocks!Starts PROVE i <= next \/ i >= next + 1
      <3>1. i \in Nat
        BY <1>2
      <3> QED
        BY <1>2, <3>1
    <2> QED
      BY <2>1
  <1>9. <<next>>[1] = next
    OBVIOUS
  <1> QED
    BY <1>1, <1>2, <1>3, <1>4, <1>5, <1>6, <1>7, <1>8, <1>9, BlockGoesOn

LEMMA BlocksFinish ==
  ASSUME Blocks!BlocksInv, Blocks!Finish
  PROVE  Blocks!BlocksInv'
  <1>1. /\ next = Len(response) + 1 /\ next' = next + 1 /\ UNCHANGED <<response, current, blocks>>
        /\ result' = IF Blocks!Parsed # <<>> THEN Blocks!Parsed ELSE Blocks!Whole
    BY DEF Blocks!Finish
  <1>2. response \in Seq(Blocks!Line) /\ Len(response) \in Nat /\ current.lines \in Seq(Nat)
    BY BlockParts
  <1>3. ExactIn(result')
    BY <1>1, ResultExact
  <1>4. Blocks!BlocksExact'
    BY <1>1, <1>3, ExactIs
  <1>5. Blocks!TypeOK'
    <2>1. next' \in 1 .. Len(response') + 2
      BY <1>1, <1>2
    <2> QED
      BY <1>1, <2>1 DEF Blocks!BlocksInv, Blocks!TypeOK
  <1>6. Blocks!CurrentInv'
    <2>1. ~(next' <= Len(response') + 1)
      BY <1>1, <1>2
    <2> QED
      BY <2>1 DEF Blocks!CurrentInv
  <1> QED
    BY <1>1, <1>2, <1>4, <1>5, <1>6 DEF Blocks!BlocksInv

LEMMA BlocksStay ==
  ASSUME Blocks!BlocksInv, UNCHANGED blockVars
  PROVE  Blocks!BlocksInv'
  <1>1. UNCHANGED <<response, next, current, blocks, result>>
    BY DEF blockVars
  <1>2. Blocks!Starts' = Blocks!Starts /\ Blocks!Covered' = Blocks!Covered
    BY <1>1 DEF Blocks!Starts, Blocks!Covered, Blocks!Blank, Blocks!Text
  <1>3. \A j : Blocks!StartOf(j)' = Blocks!StartOf(j) /\ Blocks!Blank(j)' = Blocks!Blank(j) /\ Blocks!Text(j)' = Blocks!Text(j)
    BY <1>1 DEF Blocks!StartOf, Blocks!Starts, Blocks!Blank, Blocks!Text
  <1>4. Blocks!CurrentInv'
    <2>1. Blocks!CurrentInv
      BY DEF Blocks!BlocksInv
    <2>2. Blocks!Sections(blocks, current.lines[1])' <=> Blocks!Sections(blocks, current.lines[1])
      BY <1>1 DEF Blocks!Sections, Blocks!Starts, Blocks!StartOf, Blocks!Covered, Blocks!Blank, Blocks!Text
    <2> QED
      BY <1>1, <1>2, <2>1, <2>2 DEF Blocks!CurrentInv
  <1>5. Blocks!BlocksExact'
    <2>1. Blocks!BlocksExact
      BY DEF Blocks!BlocksInv
    <2>2. Blocks!BlocksExact' <=> Blocks!BlocksExact
      BY <1>1 DEF Blocks!BlocksExact, Blocks!Covered, Blocks!Starts, Blocks!StartOf, Blocks!Whole,
                  Blocks!Blank, Blocks!Text, Blocks!Places, Blocks!LineAt
    <2> QED
      BY <2>1, <2>2
  <1> QED
    BY <1>1, <1>4, <1>5 DEF Blocks!BlocksInv, Blocks!TypeOK

LEMMA BlocksNext == Blocks!BlocksInv /\ [Blocks!Next]_blockVars => Blocks!BlocksInv'
  BY BlocksStay, BlocksAddLine, BlocksStartBlock, BlocksFinish DEF Blocks!Next
=============================================================================
