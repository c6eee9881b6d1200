------------------------------ MODULE JwksCache ------------------------------
(***************************************************************************)
(* ClerkJWTVerifier (auth.py): requests verify their tokens against a cache *)
(* of the issuer's signing keys, which they refresh when it has expired or  *)
(* does not have the key.  Refreshes are awaited and not serialized: what   *)
(* one request stores, another may overwrite with an older answer.          *)
(***************************************************************************)
EXTENDS Integers

CONSTANTS Calls,    \* verifications in flight
          MaxKey,   \* bound: keys the issuer ever publishes
          TTL       \* JWKS_CACHE_TTL, in ticks; a fetch takes one tick at most

VARIABLES
    issued,     \* the last key the issuer has published
    oldest,     \* the oldest one it still publishes
    gone,       \* ticks since a key was withdrawn
    jwks,       \* cached keys
    age,        \* ticks since they were stored
    pc,         \* where the verification is
    kid,        \* key its token names
    refetched,  \* it has refreshed because the key was unknown
    got,        \* the issuer's answer to its refresh
    waited,     \* ticks its refresh has taken
    failed,     \* history: its last refresh failed
    overtaken   \* history: another stored an answer between its own and its lookup

issuerVars == <<issued, oldest, gone>>
callVars   == <<pc, kid, refetched, got, waited, failed, overtaken>>
jwksVars   == <<issuerVars, jwks, age, callVars>>

KeyIds    == 0 .. MaxKey
Published == oldest .. issued
Late      == TTL + 2                  \* bound: ticks are not counted past it
Fetching  == {"fetch", "answer"}
Capped(n) == IF n < Late THEN n + 1 ELSE n

TypeOK ==
    /\ issued \in KeyIds /\ oldest \in 0 .. issued
    /\ gone \in [KeyIds -> 0 .. Late]
    /\ jwks \subseteq KeyIds /\ age \in 0 .. Late
    /\ pc \in [Calls -> {"idle", "ensure", "stored", "lookup", "unknown", "found"} \cup Fetching]
    /\ kid \in [Calls -> KeyIds]
    /\ refetched \in [Calls -> BOOLEAN]
    /\ got \in [Calls -> SUBSET KeyIds]
    /\ waited \in [Calls -> 0 .. 1]
    /\ failed \in [Calls -> BOOLEAN] /\ overtaken \in [Calls -> BOOLEAN]

\* Nothing is cached yet, and the time of the last fetch is the epoch.
Init ==
    /\ issued = 0 /\ oldest = 0 /\ gone = [k \in KeyIds |-> 0]
    /\ jwks = {} /\ age = Late
    /\ pc = [v \in Calls |-> "idle"] /\ kid = [v \in Calls |-> 0]
    /\ refetched = [v \in Calls |-> FALSE]
    /\ got = [v \in Calls |-> {}] /\ waited = [v \in Calls |-> 0]
    /\ failed = [v \in Calls |-> FALSE] /\ overtaken = [v \in Calls |-> FALSE]

-----------------------------------------------------------------------------
goto(v, at) == pc' = [pc EXCEPT ![v] = at]

\* A request arrives with a token of any key published so far.
Call(v, k) ==
    /\ pc[v] = "idle" /\ k \in 0 .. issued
    /\ goto(v, "ensure")
    /\ kid' = [kid EXCEPT ![v] = k]
    /\ refetched' = [refetched EXCEPT ![v] = FALSE]
    /\ failed' = [failed EXCEPT ![v] = FALSE]
    /\ overtaken' = [overtaken EXCEPT ![v] = FALSE]
    /\ UNCHANGED <<issuerVars, jwks, age, got, waited>>

Ensure(v) ==
    /\ pc[v] = "ensure"
    /\ goto(v, IF age > TTL THEN "fetch" ELSE "lookup")
    /\ UNCHANGED <<issuerVars, jwks, age, kid, refetched, got, waited, failed, overtaken>>

\* The issuer answers with the keys it publishes at that moment.
Answer(v) ==
    /\ pc[v] = "fetch"
    /\ goto(v, "answer")
    /\ got' = [got EXCEPT ![v] = Published]
    /\ UNCHANGED <<issuerVars, jwks, age, kid, refetched, waited, failed, overtaken>>

\* Mutant of Store: the keys are added to those cached.
StoreAdds(v) ==
    /\ pc[v] = "answer"
    /\ goto(v, "stored")
    /\ jwks' = jwks \cup got[v] /\ age' = 0
    /\ overtaken' = [w \in Calls |-> pc[w] = "stored" \/ (overtaken[w] /\ w # v)]
    /\ failed' = [failed EXCEPT ![v] = FALSE]
    /\ waited' = [waited EXCEPT ![v] = 0]
    /\ UNCHANGED <<issuerVars, kid, refetched, got>>

\* The answer arrives and replaces the cache; closing the client awaits once more.
Store(v) ==
    /\ pc[v] = "answer"
    /\ goto(v, "stored")
    /\ jwks' = got[v] /\ age' = 0
    /\ overtaken' = [w \in Calls |-> pc[w] = "stored" \/ (overtaken[w] /\ w # v)]
    /\ failed' = [failed EXCEPT ![v] = FALSE]
    /\ waited' = [waited EXCEPT ![v] = 0]
    /\ UNCHANGED <<issuerVars, kid, refetched, got>>

\* Any failure of the fetch is logged, and the old keys stay.
FetchFails(v) ==
    /\ pc[v] \in Fetching
    /\ goto(v, "lookup")
    /\ failed' = [failed EXCEPT ![v] = TRUE]
    /\ waited' = [waited EXCEPT ![v] = 0]
    /\ UNCHANGED <<issuerVars, jwks, age, kid, refetched, got, overtaken>>

\* After the await, or at once if there was none.
Lookup(v) ==
    /\ pc[v] \in {"stored", "lookup"}
    /\ IF kid[v] \in jwks THEN goto(v, "found") /\ UNCHANGED refetched
       ELSE IF refetched[v] THEN goto(v, "unknown") /\ UNCHANGED refetched
       ELSE goto(v, "fetch") /\ refetched' = [refetched EXCEPT ![v] = TRUE]
    /\ UNCHANGED <<issuerVars, jwks, age, kid, got, waited, failed, overtaken>>

\* The signature is checked and the request goes on, or is answered 401 / 4003.
Return(v) ==
    /\ pc[v] \in {"found", "unknown"}
    /\ goto(v, "idle")
    /\ UNCHANGED <<issuerVars, jwks, age, kid, refetched, got, waited, failed, overtaken>>

Rotate ==
    /\ issued < MaxKey
    /\ issued' = issued + 1
    /\ UNCHANGED <<oldest, gone, jwks, age, callVars>>

Withdraw ==
    /\ oldest < issued
    /\ oldest' = oldest + 1
    /\ UNCHANGED <<issued, gone, jwks, age, callVars>>

\* client.get gives up after its timeout: a fetch sees one tick at most.  The other
\* steps take no time to speak of.
Tick ==
    /\ \A v \in Calls : pc[v] \in {"idle", "found", "unknown"}
                           \/ (pc[v] \in Fetching /\ waited[v] = 0)
    /\ waited' = [v \in Calls |-> IF pc[v] \in Fetching THEN 1 ELSE waited[v]]
    /\ age' = Capped(age)
    /\ gone' = [k \in KeyIds |-> IF k < oldest THEN Capped(gone[k]) ELSE 0]
    /\ UNCHANGED <<issued, oldest, jwks, pc, kid, refetched, got, failed, overtaken>>

Verify(v) == Ensure(v) \/ Answer(v) \/ Store(v) \/ FetchFails(v) \/ Lookup(v) \/ Return(v)

Next == \/ \E v \in Calls : (\E k \in KeyIds : Call(v, k)) \/ Verify(v)
        \/ Rotate \/ Withdraw \/ Tick

Spec == Init /\ [][Next]_jwksVars

-----------------------------------------------------------------------------
\* A token is rejected although the issuer publishes its key only if the refresh
\* that was made for it failed, or another request overwrote its answer before the
\* lookup.
PublishedKeyFound ==
    \A v \in Calls :
        pc[v] = "unknown" /\ kid[v] \in Published => failed[v] \/ overtaken[v]

\* A withdrawn key is found for no longer than the cache lives and a fetch takes,
\* unless the issuer could not be reached: expired keys go on being used then.
WithdrawnKeyExpires ==
    [][\A v \in Calls :
          pc[v] \in {"stored", "lookup"} /\ pc'[v] = "found" /\ gone[kid[v]] > TTL + 1
              => failed[v]]_jwksVars

\* Both: the keys a request is judged by are as fresh as its own refresh, in either
\* direction (auth.py, _get_signing_key and _ensure_jwks).
KeysFresh == []PublishedKeyFound /\ WithdrawnKeyExpires

-----------------------------------------------------------------------------
\* The inductive invariant behind it.  An answer has the token's key, if that is still
\* published now; it is what the cache holds, unless another overtook it; a lookup that
\* is repeated at once is so because its refresh failed, and the first is no repetition.
AnswerInv ==
    \A v \in Calls :
        /\ kid[v] <= issued
        /\ pc[v] \in {"answer", "stored"} /\ kid[v] >= oldest => kid[v] \in got[v]
        /\ pc[v] = "stored" /\ ~overtaken[v] => jwks = got[v]
        /\ pc[v] = "lookup" /\ refetched[v] => failed[v]
        /\ pc[v] = "ensure" => ~refetched[v]

\* A key is gone for no longer than the cache is old and one tick more, or the answer
\* that has it has waited; and who looks into the cache finds it young, unless its
\* refresh failed.
AgeInv ==
    /\ \A k \in KeyIds : k >= oldest => gone[k] = 0
    /\ \A k \in jwks : gone[k] <= age + 1
    /\ \A v \in Calls : pc[v] = "answer" => \A k \in got[v] : gone[k] <= waited[v]
    /\ \A v \in Calls : pc[v] = "stored" => age = 0
    /\ \A v \in Calls : pc[v] = "lookup" => age <= TTL \/ failed[v]
JwksInv == TypeOK /\ AnswerInv /\ AgeInv /\ PublishedKeyFound
=============================================================================
