------------------------------ MODULE AuthTuples ------------------------------
(***************************************************************************)
(* Authorization: how the backend finds or creates its OpenFGA store and    *)
(* model at startup (openfga_client.py), and the relationship tuples that   *)
(* TupleManager (tuple_manager.py) writes for the application's events.     *)
(*                                                                          *)
(* Each tuple is written by a call of its own.  A call may fail, have its   *)
(* effect and lose its answer, or never return because the backend stops;   *)
(* granting what is granted and revoking what is not there succeeds.        *)
(* OpenFGA itself, and who reports the events, are external: events about   *)
(* one network do not overlap, and name the owner it was created with.      *)
(***************************************************************************)
EXTENDS Naturals, Sequences, FiniteSets, Functions

CONSTANTS Users, Orgs, Networks, Builtins, Events,
          Everyone,    \* User:*
          MaxStores    \* bound: stores in the OpenFGA server

VARIABLES
    models,      \* authorization models of each store with the backend's name
    tuples,      \* <<user, relation, object>>
    init,        \* where startup is
    store,       \* the store it found or created; 0: none
    toBootstrap, \* built-in networks whose tuple is not written yet
    event,       \* what each event in flight is about, and the calls it has left
    created,     \* organization and owner of each network that was created
    life         \* how far each network's last event went

authVars == <<models, tuples, init, store, toBootstrap, event, created, life>>

Subjects == Users \cup Orgs \cup {Everyone}
Objects  == Orgs \cup Networks \cup Builtins
Tuple    == Subjects \X {"admin", "member", "owner", "container", "collaborator", "tourist"} \X Objects
Call     == [does : {"grant", "revoke"}, tuple : Tuple]
NoEvent  == [kind |-> "none", of |-> "none", todo |-> <<>>]
Pending  == [kind : {"join", "gone"}, of : Orgs, todo : Seq(Call)]
            \cup [kind : {"create", "delete", "share"}, of : Networks, todo : Seq(Call)]

TypeOK ==
    /\ models \in Seq(0..1) /\ Len(models) <= MaxStores
    /\ tuples \subseteq Tuple
    /\ init \in {"down", "list", "create", "models", "write", "bootstrap", "up", "off"}
    /\ store \in 0..MaxStores
    /\ toBootstrap \subseteq Builtins
    /\ event \in [Events -> Pending \cup {NoEvent}]
    /\ DOMAIN created \subseteq Networks
    /\ life \in [Networks -> {"none", "create", "created", "delete", "deleted"}]

Init ==
    /\ models = <<>> /\ tuples = {}
    /\ init = "down" /\ store = 0 /\ toBootstrap = {}
    /\ event = [e \in Events |-> NoEvent]
    /\ created = <<>> /\ life = [n \in Networks |-> "none"]

-----------------------------------------------------------------------------
goto(at) == init' = at

Start ==
    /\ init = "down"
    /\ goto("list") /\ store' = 0 /\ toBootstrap' = Builtins
    /\ UNCHANGED <<models, tuples, event, created, life>>

\* The first store with the backend's name, or else a new one.
ListStores ==
    /\ init = "list"
    /\ IF models # <<>> THEN goto("models") /\ store' = 1 ELSE goto("create") /\ UNCHANGED store
    /\ UNCHANGED <<models, tuples, toBootstrap, event, created, life>>

CreateStore ==
    /\ init = "create" /\ Len(models) < MaxStores
    /\ models' = Append(models, 0)
    /\ \/ goto("models") /\ store' = Len(models')
       \/ goto("off") /\ UNCHANGED store            \* the answer is lost
    /\ UNCHANGED <<tuples, toBootstrap, event, created, life>>

ReadModels ==
    /\ init = "models"
    /\ goto(IF models[store] > 0 THEN "bootstrap" ELSE "write")
    /\ UNCHANGED <<models, tuples, store, toBootstrap, event, created, life>>

WriteModel ==
    /\ init = "write"
    /\ models' = [models EXCEPT ![store] = models[store] + 1]
    /\ goto("bootstrap") \/ goto("off")
    /\ UNCHANGED <<tuples, store, toBootstrap, event, created, life>>

\* The client is there from now on; every built-in network becomes readable.
Bootstrap ==
    /\ init = "bootstrap"
    /\ IF toBootstrap = {}
       THEN goto("up") /\ UNCHANGED <<tuples, toBootstrap>>
       ELSE \E n \in toBootstrap :
                /\ tuples' = tuples \cup {<<Everyone, "tourist", n>>}
                /\ toBootstrap' = toBootstrap \ {n}
                /\ goto("bootstrap") \/ goto("up")   \* up: the call failed after all
    /\ UNCHANGED <<models, store, event, created, life>>

\* A call of startup fails.  The backend then runs without authorization, or with
\* a client and without the rest of the built-in tuples.
StartupFails ==
    /\ init \in {"list", "create", "models", "write", "bootstrap"}
    /\ goto(IF init = "bootstrap" THEN "up" ELSE "off")
    /\ UNCHANGED <<models, tuples, store, toBootstrap, event, created, life>>

\* The backend stops, wherever it is.
Stop ==
    /\ init # "down"
    /\ goto("down")
    /\ event' = [e \in Events |-> NoEvent]
    /\ UNCHANGED <<models, tuples, store, toBootstrap, created, life>>

-----------------------------------------------------------------------------
Grant(u, r, o)  == [does |-> "grant",  tuple |-> <<u, r, o>>]
Revoke(u, r, o) == [does |-> "revoke", tuple |-> <<u, r, o>>]

Begin(e, kind, o, calls) ==
    /\ init = "up" /\ event[e] = NoEvent
    /\ event' = [event EXCEPT ![e] = [kind |-> kind, of |-> o, todo |-> calls]]
    /\ UNCHANGED <<models, tuples, init, store, toBootstrap>>

\* An event of the life of network n begins when none is in flight.
BeginLife(e, kind, n, calls) ==
    /\ \A f \in Events : event[f].of = n => event[f].kind \notin {"create", "delete"}
    /\ Begin(e, kind, n, calls)
    /\ life' = [life EXCEPT ![n] = kind]

Rest == UNCHANGED <<created, life>>

on_org_created(e, o, u)            == Begin(e, "join", o, <<Grant(u, "admin", o)>>) /\ Rest
on_user_joined_org(e, o, u)        == Begin(e, "join", o, <<Grant(u, "member", o)>>) /\ Rest
on_user_promoted_to_admin(e, o, u) == Begin(e, "join", o, <<Grant(u, "admin", o)>>) /\ Rest

on_user_left_org(e, o, u) ==
    Begin(e, "join", o, <<Revoke(u, "member", o), Revoke(u, "admin", o)>>) /\ Rest

\* us: the members, in the caller's order; they leave one after the other.
on_org_deleted(e, o, us) ==
    /\ us # <<>>
    /\ Begin(e, "gone", o, [i \in 1 .. 2 * Len(us) |->
                 Revoke(us[(i + 1) \div 2], IF i % 2 = 1 THEN "member" ELSE "admin", o)])
    /\ Rest

\* A creation that failed may be tried again.
on_network_created(e, n, o, u) ==
    /\ life[n] = "none" \/ (life[n] = "create" /\ created[n] = <<o, u>>)
    /\ BeginLife(e, "create", n, <<Grant(u, "owner", n), Grant(o, "container", n)>>)
    /\ created' = [m \in DOMAIN created \cup {n} |-> IF m = n THEN <<o, u>> ELSE created[m]]

\* Mutant of on_network_deleted: the organization keeps the network.
on_network_deleted_owner(e, n) ==
    /\ life[n] \in {"create", "created", "delete"}
    /\ BeginLife(e, "delete", n, <<Revoke(created[n][2], "owner", n)>>)
    /\ UNCHANGED created

on_network_deleted(e, n) ==
    /\ life[n] \in {"create", "created", "delete"}
    /\ BeginLife(e, "delete", n, <<Revoke(created[n][2], "owner", n),
                                  Revoke(created[n][1], "container", n)>>)
    /\ UNCHANGED created

on_network_shared(e, n, u, r)   == Begin(e, "share", n, <<Grant(u, r, n)>>) /\ Rest
on_network_unshared(e, n, u, r) == Begin(e, "share", n, <<Revoke(u, r, n)>>) /\ Rest

Apply(c) == IF c.does = "grant" THEN tuples \cup {c.tuple} ELSE tuples \ {c.tuple}

\* The event's next call returns; after the last one the event is through.
CallReturns(e) ==
    /\ event[e] # NoEvent
    /\ LET ev == event[e]
           last == Len(ev.todo) = 1
           ends == [create |-> "created", delete |-> "deleted"]
       IN /\ tuples' = Apply(Head(ev.todo))
          /\ event' = [event EXCEPT ![e] =
                 IF last THEN NoEvent ELSE [kind |-> ev.kind, of |-> ev.of, todo |-> Tail(ev.todo)]]
          /\ life' = IF last /\ ev.kind \in DOMAIN ends
                     THEN [life EXCEPT ![ev.of] = ends[ev.kind]] ELSE life
    /\ UNCHANGED <<models, init, store, toBootstrap, created>>

\* It raises, with or without its effect, and the event goes no further.
CallFails(e) ==
    /\ event[e] # NoEvent
    /\ tuples' \in {tuples, Apply(Head(event[e].todo))}
    /\ event' = [event EXCEPT ![e] = NoEvent]
    /\ UNCHANGED <<models, init, store, toBootstrap, created, life>>

Event(e) ==
    \/ \E o \in Orgs, u \in Users :
           \/ on_org_created(e, o, u) \/ on_user_joined_org(e, o, u)
           \/ on_user_promoted_to_admin(e, o, u) \/ on_user_left_org(e, o, u)
           \/ \E n \in Networks : on_network_created(e, n, o, u)
    \/ \E o \in Orgs, us \in Bijection(1 .. Cardinality(Users), Users) : on_org_deleted(e, o, us)
    \/ \E n \in Networks : \/ on_network_deleted(e, n)
                           \/ \E u \in Users, r \in {"collaborator", "tourist"} :
                                  on_network_shared(e, n, u, r) \/ on_network_unshared(e, n, u, r)
    \/ CallReturns(e) \/ CallFails(e)

Next == \/ Start \/ ListStores \/ CreateStore \/ ReadModels \/ WriteModel
        \/ Bootstrap \/ StartupFails \/ Stop
        \/ \E e \in Events : Event(e)

Spec == Init /\ [][Next]_authVars

-----------------------------------------------------------------------------
\* However often startup is cut short, there is one store and one model in it.
OneStore == Len(models) <= 1 /\ \A i \in DOMAIN models : models[i] <= 1

HasOwner(n) == <<created[n][2], "owner", n>> \in tuples
Placed(n)   == <<created[n][1], "container", n>> \in tuples

\* A network's owner and organization are there together once its creation is
\* through, if need be after retries, and gone together once its deletion is; in
\* between, a network is in its organization without an owner only while it goes.
TuplesPaired ==
    \A n \in DOMAIN created :
        /\ life[n] = "created" => HasOwner(n) /\ Placed(n)
        /\ life[n] = "deleted" => ~HasOwner(n) /\ ~Placed(n)
        /\ life[n] = "create"  => (Placed(n) => HasOwner(n))

\* Both, across restarts and calls that fail with or without their effect.
AuthSound == OneStore /\ TuplesPaired

-----------------------------------------------------------------------------
\* The inductive invariant behind it.  Startup creates a store only while there is none,
\* and a model only in a store without one.
StartInv ==
    /\ models \in Seq(0..1)
    /\ init = "create" => models = <<>>
    /\ init \in {"models", "write"} => Len(models) = 1 /\ store = 1
    /\ init = "write" => models[1] = 0

\* A network keeps the owner and organization of its first creation, whoever tries again,
\* and is in no organization before it.
LifeInv ==
    /\ life \in [Networks -> {"none", "create", "created", "delete", "deleted"}]
    /\ created \in [{n \in Networks : life[n] # "none"} -> Orgs \X Users]
    /\ \A n \in Networks, o \in Orgs : <<o, "container", n>> \in tuples => life[n] # "none"

\* An event in flight has the calls of its handler left that it has not made; those of a
\* creation or deletion are the only calls about owner and organization, one such event
\* is in flight for a network at most, and its life is at that event.
Elsewhere == Subjects \X {"admin", "member", "collaborator", "tourist"} \X Objects
Creating(ev) ==
    LET n == ev.of  placing == Grant(created[n][1], "container", n) IN
    /\ n \in Networks /\ life[n] = "create"
    /\ \/ ev.todo = <<Grant(created[n][2], "owner", n), placing>>
       \/ ev.todo = <<placing>> /\ HasOwner(n)
Deleting(ev) ==
    LET n == ev.of  removing == Revoke(created[n][1], "container", n) IN
    /\ n \in Networks /\ life[n] = "delete"
    /\ \/ ev.todo = <<Revoke(created[n][2], "owner", n), removing>>
       \/ ev.todo = <<removing>> /\ ~HasOwner(n)
EventOK(ev) ==
    \/ ev = NoEvent
    \/ ev.kind = "create" /\ Creating(ev)
    \/ ev.kind = "delete" /\ Deleting(ev)
    \/ /\ ev.kind \in {"join", "gone", "share"}
       /\ ev.todo # <<>> /\ ev.todo \in Seq([does : {"grant", "revoke"}, tuple : Elsewhere])
EventInv ==
    /\ DOMAIN event = Events /\ \A e \in Events : EventOK(event[e])
    /\ \A e, f \in Events :
           event[e].kind \in {"create", "delete"} /\ event[f].kind \in {"create", "delete"}
               /\ event[e].of = event[f].of => e = f
AuthInv == StartInv /\ LifeInv /\ EventInv /\ AuthSound
=============================================================================
