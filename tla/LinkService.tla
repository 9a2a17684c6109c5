---------------------------- MODULE LinkService ----------------------------
(***************************************************************************)
(* The operations of clash_sub/service.py that change what is published:   *)
(* sync, the rotation of links, rollback and the replacement of the owner, *)
(* over the release store of clash_sub/release_store.py.                   *)
(*                                                                         *)
(* An operation holds private/operation.lock from its first step to its    *)
(* last.  Meanwhile the panel changes, and the process may be killed.  The *)
(* activation is one step here, with the outcomes that the steps of module *)
(* RuntimeActivation lead to.                                              *)
(***************************************************************************)
EXTENDS LinkState

CONSTANTS
    Nodes,          \* what a bundle is rendered from, besides the tokens
    Keep,           \* how many releases of a client a prune leaves
    OwnerChanges,   \* what the panel may do to the owner: rename, disable
    Returning,      \* may a deleted client come back under its old id?
    MaxOperations, MaxChanges, MaxFaults, MaxKills

\* What the journal of an activation saves
Runtime ==
    [state : SubscriptionState \cup {None},
     routes : SUBSET [token : Token, client : Client, release : Nat \cup {None},
                      variant : {"profile", "airport", "provider"}],
     marker : [Client -> Nat \cup {None}]]

ASSUME ServiceAssumption ==
    /\ None \notin Runtime
    /\ Keep \in Nat \ {0}
    /\ OwnerChanges \subseteq {"rename", "disable"}
    /\ Returning \in BOOLEAN
    /\ {MaxOperations, MaxChanges, MaxFaults, MaxKills} \subseteq Nat

VARIABLES
    panel,                  \* the clients in the panel's database
    used,                   \* the ids it has ever given to a client
    state, routes, marker,  \* state.json, the routes file, private/current/*
    live,                   \* the routes nginx serves
    undo,                   \* the runtime a prepared journal would restore
    store,                  \* the releases of each client
    pc, job,                \* the operation that holds the lock
    revoked,                \* the cores of the tokens that were replaced
    ops, changes, faults, kills

runtime == <<state, routes, marker>>
bounds == <<ops, changes, faults, kills>>
vars == <<panel, used, runtime, live, undo, store, pc, job, revoked, bounds>>

Account == [email : Email, enabled : BOOLEAN, nodes : Nodes]
Empty == [c \in {} |-> None]
NoJob == [op |-> "none"]

\* f with v for x: an assignment to an entry of a dictionary
Put(f, x, v) == [y \in DOMAIN f \cup {x} |-> IF y = x THEN v ELSE f[y]]

\* The state of an installation that still has links of schema version 1,
\* published for every client of the panel.
LegacyState ==
    LET owner == CHOOSE c \in DOMAIN panel : panel[c].email = OwnerEmail
    IN [version |-> 1, owner |-> owner, airport |-> None,
        users |-> [c \in DOMAIN panel |->
                    [NewUser(0, c, 1, panel[c]) EXCEPT !.release = 0]]]

LegacyBundle(c) ==
    render_user_bundle(c = state.owner, state.users[c].token,
                       airport_access_token(state), panel[c].nodes)

InitFresh ==
    /\ state = None /\ routes = {}
    /\ marker = [c \in Client |-> None]
    /\ store = [c \in Client |-> Empty]

InitLegacy ==
    /\ state = LegacyState
    /\ routes = render_routes(state, panel)
    /\ marker = [c \in Client |-> IF c \in DOMAIN panel THEN 0 ELSE None]
    /\ store = [c \in Client |->
                   IF c \in DOMAIN panel
                   THEN Put(Empty, 0, [bundle |-> LegacyBundle(c), checked |-> TRUE]) ELSE Empty]

Distinct(clients) ==
    \A c, d \in DOMAIN clients : clients[c].email = clients[d].email => c = d

Init ==
    /\ panel \in UNION {[S -> Account] : S \in SUBSET Client}
    /\ Distinct(panel)
    /\ \A c \in DOMAIN panel : panel[c].enabled
    /\ \E c \in DOMAIN panel : panel[c].email = OwnerEmail
    /\ InitFresh \/ InitLegacy
    /\ used = DOMAIN panel
    /\ live = routes
    /\ undo = None
    /\ pc = "idle" /\ job = NoJob
    /\ revoked = {}
    /\ ops = 0 /\ changes = 0 /\ faults = 0 /\ kills = 0

-----------------------------------------------------------------------------
(* The panel *)

ChangePanel(clients) ==
    /\ changes < MaxChanges /\ changes' = changes + 1
    /\ Distinct(clients)
    /\ panel' = clients
    /\ used' = used \cup DOMAIN clients
    /\ UNCHANGED <<runtime, live, undo, store, pc, job, revoked, ops, faults, kills>>

IsOwner(c) == IF state = None THEN panel[c].email = OwnerEmail ELSE c = state.owner

AddClient(c) ==
    /\ c \notin DOMAIN panel
    /\ c \in used => Returning
    /\ \E a \in Account : a.enabled /\ ChangePanel(Put(panel, c, a))

DeleteClient(c) ==
    /\ c \in DOMAIN panel
    /\ ChangePanel([d \in DOMAIN panel \ {c} |-> panel[d]])

\* A client is deleted and another one with its account takes its place.
ReplaceClient(c, d) ==
    /\ c \in DOMAIN panel /\ d \notin DOMAIN panel
    /\ d \in used => Returning
    /\ ChangePanel(Put([e \in DOMAIN panel \ {c} |-> panel[e]], d, panel[c]))

RenameClient(c) ==
    /\ c \in DOMAIN panel
    /\ IsOwner(c) => "rename" \in OwnerChanges
    /\ \E e \in Email \ {panel[c].email} : ChangePanel([panel EXCEPT ![c].email = e])

EnableOrDisable(c) ==
    /\ c \in DOMAIN panel
    /\ IsOwner(c) => "disable" \in OwnerChanges
    /\ ChangePanel([panel EXCEPT ![c].enabled = ~@])

ChangeNodes(c) ==
    /\ c \in DOMAIN panel
    /\ \E n \in Nodes \ {panel[c].nodes} : ChangePanel([panel EXCEPT ![c].nodes = n])

-----------------------------------------------------------------------------
(* Starting an operation *)

Op == ops + 1

\* Links of schema version 1 are replaced by the next sync.
Migrating == state # None /\ state.version = 1

Current == reconcile_state(state, panel, Op)

\* An operation first undoes what an interrupted activation left.
Begin(op, identities, next, todo, cands) ==
    /\ pc = "idle" /\ undo = None
    /\ ops < MaxOperations /\ ops' = Op
    /\ pc' = IF todo = {} THEN "activate" ELSE "prepare"
    /\ job' = [op |-> op, clients |-> panel, identities |-> identities, next |-> next,
               todo |-> todo, cands |-> cands, failed |-> {}]
    /\ UNCHANGED <<panel, used, runtime, live, undo, store, revoked, changes, faults, kills>>

\* recover_runtime(reload=True) at the start of every operation
Recover ==
    /\ pc = "idle" /\ undo # None
    /\ state' = undo.state /\ routes' = undo.routes /\ marker' = undo.marker
    /\ live' = undo.routes
    /\ undo' = None
    /\ UNCHANGED <<panel, used, store, pc, job, revoked, bounds>>

SyncAll ==
    /\ CanReconcile(state, panel)
    /\ LET identities == prepare_link_update(Current, panel, Op)
       IN Begin("sync", identities, IF Migrating THEN identities ELSE Current,
                {c \in DOMAIN panel : panel[c].enabled}, Empty)

\* Who may be rotated or rolled back
Published(c) ==
    /\ CanReconcile(state, panel)
    /\ c \in DOMAIN panel
    /\ panel[c].enabled
    /\ Current.users[c].release # None

RotateLink(c) ==
    /\ Published(c) /\ Current.version = 2
    /\ LET next == rotate_user_token(Current, c, Op)
       IN Begin("rotate", next, next, {c} \cap {Current.owner}, Empty)

RotateAirportLink ==
    /\ CanReconcile(state, panel) /\ Current.version = 2
    /\ Published(Current.owner)
    /\ LET next == [Current EXCEPT !.airport = NewToken(Op, Current.owner, "airport")]
       IN Begin("rotate_airport", next, next, {Current.owner}, Empty)

\* Mutant of CanRollBack: the airport address in the release is not checked.
CanRollBackToOldAirport(c, r) ==
    LET bundle == store[c][r].bundle
    IN IF c = Current.owner THEN bundle.provider = Current.users[c].token
       ELSE ~OwnerShaped(bundle)

\* An owner's release must be of the owner's shape and name the providers
\* under the tokens of today.
CanRollBack(c, r) ==
    LET bundle == store[c][r].bundle
    IN IF c = Current.owner
       THEN /\ bundle.provider = Current.users[c].token
            /\ bundle.airport = airport_access_token(Current)
       ELSE ~OwnerShaped(bundle)

Rollback(c) ==
    /\ Published(c)
    /\ \E r \in DOMAIN store[c] :
         /\ CanRollBack(c, r)
         /\ Begin("rollback", Current, [Current EXCEPT !.users[c].release = r], {}, Put(Empty, c, r))

ReinitializeOwner(c) ==
    /\ CanReinitialize(state, panel, c)
    /\ LET next == reinitialize_owner(state, panel, c, Op)
       IN Begin("reinitialize", next, next, {}, Empty)

-----------------------------------------------------------------------------
(* Preparing candidates *)

Fault(n) == faults + n <= MaxFaults /\ faults' = faults + n

NoFault == UNCHANGED faults

BundleOf(c) ==
    LET ids == job.identities
    IN render_user_bundle(c = ids.owner, ids.users[c].token, airport_access_token(ids),
                          job.clients[c].nodes)

\* ReleaseStore.prepare answers None when the release the marker names has
\* the same contents already.
Unchanged(c) == marker[c] # None /\ store[c][marker[c]].bundle = BundleOf(c)

Add(c, checked) ==
    [store EXCEPT ![c] = Put(@, ops, [bundle |-> BundleOf(c), checked |-> checked])]

\* Mutant of AfterPreparing: a migration goes on without its failed users.
AfterPreparingRegardless(todo, failed) ==
    IF todo # {} THEN "prepare"
    ELSE IF failed # {} /\ job.op # "sync" THEN "discard" ELSE "activate"

\* A migration with a failed user activates nothing.
AfterPreparing(todo, failed) ==
    IF todo # {} THEN "prepare"
    ELSE IF failed # {} /\ (job.op # "sync" \/ Migrating)
         THEN "discard" ELSE "activate"

\* The record of the user is taken over together with the new release, if a
\* new one is needed.
PrepareUser(c) ==
    /\ pc = "prepare" /\ c \in job.todo
    /\ LET user == job.identities.users[c]
           todo == job.todo \ {c}
       IN \/ /\ Unchanged(c)
             /\ job' = [job EXCEPT !.todo = todo, !.next.users = Put(@, c, user)]
             /\ UNCHANGED store
             /\ pc' = AfterPreparing(todo, job.failed)
          \/ /\ ~Unchanged(c)
             /\ store' = Add(c, TRUE)
             /\ job' = [job EXCEPT
                          !.todo = todo,
                          !.next.users = Put(@, c, [user EXCEPT !.release = ops]),
                          !.cands = Put(@, c, ops)]
             /\ pc' = AfterPreparing(todo, job.failed)
    /\ NoFault
    /\ UNCHANGED <<panel, used, runtime, live, undo, revoked, ops, changes, kills>>

\* The nodes cannot be fetched, or the rendered bundle does not pass its
\* checks: the user's candidate is discarded again.  A rotation gives up.
PrepareFails(c) ==
    /\ pc = "prepare" /\ c \in job.todo
    /\ Fault(1)
    /\ job' = [job EXCEPT !.todo = @ \ {c}, !.failed = @ \cup {c}]
    /\ pc' = AfterPreparing(job.todo \ {c}, job.failed \cup {c})
    /\ UNCHANGED <<panel, used, runtime, live, undo, store, revoked, ops, changes, kills>>

\* The operation is over.
Leave == pc' = "idle" /\ job' = NoJob

\* A candidate that failed its check cannot be discarded: the operation ends
\* with release_cleanup_failed, and the candidates stay.
DiscardOfUncheckedFails(c) ==
    /\ pc = "prepare" /\ c \in job.todo
    /\ Fault(2)
    /\ ~Unchanged(c)
    /\ store' = Add(c, FALSE)
    /\ Leave
    /\ UNCHANGED <<panel, used, runtime, live, undo, revoked, ops, changes, kills>>

-----------------------------------------------------------------------------
(* Activation *)

NewRoutes == render_routes(job.next, job.clients)

NewMarker == [c \in Client |-> IF c \in DOMAIN job.cands THEN job.cands[c] ELSE marker[c]]

Saved == [state |-> state, routes |-> routes, marker |-> marker]

\* current_artifact verifies each candidate, render_routes each profile.
CanActivate ==
    /\ CanRender(job.next, job.clients, store)
    /\ \A c \in DOMAIN job.cands : job.cands[c] \in DOMAIN store[c]

\* Mutant of Reloaded: nginx goes on with the routes it has.
ReloadForgotten(new) == live

\* nginx is reloaded when the contents of the routes file change.
Reloaded(new) == IF new # routes THEN new ELSE live

\* The cores that a replaced state loses.
CoresOf(s) ==
    IF s = None THEN {}
    ELSE {Core(s.users[c].token) : c \in DOMAIN s.users} \cup {Core(airport_access_token(s))}

Activate ==
    /\ pc = "activate" /\ CanActivate
    /\ state' = job.next /\ routes' = NewRoutes /\ marker' = NewMarker
    /\ live' = Reloaded(NewRoutes)
    /\ revoked' = revoked \cup (CoresOf(state) \ CoresOf(job.next))
    /\ IF job.op = "sync"
       THEN pc' = "finish" /\ UNCHANGED job
       ELSE Leave
    /\ NoFault
    /\ UNCHANGED <<panel, used, undo, store, ops, changes, kills>>

Fails == IF job.op \in {"sync", "rotate", "rotate_airport"}
         THEN pc' = "discard" /\ UNCHANGED job ELSE Leave

\* The activation is refused, or fails and is rolled back.
ActivationFails ==
    /\ pc = "activate"
    /\ IF CanActivate THEN Fault(1) ELSE NoFault
    /\ Fails
    /\ UNCHANGED <<panel, used, runtime, live, undo, store, revoked, ops, changes, kills>>

\* The files as an interrupted activation or rollback leaves them, with a
\* journal that will undo it.
Mixture ==
    /\ undo' = Saved
    /\ state' \in {state, job.next}
    /\ routes' \in {routes, NewRoutes}
    /\ marker' \in {marker, NewMarker}
    /\ live' \in {live, NewRoutes}

\* Both the activation and the rollback fail.
RollbackFails ==
    /\ pc = "activate" /\ CanActivate
    /\ Fault(2)
    /\ Mixture
    /\ Fails
    /\ UNCHANGED <<panel, used, store, revoked, ops, changes, kills>>

\* discard_unreferenced refuses the release that the marker names.
Discard ==
    /\ pc = "discard"
    /\ store' = [c \in Client |->
                    IF c \in DOMAIN job.cands /\ marker[c] # job.cands[c]
                    THEN [r \in DOMAIN store[c] \ {job.cands[c]} |-> store[c][r]]
                    ELSE store[c]]
    /\ Leave
    /\ NoFault
    /\ UNCHANGED <<panel, used, runtime, live, undo, revoked, ops, changes, kills>>

DiscardFails ==
    /\ pc = "discard" /\ job.cands # Empty
    /\ Fault(1)
    /\ Leave
    /\ UNCHANGED <<panel, used, runtime, live, undo, store, revoked, ops, changes, kills>>

-----------------------------------------------------------------------------
(* The end of a sync *)

\* What a prune may leave of a client's releases: the current one and the
\* newest.  Release ids begin with the wall clock's second and end at random,
\* so which of the others are the newest is left open.
Pruned(c) ==
    LET ids == DOMAIN store[c]
    IN IF Cardinality(ids) <= Keep THEN {ids}
       ELSE {kept \in SUBSET ids : Cardinality(kept) = Keep /\ marker[c] \in kept}

Finish ==
    /\ pc = "finish"
    /\ \E kept \in [Client -> SUBSET (0..ops)] :
         /\ \A c \in Client :
              kept[c] \in IF c \in DOMAIN job.cands THEN Pruned(c) ELSE {DOMAIN store[c]}
         /\ store' = [c \in Client |-> [r \in kept[c] |-> store[c][r]]]
    /\ Leave
    /\ NoFault
    /\ UNCHANGED <<panel, used, runtime, live, undo, revoked, ops, changes, kills>>

\* A prune that fails is reported and changes nothing else.
PruneFails ==
    /\ pc = "finish" /\ job.cands # Empty
    /\ Fault(1)
    /\ Leave
    /\ UNCHANGED <<panel, used, runtime, live, undo, store, revoked, ops, changes, kills>>

-----------------------------------------------------------------------------
(* The process is killed *)

Killed ==
    /\ kills < MaxKills /\ kills' = kills + 1
    /\ pc' = "idle" /\ job' = NoJob
    /\ UNCHANGED <<panel, used, ops, changes, faults>>

Kill ==
    /\ pc # "idle" /\ Killed
    /\ UNCHANGED <<runtime, live, undo, store, revoked>>

\* ... between the publication of a candidate and its check
KillBeforeCheck ==
    /\ pc = "prepare" /\ Killed
    /\ \E c \in job.todo : ~Unchanged(c) /\ store' = Add(c, FALSE)
    /\ UNCHANGED <<runtime, live, undo, revoked>>

\* ... in the middle of an activation
KillInActivation ==
    /\ pc = "activate" /\ CanActivate /\ Killed
    /\ Mixture
    /\ UNCHANGED <<store, revoked>>

Operation ==
    \/ SyncAll \/ RotateAirportLink
    \/ \E c \in Client : RotateLink(c) \/ Rollback(c) \/ ReinitializeOwner(c)

Step ==
    \/ \E c \in Client : PrepareUser(c) \/ PrepareFails(c) \/ DiscardOfUncheckedFails(c)
    \/ Activate \/ ActivationFails \/ RollbackFails \/ Discard \/ DiscardFails
    \/ Finish \/ PruneFails

Panel ==
    \E c \in Client :
        \/ AddClient(c) \/ DeleteClient(c) \/ RenameClient(c)
        \/ \E d \in Client : ReplaceClient(c, d)
        \/ EnableOrDisable(c) \/ ChangeNodes(c)

Next ==
    \/ Panel \/ Recover \/ Operation \/ Step
    \/ Kill \/ KillBeforeCheck \/ KillInActivation

Spec == Init /\ [][Next]_vars

-----------------------------------------------------------------------------
(* Correctness *)

TypeOK ==
    /\ state = None \/
         /\ DOMAIN state = {"version", "owner", "airport", "users"}
         /\ state.version \in {1, 2}
         /\ state.owner \in DOMAIN state.users
         /\ DOMAIN state.users \subseteq Client
         /\ \A c \in DOMAIN state.users :
              /\ state.users[c] \in UserState
              /\ state.users[c].token.suffix =
                   IF state.version = 1 THEN "legacy" ELSE state.users[c].email
         /\ state.airport # None => state.version = 2 /\ state.airport \in Token
    /\ marker \in [Client -> (0..ops) \cup {None}]
    /\ \A c \in Client : DOMAIN store[c] \subseteq 0..ops
    /\ undo # None => pc \in {"idle", "discard"}

\* Whatever is discarded, pruned or rolled back: every address nginx serves
\* leads to a release that exists and has the profile (render_routes, prune,
\* discard_unreferenced).  The exception is an activation whose rollback failed
\* too: its candidates are discarded though nginx may serve them, until the
\* next operation recovers.
ServedReleasesExist ==
    undo = None => \A r \in live : r.release # None =>
        /\ r.release \in DOMAIN store[r.client]
        /\ r.variant = "airport" => OwnerShaped(store[r.client][r.release].bundle)

\* The provider addresses inside the owner's published profiles are served: a
\* client that holds such a profile can load its provider (_prepare,
\* render_routes, the stale provider check of rollback).  Addresses made with an
\* earlier email of the owner are left out: a rename without a pinned airport
\* token makes one that nobody serves (service.py:42).
PublishedProvidersAreServed ==
    undo = None => \A r \in live : r.variant \in {"profile", "airport"} =>
        LET bundle == store[r.client][r.release].bundle
        IN OwnerShaped(bundle) =>
             \A t \in {bundle.provider, bundle.airport} :
                t.suffix = state.users[r.client].email =>
                \E q \in live : q.variant = "provider" /\ q.token = t

\* A token that was replaced by a rotation, a migration or a new owner is
\* never served again, whatever is rolled back, recovered or renamed later.
RevokedStaysRevoked == \A r \in live : Core(r.token) \notin revoked

\* Everything served has passed its checks before (_prepare, rollback).
ServedReleasesWereChecked ==
    \A r \in live : r.release # None => store[r.client][r.release].checked

\* Outside a transaction state.json and the markers name the same releases.
StateAgreesWithMarkers ==
    undo = None /\ state # None =>
        \A c \in DOMAIN state.users :
            state.users[c].release # None => marker[c] = state.users[c].release

\* A sync that ends well has published every enabled client it reports no
\* error for, under an address with the client's current email.
SyncPublishesEveryone ==
    pc = "finish" =>
        \A c \in DOMAIN job.clients \ job.failed :
            job.clients[c].enabled =>
                \E r \in live : /\ r.client = c /\ r.variant = "profile"
                               /\ r.token.suffix = job.clients[c].email

\* A user whose part of a sync fails keeps the addresses that were published,
\* also when other users of the same sync migrate or are renamed.
FailedUserKeepsLinks ==
    [][pc = "activate" /\ pc' = "finish" =>
         \A r \in live : r.client \in job.failed => r \in live']_vars

\* The owner's airport address survives the rotation of the owner's link and
\* even the replacement of the owner: only its own rotation, a migration and,
\* as long as none was pinned, a new email of the same owner change it.
AirportAddressSurvives ==
    [][state # None /\ state' # None /\ state.version = 2 /\ state'.version = 2
         /\ pc = "activate" /\ job.op # "rotate_airport"
         /\ (state'.owner = state.owner =>
              state'.users[state.owner].email = state.users[state.owner].email) =>
           airport_access_token(state') = airport_access_token(state)]_vars

=============================================================================
