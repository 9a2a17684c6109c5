----------------------------- MODULE LinkState -----------------------------
(***************************************************************************)
(* state.json and what clash_sub/state.py and clash_sub/nginx.py compute   *)
(* from it: the records of the subscription users, their capability        *)
(* tokens, and the routes that make a release reachable under a token.     *)
(*                                                                         *)
(* A token is a random core and a readable suffix.  Randomness is modelled *)
(* by naming the core after the operation that drew it and the client it   *)
(* was drawn for; hashing a token into the owner's airport capability sets *)
(* a flag and keeps the suffix.                                            *)
(***************************************************************************)
EXTENDS Naturals, FiniteSets

CONSTANTS
    Client,         \* client ids of the 3x-ui panel
    Email,          \* valid client emails
    OwnerEmail,     \* the email the installation was configured with
    None            \* Python's None

\* The suffixes of tokens that do not belong to an email: the independent
\* airport token, and the readable code of a token of schema version 1.
Suffix == Email \cup {"airport", "legacy"}

Token == [op : Nat, client : Client, suffix : Suffix, derived : BOOLEAN]

NewToken(op, c, suffix) == [op |-> op, client |-> c, suffix |-> suffix, derived |-> FALSE]

\* The part of a token that an email change keeps.
Core(t) == <<t.op, t.client, t.derived>>

airport_only_token(t) == [t EXCEPT !.derived = TRUE]

UserState == [email : Email, token : Token, active : BOOLEAN, release : Nat \cup {None}]

\* state.json, with links of schema version 1 or 2
SubscriptionState ==
    [version : {1, 2}, owner : Client, users : UNION {[S -> UserState] : S \in SUBSET Client},
     airport : Token \cup {None}]

\* None is no number, token or state; "legacy" stands for tokens of another
\* format, which no email gives.
ASSUME LinkAssumption ==
    /\ OwnerEmail \in Email /\ "legacy" \notin Email
    /\ None \notin Nat /\ None \notin Token /\ None \notin SubscriptionState

NewUser(op, c, version, client) ==
    [email |-> client.email,
     token |-> NewToken(op, c, IF version = 1 THEN "legacy" ELSE client.email),
     active |-> client.enabled,
     release |-> None]

\* The capability of the owner's airport profile: an independent token, or
\* the one derived from the owner's own.
airport_access_token(s) ==
    IF s.airport # None THEN s.airport ELSE airport_only_token(s.users[s.owner].token)

-----------------------------------------------------------------------------
(* How an operation changes the state.  clients is the snapshot of the      *)
(* panel, a function from client ids to [email, enabled, nodes] records.    *)

\* Otherwise: owner_reinitialization_required
CanReconcile(previous, clients) ==
    IF previous = None THEN \E c \in DOMAIN clients : clients[c].email = OwnerEmail
    ELSE previous.owner \in DOMAIN clients

\* Known users keep their record, vanished ones become inactive, new ones get
\* a fresh token and no release.
reconcile_state(previous, clients, op) ==
    LET version == IF previous = None THEN 2 ELSE previous.version
        known   == IF previous = None THEN {} ELSE DOMAIN previous.users
    IN [version |-> version,
        owner   |-> IF previous = None
                    THEN CHOOSE c \in DOMAIN clients : clients[c].email = OwnerEmail
                    ELSE previous.owner,
        users   |-> [c \in known \cup DOMAIN clients |->
                        IF c \notin known THEN NewUser(op, c, version, clients[c])
                        ELSE [previous.users[c] EXCEPT
                                !.active = c \in DOMAIN clients /\ clients[c].enabled]],
        airport |-> IF previous = None THEN None ELSE previous.airport]

CanReinitialize(previous, clients, c) ==
    /\ previous # None
    /\ previous.owner \notin DOMAIN clients
    /\ c \in DOMAIN clients
    /\ clients[c].email = OwnerEmail

\* The named owner starts afresh, vanished users are forgotten, and the
\* airport capability of a version 2 state survives its owner.
reinitialize_owner(previous, clients, c, op) ==
    [version |-> previous.version,
     owner   |-> c,
     users   |-> [d \in DOMAIN clients |->
                     IF d = c \/ d \notin DOMAIN previous.users
                     THEN NewUser(op, d, previous.version, clients[d])
                     ELSE [previous.users[d] EXCEPT !.active = clients[d].enabled]],
     airport |-> IF previous.version = 2 THEN airport_access_token(previous) ELSE None]

\* Mutant of rotate_user_token: the derived airport token is not pinned.
rotate_user_token_unpinned(s, c, op) ==
    [s EXCEPT !.users[c].token = NewToken(op, c, s.users[c].email)]

\* The operations that rotate a link refuse version 1.
rotate_user_token(s, c, op) ==
    [s EXCEPT !.users[c].token = NewToken(op, c, s.users[c].email),
              !.airport = IF c = s.owner THEN airport_access_token(s) ELSE @]

\* Mutant of readable_token: a new email leaves the token as it is.
readable_token_stale(s, c, email, op) ==
    IF s.version = 1 THEN NewToken(op, c, email) ELSE s.users[c].token

\* A new token for a migration from version 1, else the known core with the
\* current email behind it.
readable_token(s, c, email, op) ==
    IF s.version = 1 THEN NewToken(op, c, email)
    ELSE [s.users[c].token EXCEPT !.suffix = email]

\* The identities a sync would like to publish.
prepare_link_update(s, clients, op) ==
    LET kept   == IF s.version = 1 THEN DOMAIN s.users \cap DOMAIN clients ELSE DOMAIN s.users
        email(c) == IF c \in DOMAIN clients THEN clients[c].email ELSE s.users[c].email
        token(c) == readable_token(s, c, email(c), op)
    IN [version |-> 2,
        owner   |-> s.owner,
        users   |-> [c \in kept |-> [s.users[c] EXCEPT !.email = email(c), !.token = token(c)]],
        airport |-> IF s.version = 2 /\ token(s.owner) # s.users[s.owner].token
                    THEN airport_access_token(s) ELSE s.airport]

-----------------------------------------------------------------------------
(* Bundles, releases and routes *)

\* What a release publishes.  Only the owner's profiles name a provider: its
\* airport profile under the airport token, the others under the own one.
\* nodes stands for everything else that a bundle is rendered from.
OwnerShaped(bundle) == bundle.provider # None

render_user_bundle(owner, token, airport, nodes) ==
    [provider |-> IF owner THEN token ELSE None,
     airport  |-> IF owner THEN airport ELSE None,
     nodes    |-> nodes]

\* A route leads from a token to a profile of a release or to the provider.
Route(token, c, release, variant) ==
    [token |-> token, client |-> c, release |-> release, variant |-> variant]

\* Before routes are rendered a user without a release is taken for inactive.
Routed(s, clients) ==
    {c \in DOMAIN s.users \cap DOMAIN clients :
        s.users[c].active /\ s.users[c].release # None /\ clients[c].enabled}

\* Rendering fails when a profile is missing.  store[c] maps the release ids
\* of c to [bundle, checked] records.
CanRender(s, clients, store) ==
    \A c \in Routed(s, clients) :
        /\ s.users[c].release \in DOMAIN store[c]
        /\ c = s.owner => OwnerShaped(store[c][s.users[c].release].bundle)

\* The owner's provider answers under both of the owner's tokens.
OwnerRoutes(s) ==
    LET owner == s.users[s.owner]
    IN {Route(owner.token, s.owner, owner.release, "profile"),
        Route(airport_access_token(s), s.owner, owner.release, "airport"),
        Route(owner.token, s.owner, None, "provider"),
        Route(airport_access_token(s), s.owner, None, "provider")}

render_routes(s, clients) ==
    {Route(s.users[c].token, c, s.users[c].release, "profile") : c \in Routed(s, clients)}
      \cup (IF s.owner \in Routed(s, clients) THEN OwnerRoutes(s) ELSE {})

=============================================================================
