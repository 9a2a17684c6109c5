------------------------- MODULE LinkService_proofs -------------------------
(***************************************************************************)
(* What the permanent links promise, for any clients, addresses, client    *)
(* names, airport versions, and any number of operations, panel changes    *)
(* and kills.                                                              *)
(*                                                                         *)
(* LinkInv is inductive for every value of the constants.  It is stated    *)
(* over what is PUBLISHED (BaseState, BaseRoutes, BaseMarker): the files a *)
(* recovery would restore while a transaction is open, the files in place  *)
(* otherwise, so that a kill or a failed activation leaves it true.        *)
(***************************************************************************)
EXTENDS LinkService, TLAPS

IsPanel(p) ==
    /\ p = [c \in DOMAIN p |-> p[c]]
    /\ DOMAIN p \subseteq Client
    /\ \A c \in DOMAIN p : p[c] \in Account

IsLinkState(s) ==
    /\ s = [version |-> s.version, owner |-> s.owner, users |-> s.users, airport |-> s.airport]
    /\ s.version \in {1, 2}
    /\ s.users = [c \in DOMAIN s.users |-> s.users[c]]
    /\ DOMAIN s.users \subseteq Client /\ s.owner \in DOMAIN s.users
    /\ \A c \in DOMAIN s.users : s.users[c] \in UserState
    /\ \A c \in DOMAIN s.users :
         s.users[c].token.suffix = IF s.version = 1 THEN "legacy" ELSE s.users[c].email
    /\ s.airport \in Token \cup {None}
    /\ s.airport # None => s.version = 2

-----------------------------------------------------------------------------
(* The published state: what a recovery would restore, else what is there *)

BaseState == IF undo = None THEN state ELSE undo.state
BaseRoutes == IF undo = None THEN live ELSE undo.routes
BaseMarker == IF undo = None THEN marker ELSE undo.marker

Deciding == pc \in {"prepare", "activate"}

Types ==
    /\ IsPanel(panel) /\ DOMAIN panel \subseteq used
    /\ ops \in Nat
    /\ pc \in {"idle", "prepare", "activate", "finish", "discard"}
    /\ state = None \/ IsLinkState(state)
    /\ marker \in [Client -> Nat \cup {None}]
    /\ undo = None => live = routes
    /\ undo # None => /\ undo = [state |-> undo.state, routes |-> undo.routes, marker |-> undo.marker]
                      /\ undo.marker \in [Client -> Nat \cup {None}]
                      /\ pc \in {"idle", "discard"}
                      /\ undo.state = None \/ IsLinkState(undo.state)
    /\ store = [c \in Client |-> store[c]]
    /\ \A c \in Client : /\ store[c] = [r \in DOMAIN store[c] |-> store[c][r]]
                         /\ DOMAIN store[c] \subseteq 0..ops

\* The routes of a published user
RoutesOf(s, c) ==
    {Route(s.users[c].token, c, s.users[c].release, "profile")}
      \cup (IF c = s.owner THEN OwnerRoutes(s) ELSE {})

Serves(rs, s) ==
    \A r \in rs :
        /\ s # None /\ r.client \in DOMAIN s.users /\ s.users[r.client].release # None
        /\ r \in RoutesOf(s, r.client) /\ RoutesOf(s, r.client) \subseteq rs

\* The addresses in a bundle are served, or were made with another email.
Fits(b, c, s) ==
    OwnerShaped(b) =>
       /\ c = s.owner
       /\ \A t \in {b.provider, b.airport} :
             \/ t \in {s.users[c].token, airport_access_token(s)}
             \/ s.version = 2 /\ t.suffix # s.users[c].email

Releases ==
    /\ \A c \in Client : BaseMarker[c] # None =>
          /\ BaseMarker[c] \in DOMAIN store[c]
          /\ pc \in {"prepare", "activate", "discard"} => BaseMarker[c] < ops
    /\ BaseState # None => \A c \in DOMAIN BaseState.users : BaseState.users[c].release # None =>
            /\ BaseMarker[c] = BaseState.users[c].release
            /\ Fits(store[c][BaseMarker[c]].bundle, c, BaseState)

Revocation ==
    /\ \A k \in CoresOf(BaseState) : k \notin revoked /\ k[1] \in Nat /\ k[1] <= ops
    /\ \A k \in revoked : k[1] \in Nat /\ k[1] <= ops /\ (Deciding => k[1] < ops)

-----------------------------------------------------------------------------
(* The operation up to its activation *)

Ids == job.identities
Nxt == job.next

Plain == job.op = "sync" /\ ~Migrating

JobTypes ==
    /\ undo = None
    /\ job = [op |-> job.op, clients |-> job.clients, identities |-> Ids, next |-> Nxt,
              todo |-> job.todo, cands |-> job.cands, failed |-> job.failed]
    /\ job.op \in {"sync", "rotate", "rotate_airport", "rollback", "reinitialize"}
    /\ IsPanel(job.clients) /\ IsLinkState(Ids) /\ IsLinkState(Nxt)
    /\ Ids.owner = Nxt.owner /\ Ids.version = Nxt.version
    /\ job.todo \cup job.failed \subseteq {c \in DOMAIN job.clients : job.clients[c].enabled}
    /\ job.todo \subseteq DOMAIN Ids.users /\ job.todo \cup job.failed \cup DOMAIN job.cands \subseteq DOMAIN Nxt.users
    /\ job.cands = [c \in DOMAIN job.cands |-> job.cands[c]]
    /\ DOMAIN job.cands \cap (job.todo \cup job.failed) = {}
    /\ job.todo \cap job.failed = {}
    /\ job.op = "rollback" => job.todo \cup job.failed = {}
    /\ pc = "activate" => job.todo = {} /\ (job.failed # {} => Plain)

\* No new core is an old one.
JobCores ==
    /\ \A k \in CoresOf(Nxt) : k \in CoresOf(state) \/ k[1] = ops
    /\ \A c \in job.todo : Core(Ids.users[c].token) = Core(Nxt.users[c].token)

JobReleases ==
    /\ \A c \in DOMAIN Nxt.users \ DOMAIN job.cands : Nxt.users[c].release # None =>
          /\ Nxt.users[c].release = marker[c]
          /\ c \notin job.todo \cup job.failed \/ Plain =>
                Fits(store[c][marker[c]].bundle, c, Nxt)
    /\ \A c \in DOMAIN job.cands :
          /\ Nxt.users[c].release = job.cands[c]
          /\ job.cands[c] \in DOMAIN store[c]
          /\ Fits(store[c][job.cands[c]].bundle, c, Nxt)
          /\ job.op # "rollback" => job.cands[c] = ops
    /\ \A c \in job.todo : Ids.users[c].release = Nxt.users[c].release
    /\ Nxt.owner \in job.todo =>
          \/ Nxt.airport = Ids.airport
          \/ /\ Nxt.version = 2 /\ Ids.airport # None
             /\ Ids.airport.suffix # Ids.users[Ids.owner].email

\* A user that fails keeps what was published.
JobFailures ==
    Plain /\ state # None =>
       /\ Nxt.owner = state.owner /\ Nxt.airport = state.airport
       /\ \A c \in job.todo \cup job.failed : c \in DOMAIN state.users =>
             Nxt.users[c] = [state.users[c] EXCEPT !.active = TRUE]

JobAirport ==
    state # None /\ state.version = 2 /\ Nxt.version = 2 /\ job.op # "rotate_airport" =>
       \/ Nxt.airport # None /\ Nxt.airport = airport_access_token(state)
       \/ /\ Nxt.airport = None /\ state.airport = None /\ Nxt.owner = state.owner
          /\ \A s \in {Ids, Nxt} :
               s.users[s.owner].token = [state.users[s.owner].token EXCEPT !.suffix = s.users[s.owner].email]

JobInv == Deciding => JobTypes /\ JobCores /\ JobReleases /\ JobFailures /\ JobAirport

DiscardInv ==
    pc = "discard" =>
       /\ job.cands = [c \in DOMAIN job.cands |-> job.cands[c]]
       /\ \A c \in DOMAIN job.cands : job.cands[c] = ops

LinkInv ==
    /\ Types /\ Serves(BaseRoutes, BaseState) /\ Releases /\ Revocation
    /\ JobInv /\ DiscardInv /\ RevokedStaysRevoked

-----------------------------------------------------------------------------
(* Without clients that come back *)

NoReturns == ~Returning

\* A user with a marker has a release, or is the new owner and its marker's
\* release names an older token.
MarkOf(s, c, r) ==
    /\ c \in DOMAIN s.users
    /\ \/ s.users[c].release # None
       \/ /\ c = s.owner
          /\ LET t == store[c][r].bundle.provider IN t # None => t.op < s.users[c].token.op

\* A client with a marker is gone for good or has a record in the state.
Marks ==
    \A c \in Client : BaseMarker[c] # None =>
       /\ c \in used
       /\ c \in DOMAIN panel => BaseState # None /\ MarkOf(BaseState, c, BaseMarker[c])

Origins == \A c \in Client : \A r \in DOMAIN store[c] :
    LET t == store[c][r].bundle.provider IN t # None => t.op \in Nat /\ t.op <= r

JobMarks ==
    /\ DOMAIN job.cands \subseteq DOMAIN job.clients /\ DOMAIN job.clients \subseteq used
    /\ \A c \in Client : marker[c] # None =>
          \/ c \notin DOMAIN panel /\ c \notin DOMAIN job.clients
          \/ MarkOf(Nxt, c, marker[c])

\* What a sync has prepared is complete for everybody whose turn is over.
JobSync ==
    job.op = "sync" =>
       /\ \A c \in job.todo : Ids.users[c].active /\ Ids.users[c].token.suffix = job.clients[c].email
       /\ \A c \in DOMAIN job.clients \ (job.todo \cup job.failed) : job.clients[c].enabled =>
             /\ c \in DOMAIN Nxt.users /\ Nxt.users[c].active /\ Nxt.users[c].release # None
             /\ Nxt.users[c].token.suffix = job.clients[c].email

SyncInv == Marks /\ Origins /\ (Deciding => JobMarks /\ JobSync) /\ SyncPublishesEveryone

\* A state is not None.
LEMMA LinkStateIsNotNone == ASSUME NEW s, IsLinkState(s) PROVE s # None
<1>1. s.users \in UNION {[S -> UserState] : S \in SUBSET Client}
  <2>1. s.users \in [DOMAIN s.users -> UserState]
    BY DEF IsLinkState
  <2> QED
    BY <2>1 DEF IsLinkState
<1>2. s.owner \in Client
  BY DEF IsLinkState
<1> QED
  BY <1>1, <1>2, LinkAssumption DEF IsLinkState, SubscriptionState

\* The airport capability is a token of its own.
LEMMA AirportToken ==
    ASSUME NEW s, IsLinkState(s)
    PROVE  /\ airport_access_token(s) \in Token /\ airport_access_token(s) # None
           /\ s.airport = None => /\ airport_access_token(s).suffix = s.users[s.owner].token.suffix
                                  /\ Core(airport_access_token(s)) =
                                        <<s.users[s.owner].token.op, s.users[s.owner].token.client, TRUE>>
<1>1. s.users[s.owner].token \in Token
  BY DEF IsLinkState, UserState
<1> QED
  BY <1>1, LinkAssumption DEF IsLinkState, airport_access_token, airport_only_token, Token, Core

LEMMA NewTokenFacts ==
    ASSUME NEW op, NEW c, NEW e
    PROVE  Core(NewToken(op, c, e))[1] = op /\ NewToken(op, c, e).op = op /\ NewToken(op, c, e).suffix = e
  BY DEF NewToken, Core

LEMMA NewUserFacts ==
    ASSUME NEW op \in Nat, NEW c \in Client, NEW version \in {1, 2}, NEW client \in Account
    PROVE  LET u == NewUser(op, c, version, client)
           IN  /\ u \in UserState /\ u.release = None /\ u.email = client.email /\ u.active = client.enabled
               /\ u.token.suffix = IF version = 1 THEN "legacy" ELSE u.email
               /\ u.token.op = op /\ Core(u.token)[1] = op
  BY DEF NewUser, UserState, NewToken, Token, Suffix, Account, Core

\* Fits looks at an owner, a version, a user's own record and the airport
\* capability.
LEMMA SameFit ==
    ASSUME NEW b, NEW c, NEW s, NEW n, Fits(b, c, s),
           n.owner = s.owner, n.version = s.version,
           n.users[c].token = s.users[c].token, n.users[c].email = s.users[c].email,
           airport_access_token(n) = airport_access_token(s)
    PROVE  Fits(b, c, n)
  BY DEF Fits

\* A migration replaces every address that a version 1 bundle may hold.
LEMMA MigratedFit ==
    ASSUME NEW b, NEW c, NEW s, NEW n, Fits(b, c, s), s.version = 1,
           n.owner = s.owner, n.version = 2, n.users[c].email \in Email,
           c = s.owner => /\ s.users[c].token.suffix = "legacy"
                          /\ airport_access_token(s).suffix = "legacy"
    PROVE  Fits(b, c, n)
<1> SUFFICES ASSUME OwnerShaped(b)
             PROVE  c = n.owner /\ \A t \in {b.provider, b.airport} : t.suffix # n.users[c].email
  BY DEF Fits
<1>1. c = s.owner /\ \A t \in {b.provider, b.airport} : t \in {s.users[c].token, airport_access_token(s)}
  BY DEF Fits
<1>2. \A t \in {b.provider, b.airport} : t.suffix = "legacy"
  BY <1>1
<1>3. n.users[c].email # "legacy"
  BY LinkAssumption
<1> QED
  BY <1>1, <1>2, <1>3

Reconciled(s, prev, clients, op) ==
    /\ IsLinkState(s)
    /\ prev = None => s.version = 2 /\ s.airport = None /\ DOMAIN s.users = DOMAIN clients
    /\ prev # None => /\ s.version = prev.version /\ s.owner = prev.owner
                      /\ s.airport = prev.airport
                      /\ DOMAIN s.users = DOMAIN prev.users \cup DOMAIN clients
                      /\ s.owner \in DOMAIN clients
                      /\ \A c \in DOMAIN prev.users : s.users[c] =
                           [prev.users[c] EXCEPT !.active =
                               c \in DOMAIN clients /\ clients[c].enabled]
    /\ \A c \in DOMAIN clients : prev = None \/ c \notin DOMAIN prev.users =>
          s.users[c] = NewUser(op, c, s.version, clients[c])

LEMMA ReconcileFacts ==
    ASSUME NEW prev, prev = None \/ IsLinkState(prev), NEW clients, IsPanel(clients),
           CanReconcile(prev, clients), NEW op \in Nat
    PROVE  Reconciled(reconcile_state(prev, clients, op), prev, clients, op)
<1> DEFINE s == reconcile_state(prev, clients, op)
           known == IF prev = None THEN {} ELSE DOMAIN prev.users
<1>1. /\ s = [version |-> s.version, owner |-> s.owner, users |-> s.users, airport |-> s.airport]
      /\ s.version = IF prev = None THEN 2 ELSE prev.version
      /\ s.owner = IF prev = None THEN CHOOSE c \in DOMAIN clients : clients[c].email = OwnerEmail ELSE prev.owner
      /\ s.airport = IF prev = None THEN None ELSE prev.airport
      /\ s.users = [c \in known \cup DOMAIN clients |->
                      IF c \notin known THEN NewUser(op, c, s.version, clients[c])
                      ELSE [prev.users[c] EXCEPT !.active = c \in DOMAIN clients /\ clients[c].enabled]]
  BY DEF reconcile_state
<1> HIDE DEF s
<1>2. s.version \in {1, 2} /\ s.owner \in DOMAIN s.users /\ DOMAIN s.users \subseteq Client
  BY <1>1 DEF IsLinkState, IsPanel, CanReconcile
<1>3. s.airport \in Token \cup {None} /\ (s.airport # None => s.version = 2)
  BY <1>1 DEF IsLinkState
<1>4. ASSUME NEW c \in DOMAIN s.users
      PROVE  /\ s.users[c] \in UserState
             /\ s.users[c].token.suffix = IF s.version = 1 THEN "legacy" ELSE s.users[c].email
  <2>1. CASE c \notin known
    <3>1. c \in Client /\ clients[c] \in Account
      BY <1>1, <2>1 DEF IsPanel
    <3> QED
      BY <1>1, <1>2, <2>1, <3>1, NewUserFacts
  <2>2. CASE c \in known
    <3> DEFINE on == c \in DOMAIN clients /\ clients[c].enabled
    <3>1. on \in BOOLEAN
      OBVIOUS
    <3>2. s.users[c] = [prev.users[c] EXCEPT !.active = on]
      BY <1>1, <2>2
    <3> HIDE DEF on
    <3>3. /\ prev.users[c] \in UserState /\ s.version = prev.version
          /\ prev.users[c].token.suffix = IF prev.version = 1 THEN "legacy" ELSE prev.users[c].email
      BY <1>1, <2>2 DEF IsLinkState
    <3>4. /\ s.users[c] \in UserState /\ s.users[c].token = prev.users[c].token
          /\ s.users[c].email = prev.users[c].email
      BY <3>1, <3>2, <3>3 DEF UserState
    <3> QED
      BY <3>3, <3>4
  <2> QED
    BY <2>1, <2>2
<1>5. IsLinkState(s)
  BY <1>1, <1>2, <1>3, <1>4 DEF IsLinkState
<1>6. prev = None => s.version = 2 /\ s.airport = None /\ DOMAIN s.users = DOMAIN clients
  BY <1>1
<1>7. prev # None => /\ s.version = prev.version /\ s.owner = prev.owner
                     /\ s.airport = prev.airport
                     /\ DOMAIN s.users = DOMAIN prev.users \cup DOMAIN clients
                     /\ s.owner \in DOMAIN clients
  BY <1>1 DEF CanReconcile
<1>8. prev # None => \A c \in DOMAIN prev.users : s.users[c] =
                        [prev.users[c] EXCEPT !.active = c \in DOMAIN clients /\ clients[c].enabled]
  BY <1>1, Zenon
<1>9. \A c \in DOMAIN clients : prev = None \/ c \notin DOMAIN prev.users =>
         s.users[c] = NewUser(op, c, s.version, clients[c])
  BY <1>1
<1> QED
  BY <1>5, <1>6, <1>7, <1>8, <1>9 DEF s, Reconciled

Updated(n, s, clients, op) ==
    /\ IsLinkState(n) /\ n.version = 2 /\ n.owner = s.owner
    /\ DOMAIN n.users = IF s.version = 1 THEN DOMAIN s.users \cap DOMAIN clients ELSE DOMAIN s.users
    /\ \A c \in DOMAIN n.users :
         /\ n.users[c].release = s.users[c].release /\ n.users[c].active = s.users[c].active
         /\ n.users[c].email = IF c \in DOMAIN clients THEN clients[c].email ELSE s.users[c].email
         /\ n.users[c].token = IF s.version = 1 THEN NewToken(op, c, n.users[c].email)
                               ELSE [s.users[c].token EXCEPT !.suffix = n.users[c].email]
    /\ n.airport = IF s.version = 2 /\ n.users[s.owner].token # s.users[s.owner].token
                   THEN airport_access_token(s) ELSE s.airport

LEMMA LinkUpdateFacts ==
    ASSUME NEW s, IsLinkState(s), NEW clients, IsPanel(clients), s.owner \in DOMAIN clients, NEW op \in Nat
    PROVE  Updated(prepare_link_update(s, clients, op), s, clients, op)
<1> DEFINE n == prepare_link_update(s, clients, op)
           kept == IF s.version = 1 THEN DOMAIN s.users \cap DOMAIN clients ELSE DOMAIN s.users
           email(c) == IF c \in DOMAIN clients THEN clients[c].email ELSE s.users[c].email
           token(c) == IF s.version = 1 THEN NewToken(op, c, email(c))
                       ELSE [s.users[c].token EXCEPT !.suffix = email(c)]
<1>1. /\ n = [version |-> n.version, owner |-> n.owner, users |-> n.users, airport |-> n.airport]
      /\ n.version = 2 /\ n.owner = s.owner
      /\ n.users = [c \in kept |-> [s.users[c] EXCEPT !.email = email(c), !.token = token(c)]]
      /\ n.airport = IF s.version = 2 /\ token(s.owner) # s.users[s.owner].token
                     THEN airport_access_token(s) ELSE s.airport
  BY DEF prepare_link_update, readable_token
<1> HIDE DEF n
<1>2. /\ s.owner \in kept /\ DOMAIN n.users = kept /\ kept \subseteq DOMAIN s.users
      /\ n.users = [c \in kept |-> n.users[c]]
  BY <1>1 DEF IsLinkState
<1>3. ASSUME NEW c \in kept
      PROVE  /\ n.users[c].release = s.users[c].release /\ n.users[c].active = s.users[c].active
             /\ n.users[c].email = email(c) /\ n.users[c].token = token(c)
             /\ n.users[c] \in UserState /\ n.users[c].token.suffix = n.users[c].email
  <2>1. s.users[c] \in UserState /\ email(c) \in Email /\ c \in Client
    BY <1>2 DEF IsLinkState, UserState, IsPanel, Account
  <2>2. token(c) \in Token /\ token(c).suffix = email(c)
    BY <2>1 DEF Token, UserState, NewToken, Suffix
  <2> DEFINE renamed == [s.users[c] EXCEPT !.email = email(c)]
  <2>3. n.users[c] = [renamed EXCEPT !.token = token(c)]
    BY <1>1
  <2> HIDE DEF email, token
  <2>4. renamed \in UserState /\ renamed.email = email(c) /\ renamed.active = s.users[c].active
        /\ renamed.release = s.users[c].release
    BY <2>1 DEF UserState
  <2> HIDE DEF renamed
  <2> QED
    BY <2>2, <2>3, <2>4 DEF UserState
<1>4. n.airport \in Token \cup {None} /\ (n.airport # None => n.version = 2)
  <2>1. airport_access_token(s) \in Token /\ s.airport \in Token \cup {None}
    BY AirportToken DEF IsLinkState
  <2> QED
    BY <1>1, <2>1
<1>a. /\ n = [version |-> n.version, owner |-> n.owner, users |-> n.users, airport |-> n.airport]
      /\ n.version = 2 /\ n.owner = s.owner
  BY <1>1
<1> HIDE DEF kept, email, token
<1>5. IsLinkState(n)
  <2>1. kept \subseteq Client
    BY <1>2 DEF IsLinkState
  <2> QED
    BY <1>a, <1>2, <1>3, <1>4, <2>1 DEF IsLinkState
<1>6. n.airport = IF s.version = 2 /\ n.users[s.owner].token # s.users[s.owner].token
                  THEN airport_access_token(s) ELSE s.airport
  BY <1>1, <1>2, <1>3
<1>7. ASSUME NEW c \in kept
      PROVE  n.users[c].token = IF s.version = 1 THEN NewToken(op, c, n.users[c].email)
                                ELSE [s.users[c].token EXCEPT !.suffix = n.users[c].email]
  BY <1>3 DEF token
<1>8. \A c \in kept : n.users[c].email = IF c \in DOMAIN clients THEN clients[c].email ELSE s.users[c].email
  BY <1>3 DEF email
<1>9. DOMAIN n.users = IF s.version = 1 THEN DOMAIN s.users \cap DOMAIN clients ELSE DOMAIN s.users
  BY <1>2 DEF kept
<1> QED
  BY <1>a, <1>2, <1>3, <1>5, <1>6, <1>7, <1>8, <1>9 DEF n, Updated

Relinked(n, s, c, op) ==
    /\ IsLinkState(n) /\ n.version = 2 /\ n.owner = s.owner /\ DOMAIN n.users = DOMAIN s.users
    /\ n.users[c] = [s.users[c] EXCEPT !.token = NewToken(op, c, s.users[c].email)]
    /\ \A d \in DOMAIN s.users : d # c => n.users[d] = s.users[d]
    /\ n.airport = IF c = s.owner THEN airport_access_token(s) ELSE s.airport

LEMMA RotateFacts ==
    ASSUME NEW s, IsLinkState(s), s.version = 2, NEW c \in DOMAIN s.users, NEW op \in Nat
    PROVE  Relinked(rotate_user_token(s, c, op), s, c, op)
<1> DEFINE n == rotate_user_token(s, c, op)
           user == [s.users[c] EXCEPT !.token = NewToken(op, c, s.users[c].email)]
<1>1. /\ n = [version |-> n.version, owner |-> n.owner, users |-> n.users, airport |-> n.airport]
      /\ n.version = 2 /\ n.owner = s.owner
      /\ n.users = [s.users EXCEPT ![c] = user]
      /\ n.airport = IF c = s.owner THEN airport_access_token(s) ELSE s.airport
  <2> DEFINE users == [s.users EXCEPT ![c] = user]
             rotated == [s EXCEPT !.users = users]
             airport == IF c = s.owner THEN airport_access_token(s) ELSE s.airport
  <2>1. n = [rotated EXCEPT !.airport = airport]
    <3>1. rotated.airport = s.airport
      BY DEF IsLinkState
    <3> QED
      BY <3>1 DEF rotate_user_token
  <2> HIDE DEF users, airport, n
  <2>2. /\ rotated = [version |-> s.version, owner |-> s.owner, users |-> users, airport |-> s.airport]
    BY DEF IsLinkState
  <2> HIDE DEF rotated
  <2>3. n = [version |-> s.version, owner |-> s.owner, users |-> users, airport |-> airport]
    BY <2>1, <2>2
  <2> QED
    BY <2>3 DEF users, airport
<1> HIDE DEF n
<1>2. c \in Client /\ s.users[c] \in UserState
  BY DEF IsLinkState
<1>3. user \in UserState /\ user.token.suffix = user.email
  BY <1>2 DEF UserState, NewToken, Token, Suffix
<1>4. /\ DOMAIN n.users = DOMAIN s.users /\ n.users[c] = user
      /\ \A d \in DOMAIN s.users : d # c => n.users[d] = s.users[d]
  BY <1>1 DEF IsLinkState
<1>5. n.airport \in Token \cup {None}
  <2>1. airport_access_token(s) \in Token /\ s.airport \in Token \cup {None}
    BY AirportToken DEF IsLinkState
  <2> QED
    BY <1>1, <2>1
<1> HIDE DEF user
<1>6. IsLinkState(n)
  BY <1>1, <1>3, <1>4, <1>5 DEF IsLinkState
<1> QED
  BY <1>1, <1>4, <1>6 DEF n, user, Relinked

Reinitialized(n, prev, clients, c, op) ==
    /\ IsLinkState(prev) /\ prev.owner \notin DOMAIN clients
    /\ IsLinkState(n) /\ n.version = prev.version /\ n.owner = c
    /\ DOMAIN n.users = DOMAIN clients
    /\ n.users[c] = NewUser(op, c, n.version, clients[c])
    /\ \A d \in DOMAIN clients \ DOMAIN prev.users : n.users[d] = NewUser(op, d, n.version, clients[d])
    /\ \A d \in DOMAIN clients \cap DOMAIN prev.users : d # c =>
         n.users[d] = [prev.users[d] EXCEPT !.active = clients[d].enabled]
    /\ n.airport = IF prev.version = 2 THEN airport_access_token(prev) ELSE None

LEMMA ReinitializeFacts ==
    ASSUME NEW prev, prev = None \/ IsLinkState(prev), NEW clients, IsPanel(clients), NEW c,
           CanReinitialize(prev, clients, c), NEW op \in Nat
    PROVE  Reinitialized(reinitialize_owner(prev, clients, c, op), prev, clients, c, op)
<1> DEFINE n == reinitialize_owner(prev, clients, c, op)
<1>0. IsLinkState(prev) /\ prev.owner \notin DOMAIN clients /\ c \in DOMAIN clients
  BY DEF CanReinitialize
<1>1. /\ n = [version |-> n.version, owner |-> n.owner, users |-> n.users, airport |-> n.airport]
      /\ n.version = prev.version /\ n.owner = c
      /\ n.users = [d \in DOMAIN clients |->
                     IF d = c \/ d \notin DOMAIN prev.users
                     THEN NewUser(op, d, prev.version, clients[d])
                     ELSE [prev.users[d] EXCEPT !.active = clients[d].enabled]]
      /\ n.airport = IF prev.version = 2 THEN airport_access_token(prev) ELSE None
  BY DEF reinitialize_owner
<1> HIDE DEF n
<1>2. n.version \in {1, 2} /\ n.owner \in DOMAIN n.users /\ DOMAIN n.users \subseteq Client
  BY <1>0, <1>1 DEF IsLinkState, IsPanel
<1>3. n.airport \in Token \cup {None} /\ (n.airport # None => n.version = 2)
  <2>1. airport_access_token(prev) \in Token
    BY <1>0, AirportToken
  <2> QED
    BY <1>0, <1>1, <2>1 DEF IsLinkState
<1>4. ASSUME NEW d \in DOMAIN clients
      PROVE  /\ n.users[d] \in UserState
             /\ n.users[d].token.suffix = IF n.version = 1 THEN "legacy" ELSE n.users[d].email
  <2>1. CASE d = c \/ d \notin DOMAIN prev.users
    <3>1. d \in Client /\ clients[d] \in Account
      BY DEF IsPanel
    <3> QED
      BY <1>1, <1>2, <2>1, <3>1, NewUserFacts
  <2>2. CASE d # c /\ d \in DOMAIN prev.users
    <3>1. clients[d].enabled \in BOOLEAN
      BY DEF IsPanel, Account
    <3> QED
      BY <1>0, <1>1, <2>2, <3>1 DEF IsLinkState, UserState
  <2> QED
    BY <2>1, <2>2
<1>5. IsLinkState(n)
  BY <1>1, <1>2, <1>3, <1>4 DEF IsLinkState
<1> QED
  BY <1>0, <1>1, <1>5 DEF n, Reinitialized

LEMMA CoresFacts ==
    ASSUME NEW s, IsLinkState(s), NEW k
    PROVE  k \in CoresOf(s) <=> \/ \E c \in DOMAIN s.users : k = Core(s.users[c].token)
                                \/ k = Core(airport_access_token(s))
  BY LinkStateIsNotNone DEF CoresOf

\* The airport capability depends on the owner's token and the pinned one.
LEMMA SameAirport ==
    ASSUME NEW s, NEW n, n.airport = s.airport, n.users[n.owner].token = s.users[s.owner].token
    PROVE  airport_access_token(n) = airport_access_token(s)
  BY DEF airport_access_token

\* A token with its own suffix is itself.
LEMMA SameSuffix == ASSUME NEW t \in Token, NEW e, t.suffix = e PROVE [t EXCEPT !.suffix = e] = t
  BY DEF Token

LEMMA OtherSuffix ==
    ASSUME NEW t \in Token, NEW e
    PROVE  Core([t EXCEPT !.suffix = e]) = Core(t) /\ [t EXCEPT !.suffix = e].suffix = e
  BY DEF Token, Core

\* An operation has begun, without effect yet.
LEMMA BeginNext ==
    ASSUME LinkInv, NEW op, NEW identities, NEW next, NEW todo, NEW cands,
           Begin(op, identities, next, todo, cands), JobInv'
    PROVE  LinkInv'
<1> USE DEF LinkInv, Types, Begin, Op, Deciding, BaseState, BaseRoutes, BaseMarker
<1>1. /\ pc = "idle" /\ undo = None /\ ops' = ops + 1 /\ pc' \in {"activate", "prepare"}
      /\ UNCHANGED <<panel, used, state, routes, marker, live, undo, store, revoked>>
  BY DEF runtime
<1> HIDE DEF Begin
<1>2. Types'
  BY <1>1
<1>3. Serves(BaseRoutes, BaseState)'
  BY <1>1 DEF Serves
<1>4. Releases'
  <2>1. ASSUME NEW c \in Client, marker[c] # None
        PROVE  marker[c] \in DOMAIN store[c] /\ marker[c] < ops + 1
    <3>1. marker[c] \in DOMAIN store[c]
      BY <1>1, <2>1 DEF Releases
    <3> HIDE DEF LinkInv
    <3>2. DOMAIN store[c] \subseteq 0..ops /\ ops \in Nat
      BY DEF LinkInv
    <3> QED
      BY <3>1, <3>2
  <2> QED
    BY <1>1, <2>1 DEF Releases
<1>5. Revocation'
  BY <1>1 DEF Revocation
<1> QED
  BY <1>1, <1>2, <1>3, <1>4, <1>5 DEF DiscardInv, RevokedStaysRevoked

\* What reconcile_state makes of a published state
LEMMA CurrentFacts ==
    ASSUME LinkInv, undo = None, CanReconcile(state, panel)
    PROVE  /\ Reconciled(Current, state, panel, Op) /\ IsLinkState(Current)
           /\ state # None =>
                /\ airport_access_token(Current) = airport_access_token(state)
                /\ \A c \in DOMAIN state.users : /\ Current.users[c].token = state.users[c].token
                                                 /\ Current.users[c].email = state.users[c].email
                                                 /\ Current.users[c].release = state.users[c].release
           /\ \A c \in DOMAIN Current.users : Current.users[c].release # None =>
                /\ state # None /\ c \in DOMAIN state.users
                /\ Current.users[c].release = marker[c] /\ marker[c] # None
                /\ Fits(store[c][marker[c]].bundle, c, Current)
           /\ \A k \in CoresOf(Current) : k \in CoresOf(state) \/ k[1] = Op
<1> DEFINE cur == Current
<1>1. IsPanel(panel) /\ ops \in Nat /\ Op \in Nat /\ (state = None \/ IsLinkState(state))
  BY DEF LinkInv, Types, Op
<1>2. Reconciled(cur, state, panel, Op)
  BY <1>1, ReconcileFacts DEF Current
<1> HIDE DEF cur
<1> USE DEF Reconciled
<1>3. ASSUME state # None, NEW c \in DOMAIN state.users
      PROVE  /\ cur.users[c].token = state.users[c].token /\ cur.users[c].email = state.users[c].email
             /\ cur.users[c].release = state.users[c].release
  BY <1>1, <1>2, <1>3 DEF IsLinkState, UserState
<1>4. state # None => airport_access_token(cur) = airport_access_token(state)
  BY <1>1, <1>2, <1>3, SameAirport DEF IsLinkState
<1>5. \A c \in DOMAIN cur.users : state = None \/ c \notin DOMAIN state.users =>
         cur.users[c].release = None /\ Core(cur.users[c].token)[1] = Op
  BY <1>1, <1>2, NewUserFacts DEF IsPanel, IsLinkState
<1>6. ASSUME NEW c \in DOMAIN cur.users, cur.users[c].release # None
      PROVE  /\ state # None /\ c \in DOMAIN state.users
             /\ cur.users[c].release = marker[c] /\ marker[c] # None
             /\ Fits(store[c][marker[c]].bundle, c, cur)
  <2>1. state # None /\ c \in DOMAIN state.users
    BY <1>5, <1>6
  <2>2. state.users[c].release = marker[c] /\ marker[c] # None /\ Fits(store[c][marker[c]].bundle, c, state)
    BY <1>3, <1>6, <2>1 DEF LinkInv, Releases, BaseState, BaseMarker
  <2> QED
    BY <1>2, <1>3, <1>4, <2>1, <2>2 DEF Fits
<1>7. ASSUME NEW k \in CoresOf(cur) PROVE k \in CoresOf(state) \/ k[1] = Op
  <2>1. CASE k = Core(airport_access_token(cur))
    <3>1. CASE state = None
      BY <1>2, <1>5, <2>1, <3>1, AirportToken DEF IsLinkState, Core
    <3>2. CASE state # None
      BY <1>1, <1>4, <2>1, <3>2, CoresFacts
    <3> QED
      BY <3>1, <3>2
  <2>2. ASSUME NEW c \in DOMAIN cur.users, k = Core(cur.users[c].token)
        PROVE  k \in CoresOf(state) \/ k[1] = Op
    BY <1>1, <1>3, <1>5, <2>2, CoresFacts
  <2> QED
    BY <1>2, <1>7, <2>1, <2>2, CoresFacts
<1> QED
  BY <1>2, <1>3, <1>4, <1>6, <1>7 DEF cur

LEMMA RotateLinkNext == ASSUME LinkInv, NEW c \in Client, RotateLink(c) PROVE LinkInv'
<1> DEFINE cur == Current
           nxt == rotate_user_token(cur, c, Op)
           todo == {c} \cap {cur.owner}
<1>1. /\ Begin("rotate", nxt, nxt, todo, Empty) /\ CanReconcile(state, panel) /\ undo = None
      /\ c \in DOMAIN panel /\ panel[c].enabled /\ cur.version = 2
      /\ IsPanel(panel) /\ ops \in Nat /\ Op \in Nat /\ (state = None \/ IsLinkState(state))
  BY DEF RotateLink, Published, Begin, LinkInv, Types, Op
<1>2. /\ undo' = None /\ ops' = Op /\ UNCHANGED <<state, marker, store>>
      /\ pc' = IF todo = {} THEN "activate" ELSE "prepare"
      /\ job' = [op |-> "rotate", clients |-> panel, identities |-> nxt, next |-> nxt,
                 todo |-> todo, cands |-> Empty, failed |-> {}]
  BY <1>1 DEF Begin, runtime
<1>3. /\ Reconciled(cur, state, panel, Op) /\ IsLinkState(cur)
      /\ state # None =>
           /\ airport_access_token(cur) = airport_access_token(state)
           /\ \A d \in DOMAIN state.users : cur.users[d].token = state.users[d].token
      /\ \A d \in DOMAIN cur.users : cur.users[d].release # None =>
           cur.users[d].release = marker[d] /\ Fits(store[d][marker[d]].bundle, d, cur)
      /\ \A k \in CoresOf(cur) : k \in CoresOf(state) \/ k[1] = Op
  BY <1>1, CurrentFacts
<1> HIDE DEF cur
<1>4. c \in DOMAIN cur.users
  BY <1>1, <1>3 DEF Reconciled
<1>5. Relinked(nxt, cur, c, Op)
  BY <1>1, <1>3, <1>4, RotateFacts
<1> HIDE DEF nxt
<1> USE DEF Relinked
<1>6. cur.users[c] \in UserState /\ nxt.users[c].token = NewToken(Op, c, cur.users[c].email)
  BY <1>3, <1>4, <1>5 DEF IsLinkState, UserState
<1>7. c # cur.owner => airport_access_token(nxt) = airport_access_token(cur)
  BY <1>3, <1>5, SameAirport DEF IsLinkState
<1>8. c = cur.owner => airport_access_token(nxt) = airport_access_token(cur)
  BY <1>3, <1>5, AirportToken DEF airport_access_token
<1>9. \A d \in DOMAIN cur.users : nxt.users[d].release = cur.users[d].release
  BY <1>4, <1>5, <1>6 DEF UserState
<1>10. JobTypes'
  BY <1>1, <1>2, <1>4, <1>5 DEF JobTypes, Ids, Nxt, Empty
<1>11. JobCores'
  <2>1. ASSUME NEW k \in CoresOf(nxt) PROVE k \in CoresOf(cur) \/ k[1] = Op
    <3>1. CASE k = Core(airport_access_token(nxt))
      BY <1>3, <1>7, <1>8, <3>1, CoresFacts
    <3>2. ASSUME NEW d \in DOMAIN nxt.users, k = Core(nxt.users[d].token)
          PROVE  k \in CoresOf(cur) \/ k[1] = Op
      <4>1. CASE d = c
        BY <1>6, <3>2, <4>1, NewTokenFacts
      <4>2. CASE d # c
        BY <1>3, <1>5, <3>2, <4>2, CoresFacts
      <4> QED
        BY <4>1, <4>2
    <3> QED
      BY <1>5, <2>1, <3>1, <3>2, CoresFacts
  <2> QED
    BY <1>2, <1>3, <2>1 DEF JobCores, Ids, Nxt
<1>12. JobReleases'
  <2>1. ASSUME NEW d \in DOMAIN nxt.users, nxt.users[d].release # None
        PROVE  /\ nxt.users[d].release = marker[d]
               /\ d \notin todo => Fits(store[d][marker[d]].bundle, d, nxt)
    <3>1. nxt.users[d].release = marker[d] /\ Fits(store[d][marker[d]].bundle, d, cur)
      BY <1>3, <1>5, <1>9, <2>1
    <3>2. ASSUME d # c, d = cur.owner PROVE Fits(store[d][marker[d]].bundle, d, nxt)
      BY <1>1, <1>5, <1>7, <2>1, <3>1, <3>2 DEF Fits
    <3>3. d # cur.owner => Fits(store[d][marker[d]].bundle, d, nxt)
      BY <1>5, <3>1 DEF Fits
    <3> QED
      BY <3>1, <3>2, <3>3
  <2> QED
    BY <1>2, <2>1 DEF JobReleases, Ids, Nxt, Plain, Empty
<1>13. JobFailures'
  BY <1>2 DEF JobFailures, Plain
<1>14. JobAirport'
  <2> SUFFICES ASSUME state # None, state.version = 2
      PROVE  \/ nxt.airport # None /\ nxt.airport = airport_access_token(state)
             \/ /\ nxt.airport = None /\ state.airport = None /\ nxt.owner = state.owner
                /\ nxt.users[nxt.owner].token =
                     [state.users[nxt.owner].token EXCEPT !.suffix = nxt.users[nxt.owner].email]
    BY <1>2 DEF JobAirport, Ids, Nxt
  <2>1. CASE c = cur.owner
    BY <1>3, <1>5, <2>1, AirportToken
  <2>2. CASE c # cur.owner
    <3>1. /\ nxt.airport = state.airport /\ nxt.owner = state.owner
          /\ state.owner \in DOMAIN state.users
          /\ nxt.users[nxt.owner] = cur.users[cur.owner]
      BY <1>1, <1>3, <1>5, <2>2 DEF Reconciled, IsLinkState
    <3>2. cur.owner \in DOMAIN cur.users /\ cur.users[cur.owner].token \in Token
      BY <1>3 DEF IsLinkState, UserState
    <3>3. cur.users[cur.owner].token = [cur.users[cur.owner].token EXCEPT !.suffix = cur.users[cur.owner].email]
      BY <1>1, <1>3, <3>2, SameSuffix DEF IsLinkState
    <3> QED
      BY <1>3, <1>5, <3>1, <3>3 DEF airport_access_token
  <2> QED
    BY <2>1, <2>2
<1> QED
  BY <1>1, <1>10, <1>11, <1>12, <1>13, <1>14, BeginNext DEF JobInv

LEMMA SyncAllNext == LinkInv /\ SyncAll => LinkInv'
<1> SUFFICES ASSUME LinkInv, SyncAll PROVE LinkInv'
  OBVIOUS
<1> DEFINE cur == Current
           ids == prepare_link_update(cur, panel, Op)
           nxt == IF Migrating THEN ids ELSE cur
           enabled == {c \in DOMAIN panel : panel[c].enabled}
<1>1. /\ Begin("sync", ids, nxt, enabled, Empty) /\ CanReconcile(state, panel) /\ undo = None
      /\ IsPanel(panel) /\ ops \in Nat /\ Op \in Nat /\ (state = None \/ IsLinkState(state))
  BY DEF SyncAll, Begin, LinkInv, Types, Op
<1>2. /\ undo' = None /\ ops' = Op /\ UNCHANGED <<state, marker, store>>
      /\ pc' = IF enabled = {} THEN "activate" ELSE "prepare"
      /\ job' = [op |-> "sync", clients |-> panel, identities |-> ids, next |-> nxt,
                 todo |-> enabled, cands |-> Empty, failed |-> {}]
  BY <1>1 DEF Begin, runtime
<1>3. /\ Reconciled(cur, state, panel, Op) /\ IsLinkState(cur)
      /\ state # None =>
           /\ airport_access_token(cur) = airport_access_token(state)
           /\ \A c \in DOMAIN state.users : /\ cur.users[c].token = state.users[c].token
                                            /\ cur.users[c].email = state.users[c].email
      /\ \A c \in DOMAIN cur.users : cur.users[c].release # None =>
           /\ state # None /\ c \in DOMAIN state.users
           /\ cur.users[c].release = marker[c] /\ Fits(store[c][marker[c]].bundle, c, cur)
      /\ \A k \in CoresOf(cur) : k \in CoresOf(state) \/ k[1] = Op
  BY <1>1, CurrentFacts
<1> HIDE DEF cur
<1>4. cur.owner \in DOMAIN panel
  BY <1>3 DEF IsLinkState, Reconciled
<1>5. Updated(ids, cur, panel, Op)
  BY <1>1, <1>3, <1>4, LinkUpdateFacts DEF Reconciled
<1> HIDE DEF ids
<1> USE DEF Reconciled, Updated
<1>8. \A c \in DOMAIN cur.users : cur.users[c] \in UserState /\ cur.users[c].token \in Token
  BY <1>3 DEF IsLinkState, UserState
<1>9. Migrating <=> cur.version = 1
  BY <1>1, <1>3 DEF Migrating, IsLinkState
<1>10. /\ IsLinkState(nxt) /\ nxt.owner = cur.owner /\ nxt.version = 2
       /\ enabled \subseteq DOMAIN ids.users \cap DOMAIN nxt.users
  BY <1>3, <1>5, <1>9 DEF IsLinkState
<1>11. JobTypes'
  BY <1>1, <1>2, <1>5, <1>10 DEF JobTypes, Ids, Nxt, Empty
<1>12. JobCores'
  <2>1. ASSUME NEW k \in CoresOf(nxt) PROVE k \in CoresOf(state) \/ k[1] = Op
    <3>1. CASE Migrating
      <4>1. \A c \in DOMAIN ids.users : Core(ids.users[c].token)[1] = Op
        <5>1. \A c \in DOMAIN ids.users : ids.users[c].token = NewToken(Op, c, ids.users[c].email)
          BY <1>5, <1>9, <3>1
        <5> QED
          BY <5>1, NewTokenFacts
      <4>2. ids.airport = None
        BY <1>3, <1>5, <1>9, <3>1 DEF IsLinkState
      <4>3. Core(airport_access_token(ids))[1] = Op
        BY <1>5, <4>1, <4>2, AirportToken DEF IsLinkState, Core
      <4> QED
        BY <1>5, <2>1, <3>1, <4>1, <4>3, CoresFacts
    <3>2. CASE ~Migrating
      BY <1>3, <2>1, <3>2
    <3> QED
      BY <3>1, <3>2
  <2>2. ASSUME NEW c \in enabled PROVE Core(ids.users[c].token) = Core(nxt.users[c].token)
    <3>1. CASE Migrating
      BY <3>1
    <3>2. CASE ~Migrating
      <4>1. cur.version = 2 /\ c \in DOMAIN cur.users /\ c \in DOMAIN ids.users
        BY <1>3, <1>9, <1>10, <3>2 DEF IsLinkState
      <4>2. ids.users[c].token = [cur.users[c].token EXCEPT !.suffix = ids.users[c].email]
        BY <1>5, <4>1
      <4> QED
        BY <1>8, <3>2, <4>1, <4>2, OtherSuffix
    <3> QED
      BY <3>1, <3>2
  <2> QED
    BY <1>2, <2>1, <2>2 DEF JobCores, Ids, Nxt
<1>13. JobReleases'
  <2>1. ASSUME NEW c \in DOMAIN nxt.users, nxt.users[c].release # None
        PROVE  /\ nxt.users[c].release = marker[c]
               /\ c \notin enabled \/ ~Migrating => Fits(store[c][marker[c]].bundle, c, nxt)
    <3>1. c \in DOMAIN cur.users /\ nxt.users[c].release = cur.users[c].release
      BY <1>5, <2>1
    <3>2. /\ state # None /\ c \in DOMAIN state.users
          /\ cur.users[c].release = marker[c] /\ Fits(store[c][marker[c]].bundle, c, cur)
      BY <1>3, <2>1, <3>1
    <3>3. CASE ~Migrating
      BY <3>1, <3>2, <3>3
    <3>4. CASE Migrating
      <4>1. cur.version = 1 /\ cur.airport = None
        BY <1>3, <1>9, <3>4 DEF IsLinkState
      <4>2. c = cur.owner => /\ cur.users[c].token.suffix = "legacy"
                             /\ airport_access_token(cur).suffix = "legacy"
        <5>1. cur.users[c].token.suffix = "legacy"
          BY <1>3, <3>1, <4>1 DEF IsLinkState
        <5>2. airport_access_token(cur).suffix = cur.users[cur.owner].token.suffix
          BY <1>3, <4>1, AirportToken
        <5> QED
          BY <5>1, <5>2
      <4>3. ids.users[c].email \in Email
        BY <1>5, <2>1, <3>4 DEF IsLinkState, UserState
      <4>4. Fits(store[c][marker[c]].bundle, c, ids)
        <5>1. ids.owner = cur.owner /\ ids.version = 2
          BY <1>5
        <5> QED
          BY <3>2, <4>1, <4>2, <4>3, <5>1, MigratedFit
      <4> QED
        BY <3>1, <3>2, <3>4, <4>4
    <3> QED
      BY <3>3, <3>4
  <2>2. ASSUME NEW c \in enabled PROVE ids.users[c].release = nxt.users[c].release
    BY <1>5, <1>10
  <2>3. \/ nxt.airport = ids.airport
        \/ ids.airport # None /\ ids.airport.suffix # ids.users[ids.owner].email
    <3> SUFFICES ASSUME nxt.airport # ids.airport PROVE ids.airport # None /\ ids.airport.suffix # ids.users[ids.owner].email
      OBVIOUS
    <3>1. /\ cur.version = 2 /\ nxt = cur /\ ids.airport = airport_access_token(cur)
          /\ ids.users[cur.owner].token # cur.users[cur.owner].token
      BY <1>5, <1>9
    <3>2. cur.airport = None
      BY <3>1 DEF airport_access_token
    <3>3. cur.owner \in DOMAIN cur.users /\ cur.owner \in DOMAIN ids.users
      BY <1>3, <1>5, <3>1 DEF IsLinkState
    <3>4. ids.users[cur.owner].token = [cur.users[cur.owner].token EXCEPT !.suffix = ids.users[cur.owner].email]
      BY <1>5, <3>1, <3>3
    <3>5. ids.users[cur.owner].email # cur.users[cur.owner].token.suffix
      BY <1>8, <3>1, <3>3, <3>4, SameSuffix
    <3> QED
      <4>1. /\ airport_access_token(cur) # None
            /\ airport_access_token(cur).suffix = cur.users[cur.owner].token.suffix
        BY <1>3, <3>2, AirportToken
      <4> QED
        BY <1>5, <3>1, <3>5, <4>1
  <2> QED
    BY <1>2, <1>10, <2>1, <2>2, <2>3 DEF JobReleases, Ids, Nxt, Plain, Migrating, Empty
<1>14. JobFailures'
  <2>1. ASSUME ~Migrating, state # None, NEW c \in enabled, c \in DOMAIN state.users
        PROVE  nxt.users[c] = [state.users[c] EXCEPT !.active = TRUE]
    <3>1. (c \in DOMAIN panel /\ panel[c].enabled) = TRUE
      BY <1>1 DEF IsPanel, Account
    <3> QED
      BY <1>3, <2>1, <3>1
  <2> QED
    BY <1>2, <1>3, <2>1 DEF JobFailures, Plain, Migrating, Nxt
<1>15. JobAirport'
  <2> SUFFICES ASSUME state # None, state.version = 2
      PROVE  \/ nxt.airport # None /\ nxt.airport = airport_access_token(state)
             \/ /\ nxt.airport = None /\ state.airport = None /\ nxt.owner = state.owner
                /\ \A s \in {ids, nxt} :
                    s.users[s.owner].token = [state.users[s.owner].token EXCEPT !.suffix = s.users[s.owner].email]
    BY <1>2 DEF JobAirport, Ids, Nxt
  <2>1. nxt = cur /\ cur.version = 2
    BY <1>3, <1>9
  <2>2. /\ state.owner \in DOMAIN state.users /\ cur.owner = state.owner
        /\ cur.users[cur.owner].token = state.users[cur.owner].token
        /\ cur.owner \in DOMAIN cur.users /\ cur.owner \in DOMAIN ids.users
    BY <1>1, <1>3, <1>5, <2>1 DEF IsLinkState
  <2>3. cur.users[cur.owner].token = [state.users[cur.owner].token EXCEPT !.suffix = cur.users[cur.owner].email]
    BY <1>3, <1>8, <2>1, <2>2, SameSuffix DEF IsLinkState
  <2>4. ids.users[ids.owner].token = [state.users[ids.owner].token EXCEPT !.suffix = ids.users[ids.owner].email]
    BY <1>5, <2>1, <2>2
  <2> QED
    BY <1>3, <1>5, <2>1, <2>2, <2>3, <2>4 DEF airport_access_token
<1> QED
  BY <1>1, <1>11, <1>12, <1>13, <1>14, <1>15, BeginNext DEF JobInv

LEMMA RotateAirportNext == LinkInv /\ RotateAirportLink => LinkInv'
<1> SUFFICES ASSUME LinkInv, RotateAirportLink PROVE LinkInv'
  OBVIOUS
<1> DEFINE cur == Current
           token == NewToken(Op, cur.owner, "airport")
           nxt == [cur EXCEPT !.airport = token]
<1>1. /\ Begin("rotate_airport", nxt, nxt, {cur.owner}, Empty) /\ CanReconcile(state, panel) /\ undo = None
      /\ cur.owner \in DOMAIN panel /\ panel[cur.owner].enabled /\ cur.version = 2
      /\ IsPanel(panel) /\ ops \in Nat /\ Op \in Nat
  BY DEF RotateAirportLink, Published, Begin, LinkInv, Types, Op
<1>2. /\ undo' = None /\ ops' = Op /\ UNCHANGED <<state, marker, store>>
      /\ pc' = "prepare"
      /\ job' = [op |-> "rotate_airport", clients |-> panel, identities |-> nxt, next |-> nxt,
                 todo |-> {cur.owner}, cands |-> Empty, failed |-> {}]
  BY <1>1 DEF Begin, runtime
<1>3. /\ IsLinkState(cur)
      /\ \A d \in DOMAIN cur.users : cur.users[d].release # None =>
           cur.users[d].release = marker[d] /\ Fits(store[d][marker[d]].bundle, d, cur)
      /\ \A k \in CoresOf(cur) : k \in CoresOf(state) \/ k[1] = Op
  BY <1>1, CurrentFacts
<1> HIDE DEF cur
<1>4. token \in Token /\ token # None /\ Core(token)[1] = Op
  <2>1. cur.owner \in Client
    BY <1>3 DEF IsLinkState
  <2>2. token \in Token
    BY <1>1, <2>1 DEF NewToken, Token, Suffix
  <2> QED
    BY <2>2, NewTokenFacts, LinkAssumption
<1> HIDE DEF token
<1>5. /\ nxt = [version |-> nxt.version, owner |-> nxt.owner, users |-> nxt.users, airport |-> nxt.airport]
      /\ nxt.version = cur.version /\ nxt.owner = cur.owner /\ nxt.users = cur.users /\ nxt.airport = token
  BY <1>3 DEF IsLinkState
<1> HIDE DEF nxt
<1>6. IsLinkState(nxt)
  BY <1>1, <1>3, <1>4, <1>5 DEF IsLinkState
<1>7. JobTypes'
  BY <1>1, <1>2, <1>3, <1>5, <1>6 DEF JobTypes, Ids, Nxt, Empty, IsLinkState
<1>8. JobCores'
  <2>1. ASSUME NEW k \in CoresOf(nxt) PROVE k \in CoresOf(cur) \/ k[1] = Op
    BY <1>3, <1>4, <1>5, <1>6, <2>1, CoresFacts DEF airport_access_token
  <2> QED
    BY <1>2, <1>3, <2>1 DEF JobCores, Ids, Nxt
<1>9. JobReleases'
  <2>1. ASSUME NEW d \in DOMAIN nxt.users, nxt.users[d].release # None
        PROVE  /\ nxt.users[d].release = marker[d]
               /\ d # cur.owner => Fits(store[d][marker[d]].bundle, d, nxt)
    BY <1>3, <1>5, <2>1 DEF Fits
  <2> QED
    BY <1>2, <2>1 DEF JobReleases, Ids, Nxt, Plain, Empty
<1>10. JobFailures' /\ JobAirport'
  BY <1>2 DEF JobFailures, JobAirport, Plain
<1> QED
  BY <1>1, <1>7, <1>8, <1>9, <1>10, BeginNext DEF JobInv

LEMMA RollbackNext == ASSUME LinkInv, NEW c \in Client, Rollback(c) PROVE LinkInv'
<1> DEFINE cur == Current
<1>1. PICK r \in DOMAIN store[c] :
        /\ CanRollBack(c, r)
        /\ Begin("rollback", cur, [cur EXCEPT !.users[c].release = r], {}, Put(Empty, c, r))
  BY DEF Rollback
<1> DEFINE nxt == [cur EXCEPT !.users[c].release = r]
           user == [cur.users[c] EXCEPT !.release = r]
           cands == Put(Empty, c, r)
<1>2. /\ CanReconcile(state, panel) /\ undo = None
      /\ c \in DOMAIN panel
      /\ IsPanel(panel) /\ ops \in Nat /\ Op \in Nat /\ (state = None \/ IsLinkState(state))
  BY <1>1 DEF Rollback, Published, Begin, LinkInv, Types, Op
<1>3. /\ undo' = None /\ ops' = Op /\ UNCHANGED <<state, marker, store>>
      /\ pc' = "activate"
      /\ job' = [op |-> "rollback", clients |-> panel, identities |-> cur, next |-> nxt,
                 todo |-> {}, cands |-> cands, failed |-> {}]
  BY <1>1 DEF Begin, runtime
<1>4. /\ Reconciled(cur, state, panel, Op) /\ IsLinkState(cur)
      /\ state # None =>
           /\ airport_access_token(cur) = airport_access_token(state)
           /\ \A d \in DOMAIN state.users : cur.users[d].token = state.users[d].token
      /\ \A d \in DOMAIN cur.users : cur.users[d].release # None =>
           cur.users[d].release = marker[d] /\ Fits(store[d][marker[d]].bundle, d, cur)
      /\ \A k \in CoresOf(cur) : k \in CoresOf(state) \/ k[1] = Op
  BY <1>2, CurrentFacts
<1>5. LET b == store[c][r].bundle
      IN  IF c = cur.owner THEN b.provider = cur.users[c].token /\ b.airport = airport_access_token(cur)
          ELSE ~OwnerShaped(b)
  BY <1>1 DEF CanRollBack
<1> HIDE DEF cur
<1>6. DOMAIN cands = {c} /\ cands[c] = r /\ cands = [d \in {c} |-> cands[d]]
  <2>1. DOMAIN Empty = {}
    BY DEF Empty
  <2> QED
    BY <2>1 DEF Put
<1>7. c \in DOMAIN cur.users /\ cur.users[c] \in UserState
  BY <1>2, <1>4 DEF Reconciled, IsLinkState
<1>8. r \in Nat
  BY DEF LinkInv, Types
<1>9. /\ user \in UserState /\ user.token = cur.users[c].token /\ user.email = cur.users[c].email
      /\ user.release = r
  BY <1>7, <1>8 DEF UserState
<1> HIDE DEF cands
<1>10. /\ nxt = [version |-> nxt.version, owner |-> nxt.owner, users |-> nxt.users, airport |-> nxt.airport]
       /\ nxt.version = cur.version /\ nxt.owner = cur.owner /\ nxt.airport = cur.airport
       /\ nxt.users = [cur.users EXCEPT ![c] = user]
  BY <1>4 DEF IsLinkState
<1> HIDE DEF nxt, user
<1>11. /\ DOMAIN nxt.users = DOMAIN cur.users /\ nxt.users[c] = user
       /\ \A d \in DOMAIN cur.users : d # c => nxt.users[d] = cur.users[d]
       /\ nxt.users = [d \in DOMAIN nxt.users |-> nxt.users[d]]
  BY <1>4, <1>7, <1>10 DEF IsLinkState
<1>12. \A d \in DOMAIN cur.users : nxt.users[d].token = cur.users[d].token /\ nxt.users[d].email = cur.users[d].email
  BY <1>9, <1>11
<1>13. IsLinkState(nxt)
  BY <1>4, <1>9, <1>10, <1>11 DEF IsLinkState
<1>14. airport_access_token(nxt) = airport_access_token(cur)
  BY <1>4, <1>10, <1>12, SameAirport DEF IsLinkState
<1>15. JobTypes'
  BY <1>2, <1>3, <1>4, <1>6, <1>7, <1>10, <1>11, <1>13 DEF JobTypes, Ids, Nxt
<1>16. JobCores'
  <2>1. ASSUME NEW k \in CoresOf(nxt) PROVE k \in CoresOf(cur)
    BY <1>4, <1>11, <1>12, <1>13, <1>14, <2>1, CoresFacts
  <2> QED
    BY <1>3, <1>4, <2>1 DEF JobCores, Ids, Nxt
<1>17. JobReleases'
  <2>1. ASSUME NEW d \in DOMAIN nxt.users, d # c, nxt.users[d].release # None
        PROVE  nxt.users[d].release = marker[d] /\ Fits(store[d][marker[d]].bundle, d, nxt)
    <3>1. d \in DOMAIN cur.users /\ nxt.users[d] = cur.users[d]
      BY <1>11, <2>1
    <3>2. nxt.users[d].release = marker[d] /\ Fits(store[d][marker[d]].bundle, d, cur)
      BY <1>4, <2>1, <3>1
    <3> QED
      BY <1>10, <1>14, <3>1, <3>2, SameFit
  <2>2. nxt.users[c].release = r /\ Fits(store[c][r].bundle, c, nxt)
    BY <1>5, <1>7, <1>9, <1>10, <1>11, <1>14 DEF Fits
  <2> QED
    BY <1>3, <1>6, <2>1, <2>2 DEF JobReleases, Ids, Nxt, Plain
<1>18. JobFailures'
  BY <1>3 DEF JobFailures, Plain
<1>19. JobAirport'
  <2> SUFFICES ASSUME state # None, state.version = 2
      PROVE  \/ nxt.airport # None /\ nxt.airport = airport_access_token(state)
             \/ /\ nxt.airport = None /\ state.airport = None /\ nxt.owner = state.owner
                /\ \A s \in {cur, nxt} : s.users[s.owner].token =
                     [state.users[s.owner].token EXCEPT !.suffix = s.users[s.owner].email]
    BY <1>3 DEF JobAirport, Ids, Nxt
  <2>1. /\ nxt.airport = state.airport /\ nxt.owner = state.owner /\ cur.owner = state.owner /\ cur.version = 2
        /\ cur.owner \in DOMAIN cur.users /\ cur.users[cur.owner].token \in Token
        /\ cur.users[cur.owner].token = state.users[cur.owner].token
    BY <1>2, <1>4, <1>10 DEF Reconciled, IsLinkState, UserState
  <2>2. cur.users[cur.owner].token = [cur.users[cur.owner].token EXCEPT !.suffix = cur.users[cur.owner].email]
    BY <1>4, <2>1, SameSuffix DEF IsLinkState
  <2> QED
    BY <1>12, <2>1, <2>2 DEF airport_access_token
<1> QED
  BY <1>1, <1>15, <1>16, <1>17, <1>18, <1>19, BeginNext DEF JobInv, nxt, cands, cur

LEMMA ReinitializeNext == ASSUME LinkInv, NEW c \in Client, ReinitializeOwner(c) PROVE LinkInv'
<1> DEFINE nxt == reinitialize_owner(state, panel, c, Op)
<1>1. /\ Begin("reinitialize", nxt, nxt, {}, Empty) /\ CanReinitialize(state, panel, c) /\ undo = None
      /\ IsPanel(panel) /\ ops \in Nat /\ Op \in Nat /\ (state = None \/ IsLinkState(state))
  BY DEF ReinitializeOwner, Begin, LinkInv, Types, Op
<1>2. /\ undo' = None /\ ops' = Op /\ UNCHANGED <<state, marker, store>>
      /\ pc' = "activate"
      /\ job' = [op |-> "reinitialize", clients |-> panel, identities |-> nxt, next |-> nxt,
                 todo |-> {}, cands |-> Empty, failed |-> {}]
  BY <1>1 DEF Begin, runtime
<1>3. Reinitialized(nxt, state, panel, c, Op)
  BY <1>1, ReinitializeFacts
<1> HIDE DEF nxt
<1> USE DEF Reinitialized
<1>4. state # None
  BY <1>3, LinkStateIsNotNone
<1>5. \A d \in DOMAIN panel : d = c \/ d \notin DOMAIN state.users =>
         nxt.users[d].release = None /\ Core(nxt.users[d].token)[1] = Op
  BY <1>1, <1>3, NewUserFacts DEF IsPanel, IsLinkState
<1>6. ASSUME NEW d \in DOMAIN panel, d # c, d \in DOMAIN state.users
      PROVE  /\ nxt.users[d].release = state.users[d].release /\ nxt.users[d].token = state.users[d].token
             /\ d # state.owner
  <2>1. panel[d].enabled \in BOOLEAN
    BY <1>1 DEF IsPanel, Account
  <2>2. nxt.users[d] = [state.users[d] EXCEPT !.active = panel[d].enabled]
    BY <1>3, <1>6
  <2>3. state.users[d] \in UserState /\ d # state.owner
    BY <1>3, <1>6 DEF IsLinkState
  <2> QED
    BY <2>1, <2>2, <2>3 DEF UserState
<1>7. JobTypes'
  BY <1>1, <1>2, <1>3 DEF JobTypes, Ids, Nxt, Empty
<1>8. JobCores'
  <2>1. ASSUME NEW k \in CoresOf(nxt) PROVE k \in CoresOf(state) \/ k[1] = Op
    <3>1. ASSUME NEW d \in DOMAIN panel, k = Core(nxt.users[d].token)
          PROVE  k \in CoresOf(state) \/ k[1] = Op
      BY <1>3, <1>5, <1>6, <3>1, CoresFacts
    <3>2. CASE k = Core(airport_access_token(nxt))
      <4>1. CASE state.version = 2
        <5>1. airport_access_token(nxt) = airport_access_token(state)
          BY <1>3, <4>1, AirportToken DEF airport_access_token
        <5> QED
          BY <1>3, <3>2, <5>1, CoresFacts
      <4>2. CASE state.version # 2
        <5>1. nxt.airport = None /\ c \in DOMAIN panel /\ nxt.owner = c /\ IsLinkState(nxt)
          BY <1>3, <4>2 DEF IsLinkState
        <5>2. Core(airport_access_token(nxt)) = <<nxt.users[c].token.op, nxt.users[c].token.client, TRUE>>
          BY <5>1, AirportToken
        <5>3. nxt.users[c].token.op = Op
          BY <1>5, <5>1 DEF Core
        <5> QED
          BY <3>2, <5>2, <5>3
      <4> QED
        BY <4>1, <4>2
    <3> QED
      BY <1>3, <2>1, <3>1, <3>2, CoresFacts
  <2> QED
    BY <1>2, <2>1 DEF JobCores, Ids, Nxt
<1>9. JobReleases'
  <2>1. ASSUME NEW d \in DOMAIN nxt.users, nxt.users[d].release # None
        PROVE  nxt.users[d].release = marker[d] /\ Fits(store[d][marker[d]].bundle, d, nxt)
    <3>1. d \in DOMAIN panel /\ d # c /\ d \in DOMAIN state.users
      BY <1>3, <1>5, <2>1
    <3>2. marker[d] = state.users[d].release /\ Fits(store[d][marker[d]].bundle, d, state)
      BY <1>1, <1>4, <1>6, <2>1, <3>1 DEF LinkInv, Releases, BaseState, BaseMarker
    <3> QED
      BY <1>6, <3>1, <3>2 DEF Fits
  <2> QED
    BY <1>2, <2>1 DEF JobReleases, Ids, Nxt, Empty
<1>10. JobFailures'
  BY <1>2 DEF JobFailures, Plain
<1>11. JobAirport'
  <2>1. state.version = 2 => nxt.airport = airport_access_token(state) /\ airport_access_token(state) # None
    BY <1>3, AirportToken
  <2> QED
    BY <1>2, <2>1 DEF JobAirport, Nxt
<1> QED
  BY <1>1, <1>7, <1>8, <1>9, <1>10, <1>11, BeginNext DEF JobInv

-----------------------------------------------------------------------------
(* Routes *)

\* What is rendered from a state serves that state.
LEMMA RenderedServes ==
    ASSUME NEW s, IsLinkState(s), NEW clients
    PROVE  Serves(render_routes(s, clients), s)
<1> DEFINE rs == render_routes(s, clients)
<1> SUFFICES ASSUME NEW r \in rs
             PROVE  /\ s # None /\ r.client \in DOMAIN s.users /\ s.users[r.client].release # None
                    /\ r \in RoutesOf(s, r.client) /\ RoutesOf(s, r.client) \subseteq rs
  BY DEF Serves
<1>1. s # None
  BY LinkStateIsNotNone
<1>2. PICK c \in Routed(s, clients) : r.client = c /\ r \in RoutesOf(s, c)
  <2>1. CASE \E c \in Routed(s, clients) : r = Route(s.users[c].token, c, s.users[c].release, "profile")
    BY <2>1 DEF Route, RoutesOf
  <2>2. CASE s.owner \in Routed(s, clients) /\ r \in OwnerRoutes(s)
    BY <2>2 DEF Route, RoutesOf, OwnerRoutes
  <2> QED
    BY <2>1, <2>2 DEF render_routes
<1>3. RoutesOf(s, c) \subseteq rs
  BY DEF RoutesOf, render_routes
<1> QED
  BY <1>1, <1>2, <1>3 DEF Routed

\* A route is of a user of the state, and its token one of the state's.
LEMMA ServedRoutes ==
    ASSUME NEW s, s = None \/ IsLinkState(s), NEW rs, Serves(rs, s), NEW r \in rs
    PROVE  /\ Core(r.token) \in CoresOf(s)
           /\ r \in [token : Token, client : Client, release : Nat \cup {None},
                     variant : {"profile", "airport", "provider"}]
<1>1. /\ IsLinkState(s) /\ r.client \in DOMAIN s.users /\ s.users[r.client].release # None
      /\ r \in RoutesOf(s, r.client)
  BY DEF Serves
<1> DEFINE c == r.client
<1>2. s.owner \in DOMAIN s.users /\ c \in DOMAIN s.users /\ DOMAIN s.users \subseteq Client
  BY <1>1 DEF IsLinkState
<1>3. \A d \in DOMAIN s.users : s.users[d].token \in Token /\ s.users[d].release \in Nat \cup {None}
  BY <1>1 DEF IsLinkState, UserState
<1>4. airport_access_token(s) \in Token
  BY <1>1, AirportToken
<1>5. \E token \in {s.users[c].token, airport_access_token(s)}, release \in {s.users[c].release, None},
         variant \in {"profile", "airport", "provider"} : r = Route(token, c, release, variant)
  BY <1>1 DEF RoutesOf, OwnerRoutes
<1> QED
  BY <1>1, <1>2, <1>3, <1>4, <1>5, CoresFacts DEF Route

-----------------------------------------------------------------------------
(* Steps that publish nothing *)

\* The published releases stay in the store.
KeepsStore ==
    /\ store' = [c \in Client |-> store'[c]]
    /\ \A c \in Client :
          /\ store'[c] = [r \in DOMAIN store'[c] |-> store'[c][r]]
          /\ DOMAIN store'[c] \subseteq 0..ops
          /\ BaseMarker[c] # None => /\ BaseMarker[c] \in DOMAIN store'[c]
                                     /\ store'[c][BaseMarker[c]] = store[c][BaseMarker[c]]

LEMMA StoreStays == ASSUME LinkInv, UNCHANGED store PROVE KeepsStore
  BY DEF LinkInv, Types, Releases, KeepsStore

LEMMA StepNext ==
    ASSUME LinkInv, UNCHANGED <<panel, used, state, routes, marker, live, undo, revoked, ops>>, KeepsStore,
           pc' \in {"idle", "prepare", "activate", "discard"},
           pc' # "idle" => pc \in {"prepare", "activate"} /\ undo = None,
           JobInv', DiscardInv'
    PROVE  LinkInv'
<1> USE DEF LinkInv
<1>1. Types'
  BY DEF Types, KeepsStore
<1>2. BaseState' = BaseState /\ BaseRoutes' = BaseRoutes /\ BaseMarker' = BaseMarker
  BY DEF BaseState, BaseRoutes, BaseMarker
<1>3. Serves(BaseRoutes, BaseState)'
  BY <1>2 DEF Serves
<1>4. Releases'
  <2>1. ASSUME NEW c \in Client, BaseMarker[c] # None
        PROVE  /\ BaseMarker[c] \in DOMAIN store'[c]
               /\ store'[c][BaseMarker[c]] = store[c][BaseMarker[c]]
               /\ pc' \in {"prepare", "activate", "discard"} => BaseMarker[c] < ops
    BY <2>1 DEF KeepsStore, Releases
  <2>2. ASSUME BaseState # None, NEW c \in DOMAIN BaseState.users, BaseState.users[c].release # None
        PROVE  /\ BaseMarker[c] = BaseState.users[c].release
               /\ Fits(store'[c][BaseMarker[c]].bundle, c, BaseState)
    <3>1. BaseMarker[c] = BaseState.users[c].release /\ Fits(store[c][BaseMarker[c]].bundle, c, BaseState)
      BY <2>2 DEF Releases
    <3>2. c \in Client
      BY <2>2 DEF Types, BaseState, IsLinkState
    <3> QED
      BY <2>1, <2>2, <3>1, <3>2
  <2> QED
    BY <1>2, <2>1, <2>2 DEF Releases
<1>5. Revocation'
  BY <1>2 DEF Revocation, Deciding
<1> QED
  BY <1>1, <1>3, <1>4, <1>5 DEF RevokedStaysRevoked

\* The operation is over, or goes on to discard its candidates.
LEMMA EndNext ==
    ASSUME LinkInv, UNCHANGED <<panel, used, state, routes, marker, live, undo, revoked, ops>>, KeepsStore,
           pc' \in {"idle", "discard"},
           pc' = "discard" => Deciding /\ UNCHANGED job /\ job.op # "rollback"
    PROVE  LinkInv'
<1>1. JobInv'
  BY DEF JobInv, Deciding
<1>2. DiscardInv'
  BY DEF LinkInv, JobInv, JobTypes, JobReleases, DiscardInv
<1>3. pc' # "idle" => pc \in {"prepare", "activate"} /\ undo = None
  BY DEF Deciding, LinkInv, JobInv, JobTypes
<1> QED
  BY <1>1, <1>2, <1>3, StepNext

\* Nothing changes but the panel.
LEMMA PanelOnly ==
    ASSUME LinkInv, UNCHANGED <<state, routes, marker, live, undo, store, pc, job, revoked, ops>>,
           IsPanel(panel'), DOMAIN panel' \subseteq used'
    PROVE  LinkInv'
<1> USE DEF LinkInv
<1>1. Types'
  BY DEF Types
<1>2. BaseState' = BaseState /\ BaseRoutes' = BaseRoutes /\ BaseMarker' = BaseMarker
  BY DEF BaseState, BaseRoutes, BaseMarker
<1>3. Serves(BaseRoutes, BaseState)' /\ Releases' /\ Revocation'
  BY <1>2 DEF Serves, Releases, Revocation, Deciding
<1>4. JobInv'
  <2> USE DEF Deciding, JobInv, Ids, Nxt, Plain, Migrating
  <2>1. Deciding' => JobTypes'
    BY DEF JobTypes
  <2>2. Deciding' => JobCores' /\ JobReleases'
    BY DEF JobCores, JobReleases
  <2>3. Deciding' => JobFailures' /\ JobAirport'
    BY DEF JobFailures, JobAirport
  <2> QED
    BY <2>1, <2>2, <2>3
<1> QED
  BY <1>1, <1>3, <1>4 DEF DiscardInv, RevokedStaysRevoked

LEMMA PanelNext == LinkInv /\ Panel => LinkInv'
<1> SUFFICES ASSUME LinkInv, Panel PROVE LinkInv'
  OBVIOUS
<1>1. IsPanel(panel)
  BY DEF LinkInv, Types
<1> USE DEF Account
<1>2. ASSUME NEW clients, ChangePanel(clients), IsPanel(clients) PROVE LinkInv'
  <2>1. /\ UNCHANGED <<state, routes, marker, live, undo, store, pc, job, revoked, ops>>
        /\ panel' = clients /\ DOMAIN panel' \subseteq used'
    BY <1>2 DEF ChangePanel, runtime
  <2> QED
    BY <1>2, <2>1, PanelOnly
<1>3. ASSUME NEW f, IsPanel(f), NEW c \in Client, NEW a \in Account PROVE IsPanel(Put(f, c, a))
  <2> HIDE DEF Account
  <2>1. /\ DOMAIN Put(f, c, a) = DOMAIN f \cup {c}
        /\ Put(f, c, a)[c] = a
        /\ \A y \in DOMAIN f : y # c => Put(f, c, a)[y] = f[y]
        /\ Put(f, c, a) = [y \in DOMAIN f \cup {c} |-> Put(f, c, a)[y]]
    BY DEF Put
  <2> QED
    BY <1>3, <2>1 DEF IsPanel
<1>4. ASSUME NEW c \in Client PROVE IsPanel([d \in DOMAIN panel \ {c} |-> panel[d]])
  BY <1>1 DEF IsPanel
<1>5. ASSUME NEW c \in Client, AddClient(c) PROVE LinkInv'
  BY <1>1, <1>2, <1>3, <1>5 DEF AddClient
<1>6. ASSUME NEW c \in Client, DeleteClient(c) PROVE LinkInv'
  BY <1>2, <1>4, <1>6 DEF DeleteClient
<1>7. ASSUME NEW c \in Client, NEW d \in Client, ReplaceClient(c, d) PROVE LinkInv'
  <2>1. panel[c] \in Account
    BY <1>1, <1>7 DEF ReplaceClient, IsPanel
  <2> QED
    BY <1>2, <1>3, <1>4, <1>7, <2>1 DEF ReplaceClient
<1>8. ASSUME NEW c \in Client, RenameClient(c) PROVE LinkInv'
  <2>1. PICK e \in Email : ChangePanel([panel EXCEPT ![c].email = e]) /\ c \in DOMAIN panel
    BY <1>8 DEF RenameClient
  <2>2. IsPanel([panel EXCEPT ![c].email = e])
    BY <1>1 DEF IsPanel
  <2> QED
    BY <1>2, <2>1, <2>2
<1>9. ASSUME NEW c \in Client, EnableOrDisable(c) PROVE LinkInv'
  <2>1. IsPanel([panel EXCEPT ![c].enabled = ~@])
    BY <1>1 DEF IsPanel
  <2> QED
    BY <1>2, <1>9, <2>1 DEF EnableOrDisable
<1>10. ASSUME NEW c \in Client, ChangeNodes(c) PROVE LinkInv'
  <2>1. PICK n \in Nodes : ChangePanel([panel EXCEPT ![c].nodes = n]) /\ c \in DOMAIN panel
    BY <1>10 DEF ChangeNodes
  <2>2. IsPanel([panel EXCEPT ![c].nodes = n])
    BY <1>1 DEF IsPanel
  <2> QED
    BY <1>2, <2>1, <2>2
<1> QED
  BY <1>5, <1>6, <1>7, <1>8, <1>9, <1>10 DEF Panel

-----------------------------------------------------------------------------
(* Preparing candidates *)

\* A candidate is added beside the published releases.
LEMMA AddFacts ==
    ASSUME LinkInv, pc = "prepare", NEW c \in Client, NEW checked, store' = Add(c, checked)
    PROVE  /\ KeepsStore
           /\ ops \in DOMAIN store'[c] /\ store'[c][ops].bundle = BundleOf(c)
           /\ \A d \in Client : d # c => store'[d] = store[d]
           /\ \A r \in DOMAIN store[c] : r # ops => r \in DOMAIN store'[c] /\ store'[c][r] = store[c][r]
<1> DEFINE release == [bundle |-> BundleOf(c), checked |-> checked]
<1>1. /\ store = [d \in Client |-> store[d]] /\ ops \in Nat
      /\ \A d \in Client : store[d] = [r \in DOMAIN store[d] |-> store[d][r]] /\ DOMAIN store[d] \subseteq 0..ops
  BY DEF LinkInv, Types
<1>2. \A d \in Client : BaseMarker[d] # None => BaseMarker[d] \in DOMAIN store[d] /\ BaseMarker[d] < ops
  BY DEF LinkInv, Releases
<1>3. store' = [store EXCEPT ![c] = Put(store[c], ops, release)]
  BY DEF Add
<1>4. release.bundle = BundleOf(c)
  OBVIOUS
<1> HIDE DEF release
<1>5. /\ store' = [d \in Client |-> store'[d]] /\ store'[c] = Put(store[c], ops, release)
      /\ \A d \in Client : d # c => store'[d] = store[d]
  BY <1>1, <1>3
<1>6. /\ DOMAIN store'[c] = DOMAIN store[c] \cup {ops} /\ store'[c][ops] = release
      /\ store'[c] = [r \in DOMAIN store'[c] |-> store'[c][r]]
      /\ \A r \in DOMAIN store[c] : r # ops => store'[c][r] = store[c][r]
  BY <1>5 DEF Put
<1>7. KeepsStore
  BY <1>1, <1>2, <1>5, <1>6 DEF KeepsStore
<1> QED
  BY <1>4, <1>5, <1>6, <1>7

\* What the record of c becomes when its part of the operation is done
Prepared(c, release) == [job.identities.users[c] EXCEPT !.release = release]

\* After its part of the operation, a user's release fits the addresses.
LEMMA PreparedFits ==
    ASSUME JobTypes, JobReleases, NEW c \in job.todo, NEW n, IsLinkState(n), n.owner = Nxt.owner,
           n.version = Nxt.version, n.airport = Nxt.airport,
           n.users[c].token = Ids.users[c].token, n.users[c].email = Ids.users[c].email
    PROVE  Fits(BundleOf(c), c, n)
<1> DEFINE b == BundleOf(c)
<1>1. Ids.owner = n.owner /\ Ids.version = n.version /\ IsLinkState(Ids) /\ c \in DOMAIN Ids.users
  BY DEF JobTypes
<1>2. c # Ids.owner => ~OwnerShaped(b)
  BY DEF BundleOf, render_user_bundle, OwnerShaped, Ids
<1>3. c = Ids.owner => b.provider = Ids.users[c].token /\ b.airport = airport_access_token(Ids)
  BY DEF BundleOf, render_user_bundle, Ids
<1> HIDE DEF b
<1>4. ASSUME c = Ids.owner
      PROVE  \/ airport_access_token(Ids) = airport_access_token(n)
             \/ n.version = 2 /\ airport_access_token(Ids).suffix # n.users[c].email
  <2>1. CASE n.airport = Ids.airport
    BY <1>1, <1>4, <2>1, SameAirport
  <2>2. CASE n.airport # Ids.airport
    BY <1>1, <1>4, <2>2 DEF JobReleases, airport_access_token
  <2> QED
    BY <2>1, <2>2
<1>5. ASSUME c = Ids.owner, NEW t \in {b.provider, b.airport}
      PROVE  \/ t \in {n.users[c].token, airport_access_token(n)}
             \/ n.version = 2 /\ t.suffix # n.users[c].email
  BY <1>3, <1>4, <1>5
<1> QED
  BY <1>1, <1>2, <1>5 DEF Fits, b

\* The user's record is taken over, with the release that the marker names or
\* with a new one.
TakesOver(c, release, cands, next) ==
    /\ KeepsStore /\ ops' = ops /\ UNCHANGED <<undo, state, marker>>
    /\ \A d \in Client : \A r \in DOMAIN store[d] :
         r # ops \/ d # c => r \in DOMAIN store'[d] /\ store'[d][r] = store[d][r]
    /\ \/ /\ Unchanged(c) /\ cands = job.cands /\ release = Ids.users[c].release
          /\ release # None => store'[c][release].bundle = BundleOf(c)
       \/ /\ cands = Put(job.cands, c, ops) /\ release = ops
          /\ ops \in DOMAIN store'[c] /\ store'[c][ops].bundle = BundleOf(c)
    /\ next = [version |-> Nxt.version, owner |-> Nxt.owner, airport |-> Nxt.airport,
               users |-> Put(Nxt.users, c, Prepared(c, release))]
    /\ job' = [op |-> job.op, clients |-> job.clients, identities |-> job.identities, next |-> next,
               todo |-> job.todo \ {c}, cands |-> cands, failed |-> job.failed]
    /\ pc' = AfterPreparing(job.todo \ {c}, job.failed)

LEMMA TakeOver ==
    ASSUME LinkInv, pc = "prepare", NEW c \in job.todo, NEW release \in Nat \cup {None}, NEW cands,
           NEW next, TakesOver(c, release, cands, next)
    PROVE  JobInv' /\ DiscardInv'
<1> USE DEF TakesOver
<1> DEFINE user == Prepared(c, release)
           users == Put(Nxt.users, c, user)
           todo == job.todo \ {c}
<1>1. JobTypes /\ JobCores /\ JobReleases /\ JobFailures /\ JobAirport
  BY DEF LinkInv, JobInv, Deciding
<1>2. /\ IsLinkState(Ids) /\ IsLinkState(Nxt) /\ Ids.owner = Nxt.owner /\ Ids.version = Nxt.version
      /\ c \in DOMAIN Ids.users /\ c \in DOMAIN Nxt.users /\ c \in Client
      /\ c \notin DOMAIN job.cands /\ c \notin job.failed /\ DOMAIN job.cands \subseteq DOMAIN Nxt.users
      /\ job.op # "rollback"
  BY <1>1 DEF JobTypes, IsLinkState
<1>3. /\ Ids.users[c] \in UserState /\ Nxt.users[c] \in UserState
      /\ Ids.users[c].token.suffix = IF Nxt.version = 1 THEN "legacy" ELSE Ids.users[c].email
  BY <1>2 DEF IsLinkState
<1>4. /\ user \in UserState /\ user.release = release
      /\ user.token = Ids.users[c].token /\ user.email = Ids.users[c].email
  BY <1>3 DEF Prepared, UserState, Ids
<1> HIDE DEF user
<1>5. /\ DOMAIN users = DOMAIN Nxt.users /\ users[c] = user
      /\ users = [d \in DOMAIN users |-> users[d]]
      /\ \A d \in DOMAIN Nxt.users : d # c => users[d] = Nxt.users[d]
  BY <1>2 DEF Put
<1>7. job' = [op |-> job.op, clients |-> job.clients, identities |-> Ids, next |-> next,
              todo |-> todo, cands |-> cands, failed |-> job.failed]
  BY DEF Ids
<1>6. next = [version |-> Nxt.version, owner |-> Nxt.owner, airport |-> Nxt.airport, users |-> users]
  BY DEF user
<1> HIDE DEF users
<1>8. /\ next.version = Nxt.version /\ next.owner = Nxt.owner /\ next.users = users
      /\ next.airport = Nxt.airport
      /\ next = [version |-> next.version, owner |-> next.owner, users |-> next.users, airport |-> next.airport]
  BY <1>6
<1>9. IsLinkState(next)
  BY <1>2, <1>3, <1>4, <1>5, <1>8 DEF IsLinkState
<1>10. Core(user.token) = Core(Nxt.users[c].token)
  BY <1>1, <1>4 DEF JobCores
<1>11. c # Nxt.owner => airport_access_token(next) = airport_access_token(Nxt)
  BY <1>2, <1>5, <1>8, SameAirport DEF IsLinkState
<1>12. CoresOf(next) \subseteq CoresOf(Nxt)
  <2>1. \A d \in DOMAIN Nxt.users : Core(users[d].token) = Core(Nxt.users[d].token)
    BY <1>5, <1>10
  <2>2. Core(airport_access_token(next)) \in CoresOf(Nxt)
    <3>1. CASE c # Nxt.owner
      BY <1>2, <1>11, <3>1, CoresFacts
    <3>2. CASE Nxt.airport # None
      <4>1. airport_access_token(next) = airport_access_token(Nxt)
        BY <1>8, <3>2 DEF airport_access_token
      <4> QED
        BY <1>2, <4>1, CoresFacts
    <3>3. CASE c = Nxt.owner /\ Nxt.airport = None
      <4>1. Core(airport_access_token(next)) = <<user.token.op, user.token.client, TRUE>>
        BY <1>5, <1>8, <1>9, <3>3, AirportToken
      <4>2. Core(airport_access_token(Nxt)) = <<Nxt.users[c].token.op, Nxt.users[c].token.client, TRUE>>
        BY <1>2, <3>3, AirportToken
      <4>3. Core(airport_access_token(next)) = Core(airport_access_token(Nxt))
        BY <1>10, <4>1, <4>2 DEF Core
      <4> QED
        BY <1>2, <4>3, CoresFacts
    <3> QED
      BY <3>1, <3>2, <3>3
  <2>3. \A k : k \in CoresOf(next) => \/ \E d \in DOMAIN Nxt.users : k = Core(users[d].token)
                                     \/ k = Core(airport_access_token(next))
    BY <1>5, <1>8, <1>9, CoresFacts
  <2> QED
    BY <1>2, <2>1, <2>2, <2>3, CoresFacts
<1>13. /\ DOMAIN cands \subseteq DOMAIN job.cands \cup {c} /\ DOMAIN job.cands \subseteq DOMAIN cands
       /\ cands = [d \in DOMAIN cands |-> cands[d]]
       /\ \A d \in DOMAIN job.cands : cands[d] = job.cands[d]
       /\ c \in DOMAIN cands => cands[c] = ops
  <2>1. job.cands = [d \in DOMAIN job.cands |-> job.cands[d]]
    BY <1>1 DEF JobTypes
  <2>2. CASE cands = job.cands
    BY <1>2, <2>1, <2>2
  <2>3. CASE cands = Put(job.cands, c, ops)
    BY <1>2, <2>1, <2>3 DEF Put
  <2> QED
    BY <2>2, <2>3
<1>c. ASSUME NEW d \in DOMAIN cands 
      PROVE  \/ d \in DOMAIN job.cands /\ cands[d] = job.cands[d]
             \/ d = c /\ cands[d] = ops
  BY <1>13, <1>c
<1>j. /\ Ids' = Ids /\ Nxt' = next /\ job'.op = job.op /\ job'.clients = job.clients
      /\ job'.todo = todo /\ job'.cands = cands /\ job'.failed = job.failed
  BY <1>7 DEF Ids, Nxt
<1>14. pc' \in {"prepare", "activate", "discard"}
       /\ (pc' = "activate" => todo = {} /\ (job.failed # {} => Plain))
  BY DEF AfterPreparing, Plain
<1>15. JobTypes'
  <2>1. /\ IsPanel(job.clients) /\ undo = None
        /\ job.op \in {"sync", "rotate", "rotate_airport", "rollback", "reinitialize"}
        /\ todo \cup job.failed \subseteq {d \in DOMAIN job.clients : job.clients[d].enabled}
        /\ todo \subseteq DOMAIN Ids.users /\ todo \cup job.failed \cup DOMAIN cands \subseteq DOMAIN next.users
        /\ DOMAIN cands \cap (todo \cup job.failed) = {} /\ todo \cap job.failed = {}
    BY <1>1, <1>2, <1>5, <1>8, <1>13 DEF JobTypes
  <2>2. Plain' = Plain
    BY <1>7 DEF Plain, Migrating
  <2> HIDE DEF todo
  <2> QED
    BY <1>2, <1>7, <1>8, <1>9, <1>13, <1>14, <2>1, <2>2 DEF JobTypes, Ids, Nxt
<1>16. JobCores'
  <2>1. \A k \in CoresOf(next) : k \in CoresOf(state) \/ k[1] = ops
    BY <1>1, <1>12 DEF JobCores
  <2>2. \A d \in todo : Core(Ids.users[d].token) = Core(next.users[d].token)
    BY <1>1, <1>5, <1>8 DEF JobCores, JobTypes
  <2> QED
    BY <1>7, <2>1, <2>2 DEF JobCores, Ids, Nxt
<1>17. ASSUME NEW d \in DOMAIN Nxt.users, d # c, NEW b, Fits(b, d, Nxt) PROVE Fits(b, d, next)
  BY <1>5, <1>8, <1>11, <1>17 DEF Fits
<1>18. Fits(BundleOf(c), c, next)
  BY <1>1, <1>4, <1>5, <1>8, <1>9, PreparedFits
<1>19. JobReleases'
  <2>1. ASSUME NEW d \in DOMAIN next.users \ DOMAIN cands, next.users[d].release # None
        PROVE  /\ next.users[d].release = marker[d]
               /\ d \notin todo \cup job.failed \/ Plain => Fits(store'[d][marker[d]].bundle, d, next)
    <3>1. CASE d = c
      <4>1. cands = job.cands
        BY <2>1, <3>1 DEF Put
      <4>2. release = Ids.users[c].release /\ release # None
        BY <1>4, <1>5, <1>8, <2>1, <3>1, <4>1 DEF Put
      <4>3. release = marker[c]
        BY <1>1, <1>2, <4>2 DEF JobReleases
      <4>4. store'[c][release].bundle = BundleOf(c)
        BY <4>2
      <4> QED
        BY <1>4, <1>5, <1>8, <1>18, <3>1, <4>3, <4>4
    <3>2. CASE d # c
      <4>1. d \in DOMAIN Nxt.users \ DOMAIN job.cands /\ next.users[d] = Nxt.users[d]
        BY <1>5, <1>8, <1>13, <2>1, <3>2
      <4>2. /\ next.users[d].release = marker[d]
            /\ d \notin todo \cup job.failed \/ Plain => Fits(store[d][marker[d]].bundle, d, Nxt)
        BY <1>1, <2>1, <3>2, <4>1 DEF JobReleases
      <4>3. store'[d][marker[d]] = store[d][marker[d]]
        <5>1. BaseMarker = marker /\ d \in Client
          BY <1>1, <1>2, <4>1 DEF JobTypes, BaseMarker, IsLinkState
        <5> QED
          BY <2>1, <4>2, <5>1 DEF KeepsStore
      <4> QED
        BY <1>17, <3>2, <4>1, <4>2, <4>3
    <3> QED
      BY <3>1, <3>2
  <2>2. ASSUME NEW d \in DOMAIN cands
        PROVE  /\ next.users[d].release = cands[d] /\ cands[d] \in DOMAIN store'[d]
               /\ Fits(store'[d][cands[d]].bundle, d, next) /\ cands[d] = ops
    <3>1. CASE d = c
      <4>1. release = ops /\ ops \in DOMAIN store'[c] /\ store'[c][ops].bundle = BundleOf(c)
        BY <1>2, <2>2, <3>1
      <4>2. next.users[c].release = ops /\ cands[c] = ops
        BY <1>4, <1>5, <1>8, <1>c, <1>2, <2>2, <3>1, <4>1
      <4> QED
        BY <1>18, <3>1, <4>1, <4>2
    <3>2. CASE d # c
      <4>1. d \in DOMAIN job.cands /\ d \in DOMAIN Nxt.users /\ d \in Client
        BY <1>2, <1>13, <2>2, <3>2 DEF IsLinkState
      <4>2. /\ Nxt.users[d].release = job.cands[d] /\ job.cands[d] \in DOMAIN store[d]
            /\ Fits(store[d][job.cands[d]].bundle, d, Nxt) /\ job.cands[d] = ops
        BY <1>1, <1>2, <4>1 DEF JobReleases
      <4> QED
        BY <1>5, <1>8, <1>13, <1>17, <3>2, <4>1, <4>2
    <3> QED
      BY <3>1, <3>2
  <2>3. \A d \in todo : Ids.users[d].release = next.users[d].release
    BY <1>1, <1>5, <1>8 DEF JobReleases, JobTypes
  <2>4. next.owner \in todo =>
          \/ next.airport = Ids.airport
          \/ /\ next.version = 2 /\ Ids.airport # None
             /\ Ids.airport.suffix # Ids.users[Ids.owner].email
    BY <1>1, <1>8 DEF JobReleases
  <2>5. Plain' = Plain
    BY <1>7 DEF Plain, Migrating
  <2> HIDE DEF todo
  <2> QED
    BY <1>j, <2>1, <2>2, <2>3, <2>4, <2>5 DEF JobReleases
<1>20. JobFailures'
  <2>1. ASSUME Plain, state # None
        PROVE  /\ next.owner = state.owner /\ next.airport = state.airport
               /\ \A d \in todo \cup job.failed : d \in DOMAIN state.users =>
                     next.users[d] = [state.users[d] EXCEPT !.active = TRUE]
    <3>1. Plain /\ state # None
      BY <2>1
    <3>2. Nxt.owner = state.owner /\ Nxt.airport = state.airport
      BY <1>1, <3>1 DEF JobFailures
    <3>3. ASSUME NEW d \in todo \cup job.failed, d \in DOMAIN state.users
          PROVE  next.users[d] = [state.users[d] EXCEPT !.active = TRUE]
      <4>1. d \in DOMAIN Nxt.users
        BY <1>1, <3>1, <3>3 DEF JobTypes
      <4> QED
        BY <1>1, <1>2, <1>5, <1>8, <3>1, <3>3, <4>1 DEF JobFailures
    <3> QED
      BY <1>8, <3>2, <3>3
  <2>2. Plain' = Plain
    BY <1>7 DEF Plain, Migrating
  <2> HIDE DEF todo
  <2> QED
    BY <1>7, <2>1, <2>2 DEF JobFailures, Nxt
<1>21. JobAirport'
  <2>1. ASSUME state # None, state.version = 2, next.version = 2, job.op # "rotate_airport"
        PROVE \/ next.airport # None /\ next.airport = airport_access_token(state)
              \/ /\ next.airport = None /\ state.airport = None /\ next.owner = state.owner
                 /\ \A s \in {Ids, next} : s.users[s.owner].token =
                      [state.users[s.owner].token EXCEPT !.suffix = s.users[s.owner].email]
    <3>1. CASE Nxt.airport # None
      BY <1>1, <1>8, <2>1, <3>1 DEF JobAirport
    <3>2. CASE Nxt.airport = None
      <4>1. /\ state.airport = None /\ Nxt.owner = state.owner
            /\ \A s \in {Ids, Nxt} : s.users[s.owner].token =
                 [state.users[s.owner].token EXCEPT !.suffix = s.users[s.owner].email]
        BY <1>1, <1>8, <2>1, <3>2 DEF JobAirport
      <4>2. Nxt.owner \in DOMAIN Nxt.users
        BY <1>2 DEF IsLinkState
      <4>3. \/ next.users[next.owner] = Nxt.users[Nxt.owner]
            \/ /\ next.users[next.owner].token = Ids.users[Ids.owner].token
               /\ next.users[next.owner].email = Ids.users[Ids.owner].email
        <5>1. CASE c = Nxt.owner
          BY <1>2, <1>4, <1>5, <1>8, <5>1
        <5>2. CASE c # Nxt.owner
          <6>1. users[Nxt.owner] = Nxt.users[Nxt.owner]
            BY <1>5, <4>2, <5>2
          <6> QED
            BY <1>8, <6>1
        <5> QED
          BY <5>1, <5>2
      <4>4. Ids.users[Ids.owner].token =
              [state.users[Ids.owner].token EXCEPT !.suffix = Ids.users[Ids.owner].email]
        BY <4>1
      <4>5. Nxt.users[Nxt.owner].token =
              [state.users[Nxt.owner].token EXCEPT !.suffix = Nxt.users[Nxt.owner].email]
        BY <4>1
      <4>6. Ids.owner = next.owner /\ next.owner = Nxt.owner
        BY <1>2, <1>8
      <4>7. next.users[next.owner].token =
              [state.users[next.owner].token EXCEPT !.suffix = next.users[next.owner].email]
        BY <4>3, <4>4, <4>5, <4>6
      <4> QED
        BY <1>8, <3>2, <4>1, <4>4, <4>7
    <3> QED
      BY <3>1, <3>2
  <2> QED
    BY <1>j, <2>1 DEF JobAirport
<1>22. DiscardInv'
  <2>1. \A d \in DOMAIN cands : cands[d] = ops
    <3>1. \A d \in DOMAIN job.cands : job.cands[d] = ops
      BY <1>1, <1>2 DEF JobReleases
    <3> QED
      BY <1>c, <3>1
  <2> QED
    BY <1>7, <1>13, <2>1 DEF DiscardInv
<1> QED
  BY <1>15, <1>16, <1>19, <1>20, <1>21, <1>22 DEF JobInv

LEMMA PrepareUserFacts ==
    ASSUME LinkInv, NEW c \in Client, PrepareUser(c)
    PROVE  /\ pc = "prepare" /\ c \in job.todo /\ KeepsStore
           /\ pc' \in {"prepare", "activate", "discard"} /\ undo = None
           /\ UNCHANGED <<panel, used, state, routes, marker, live, undo, revoked, ops>>
           /\ \E release \in Nat \cup {None} : \E cands, next : TakesOver(c, release, cands, next)
           /\ UNCHANGED store \/ store' = Add(c, TRUE)
<1> DEFINE user == job.identities.users[c]
           todo == job.todo \ {c}
<1>1. /\ pc = "prepare" /\ c \in job.todo /\ JobTypes /\ JobReleases
      /\ UNCHANGED <<panel, used, state, routes, marker, live, undo, revoked, ops>>
  BY DEF PrepareUser, LinkInv, JobInv, Deciding, runtime
<1>2. /\ job = [op |-> job.op, clients |-> job.clients, identities |-> job.identities, next |-> Nxt,
                todo |-> job.todo, cands |-> job.cands, failed |-> job.failed]
      /\ Nxt = [version |-> Nxt.version, owner |-> Nxt.owner, users |-> Nxt.users, airport |-> Nxt.airport]
      /\ undo = None /\ user \in UserState /\ c \in DOMAIN Nxt.users /\ c \notin DOMAIN job.cands
  BY <1>1 DEF JobTypes, IsLinkState, Ids, Nxt
<1>3. pc' = AfterPreparing(todo, job.failed) => pc' \in {"prepare", "activate", "discard"}
  BY DEF AfterPreparing
<1>5. CASE /\ Unchanged(c)
           /\ job' = [job EXCEPT !.todo = todo, !.next.users = Put(@, c, user)]
           /\ UNCHANGED store
           /\ pc' = AfterPreparing(todo, job.failed)
  <2> DEFINE users == Put(Nxt.users, c, user)
             next == [version |-> Nxt.version, owner |-> Nxt.owner, airport |-> Nxt.airport, users |-> users]
  <2>1. KeepsStore
    BY <1>5, StoreStays
  <2>2. user.release \in Nat \cup {None} /\ user = Prepared(c, user.release)
    BY <1>2 DEF UserState, Prepared
  <2>3. user.release # None => store'[c][user.release].bundle = BundleOf(c)
    <3>1. user.release = Nxt.users[c].release /\ (Nxt.users[c].release # None => Nxt.users[c].release = marker[c])
      BY <1>1, <1>2 DEF JobReleases, Ids
    <3> QED
      BY <1>5, <3>1 DEF Unchanged
  <2>4. job' = [op |-> job.op, clients |-> job.clients, identities |-> job.identities, next |-> next,
                todo |-> todo, cands |-> job.cands, failed |-> job.failed]
    <3> DEFINE j1 == [job EXCEPT !.todo = todo]
    <3>1. j1 = [op |-> job.op, clients |-> job.clients, identities |-> job.identities, next |-> Nxt,
                todo |-> todo, cands |-> job.cands, failed |-> job.failed]
      <4> HIDE DEF todo
      <4> QED
        BY <1>2
    <3>2. job' = [j1 EXCEPT !.next = [j1.next EXCEPT !.users = Put(j1.next.users, c, user)]]
      BY <1>5
    <3> HIDE DEF j1
    <3>3. job' = [j1 EXCEPT !.next = next]
      <4>1. [Nxt EXCEPT !.users = Put(Nxt.users, c, user)] = next
        <5> HIDE DEF users
        <5>1. users = Put(Nxt.users, c, user)
          BY DEF users
        <5>2. [Nxt EXCEPT !.users = users] = next
          BY <1>2
        <5> QED
          BY <5>1, <5>2
      <4>2. j1.next = Nxt
        BY <3>1
      <4> QED
        BY <3>2, <4>1, <4>2
    <3> HIDE DEF next, todo
    <3> QED
      BY <3>1, <3>3
  <2>5. \E release \in Nat \cup {None} : \E x, n : TakesOver(c, release, x, n)
    <3>1. \A d \in Client : \A r \in DOMAIN store[d] :
             r # ops \/ d # c => r \in DOMAIN store'[d] /\ store'[d][r] = store[d][r]
      BY <1>5
    <3> DEFINE release == user.release
    <3>2. /\ release = Ids.users[c].release
          /\ release # None => store'[c][release].bundle = BundleOf(c)
      BY <2>3 DEF Ids
    <3>3. /\ next = [version |-> Nxt.version, owner |-> Nxt.owner, airport |-> Nxt.airport,
                     users |-> Put(Nxt.users, c, Prepared(c, release))]
          /\ release \in Nat \cup {None}
      BY <2>2
    <3> HIDE DEF release, next
    <3>4. TakesOver(c, release, job.cands, next)
      BY <1>1, <1>5, <2>1, <2>4, <3>1, <3>2, <3>3 DEF TakesOver
    <3> QED
      BY <3>3, <3>4
  <2> QED
    BY <1>1, <1>2, <1>3, <1>5, <2>1, <2>5
<1>6. CASE /\ ~Unchanged(c)
           /\ store' = Add(c, TRUE)
           /\ job' = [job EXCEPT !.todo = todo, !.next.users = Put(@, c, [user EXCEPT !.release = ops]),
                                 !.cands = Put(@, c, ops)]
           /\ pc' = AfterPreparing(todo, job.failed)
  <2> DEFINE users == Put(Nxt.users, c, Prepared(c, ops))
             next == [version |-> Nxt.version, owner |-> Nxt.owner, airport |-> Nxt.airport, users |-> users]
             cands == Put(job.cands, c, ops)
  <2>1. /\ KeepsStore
        /\ ops \in DOMAIN store'[c] /\ store'[c][ops].bundle = BundleOf(c)
        /\ \A d \in Client : d # c => store'[d] = store[d]
        /\ \A r \in DOMAIN store[c] : r # ops => r \in DOMAIN store'[c] /\ store'[c][r] = store[c][r]
    BY <1>1, <1>6, AddFacts
  <2>2. \A d \in Client : \A r \in DOMAIN store[d] :
           r # ops \/ d # c => r \in DOMAIN store'[d] /\ store'[d][r] = store[d][r]
    BY <2>1
  <2>3. job' = [op |-> job.op, clients |-> job.clients, identities |-> job.identities, next |-> next,
                todo |-> todo, cands |-> cands, failed |-> job.failed]
    <3> DEFINE j1 == [job EXCEPT !.todo = todo]
               j2 == [j1 EXCEPT !.next.users = Put(@, c, [user EXCEPT !.release = ops])]
    <3>1. j1 = [op |-> job.op, clients |-> job.clients, identities |-> job.identities, next |-> Nxt,
                todo |-> todo, cands |-> job.cands, failed |-> job.failed]
      <4> HIDE DEF todo
      <4> QED
        BY <1>2
    <3>2. j2 = [j1 EXCEPT !.next = [j1.next EXCEPT !.users = Put(j1.next.users, c, Prepared(c, ops))]]
      BY DEF Prepared
    <3>3. job' = [j2 EXCEPT !.cands = Put(j2.cands, c, ops)]
      BY <1>6
    <3> HIDE DEF j1, j2
    <3>4. j2 = [j1 EXCEPT !.next = next]
      <4>1. [Nxt EXCEPT !.users = Put(Nxt.users, c, Prepared(c, ops))] = next
        <5> HIDE DEF users
        <5>1. users = Put(Nxt.users, c, Prepared(c, ops))
          BY DEF users
        <5>2. [Nxt EXCEPT !.users = users] = next
          BY <1>2
        <5> QED
          BY <5>1, <5>2
      <4>2. j1.next = Nxt
        BY <3>1
      <4> QED
        BY <3>2, <4>1, <4>2
    <3> HIDE DEF next, todo
    <3>5. j2 = [op |-> job.op, clients |-> job.clients, identities |-> job.identities, next |-> next,
                todo |-> todo, cands |-> job.cands, failed |-> job.failed]
      BY <3>1, <3>4
    <3>6. job' = [j2 EXCEPT !.cands = cands]
      BY <3>3, <3>5
    <3> HIDE DEF cands
    <3> QED
      BY <3>5, <3>6
  <2>4. ops \in Nat \cup {None}
    BY DEF LinkInv, Types
  <2>5. \E release \in Nat \cup {None} : \E x, n : TakesOver(c, release, x, n)
    <3>1. /\ next = [version |-> Nxt.version, owner |-> Nxt.owner, airport |-> Nxt.airport,
                     users |-> Put(Nxt.users, c, Prepared(c, ops))]
          /\ cands = Put(job.cands, c, ops)
      OBVIOUS
    <3> HIDE DEF next, cands
    <3>2. TakesOver(c, ops, cands, next)
      BY <1>1, <1>6, <2>1, <2>2, <2>3, <3>1 DEF TakesOver
    <3> QED
      BY <2>4, <3>2
  <2> QED
    BY <1>1, <1>2, <1>3, <1>6, <2>1, <2>5
<1> QED
  BY <1>5, <1>6 DEF PrepareUser

LEMMA PrepareUserNext == ASSUME LinkInv, NEW c \in Client, PrepareUser(c) PROVE LinkInv'
<1>1. /\ pc = "prepare" /\ c \in job.todo /\ KeepsStore
      /\ pc' \in {"prepare", "activate", "discard"} /\ undo = None
      /\ UNCHANGED <<panel, used, state, routes, marker, live, undo, revoked, ops>>
  BY PrepareUserFacts
<1>2. PICK release \in Nat \cup {None} : \E cands, next : TakesOver(c, release, cands, next)
  BY PrepareUserFacts
<1>3. PICK cands, next : TakesOver(c, release, cands, next)
  BY <1>2
<1>4. JobInv' /\ DiscardInv'
  BY <1>1, <1>3, TakeOver
<1> QED
  BY <1>1, <1>4, StepNext

LEMMA PrepareFailsNext == ASSUME LinkInv, NEW c \in Client, PrepareFails(c) PROVE LinkInv'
<1> DEFINE todo == job.todo \ {c}
           failed == job.failed \cup {c}
<1>1. /\ pc = "prepare" /\ c \in job.todo
      /\ UNCHANGED <<panel, used, state, routes, marker, live, undo, store, revoked, ops>>
      /\ pc' = AfterPreparing(todo, failed)
  BY DEF PrepareFails, runtime
<1>2. JobTypes /\ JobCores /\ JobReleases /\ JobFailures /\ JobAirport
  BY <1>1 DEF LinkInv, JobInv, Deciding
<1>3. job' = [op |-> job.op, clients |-> job.clients, identities |-> Ids, next |-> Nxt,
              todo |-> todo, cands |-> job.cands, failed |-> failed]
  <2> DEFINE j1 == [job EXCEPT !.todo = todo]
  <2>1. job = [op |-> job.op, clients |-> job.clients, identities |-> Ids, next |-> Nxt,
               todo |-> job.todo, cands |-> job.cands, failed |-> job.failed]
    BY <1>2 DEF JobTypes
  <2>2. job' = [j1 EXCEPT !.failed = j1.failed \cup {c}]
    BY DEF PrepareFails
  <2> HIDE DEF todo
  <2>3. j1 = [op |-> job.op, clients |-> job.clients, identities |-> Ids, next |-> Nxt,
              todo |-> todo, cands |-> job.cands, failed |-> job.failed]
    BY <2>1
  <2> HIDE DEF j1
  <2> QED
    BY <2>2, <2>3
<1>4. /\ todo \cup failed = job.todo \cup job.failed /\ todo \cap failed = {} /\ todo \subseteq job.todo
      /\ job.op # "rollback"
  BY <1>1, <1>2 DEF JobTypes
<1>5. /\ pc' \in {"prepare", "activate", "discard"}
      /\ pc' = "activate" => todo = {} /\ Plain
  BY <1>1 DEF AfterPreparing, Plain
<1> HIDE DEF todo, failed
<1>6. Plain' = Plain
  BY <1>1, <1>3 DEF Plain, Migrating
<1>7. JobTypes'
  BY <1>1, <1>2, <1>3, <1>4, <1>5, <1>6 DEF JobTypes, Ids, Nxt
<1>8. JobCores'
  BY <1>1, <1>2, <1>3, <1>4 DEF JobCores, Ids, Nxt
<1>9. JobReleases'
  BY <1>1, <1>2, <1>3, <1>4, <1>6 DEF JobReleases, Ids, Nxt
<1>10. JobFailures'
  BY <1>1, <1>2, <1>3, <1>4, <1>6 DEF JobFailures, Ids, Nxt
<1>11. JobAirport'
  BY <1>1, <1>2, <1>3 DEF JobAirport, Ids, Nxt
<1>12. DiscardInv'
  BY <1>1, <1>2, <1>3, <1>4 DEF DiscardInv, JobTypes, JobReleases
<1>13. KeepsStore
  BY <1>1, StoreStays
<1>14. undo = None /\ JobInv'
  BY <1>2, <1>7, <1>8, <1>9, <1>10, <1>11 DEF JobInv, JobTypes
<1> QED
  BY <1>1, <1>5, <1>12, <1>13, <1>14, StepNext

LEMMA DiscardOfUncheckedFailsNext ==
    ASSUME LinkInv, NEW c \in Client, DiscardOfUncheckedFails(c) PROVE LinkInv'
<1>1. /\ pc = "prepare" /\ store' = Add(c, FALSE) /\ pc' = "idle"
      /\ UNCHANGED <<panel, used, state, routes, marker, live, undo, revoked, ops>>
  BY DEF DiscardOfUncheckedFails, Leave, runtime
<1>2. KeepsStore
  BY <1>1, AddFacts
<1> QED
  BY <1>1, <1>2, EndNext

-----------------------------------------------------------------------------
(* Activation *)

\* What an activation would publish
LEMMA ActivationFacts ==
    ASSUME LinkInv, pc = "activate"
    PROVE  /\ undo = None /\ live = routes /\ IsLinkState(Nxt) /\ ops \in Nat
           /\ Serves(NewRoutes, Nxt) /\ NewMarker \in [Client -> Nat \cup {None}]
           /\ \A k \in CoresOf(Nxt) : k \in CoresOf(state) \/ k[1] = ops
           /\ \A k \in CoresOf(Nxt) : k \notin revoked /\ k[1] \in Nat /\ k[1] <= ops
           /\ \A r \in NewRoutes : Core(r.token) \notin revoked
<1>1. /\ JobTypes /\ JobCores /\ JobReleases /\ undo = None /\ live = routes /\ IsLinkState(Nxt)
      /\ ops \in Nat /\ marker \in [Client -> Nat \cup {None}]
      /\ \A c \in Client : DOMAIN store[c] \subseteq 0..ops
  BY DEF LinkInv, JobInv, Deciding, JobTypes, Types
<1>2. Serves(NewRoutes, Nxt)
  BY <1>1, RenderedServes DEF NewRoutes, Nxt
<1>3. NewMarker \in [Client -> Nat \cup {None}]
  <2>1. \A c \in DOMAIN job.cands : c \in Client => job.cands[c] \in Nat
    BY <1>1 DEF JobReleases
  <2> QED
    BY <1>1, <2>1 DEF NewMarker
<1>4. \A k \in CoresOf(Nxt) : k \in CoresOf(state) \/ k[1] = ops
  BY <1>1 DEF JobCores
<1>5. ASSUME NEW k \in CoresOf(Nxt) PROVE k \notin revoked /\ k[1] \in Nat /\ k[1] <= ops
  <2>1. CASE k \in CoresOf(state)
    BY <1>1, <2>1 DEF LinkInv, Revocation, BaseState
  <2>2. CASE k[1] = ops
    BY <1>1, <2>2 DEF LinkInv, Revocation, Deciding
  <2> QED
    BY <1>4, <2>1, <2>2
<1>6. \A r \in NewRoutes : Core(r.token) \notin revoked
  BY <1>1, <1>2, <1>5, ServedRoutes
<1> QED
  BY <1>1, <1>2, <1>3, <1>4, <1>5, <1>6

LEMMA ActivateNext == LinkInv /\ Activate => LinkInv'
<1> SUFFICES ASSUME LinkInv, Activate PROVE LinkInv'
  OBVIOUS
<1>1. /\ pc = "activate" /\ state' = Nxt /\ routes' = NewRoutes /\ marker' = NewMarker
      /\ live' = Reloaded(NewRoutes) /\ revoked' = revoked \cup (CoresOf(state) \ CoresOf(Nxt))
      /\ pc' \in {"finish", "idle"} /\ UNCHANGED <<panel, used, undo, store, ops>>
  BY DEF Activate, Leave, Nxt
<1>2. /\ undo = None /\ live = routes /\ IsLinkState(Nxt) /\ ops \in Nat
      /\ Serves(NewRoutes, Nxt) /\ NewMarker \in [Client -> Nat \cup {None}]
      /\ \A k \in CoresOf(Nxt) : k \notin revoked /\ k[1] \in Nat /\ k[1] <= ops
      /\ \A r \in NewRoutes : Core(r.token) \notin revoked
  BY <1>1, ActivationFacts
<1>3. JobTypes /\ JobReleases /\ DOMAIN job.cands \subseteq Client
  BY <1>1 DEF LinkInv, JobInv, Deciding, JobTypes, IsLinkState
<1>4. live' = NewRoutes
  BY <1>1, <1>2 DEF Reloaded
<1>5. BaseState' = Nxt /\ BaseRoutes' = NewRoutes /\ BaseMarker' = NewMarker
  BY <1>1, <1>2, <1>4 DEF BaseState, BaseRoutes, BaseMarker
<1>6. Types'
  BY <1>1, <1>2, <1>4 DEF LinkInv, Types
<1>7. Serves(BaseRoutes, BaseState)'
  BY <1>2, <1>5 DEF Serves
<1>8. Releases'
  <2>1. ASSUME NEW c \in Client, NewMarker[c] # None PROVE NewMarker[c] \in DOMAIN store[c]
    BY <1>2, <1>3, <2>1 DEF NewMarker, JobReleases, LinkInv, Releases, BaseMarker
  <2>2. ASSUME NEW c \in DOMAIN Nxt.users, Nxt.users[c].release # None
        PROVE  /\ NewMarker[c] = Nxt.users[c].release
               /\ Fits(store[c][NewMarker[c]].bundle, c, Nxt)
    <3>1. c \in Client
      BY <1>2 DEF IsLinkState
    <3>2. c \notin job.todo \cup job.failed \/ Plain
      BY <1>1, <1>3 DEF JobTypes
    <3>3. CASE c \in DOMAIN job.cands
      BY <1>3, <3>1, <3>3 DEF JobReleases, NewMarker
    <3>4. CASE c \notin DOMAIN job.cands
      BY <1>3, <2>2, <3>1, <3>2, <3>4 DEF JobReleases, NewMarker
    <3> QED
      BY <3>3, <3>4
  <2> QED
    BY <1>1, <1>5, <2>1, <2>2 DEF Releases
<1>9. Revocation'
  <2>1. \A k \in CoresOf(state) : k[1] \in Nat /\ k[1] <= ops
    BY <1>2 DEF LinkInv, Revocation, BaseState
  <2>2. \A k \in revoked : k[1] \in Nat /\ k[1] <= ops
    BY DEF LinkInv, Revocation
  <2>3. CoresOf(BaseState)' = CoresOf(Nxt)
    BY <1>5 DEF CoresOf
  <2> QED
    BY <1>1, <1>2, <2>1, <2>2, <2>3 DEF Revocation, Deciding
<1>10. RevokedStaysRevoked'
  <2>1. \A r \in NewRoutes : Core(r.token) \in CoresOf(Nxt)
    BY <1>2, ServedRoutes
  <2> QED
    BY <1>1, <1>2, <1>4, <2>1 DEF RevokedStaysRevoked
<1> QED
  BY <1>1, <1>6, <1>7, <1>8, <1>9, <1>10 DEF LinkInv, JobInv, DiscardInv, Deciding

\* An operation that discards its candidates is no rollback.
LEMMA FailsFacts ==
    ASSUME LinkInv, pc = "activate", Fails
    PROVE  /\ pc' \in {"idle", "discard"}
           /\ pc' = "discard" => UNCHANGED job /\ job.op # "rollback"
  BY DEF Fails, Leave

LEMMA ActivationFailsNext == LinkInv /\ ActivationFails => LinkInv'
<1> SUFFICES ASSUME LinkInv, ActivationFails PROVE LinkInv'
  OBVIOUS
<1>1. /\ pc = "activate" /\ Fails
      /\ UNCHANGED <<panel, used, state, routes, marker, live, undo, store, revoked, ops>>
  BY DEF ActivationFails, runtime
<1>2. KeepsStore
  BY <1>1, StoreStays
<1>3. /\ pc' \in {"idle", "discard"}
      /\ pc' = "discard" => Deciding /\ UNCHANGED job /\ job.op # "rollback"
  BY <1>1, FailsFacts DEF Deciding
<1> QED
  BY <1>1, <1>2, <1>3, EndNext

\* A journal is not None.
LEMMA SavedIsNotNone == ASSUME LinkInv, undo = None PROVE Saved # None
<1>1. state \in SubscriptionState \cup {None}
  <2>1. CASE state # None
    <3>1. IsLinkState(state)
      BY <2>1 DEF LinkInv, Types
    <3>2. state.users \in UNION {[S -> UserState] : S \in SUBSET Client}
      <4>1. state.users \in [DOMAIN state.users -> UserState] /\ DOMAIN state.users \subseteq Client
        BY <3>1 DEF IsLinkState
      <4> QED
        BY <4>1
    <3>3. state.owner \in Client
      BY <3>1 DEF IsLinkState
    <3> QED
      BY <3>1, <3>2, <3>3 DEF IsLinkState, SubscriptionState
  <2> QED
    BY <2>1
<1>2. routes \in SUBSET [token : Token, client : Client, release : Nat \cup {None},
                         variant : {"profile", "airport", "provider"}]
  BY ServedRoutes DEF LinkInv, Types, BaseState, BaseRoutes
<1>3. marker \in [Client -> Nat \cup {None}]
  BY DEF LinkInv, Types
<1>4. Saved \in Runtime
  BY <1>1, <1>2, <1>3 DEF Saved, Runtime
<1> QED
  BY <1>4, ServiceAssumption

\* An activation is cut off: a recovery will restore what was published.
LEMMA MixtureBase ==
    ASSUME LinkInv, pc = "activate", Mixture
    PROVE  BaseState' = BaseState /\ BaseRoutes' = BaseRoutes /\ BaseMarker' = BaseMarker
<1>1. undo' = Saved /\ Saved # None /\ undo = None /\ live = routes
  BY ActivationFacts, SavedIsNotNone DEF Mixture
<1>2. undo'.state = state /\ undo'.routes = routes /\ undo'.marker = marker
  BY <1>1 DEF Saved
<1> QED
  BY <1>1, <1>2 DEF BaseState, BaseRoutes, BaseMarker

LEMMA MixtureNext ==
    ASSUME LinkInv, pc = "activate", Mixture, UNCHANGED <<panel, used, store, revoked, ops>>,
           pc' \in {"idle", "discard"}, pc' = "discard" => UNCHANGED job /\ job.op # "rollback"
    PROVE  LinkInv'
<1>1. /\ undo' = Saved /\ Saved # None /\ undo = None /\ live = routes
      /\ state' \in {state, Nxt} /\ marker' \in {marker, NewMarker} /\ live' \in {live, NewRoutes}
  BY ActivationFacts, SavedIsNotNone DEF Mixture, Nxt
<1>2. /\ undo' = [state |-> undo'.state, routes |-> undo'.routes, marker |-> undo'.marker]
      /\ undo'.state = state /\ undo'.routes = routes /\ undo'.marker = marker
  BY <1>1 DEF Saved
<1>3. BaseState' = BaseState /\ BaseRoutes' = BaseRoutes /\ BaseMarker' = BaseMarker
  BY MixtureBase
<1>4. /\ IsLinkState(Nxt) /\ NewMarker \in [Client -> Nat \cup {None}]
      /\ \A r \in NewRoutes : Core(r.token) \notin revoked
  BY ActivationFacts
<1>5. Types'
  BY <1>1, <1>2, <1>4 DEF LinkInv, Types
<1>6. Serves(BaseRoutes, BaseState)'
  BY <1>3 DEF LinkInv, Serves
<1>7. Releases'
  BY <1>3 DEF LinkInv, Releases
<1>8. Revocation'
  BY <1>3 DEF LinkInv, Revocation, Deciding
<1>9. JobInv' /\ DiscardInv'
  BY DEF LinkInv, JobInv, JobTypes, JobReleases, DiscardInv, Deciding
<1>10. RevokedStaysRevoked'
  BY <1>1, <1>4 DEF LinkInv, RevokedStaysRevoked
<1> QED
  BY <1>5, <1>6, <1>7, <1>8, <1>9, <1>10 DEF LinkInv

LEMMA RecoverNext == LinkInv /\ Recover => LinkInv'
<1> SUFFICES ASSUME LinkInv, Recover PROVE LinkInv'
  OBVIOUS
<1>1. /\ pc = "idle" /\ undo # None /\ undo' = None
      /\ state' = undo.state /\ routes' = undo.routes /\ marker' = undo.marker /\ live' = undo.routes
      /\ UNCHANGED <<panel, used, store, pc, job, revoked, ops>>
  BY DEF Recover, bounds
<1>2. BaseState' = BaseState /\ BaseRoutes' = BaseRoutes /\ BaseMarker' = BaseMarker
  BY <1>1 DEF BaseState, BaseRoutes, BaseMarker
<1>3. Types'
  BY <1>1 DEF LinkInv, Types
<1>4. Serves(BaseRoutes, BaseState)' /\ Releases' /\ Revocation'
  BY <1>1, <1>2 DEF LinkInv, Serves, Releases, Revocation, Deciding
<1>5. RevokedStaysRevoked'
  <2>1. /\ Serves(undo.routes, undo.state) /\ (undo.state = None \/ IsLinkState(undo.state))
        /\ \A k \in CoresOf(undo.state) : k \notin revoked
    BY <1>1 DEF LinkInv, Types, Revocation, BaseState, BaseRoutes
  <2> QED
    BY <1>1, <2>1, ServedRoutes DEF RevokedStaysRevoked
<1> QED
  BY <1>1, <1>3, <1>4, <1>5 DEF LinkInv, JobInv, DiscardInv, Deciding

-----------------------------------------------------------------------------
(* Discarding and pruning *)

\* Releases are removed, none is added or changed.
Removes == \A c \in Client : \A r \in DOMAIN store'[c] : r \in DOMAIN store[c] /\ store'[c][r] = store[c][r]

\* A candidate that is discarded is not a published release.
LEMMA DiscardFacts ==
    ASSUME LinkInv, Discard
    PROVE  /\ pc' = "idle" /\ KeepsStore /\ Removes
           /\ UNCHANGED <<panel, used, state, routes, marker, live, undo, revoked, ops>>
<1>1. /\ pc = "discard" /\ pc' = "idle"
      /\ store' = [c \in Client |->
                     IF c \in DOMAIN job.cands /\ marker[c] # job.cands[c]
                     THEN [r \in DOMAIN store[c] \ {job.cands[c]} |-> store[c][r]]
                     ELSE store[c]]
      /\ UNCHANGED <<panel, used, state, routes, marker, live, undo, revoked, ops>>
  BY DEF Discard, Leave, runtime
<1>2. ASSUME NEW c \in Client
      PROVE  /\ store'[c] = [r \in DOMAIN store'[c] |-> store'[c][r]]
             /\ DOMAIN store'[c] \subseteq 0..ops
             /\ BaseMarker[c] # None => /\ BaseMarker[c] \in DOMAIN store'[c]
                                        /\ store'[c][BaseMarker[c]] = store[c][BaseMarker[c]]
             /\ \A r \in DOMAIN store'[c] : r \in DOMAIN store[c] /\ store'[c][r] = store[c][r]
  <2>1. /\ store[c] = [r \in DOMAIN store[c] |-> store[c][r]] /\ DOMAIN store[c] \subseteq 0..ops
        /\ BaseMarker[c] # None => BaseMarker[c] \in DOMAIN store[c] /\ BaseMarker[c] < ops
    BY <1>1 DEF LinkInv, Types, Releases
  <2>2. CASE store'[c] = store[c]
    BY <2>1, <2>2
  <2>3. CASE c \in DOMAIN job.cands /\ store'[c] = [r \in DOMAIN store[c] \ {ops} |-> store[c][r]]
    BY <2>1, <2>3
  <2>4. c \in DOMAIN job.cands => job.cands[c] = ops
    BY <1>1 DEF LinkInv, DiscardInv
  <2> QED
    BY <1>1, <2>2, <2>3, <2>4
<1>3. KeepsStore
  BY <1>1, <1>2 DEF KeepsStore
<1> QED
  BY <1>1, <1>2, <1>3 DEF Removes

LEMMA DiscardNext == LinkInv /\ (Discard \/ DiscardFails) => LinkInv'
<1>1. ASSUME LinkInv, Discard PROVE LinkInv'
  BY <1>1, DiscardFacts, EndNext
<1>2. ASSUME LinkInv, DiscardFails PROVE LinkInv'
  <2>1. pc' = "idle" /\ UNCHANGED <<panel, used, state, routes, marker, live, undo, store, revoked, ops>>
    BY <1>2 DEF DiscardFails, Leave, runtime
  <2> QED
    BY <1>2, <2>1, StoreStays, EndNext
<1> QED
  BY <1>1, <1>2

\* A prune leaves the published releases.
LEMMA FinishFacts ==
    ASSUME LinkInv, Finish
    PROVE  /\ pc' = "idle" /\ KeepsStore /\ Removes
           /\ UNCHANGED <<panel, used, state, routes, marker, live, undo, revoked, ops>>
<1>1. /\ pc = "finish" /\ pc' = "idle"
      /\ UNCHANGED <<panel, used, state, routes, marker, live, undo, revoked, ops>>
  BY DEF Finish, Leave, runtime
<1>2. PICK kept \in [Client -> SUBSET (0..ops)] :
        /\ \A c \in Client : kept[c] \in IF c \in DOMAIN job.cands THEN Pruned(c) ELSE {DOMAIN store[c]}
        /\ store' = [c \in Client |-> [r \in kept[c] |-> store[c][r]]]
  BY DEF Finish
<1>3. undo = None /\ BaseMarker = marker
  BY <1>1 DEF LinkInv, Types, BaseMarker
<1>4. ASSUME NEW c \in Client
      PROVE  kept[c] \subseteq DOMAIN store[c] /\ (marker[c] # None => marker[c] \in kept[c])
  <2>1. marker[c] # None => marker[c] \in DOMAIN store[c]
    BY <1>3 DEF LinkInv, Releases
  <2>2. \A ids \in Pruned(c) : ids \subseteq DOMAIN store[c] /\ (ids = DOMAIN store[c] \/ marker[c] \in ids)
    BY DEF Pruned
  <2> QED
    BY <1>2, <2>1, <2>2
<1>5. KeepsStore /\ Removes
  BY <1>2, <1>3, <1>4 DEF KeepsStore, Removes
<1> QED
  BY <1>1, <1>5

LEMMA FinishNext == LinkInv /\ (Finish \/ PruneFails) => LinkInv'
<1>1. ASSUME LinkInv, Finish PROVE LinkInv'
  BY <1>1, FinishFacts, EndNext
<1>2. ASSUME LinkInv, PruneFails PROVE LinkInv'
  <2>1. pc' = "idle" /\ UNCHANGED <<panel, used, state, routes, marker, live, undo, store, revoked, ops>>
    BY <1>2 DEF PruneFails, Leave, runtime
  <2> QED
    BY <1>2, <2>1, StoreStays, EndNext
<1> QED
  BY <1>1, <1>2

-----------------------------------------------------------------------------
(* Kills *)

LEMMA KillNext == LinkInv /\ (Kill \/ KillBeforeCheck \/ KillInActivation) => LinkInv'
<1>1. ASSUME LinkInv, Kill PROVE LinkInv'
  <2>1. pc' = "idle" /\ UNCHANGED <<panel, used, state, routes, marker, live, undo, store, revoked, ops>>
    BY <1>1 DEF Kill, Killed, runtime
  <2> QED
    BY <1>1, <2>1, StoreStays, EndNext
<1>2. ASSUME LinkInv, KillBeforeCheck PROVE LinkInv'
  <2>1. /\ pc = "prepare" /\ pc' = "idle"
        /\ UNCHANGED <<panel, used, state, routes, marker, live, undo, revoked, ops>>
    BY <1>2 DEF KillBeforeCheck, Killed, runtime
  <2>2. PICK c \in job.todo : store' = Add(c, FALSE)
    BY <1>2 DEF KillBeforeCheck
  <2>3. c \in Client
    BY <1>2, <2>1 DEF LinkInv, JobInv, JobTypes, Deciding, IsPanel
  <2>4. KeepsStore
    BY <1>2, <2>1, <2>2, <2>3, AddFacts
  <2> QED
    BY <1>2, <2>1, <2>4, EndNext
<1>3. ASSUME LinkInv, KillInActivation PROVE LinkInv'
  <2>1. pc = "activate" /\ Mixture /\ UNCHANGED <<panel, used, store, revoked, ops>> /\ pc' = "idle"
    BY <1>3 DEF KillInActivation, Killed
  <2> QED
    BY <1>3, <2>1, MixtureNext
<1> QED
  BY <1>1, <1>2, <1>3

LEMMA RollbackFailsNext == LinkInv /\ RollbackFails => LinkInv'
<1> SUFFICES ASSUME LinkInv, RollbackFails PROVE LinkInv'
  OBVIOUS
<1>1. pc = "activate" /\ Mixture /\ Fails /\ UNCHANGED <<panel, used, store, revoked, ops>>
  BY DEF RollbackFails
<1> QED
  BY <1>1, FailsFacts, MixtureNext

-----------------------------------------------------------------------------
(* The invariant *)

LEMMA LegacyFacts ==
    ASSUME Init, InitLegacy
    PROVE  /\ IsLinkState(state) /\ state.version = 1 /\ state.airport = None
           /\ DOMAIN state.users = DOMAIN panel
           /\ \A c \in DOMAIN panel : /\ state.users[c].release = 0
                                      /\ state.users[c].token.suffix = "legacy"
                                      /\ state.users[c].token.op = 0
<1>1. IsPanel(panel) /\ \E c \in DOMAIN panel : panel[c].email = OwnerEmail
  BY DEF Init, IsPanel
<1>2. /\ state = [version |-> state.version, owner |-> state.owner, users |-> state.users,
                  airport |-> state.airport]
      /\ state.version = 1 /\ state.airport = None
      /\ state.owner = CHOOSE c \in DOMAIN panel : panel[c].email = OwnerEmail
      /\ state.users = [c \in DOMAIN panel |-> [NewUser(0, c, 1, panel[c]) EXCEPT !.release = 0]]
  BY DEF InitLegacy, LegacyState
<1>3. state.owner \in DOMAIN panel
  BY <1>1, <1>2
<1>4. ASSUME NEW c \in DOMAIN panel
      PROVE  /\ state.users[c] \in UserState /\ state.users[c].release = 0
             /\ state.users[c].token.suffix = "legacy" /\ state.users[c].token.op = 0
  <2> DEFINE u == NewUser(0, c, 1, panel[c])
  <2>1. u \in UserState /\ u.token.suffix = "legacy" /\ u.token.op = 0
    <3>1. c \in Client /\ panel[c] \in Account
      BY <1>1 DEF IsPanel
    <3> QED
      BY <3>1, NewUserFacts
  <2>2. state.users[c] = [u EXCEPT !.release = 0]
    BY <1>2
  <2> HIDE DEF u
  <2> QED
    BY <2>1, <2>2 DEF UserState
<1>5. IsLinkState(state)
  BY <1>1, <1>2, <1>3, <1>4 DEF IsLinkState, IsPanel
<1> QED
  BY <1>2, <1>4, <1>5

LEMMA LinkInit == Init => LinkInv
<1> SUFFICES ASSUME Init PROVE LinkInv
  OBVIOUS
<1>1. /\ IsPanel(panel) /\ used = DOMAIN panel /\ live = routes /\ undo = None /\ pc = "idle"
      /\ revoked = {} /\ ops = 0
      /\ \E c \in DOMAIN panel : panel[c].email = OwnerEmail
  BY DEF Init, IsPanel
<1>2. BaseState = state /\ BaseRoutes = routes /\ BaseMarker = marker
  BY <1>1 DEF BaseState, BaseRoutes, BaseMarker
<1>3. JobInv /\ DiscardInv /\ RevokedStaysRevoked
  BY <1>1 DEF JobInv, DiscardInv, RevokedStaysRevoked, Deciding
<1>4. CASE InitFresh
  <2>1. Types
    BY <1>1, <1>4 DEF Types, InitFresh, Empty
  <2>2. Serves(BaseRoutes, BaseState) /\ Releases
    BY <1>2, <1>4 DEF Serves, Releases, InitFresh
  <2>3. Revocation
    BY <1>1, <1>2, <1>4 DEF Revocation, InitFresh, CoresOf
  <2> QED
    BY <1>3, <2>1, <2>2, <2>3 DEF LinkInv
<1>5. CASE InitLegacy
  <2>1. /\ IsLinkState(state) /\ state.version = 1 /\ state.airport = None
        /\ DOMAIN state.users = DOMAIN panel
    BY <1>5, LegacyFacts
  <2>2. state.owner \in DOMAIN panel
    BY <2>1 DEF IsLinkState
  <2>3. \A c \in DOMAIN panel : state.users[c].release = 0 /\ state.users[c].token.op = 0
    BY <1>5, LegacyFacts
  <2>4. IsLinkState(state)
    BY <2>1
  <2>5. /\ marker = [c \in Client |-> IF c \in DOMAIN panel THEN 0 ELSE None]
        /\ routes = render_routes(state, panel)
    BY <1>5 DEF InitLegacy
  <2>6. ASSUME NEW c \in Client
        PROVE  /\ store[c] = [r \in DOMAIN store[c] |-> store[c][r]] /\ DOMAIN store[c] \subseteq 0..0
               /\ c \in DOMAIN panel => 0 \in DOMAIN store[c] /\ store[c][0].bundle = LegacyBundle(c)
    <3> DEFINE release == [bundle |-> LegacyBundle(c), checked |-> TRUE]
    <3>1. release.bundle = LegacyBundle(c)
      OBVIOUS
    <3>2. store[c] = IF c \in DOMAIN panel THEN Put(Empty, 0, release) ELSE Empty
      BY <1>5 DEF InitLegacy
    <3> HIDE DEF release
    <3> QED
      BY <3>1, <3>2 DEF Put, Empty
  <2>7. Types
    <3>1. store = [c \in Client |-> store[c]]
      BY <1>5 DEF InitLegacy
    <3> QED
      BY <1>1, <2>4, <2>5, <2>6, <3>1 DEF Types
  <2>8. Serves(BaseRoutes, BaseState)
    BY <1>2, <2>4, <2>5, RenderedServes
  <2>9. Releases
    <3>1. ASSUME NEW c \in DOMAIN panel PROVE Fits(store[c][0].bundle, c, state)
      <4>1. c \in Client
        BY <1>1 DEF IsPanel
      <4>2. store[c][0].bundle = LegacyBundle(c)
        BY <2>6, <4>1
      <4> QED
        BY <4>2 DEF LegacyBundle, render_user_bundle, OwnerShaped, Fits
    <3>2. DOMAIN state.users = DOMAIN panel /\ DOMAIN panel \subseteq Client
      BY <1>1, <2>1 DEF IsPanel
    <3> QED
      BY <1>1, <1>2, <2>3, <2>5, <2>6, <3>1, <3>2 DEF Releases
  <2>10. Revocation
    <3>1. ASSUME NEW k \in CoresOf(state) PROVE k[1] = 0
      <4>1. CASE k = Core(airport_access_token(state))
        <5>1. k = <<state.users[state.owner].token.op, state.users[state.owner].token.client, TRUE>>
          BY <2>1, <2>4, <4>1, AirportToken
        <5> QED
          BY <2>2, <2>3, <5>1
      <4>2. ASSUME NEW c \in DOMAIN state.users, k = Core(state.users[c].token) PROVE k[1] = 0
        BY <2>1, <2>3, <4>2 DEF Core
      <4> QED
        BY <2>4, <3>1, <4>1, <4>2, CoresFacts
    <3> QED
      BY <1>1, <1>2, <3>1 DEF Revocation
  <2> QED
    BY <1>3, <2>7, <2>8, <2>9, <2>10 DEF LinkInv
<1> QED
  BY <1>4, <1>5 DEF Init

LEMMA LinkNext == LinkInv /\ [Next]_vars => LinkInv'
<1> SUFFICES ASSUME LinkInv, [Next]_vars PROVE LinkInv'
  OBVIOUS
<1>1. CASE Panel
  BY <1>1, PanelNext
<1>2. CASE Recover
  BY <1>2, RecoverNext
<1>3. CASE Operation
  BY <1>3, SyncAllNext, RotateLinkNext, RotateAirportNext, RollbackNext, ReinitializeNext DEF Operation
<1>4. CASE Step
  <2>1. ASSUME NEW c \in Client, PrepareUser(c) \/ PrepareFails(c) \/ DiscardOfUncheckedFails(c)
        PROVE  LinkInv'
    BY <2>1, PrepareUserNext, PrepareFailsNext, DiscardOfUncheckedFailsNext
  <2> QED
    BY <1>4, <2>1, ActivateNext, ActivationFailsNext, RollbackFailsNext, DiscardNext, FinishNext DEF Step
<1>5. CASE Kill \/ KillBeforeCheck \/ KillInActivation
  BY <1>5, KillNext
<1>6. CASE UNCHANGED vars
  <2>1. /\ UNCHANGED <<state, routes, marker, live, undo, store, pc, job, revoked, ops>>
        /\ UNCHANGED <<panel, used>>
    BY <1>6 DEF vars, runtime, bounds
  <2>2. IsPanel(panel') /\ DOMAIN panel' \subseteq used'
    BY <2>1 DEF LinkInv, Types
  <2> QED
    BY <2>1, <2>2, PanelOnly
<1> QED
  BY <1>1, <1>2, <1>3, <1>4, <1>5, <1>6 DEF Next

\* The invariant of the published state and of the operation under way.
THEOREM LinkInvariant == Spec => []LinkInv
  BY LinkInit, LinkNext, PTL DEF Spec

-----------------------------------------------------------------------------
(* What is published *)

\* A token that was replaced is never served again: RevokedStaysRevoked.
THEOREM ReplacedTokensStayDead == Spec => []RevokedStaysRevoked
<1>1. LinkInv => RevokedStaysRevoked
  BY DEF LinkInv
<1> QED
  BY <1>1, LinkInvariant, PTL

\* The provider addresses inside the published profiles are served:
\* PublishedProvidersAreServed.
THEOREM PublishedProvidersAnswer == Spec => []PublishedProvidersAreServed
<1>1. LinkInv => PublishedProvidersAreServed
  <2> SUFFICES ASSUME LinkInv, undo = None, NEW r \in live, r.variant \in {"profile", "airport"},
                      OwnerShaped(store[r.client][r.release].bundle),
                      NEW t \in {store[r.client][r.release].bundle.provider,
                                 store[r.client][r.release].bundle.airport},
                      t.suffix = state.users[r.client].email
               PROVE  \E q \in live : q.variant = "provider" /\ q.token = t
    BY DEF PublishedProvidersAreServed
  <2> DEFINE c == r.client
  <2>1. /\ state # None /\ c \in DOMAIN state.users /\ state.users[c].release # None
        /\ r \in RoutesOf(state, c) /\ RoutesOf(state, c) \subseteq live
    BY DEF LinkInv, Serves, BaseState, BaseRoutes
  <2>2. r.release = state.users[c].release
    <3>1. \A q \in OwnerRoutes(state) : q.variant \in {"profile", "airport"} => q.release = state.users[state.owner].release
      BY DEF OwnerRoutes, Route
    <3>2. CASE r \in OwnerRoutes(state) /\ c = state.owner
      BY <3>1, <3>2
    <3>3. CASE r = Route(state.users[c].token, c, state.users[c].release, "profile")
      BY <3>3 DEF Route
    <3> QED
      BY <2>1, <3>2, <3>3 DEF RoutesOf
  <2>3. Fits(store[c][r.release].bundle, c, state)
    BY <2>1, <2>2 DEF LinkInv, Releases, BaseState, BaseMarker
  <2>4. c = state.owner /\ t \in {state.users[c].token, airport_access_token(state)}
    BY <2>3 DEF Fits
  <2>5. Route(t, c, None, "provider") \in live
    BY <2>1, <2>4 DEF RoutesOf, OwnerRoutes
  <2> QED
    BY <2>5 DEF Route
<1> QED
  BY <1>1, LinkInvariant, PTL

\* A user whose part of a sync fails keeps the published addresses:
\* FailedUserKeepsLinks.
THEOREM FailedUsersKeepTheirLinks == Spec => FailedUserKeepsLinks
<1>1. ASSUME LinkInv, [Next]_vars, pc = "activate", pc' = "finish",
             NEW r \in live, r.client \in job.failed
      PROVE  r \in live'
  <2> DEFINE c == r.client
  <2>1. Activate
    BY <1>1 DEF Next, Panel, AddClient, DeleteClient, RenameClient, ReplaceClient, EnableOrDisable,
        ChangeNodes, ChangePanel, Recover, Operation, SyncAll, RotateAirportLink, RotateLink, Rollback,
        ReinitializeOwner, Begin, Step, PrepareUser, PrepareFails, DiscardOfUncheckedFails,
        ActivationFails, RollbackFails, Fails, Leave, Discard, DiscardFails, Finish, PruneFails,
        Kill, KillBeforeCheck, KillInActivation, Killed, vars
  <2>2. /\ JobTypes /\ JobFailures /\ Plain /\ undo = None /\ live = routes
        /\ c \in DOMAIN job.clients /\ job.clients[c].enabled /\ c \in DOMAIN Nxt.users
    BY <1>1 DEF LinkInv, JobInv, JobTypes, Deciding, Types
  <2>3. /\ state # None /\ c \in DOMAIN state.users /\ state.users[c].release # None
        /\ r \in RoutesOf(state, c)
    BY <1>1, <2>2 DEF LinkInv, Serves, BaseState, BaseRoutes
  <2>4. IsLinkState(state) /\ state.users[c] \in UserState
    BY <1>1, <2>3 DEF LinkInv, Types, IsLinkState
  <2>5. /\ Nxt.owner = state.owner /\ Nxt.airport = state.airport
        /\ Nxt.users[c] = [state.users[c] EXCEPT !.active = TRUE]
    BY <1>1, <2>2, <2>3 DEF JobFailures
  <2>6. /\ Nxt.users[c].token = state.users[c].token /\ Nxt.users[c].release = state.users[c].release
        /\ Nxt.users[c].active
    BY <2>4, <2>5 DEF UserState
  <2>7. c = state.owner => airport_access_token(Nxt) = airport_access_token(state)
    BY <2>5, <2>6 DEF airport_access_token
  <2>8. r \in RoutesOf(Nxt, c)
    BY <2>3, <2>5, <2>6, <2>7 DEF RoutesOf, OwnerRoutes
  <2>9. c \in Routed(Nxt, job.clients)
    BY <2>2, <2>3, <2>6 DEF Routed
  <2>10. r \in NewRoutes
    BY <2>8, <2>9 DEF NewRoutes, render_routes, RoutesOf, Nxt
  <2> QED
    BY <2>1, <2>2, <2>10 DEF Activate, Reloaded
<1>2. LinkInv /\ [Next]_vars =>
        [pc = "activate" /\ pc' = "finish" => \A r \in live : r.client \in job.failed => r \in live']_vars
  BY <1>1
<1> QED
  BY <1>2, LinkInvariant, PTL DEF Spec, FailedUserKeepsLinks

\* The owner's airport address survives every operation but its own rotation,
\* a migration and a new email of the owner: AirportAddressSurvives.
THEOREM AirportAddressStays == Spec => AirportAddressSurvives
<1>1. ASSUME LinkInv, [Next]_vars, state # None, state' # None, state.version = 2, state'.version = 2,
             pc = "activate", job.op # "rotate_airport",
             state'.owner = state.owner => state'.users[state.owner].email = state.users[state.owner].email
      PROVE  airport_access_token(state') = airport_access_token(state)
  <2>1. state' = state \/ state' = Nxt
    BY <1>1 DEF Next, Panel, AddClient, DeleteClient, RenameClient, ReplaceClient, EnableOrDisable,
        ChangeNodes, ChangePanel, Recover, Operation, SyncAll, RotateAirportLink, RotateLink, Rollback,
        ReinitializeOwner, Begin, Step, PrepareUser, PrepareFails, DiscardOfUncheckedFails, Activate,
        ActivationFails, RollbackFails, Mixture, Discard, DiscardFails, Finish, PruneFails,
        Kill, KillBeforeCheck, KillInActivation, vars, runtime, Nxt
  <2>2. CASE state' = Nxt
    <3>1. JobAirport /\ IsLinkState(state)
      BY <1>1 DEF LinkInv, JobInv, Deciding, Types
    <3>2. CASE Nxt.airport # None /\ Nxt.airport = airport_access_token(state)
      BY <2>2, <3>2 DEF airport_access_token
    <3>3. CASE /\ Nxt.airport = None /\ state.airport = None /\ Nxt.owner = state.owner
               /\ Nxt.users[Nxt.owner].token =
                    [state.users[Nxt.owner].token EXCEPT !.suffix = Nxt.users[Nxt.owner].email]
      <4>1. /\ state.users[state.owner].token \in Token
            /\ state.users[state.owner].token.suffix = Nxt.users[Nxt.owner].email
        BY <1>1, <2>2, <3>1, <3>3 DEF IsLinkState, UserState
      <4>2. Nxt.users[Nxt.owner].token = state.users[state.owner].token
        BY <3>3, <4>1, SameSuffix
      <4>3. airport_access_token(Nxt) = airport_access_token(state)
        BY <3>3, <4>2, SameAirport
      <4> QED
        BY <2>2, <4>3
    <3> QED
      BY <1>1, <2>2, <3>1, <3>2, <3>3 DEF JobAirport
  <2> QED
    BY <2>1, <2>2
<1>2. LinkInv /\ [Next]_vars =>
        [state # None /\ state' # None /\ state.version = 2 /\ state'.version = 2
           /\ pc = "activate" /\ job.op # "rotate_airport"
           /\ (state'.owner = state.owner =>
                state'.users[state.owner].email = state.users[state.owner].email) =>
             airport_access_token(state') = airport_access_token(state)]_vars
  BY <1>1
<1> QED
  BY <1>2, LinkInvariant, PTL DEF Spec, AirportAddressSurvives

-----------------------------------------------------------------------------
(* A sync publishes everyone *)

\* What depends on the store and the published state only
LEMMA MarkStays ==
    ASSUME NEW s, NEW n, NEW c \in DOMAIN s.users, NEW r, MarkOf(s, c, r),
           c \in DOMAIN n.users, n.owner = s.owner, n.users[c].token.op = s.users[c].token.op,
           n.users[c].release = s.users[c].release
    PROVE  MarkOf(n, c, r)
  BY DEF MarkOf

\* An operation has begun, without effect yet.
LEMMA BeginSync ==
    ASSUME LinkInv, SyncInv, NEW op, NEW identities, NEW next, NEW todo, NEW cands,
           Begin(op, identities, next, todo, cands), DOMAIN cands \subseteq DOMAIN panel,
           \A c \in DOMAIN panel : c \in Client /\ marker[c] # None => MarkOf(next, c, marker[c]),
           op = "sync" => /\ cands = Empty /\ todo = {c \in DOMAIN panel : panel[c].enabled}
                          /\ \A c \in todo : /\ identities.users[c].active
                                             /\ identities.users[c].token.suffix = panel[c].email
    PROVE  SyncInv'
<1>1. /\ pc = "idle" /\ undo = None /\ pc' \in {"activate", "prepare"}
      /\ UNCHANGED <<panel, used, state, marker, live, undo, store>>
      /\ job' = [op |-> op, clients |-> panel, identities |-> identities, next |-> next,
                 todo |-> todo, cands |-> cands, failed |-> {}]
  BY DEF Begin, runtime
<1>2. BaseState' = BaseState /\ BaseMarker' = BaseMarker
  BY <1>1 DEF BaseState, BaseMarker
<1>3. Marks'
  BY <1>1, <1>2 DEF SyncInv, Marks, MarkOf
<1>4. Origins'
  BY <1>1 DEF SyncInv, Origins
<1>5. JobMarks'
  <2>1. DOMAIN panel \subseteq used
    BY DEF LinkInv, Types
  <2>2. \A c \in DOMAIN panel : c \in Client /\ marker[c] # None => MarkOf(next, c, marker[c])'
    BY <1>1 DEF MarkOf
  <2> QED
    BY <1>1, <2>1, <2>2 DEF JobMarks, Nxt
<1>6. JobSync'
  BY <1>1 DEF JobSync, Ids, Nxt
<1> QED
  BY <1>1, <1>3, <1>4, <1>5, <1>6 DEF SyncInv, SyncPublishesEveryone

\* The records of the published users keep their release and their token.
LEMMA CurrentMarks ==
    ASSUME LinkInv, SyncInv, undo = None, CanReconcile(state, panel), NEW c \in DOMAIN panel, c \in Client,
           marker[c] # None
    PROVE  MarkOf(Current, c, marker[c]) /\ c \in DOMAIN Current.users
<1>1. state # None /\ MarkOf(state, c, marker[c])
  BY DEF SyncInv, Marks, BaseState, BaseMarker
<1>2. c \in DOMAIN state.users
  BY <1>1 DEF MarkOf
<1>3. /\ Current.users[c].token = state.users[c].token /\ Current.users[c].release = state.users[c].release
      /\ Reconciled(Current, state, panel, Op)
  BY <1>1, <1>2, CurrentFacts
<1>4. Current.owner = state.owner /\ c \in DOMAIN Current.users
  BY <1>1, <1>2, <1>3 DEF Reconciled
<1> QED
  BY <1>1, <1>2, <1>3, <1>4, MarkStays

LEMMA SyncAllSync == LinkInv /\ SyncInv /\ SyncAll => SyncInv'
<1> SUFFICES ASSUME LinkInv, SyncInv, SyncAll PROVE SyncInv'
  OBVIOUS
<1> DEFINE cur == Current
           ids == prepare_link_update(cur, panel, Op)
           nxt == IF Migrating THEN ids ELSE cur
           enabled == {c \in DOMAIN panel : panel[c].enabled}
<1>1. /\ Begin("sync", ids, nxt, enabled, Empty) /\ CanReconcile(state, panel) /\ undo = None
      /\ IsPanel(panel) /\ ops \in Nat /\ Op \in Nat /\ (state = None \/ IsLinkState(state))
  BY DEF SyncAll, Begin, LinkInv, Types, Op
<1>2. Reconciled(cur, state, panel, Op) /\ IsLinkState(cur)
  BY <1>1, CurrentFacts
<1>3. \A c \in DOMAIN panel : c \in Client /\ marker[c] # None => MarkOf(cur, c, marker[c]) /\ c \in DOMAIN cur.users
  BY <1>1, CurrentMarks
<1> HIDE DEF cur
<1>4. cur.owner \in DOMAIN panel
  BY <1>2 DEF IsLinkState, Reconciled
<1>5. Updated(ids, cur, panel, Op)
  BY <1>1, <1>2, <1>4, LinkUpdateFacts
<1> HIDE DEF ids
<1>6. Migrating => cur.version = 1
  BY <1>1, <1>2 DEF Migrating, Reconciled
<1>7. ASSUME NEW c \in DOMAIN panel, c \in Client, marker[c] # None PROVE MarkOf(nxt, c, marker[c])
  <2>1. CASE Migrating
    <3>1. /\ c \in DOMAIN ids.users /\ ids.owner = cur.owner
          /\ ids.users[c].release = cur.users[c].release
          /\ ids.users[c].token = NewToken(Op, c, ids.users[c].email)
      BY <1>3, <1>5, <1>6, <1>7, <2>1 DEF Updated
    <3>2. ids.users[c].token.op = Op
      BY <3>1, NewTokenFacts
    <3>3. marker[c] \in DOMAIN store[c] /\ marker[c] \in Nat /\ marker[c] <= ops
      BY <1>1, <1>7 DEF LinkInv, Types, Releases, BaseMarker
    <3>4. LET t == store[c][marker[c]].bundle.provider IN t # None => t.op < Op
      BY <1>1, <1>7, <3>3 DEF SyncInv, Origins, Op
    <3>5. MarkOf(cur, c, marker[c])
      BY <1>3, <1>7
    <3>6. MarkOf(ids, c, marker[c])
      BY <3>1, <3>2, <3>4, <3>5 DEF MarkOf
    <3> QED
      BY <2>1, <3>6
  <2>2. CASE ~Migrating
    BY <1>3, <1>7, <2>2
  <2> QED
    BY <2>1, <2>2
<1>8. ASSUME NEW c \in enabled PROVE ids.users[c].active /\ ids.users[c].token.suffix = panel[c].email
  <2>1. c \in DOMAIN panel /\ panel[c].enabled /\ c \in Client /\ panel[c] \in Account
    BY <1>1 DEF IsPanel
  <2>2. c \in DOMAIN cur.users /\ c \in DOMAIN ids.users
    BY <1>2, <1>5, <2>1 DEF Reconciled, Updated
  <2>3. cur.users[c].active
    <3>1. CASE state # None /\ c \in DOMAIN state.users
      <4>1. /\ cur.users[c] = [state.users[c] EXCEPT !.active = c \in DOMAIN panel /\ panel[c].enabled]
            /\ state.users[c] \in UserState
        BY <1>1, <1>2, <3>1 DEF Reconciled, IsLinkState
      <4>2. (c \in DOMAIN panel /\ panel[c].enabled) = TRUE
        BY <2>1
      <4>3. cur.users[c] = [state.users[c] EXCEPT !.active = TRUE]
        BY <4>1, <4>2
      <4> QED
        BY <4>1, <4>3 DEF UserState
    <3>2. CASE state = None \/ c \notin DOMAIN state.users
      <4>1. cur.users[c] = NewUser(Op, c, cur.version, panel[c]) /\ cur.version \in {1, 2}
        BY <1>2, <2>1, <3>2 DEF Reconciled, IsLinkState
      <4> QED
        BY <1>1, <2>1, <4>1, NewUserFacts
    <3> QED
      BY <3>1, <3>2
  <2>4. ids.users[c].active = cur.users[c].active /\ ids.users[c].email = panel[c].email
    BY <1>5, <2>1, <2>2 DEF Updated
  <2>5. ids.users[c].token.suffix = ids.users[c].email
    BY <1>5, <2>2 DEF Updated, IsLinkState
  <2> QED
    BY <2>3, <2>4, <2>5
<1>9. DOMAIN Empty \subseteq DOMAIN panel
  BY DEF Empty
<1> HIDE DEF nxt
<1> QED
  BY <1>1, <1>7, <1>8, <1>9, BeginSync

LEMMA RotateLinkSync == ASSUME LinkInv, SyncInv, NEW c \in Client, RotateLink(c) PROVE SyncInv'
<1> DEFINE cur == Current
           nxt == rotate_user_token(cur, c, Op)
           todo == {c} \cap {cur.owner}
<1>1. /\ Begin("rotate", nxt, nxt, todo, Empty) /\ CanReconcile(state, panel) /\ undo = None
      /\ c \in DOMAIN panel /\ cur.version = 2 /\ cur.users[c].release # None /\ Op \in Nat
  BY DEF RotateLink, Published, Begin, LinkInv, Types, Op
<1>2. Reconciled(cur, state, panel, Op) /\ IsLinkState(cur)
  BY <1>1, CurrentFacts
<1>3. \A d \in DOMAIN panel : d \in Client /\ marker[d] # None => MarkOf(cur, d, marker[d]) /\ d \in DOMAIN cur.users
  BY <1>1, CurrentMarks
<1> HIDE DEF cur
<1>4. c \in DOMAIN cur.users /\ cur.users[c] \in UserState
  BY <1>1, <1>2 DEF Reconciled, IsLinkState
<1>5. Relinked(nxt, cur, c, Op)
  BY <1>1, <1>2, <1>4, RotateFacts
<1> HIDE DEF nxt
<1>6. ASSUME NEW d \in DOMAIN panel, d \in Client, marker[d] # None PROVE MarkOf(nxt, d, marker[d])
  <2>1. MarkOf(cur, d, marker[d]) /\ d \in DOMAIN cur.users
    BY <1>3, <1>6
  <2>2. CASE d = c
    <3>1. nxt.users[c] = [cur.users[c] EXCEPT !.token = NewToken(Op, c, cur.users[c].email)]
      BY <1>5 DEF Relinked
    <3>2. nxt.users[c].release = cur.users[c].release
      BY <1>4, <3>1 DEF UserState
    <3> QED
      BY <1>1, <1>4, <1>5, <2>2, <3>2 DEF MarkOf, Relinked
  <2>3. CASE d # c
    <3>1. nxt.users[d] = cur.users[d] /\ d \in DOMAIN nxt.users /\ nxt.owner = cur.owner
      BY <1>5, <2>1, <2>3 DEF Relinked
    <3> QED
      BY <2>1, <3>1, MarkStays
  <2> QED
    BY <2>2, <2>3
<1>7. DOMAIN Empty \subseteq DOMAIN panel
  BY DEF Empty
<1> QED
  BY <1>1, <1>6, <1>7, BeginSync

LEMMA RotateAirportSync == LinkInv /\ SyncInv /\ RotateAirportLink => SyncInv'
<1> SUFFICES ASSUME LinkInv, SyncInv, RotateAirportLink PROVE SyncInv'
  OBVIOUS
<1> DEFINE cur == Current
           nxt == [cur EXCEPT !.airport = NewToken(Op, cur.owner, "airport")]
<1>1. /\ Begin("rotate_airport", nxt, nxt, {cur.owner}, Empty) /\ CanReconcile(state, panel) /\ undo = None
  BY DEF RotateAirportLink, Begin
<1>2. IsLinkState(cur)
  BY <1>1, CurrentFacts
<1>3. \A d \in DOMAIN panel : d \in Client /\ marker[d] # None => MarkOf(cur, d, marker[d]) /\ d \in DOMAIN cur.users
  BY <1>1, CurrentMarks
<1> HIDE DEF cur
<1>4. nxt.owner = cur.owner /\ nxt.users = cur.users
  BY <1>2 DEF IsLinkState
<1> HIDE DEF nxt
<1>5. \A d \in DOMAIN panel : d \in Client /\ marker[d] # None => MarkOf(nxt, d, marker[d])
  BY <1>3, <1>4 DEF MarkOf
<1>6. DOMAIN Empty \subseteq DOMAIN panel
  BY DEF Empty
<1> QED
  BY <1>1, <1>5, <1>6, BeginSync

LEMMA RollbackSync == ASSUME LinkInv, SyncInv, NEW c \in Client, Rollback(c) PROVE SyncInv'
<1> DEFINE cur == Current
<1>1. PICK r \in DOMAIN store[c] :
        Begin("rollback", cur, [cur EXCEPT !.users[c].release = r], {}, Put(Empty, c, r))
  BY DEF Rollback
<1> DEFINE nxt == [cur EXCEPT !.users[c].release = r]
           user == [cur.users[c] EXCEPT !.release = r]
           cands == Put(Empty, c, r)
<1>2. CanReconcile(state, panel) /\ undo = None /\ c \in DOMAIN panel
  BY <1>1 DEF Rollback, Published, Begin
<1>3. Reconciled(cur, state, panel, Op) /\ IsLinkState(cur)
  BY <1>2, CurrentFacts
<1>4. \A d \in DOMAIN panel : d \in Client /\ marker[d] # None => MarkOf(cur, d, marker[d]) /\ d \in DOMAIN cur.users
  BY <1>2, CurrentMarks
<1> HIDE DEF cur
<1>5. DOMAIN cands = {c}
  BY DEF Put, Empty
<1>6. c \in DOMAIN cur.users /\ cur.users[c] \in UserState /\ r \in Nat
  BY <1>2, <1>3 DEF Reconciled, IsLinkState, LinkInv, Types
<1>7. user.release = r /\ r # None
  BY <1>6, LinkAssumption DEF UserState
<1>8. nxt.owner = cur.owner /\ nxt.users = [cur.users EXCEPT ![c] = user]
  BY <1>3 DEF IsLinkState
<1> HIDE DEF nxt, user, cands
<1>9. /\ DOMAIN nxt.users = DOMAIN cur.users /\ nxt.users[c] = user
      /\ \A d \in DOMAIN cur.users : d # c => nxt.users[d] = cur.users[d]
  BY <1>6, <1>8
<1>10. ASSUME NEW d \in DOMAIN panel, d \in Client, marker[d] # None PROVE MarkOf(nxt, d, marker[d])
  <2>1. MarkOf(cur, d, marker[d]) /\ d \in DOMAIN cur.users
    BY <1>4, <1>10
  <2>2. CASE d = c
    BY <1>6, <1>7, <1>9, <2>2 DEF MarkOf
  <2>3. CASE d # c
    BY <1>8, <1>9, <2>1, <2>3, MarkStays
  <2> QED
    BY <2>2, <2>3
<1>11. Begin("rollback", cur, nxt, {}, cands)
  BY <1>1 DEF nxt, cands
<1> QED
  BY <1>2, <1>5, <1>10, <1>11, BeginSync

LEMMA ReinitializeSync == ASSUME LinkInv, SyncInv, NEW c \in Client, ReinitializeOwner(c) PROVE SyncInv'
<1> DEFINE nxt == reinitialize_owner(state, panel, c, Op)
<1>1. /\ Begin("reinitialize", nxt, nxt, {}, Empty) /\ CanReinitialize(state, panel, c) /\ undo = None
      /\ IsPanel(panel) /\ ops \in Nat /\ Op \in Nat /\ (state = None \/ IsLinkState(state))
  BY DEF ReinitializeOwner, Begin, LinkInv, Types, Op
<1>2. Reinitialized(nxt, state, panel, c, Op)
  BY <1>1, ReinitializeFacts
<1> HIDE DEF nxt
<1>3. ASSUME NEW d \in DOMAIN panel, d \in Client, marker[d] # None PROVE MarkOf(nxt, d, marker[d])
  <2>1. state # None /\ MarkOf(state, d, marker[d]) /\ d \in DOMAIN state.users
    BY <1>1, <1>3 DEF SyncInv, Marks, BaseState, BaseMarker, MarkOf
  <2>2. CASE d # c
    <3>1. d # state.owner
      BY <1>1, <1>3 DEF CanReinitialize
    <3>2. state.users[d].release # None
      BY <2>1, <3>1 DEF MarkOf
    <3>3. nxt.users[d] = [state.users[d] EXCEPT !.active = panel[d].enabled] /\ state.users[d] \in UserState
      BY <1>2, <1>3, <2>1, <2>2 DEF Reinitialized, IsLinkState
    <3>4. panel[d].enabled \in BOOLEAN
      BY <1>1 DEF IsPanel, Account
    <3>5. nxt.users[d].release = state.users[d].release
      BY <3>3, <3>4 DEF UserState
    <3> QED
      BY <1>2, <3>2, <3>5 DEF MarkOf, Reinitialized
  <2>3. CASE d = c
    <3>1. nxt.users[c] = NewUser(Op, c, nxt.version, panel[c]) /\ nxt.owner = c /\ c \in DOMAIN nxt.users
      BY <1>2, <1>3, <2>3 DEF Reinitialized
    <3>2. nxt.users[c].token.op = Op
      BY <3>1 DEF NewUser, NewToken
    <3>3. marker[c] \in DOMAIN store[c] /\ marker[c] \in Nat /\ marker[c] <= ops
      BY <1>1, <1>3, <2>3 DEF LinkInv, Types, Releases, BaseMarker
    <3>4. LET t == store[c][marker[c]].bundle.provider IN t # None => t.op < Op
      BY <1>1, <3>3 DEF SyncInv, Origins, Op
    <3> QED
      BY <2>3, <3>1, <3>2, <3>4 DEF MarkOf
  <2> QED
    BY <2>2, <2>3
<1>4. DOMAIN Empty \subseteq DOMAIN panel
  BY DEF Empty
<1> QED
  BY <1>1, <1>3, <1>4, BeginSync

\* The published releases, the state and the panel stay as they are.
LEMMA StepSync ==
    ASSUME LinkInv, SyncInv, UNCHANGED <<panel, used, live>>, KeepsStore,
           BaseState' = BaseState, BaseMarker' = BaseMarker, Origins', pc' # "finish",
           Deciding' => JobMarks' /\ JobSync'
    PROVE  SyncInv'
<1>1. Marks'
  <2> SUFFICES ASSUME NEW c \in Client, BaseMarker[c] # None
               PROVE  /\ c \in used
                      /\ c \in DOMAIN panel => BaseState # None /\ MarkOf(BaseState, c, BaseMarker[c])'
    BY DEF Marks
  <2>1. c \in used /\ (c \in DOMAIN panel => BaseState # None /\ MarkOf(BaseState, c, BaseMarker[c]))
    BY DEF SyncInv, Marks
  <2>2. store'[c][BaseMarker[c]] = store[c][BaseMarker[c]]
    BY DEF KeepsStore
  <2> QED
    BY <2>1, <2>2 DEF MarkOf
<1> QED
  BY <1>1 DEF SyncInv, SyncPublishesEveryone

\* Releases that are removed leave the others as they are.
LEMMA FewerOrigins ==
    ASSUME SyncInv, Removes \/ UNCHANGED store PROVE Origins'
  BY DEF SyncInv, Origins, Removes

\* A bundle names tokens that are no younger than its release.
LEMMA AddOrigins ==
    ASSUME LinkInv, SyncInv, pc = "prepare", NEW c \in Client, c \in job.todo, NEW checked, store' = Add(c, checked)
    PROVE  Origins'
<1>1. /\ JobTypes /\ JobCores /\ ops \in Nat /\ IsLinkState(Nxt) /\ IsLinkState(Ids)
      /\ c \in DOMAIN Ids.users /\ c \in DOMAIN Nxt.users /\ undo = None
  BY DEF LinkInv, JobInv, Deciding, JobTypes, Types
<1>2. Ids.users[c].token.op = Core(Nxt.users[c].token)[1]
  BY <1>1 DEF JobCores, Core
<1>3. Core(Nxt.users[c].token) \in CoresOf(state) \/ Core(Nxt.users[c].token)[1] = ops
  BY <1>1, CoresFacts DEF JobCores
<1>4. Ids.users[c].token.op \in Nat /\ Ids.users[c].token.op <= ops
  BY <1>1, <1>2, <1>3 DEF LinkInv, Revocation, BaseState
<1>5. LET t == BundleOf(c).provider IN t # None => t.op \in Nat /\ t.op <= ops
  BY <1>4 DEF BundleOf, render_user_bundle, Ids
<1>6. /\ store'[c][ops].bundle = BundleOf(c)
      /\ \A d \in Client : d # c => store'[d] = store[d]
      /\ \A r \in DOMAIN store[c] : r # ops => r \in DOMAIN store'[c] /\ store'[c][r] = store[c][r]
  BY AddFacts
<1>7. DOMAIN store'[c] \subseteq DOMAIN store[c] \cup {ops}
  <2>1. store' = [store EXCEPT ![c] = Put(store[c], ops, [bundle |-> BundleOf(c), checked |-> checked])]
    BY DEF Add
  <2>2. store = [d \in Client |-> store[d]]
    BY DEF LinkInv, Types
  <2>3. store'[c] = Put(store[c], ops, [bundle |-> BundleOf(c), checked |-> checked])
    BY <2>1, <2>2
  <2> QED
    BY <2>3 DEF Put
<1> QED
  BY <1>5, <1>6, <1>7 DEF SyncInv, Origins

\* Whoever gets no candidate has a release that is published: a user without
\* one whose marker's release is the same is a new owner, and that release
\* names an older token.
LEMMA TakeOverSync ==
    ASSUME LinkInv, SyncInv, pc = "prepare", NEW c \in Client, c \in job.todo, NEW release \in Nat \cup {None},
           NEW cands, NEW next, TakesOver(c, release, cands, next), UNCHANGED <<panel, used>>
    PROVE  JobMarks' /\ JobSync'
<1> DEFINE user == Prepared(c, release)
           users == Put(Nxt.users, c, user)
           todo == job.todo \ {c}
<1>1. /\ JobTypes /\ JobCores /\ JobReleases /\ JobMarks /\ JobSync /\ undo = None /\ KeepsStore
      /\ UNCHANGED <<marker, state>> /\ ops \in Nat
  BY DEF LinkInv, JobInv, SyncInv, Deciding, JobTypes, TakesOver, Types
<1>2. /\ IsLinkState(Ids) /\ IsLinkState(Nxt) /\ Ids.owner = Nxt.owner
      /\ c \in DOMAIN Ids.users /\ c \in DOMAIN Nxt.users
      /\ c \in DOMAIN job.clients /\ c \notin DOMAIN job.cands
      /\ Ids.users[c] \in UserState /\ Nxt.users[c] \in UserState
  BY <1>1 DEF JobTypes, IsLinkState
<1>3. /\ user.release = release /\ user.token = Ids.users[c].token /\ user.active = Ids.users[c].active
  BY <1>2 DEF Prepared, UserState, Ids
<1>4. release # None
  <2>1. CASE release = ops
    BY <1>1, <2>1, LinkAssumption
  <2>2. CASE Unchanged(c) /\ release = Ids.users[c].release
    <3> SUFFICES ASSUME release = None PROVE FALSE
      OBVIOUS
    <3>1. marker[c] # None /\ store[c][marker[c]].bundle = BundleOf(c)
      BY <2>2 DEF Unchanged
    <3>2. MarkOf(Nxt, c, marker[c]) /\ Nxt.users[c].release = None
      BY <1>1, <1>2, <2>2, <3>1 DEF JobMarks, JobReleases
    <3>3. c = Nxt.owner /\ (BundleOf(c).provider # None => BundleOf(c).provider.op < Nxt.users[c].token.op)
      BY <3>1, <3>2 DEF MarkOf
    <3>4. BundleOf(c).provider = Ids.users[c].token
      BY <1>2, <3>3 DEF BundleOf, render_user_bundle, Ids
    <3>5. Ids.users[c].token # None /\ Ids.users[c].token.op = Nxt.users[c].token.op /\ Nxt.users[c].token.op \in Nat
      BY <1>1, <1>2, LinkAssumption DEF JobCores, Core, UserState, Token
    <3> QED
      BY <3>3, <3>4, <3>5
  <2> QED
    BY <2>1, <2>2 DEF TakesOver
<1> HIDE DEF user
<1>5. /\ DOMAIN users = DOMAIN Nxt.users /\ users[c] = user
      /\ \A d \in DOMAIN Nxt.users : d # c => users[d] = Nxt.users[d]
  BY <1>2 DEF Put
<1>6. /\ job'.op = job.op /\ job'.clients = job.clients /\ Ids' = Ids /\ Nxt' = next
      /\ job'.todo = todo /\ job'.cands = cands /\ job'.failed = job.failed
      /\ next.owner = Nxt.owner /\ next.users = users
  BY DEF TakesOver, Ids, Nxt, user
<1>7. DOMAIN cands \subseteq DOMAIN job.cands \cup {c}
  BY DEF TakesOver, Put
<1> HIDE DEF users, todo
<1>8. ASSUME NEW d \in Client, marker[d] # None, MarkOf(Nxt, d, marker[d]) PROVE MarkOf(Nxt, d, marker[d])'
  <2>1. store'[d][marker[d]] = store[d][marker[d]]
    BY <1>1, <1>8 DEF KeepsStore, BaseMarker
  <2>2. d \in DOMAIN Nxt.users
    BY <1>8 DEF MarkOf
  <2>3. CASE d = c
    BY <1>3, <1>4, <1>5, <1>6, <2>2, <2>3 DEF MarkOf
  <2>4. CASE d # c
    <3>1. Nxt'.owner = Nxt.owner /\ d \in DOMAIN Nxt'.users /\ Nxt'.users[d] = Nxt.users[d] /\ marker' = marker
      BY <1>1, <1>5, <1>6, <2>2, <2>4
    <3> QED
      BY <1>8, <2>1, <3>1 DEF MarkOf
  <2> QED
    BY <2>3, <2>4
<1>9. JobMarks'
  BY <1>1, <1>2, <1>6, <1>7, <1>8 DEF JobMarks
<1>10. JobSync'
  <2>1. ASSUME job.op = "sync", NEW d \in todo
        PROVE  Ids.users[d].active /\ Ids.users[d].token.suffix = job.clients[d].email
    BY <1>1, <2>1 DEF JobSync, todo
  <2>2. ASSUME job.op = "sync", NEW d \in DOMAIN job.clients \ (todo \cup job.failed), job.clients[d].enabled
        PROVE  /\ d \in DOMAIN users /\ users[d].active /\ users[d].release # None
               /\ users[d].token.suffix = job.clients[d].email
    <3>1. CASE d = c
      BY <1>1, <1>2, <1>3, <1>4, <1>5, <2>2, <3>1 DEF JobSync
    <3>2. CASE d # c
      BY <1>1, <1>5, <2>2, <3>2 DEF JobSync, todo
    <3> QED
      BY <3>1, <3>2
  <2> QED
    BY <1>6, <2>1, <2>2 DEF JobSync
<1> QED
  BY <1>9, <1>10

LEMMA PrepareUserSync == ASSUME LinkInv, SyncInv, NEW c \in Client, PrepareUser(c) PROVE SyncInv'
<1>1. /\ pc = "prepare" /\ c \in job.todo /\ KeepsStore
      /\ pc' \in {"prepare", "activate", "discard"}
      /\ UNCHANGED <<panel, used, state, marker, live, undo>>
      /\ UNCHANGED store \/ store' = Add(c, TRUE)
  BY PrepareUserFacts
<1>2. PICK release \in Nat \cup {None} : \E cands, next : TakesOver(c, release, cands, next)
  BY PrepareUserFacts
<1>3. PICK cands, next : TakesOver(c, release, cands, next)
  BY <1>2
<1>4. JobMarks' /\ JobSync'
  BY <1>1, <1>3, TakeOverSync
<1>5. Origins'
  BY <1>1, FewerOrigins, AddOrigins
<1>6. BaseState' = BaseState /\ BaseMarker' = BaseMarker
  BY <1>1 DEF BaseState, BaseMarker
<1> QED
  BY <1>1, <1>4, <1>5, <1>6, StepSync

LEMMA PrepareFailsSync == ASSUME LinkInv, SyncInv, NEW c \in Client, PrepareFails(c) PROVE SyncInv'
<1>1. /\ pc = "prepare" /\ c \in job.todo /\ pc' \in {"prepare", "activate", "discard"}
      /\ UNCHANGED <<panel, used, state, marker, live, undo, store>>
  BY DEF PrepareFails, AfterPreparing, runtime
<1>2. /\ Ids' = Ids /\ Nxt' = Nxt /\ job'.op = job.op /\ job'.clients = job.clients
      /\ job'.cands = job.cands /\ job'.todo = job.todo \ {c} /\ job'.failed = job.failed \cup {c}
  <2> DEFINE todo == job.todo \ {c}
             j1 == [job EXCEPT !.todo = todo]
  <2>1. job = [op |-> job.op, clients |-> job.clients, identities |-> Ids, next |-> Nxt,
               todo |-> job.todo, cands |-> job.cands, failed |-> job.failed]
    BY <1>1 DEF LinkInv, JobInv, JobTypes, Deciding
  <2>2. job' = [j1 EXCEPT !.failed = j1.failed \cup {c}]
    BY DEF PrepareFails
  <2> HIDE DEF todo
  <2>3. j1 = [op |-> job.op, clients |-> job.clients, identities |-> Ids, next |-> Nxt,
              todo |-> todo, cands |-> job.cands, failed |-> job.failed]
    BY <2>1
  <2> HIDE DEF j1
  <2>4. job' = [op |-> job.op, clients |-> job.clients, identities |-> Ids, next |-> Nxt,
                todo |-> todo, cands |-> job.cands, failed |-> job.failed \cup {c}]
    BY <2>2, <2>3
  <2> QED
    BY <2>4 DEF Ids, Nxt, todo
<1>3. JobMarks /\ JobSync
  BY <1>1 DEF SyncInv, Deciding
<1>4. JobMarks'
  BY <1>1, <1>2, <1>3 DEF JobMarks, MarkOf
<1>5. JobSync'
  BY <1>1, <1>2, <1>3 DEF JobSync
<1>6. BaseState' = BaseState /\ BaseMarker' = BaseMarker
  BY <1>1 DEF BaseState, BaseMarker
<1> QED
  BY <1>1, <1>4, <1>5, <1>6, StoreStays, FewerOrigins, StepSync

\* The operation is over.
LEMMA EndSync ==
    ASSUME LinkInv, SyncInv, UNCHANGED <<panel, used, live>>, pc' \in {"idle", "discard"}, KeepsStore, Origins',
           BaseState' = BaseState, BaseMarker' = BaseMarker
    PROVE  SyncInv'
  BY StepSync DEF Deciding

LEMMA ActivateSync == LinkInv /\ SyncInv /\ Activate => SyncInv'
<1> SUFFICES ASSUME LinkInv, SyncInv, Activate PROVE SyncInv'
  OBVIOUS
<1>1. /\ pc = "activate" /\ state' = Nxt /\ marker' = NewMarker /\ live' = Reloaded(NewRoutes)
      /\ pc' = (IF job.op = "sync" THEN "finish" ELSE "idle") /\ (job.op = "sync" => UNCHANGED job)
      /\ UNCHANGED <<panel, used, undo, store>>
  BY DEF Activate, Leave, Nxt
<1>2. /\ JobTypes /\ JobReleases /\ JobMarks /\ JobSync /\ undo = None /\ live = routes /\ IsLinkState(Nxt)
  BY <1>1 DEF LinkInv, SyncInv, JobInv, Deciding, JobTypes, Types
<1>3. /\ \A d \in DOMAIN job.cands : d \in DOMAIN Nxt.users /\ d \in Client /\ d \in used
      /\ job.todo = {} /\ DOMAIN panel \subseteq used
  BY <1>1, <1>2 DEF JobTypes, JobMarks, IsLinkState, LinkInv, Types
<1>4. BaseState' = Nxt /\ BaseMarker' = NewMarker /\ Nxt # None
  BY <1>1, <1>2, LinkStateIsNotNone DEF BaseState, BaseMarker
<1>5. Marks'
  <2>1. ASSUME NEW c \in Client, NewMarker[c] # None
        PROVE  c \in used /\ (c \in DOMAIN panel => MarkOf(Nxt, c, NewMarker[c]))
    <3>1. CASE c \in DOMAIN job.cands
      <4>1. NewMarker[c] = job.cands[c] /\ Nxt.users[c].release = job.cands[c]
        BY <1>2, <3>1 DEF NewMarker, JobReleases
      <4> QED
        BY <1>3, <2>1, <3>1, <4>1 DEF MarkOf
    <3>2. CASE c \notin DOMAIN job.cands
      <4>1. NewMarker[c] = marker[c]
        BY <3>2 DEF NewMarker
      <4>2. c \in used
        BY <1>2, <2>1, <4>1 DEF SyncInv, Marks, BaseMarker
      <4> QED
        BY <1>2, <2>1, <4>1, <4>2 DEF JobMarks
    <3> QED
      BY <3>1, <3>2
  <2> QED
    BY <1>1, <1>4, <2>1 DEF Marks, MarkOf
<1>6. Origins'
  BY <1>1 DEF SyncInv, Origins
<1>7. SyncPublishesEveryone'
  <2> SUFFICES ASSUME job.op = "sync", NEW c \in DOMAIN job.clients \ job.failed, job.clients[c].enabled
               PROVE  \E r \in live' : /\ r.client = c /\ r.variant = "profile"
                                       /\ r.token.suffix = job.clients[c].email
    BY <1>1 DEF SyncPublishesEveryone
  <2>1. /\ c \in DOMAIN Nxt.users /\ Nxt.users[c].active /\ Nxt.users[c].release # None
        /\ Nxt.users[c].token.suffix = job.clients[c].email
    BY <1>2, <1>3 DEF JobSync
  <2>2. c \in Routed(Nxt, job.clients)
    BY <2>1 DEF Routed
  <2>3. Route(Nxt.users[c].token, c, Nxt.users[c].release, "profile") \in NewRoutes
    BY <2>2 DEF NewRoutes, render_routes, Nxt
  <2>4. live' = NewRoutes
    BY <1>1, <1>2 DEF Reloaded
  <2> QED
    BY <2>1, <2>3, <2>4 DEF Route
<1> QED
  BY <1>1, <1>5, <1>6, <1>7 DEF SyncInv, Deciding

\* Recovery, failures, discarding, pruning and kills
LEMMA OtherSync ==
    ASSUME LinkInv, SyncInv,
           \/ ActivationFails \/ Recover \/ Discard \/ DiscardFails \/ Finish \/ PruneFails \/ Kill
           \/ KillBeforeCheck \/ KillInActivation \/ RollbackFails
           \/ \E c \in Client : DiscardOfUncheckedFails(c)
    PROVE  SyncInv'
<1>1. ASSUME UNCHANGED <<panel, used, live, state, marker, undo>>, pc' \in {"idle", "discard"},
             KeepsStore, Origins'
      PROVE  SyncInv'
  <2>1. BaseState' = BaseState /\ BaseMarker' = BaseMarker
    BY <1>1 DEF BaseState, BaseMarker
  <2> QED
    BY <1>1, <2>1, EndSync
<1>2. CASE ActivationFails \/ DiscardFails \/ PruneFails \/ Kill
  <2>1. /\ UNCHANGED <<panel, used, live, state, marker, undo, store>>
        /\ pc' \in {"idle", "discard"}
    BY <1>2 DEF ActivationFails, Fails, DiscardFails, PruneFails, Kill, Killed, Leave, runtime
  <2>2. KeepsStore /\ Origins'
    BY <2>1, StoreStays, FewerOrigins
  <2> QED
    BY <1>1, <2>1, <2>2
<1>3. CASE Discard
  BY <1>1, <1>3, DiscardFacts, FewerOrigins
<1>4. CASE Finish
  BY <1>1, <1>4, FinishFacts, FewerOrigins
<1>5. ASSUME NEW c \in job.todo, pc = "prepare", store' = Add(c, FALSE), pc' = "idle",
             UNCHANGED <<panel, used, live, state, marker, undo>>
      PROVE  SyncInv'
  <2>1. c \in Client
    BY <1>5 DEF LinkInv, JobInv, JobTypes, Deciding, IsPanel
  <2>2. KeepsStore /\ Origins'
    BY <1>5, <2>1, AddFacts, AddOrigins
  <2> QED
    BY <1>1, <1>5, <2>2
<1>6. CASE KillBeforeCheck
  BY <1>5, <1>6 DEF KillBeforeCheck, Killed, runtime
<1>7. ASSUME NEW c \in Client, DiscardOfUncheckedFails(c) PROVE SyncInv'
  BY <1>5, <1>7 DEF DiscardOfUncheckedFails, Leave, runtime
<1>8. CASE KillInActivation \/ RollbackFails
  <2>1. /\ pc = "activate" /\ Mixture /\ UNCHANGED <<panel, used, store>> /\ pc' \in {"idle", "discard"}
    BY <1>8 DEF KillInActivation, RollbackFails, Killed, Fails, Leave
  <2>2. BaseState' = BaseState /\ BaseMarker' = BaseMarker /\ KeepsStore
    BY <2>1, MixtureBase, StoreStays
  <2>3. Marks'
    BY <2>1, <2>2 DEF SyncInv, Marks, MarkOf
  <2>4. Origins'
    BY <2>1, FewerOrigins
  <2> QED
    BY <2>1, <2>3, <2>4 DEF SyncInv, SyncPublishesEveryone, Deciding
<1>9. CASE Recover
  <2>1. /\ pc = "idle" /\ undo # None /\ undo' = None /\ state' = undo.state /\ marker' = undo.marker
        /\ UNCHANGED <<panel, used, store, pc>>
    BY <1>9 DEF Recover
  <2>2. BaseState' = BaseState /\ BaseMarker' = BaseMarker
    BY <2>1 DEF BaseState, BaseMarker
  <2>3. Marks'
    BY <2>1, <2>2 DEF SyncInv, Marks, MarkOf
  <2>4. Origins'
    BY <2>1, FewerOrigins
  <2> QED
    BY <2>1, <2>3, <2>4 DEF SyncInv, SyncPublishesEveryone, Deciding
<1> QED
  BY <1>2, <1>3, <1>4, <1>6, <1>7, <1>8, <1>9

\* A client that is gone does not come back.
LEMMA PanelSync ==
    ASSUME LinkInv, SyncInv, UNCHANGED <<state, routes, marker, live, undo, store, pc, job, ops>>,
           used \subseteq used', \A c \in DOMAIN panel' : c \in DOMAIN panel \/ c \notin used
    PROVE  SyncInv'
<1>1. BaseState' = BaseState /\ BaseMarker' = BaseMarker
  BY DEF BaseState, BaseMarker
<1>2. Marks'
  BY <1>1 DEF SyncInv, Marks, MarkOf
<1>3. Origins'
  BY FewerOrigins
<1>4. ASSUME Deciding PROVE JobMarks' /\ JobSync'
  <2>1. /\ JobMarks /\ JobSync /\ undo = None /\ Ids' = Ids /\ Nxt' = Nxt
        /\ \A c \in Client : marker[c] # None => c \in used
    BY <1>4 DEF LinkInv, JobInv, JobTypes, SyncInv, Marks, BaseMarker, Ids, Nxt
  <2> QED
    BY <2>1 DEF JobMarks, JobSync, MarkOf
<1> QED
  BY <1>2, <1>3, <1>4 DEF SyncInv, SyncPublishesEveryone, Deciding

LEMMA PanelChangesSync == ASSUME NoReturns, LinkInv, SyncInv, Panel PROVE SyncInv'
<1>1. ASSUME NEW clients, ChangePanel(clients), \A c \in DOMAIN clients : c \in DOMAIN panel \/ c \notin used
      PROVE  SyncInv'
  <2>1. /\ UNCHANGED <<state, routes, marker, live, undo, store, pc, job, ops>>
        /\ panel' = clients /\ used \subseteq used'
    BY <1>1 DEF ChangePanel, runtime
  <2> QED
    BY <1>1, <2>1, PanelSync
<1>2. ASSUME NEW c \in Client, AddClient(c) PROVE SyncInv'
  <2>1. PICK a \in Account : ChangePanel(Put(panel, c, a)) /\ c \notin used
    BY <1>2 DEF AddClient, NoReturns
  <2>2. DOMAIN Put(panel, c, a) = DOMAIN panel \cup {c}
    BY DEF Put
  <2> QED
    BY <1>1, <2>1, <2>2
<1>3. ASSUME NEW c \in Client, DeleteClient(c) PROVE SyncInv'
  BY <1>1, <1>3 DEF DeleteClient
<1>4. ASSUME NEW c \in Client, NEW d \in Client, ReplaceClient(c, d) PROVE SyncInv'
  <2>1. ChangePanel(Put([e \in DOMAIN panel \ {c} |-> panel[e]], d, panel[c])) /\ d \notin used
    BY <1>4 DEF ReplaceClient, NoReturns
  <2>2. DOMAIN Put([e \in DOMAIN panel \ {c} |-> panel[e]], d, panel[c]) = (DOMAIN panel \ {c}) \cup {d}
    BY DEF Put
  <2> QED
    BY <1>1, <2>1, <2>2
<1>5. ASSUME NEW c \in Client, RenameClient(c) PROVE SyncInv'
  <2>1. PICK e \in Email : ChangePanel([panel EXCEPT ![c].email = e])
    BY <1>5 DEF RenameClient
  <2>2. DOMAIN [panel EXCEPT ![c].email = e] = DOMAIN panel
    OBVIOUS
  <2> QED
    BY <1>1, <2>1, <2>2
<1>6. ASSUME NEW c \in Client, EnableOrDisable(c) PROVE SyncInv'
  <2>1. DOMAIN [panel EXCEPT ![c].enabled = ~@] = DOMAIN panel
    OBVIOUS
  <2> QED
    BY <1>1, <1>6, <2>1 DEF EnableOrDisable
<1>7. ASSUME NEW c \in Client, ChangeNodes(c) PROVE SyncInv'
  <2>1. PICK n \in Nodes : ChangePanel([panel EXCEPT ![c].nodes = n])
    BY <1>7 DEF ChangeNodes
  <2>2. DOMAIN [panel EXCEPT ![c].nodes = n] = DOMAIN panel
    OBVIOUS
  <2> QED
    BY <1>1, <2>1, <2>2
<1> QED
  BY <1>2, <1>3, <1>4, <1>5, <1>6, <1>7 DEF Panel

LEMMA SyncInit == Init => SyncInv
<1> SUFFICES ASSUME Init PROVE SyncInv
  OBVIOUS
<1>1. LinkInv
  BY LinkInit
<1>2. undo = None /\ pc = "idle" /\ used = DOMAIN panel /\ BaseState = state /\ BaseMarker = marker
  BY DEF Init, BaseState, BaseMarker
<1>3. CASE InitFresh
  BY <1>2, <1>3 DEF InitFresh, Empty, SyncInv, Marks, Origins, Deciding, SyncPublishesEveryone
<1>4. CASE InitLegacy
  <2>1. /\ IsLinkState(state) /\ DOMAIN state.users = DOMAIN panel
        /\ \A c \in DOMAIN panel : state.users[c].release = 0 /\ state.users[c].token.op = 0
    BY <1>4, LegacyFacts
  <2>2. IsPanel(panel)
    BY <1>1 DEF LinkInv, Types
  <2>3. marker = [c \in Client |-> IF c \in DOMAIN panel THEN 0 ELSE None] /\ 0 # None
    BY <1>4, LinkAssumption DEF InitLegacy
  <2>4. Marks
    <3>1. state # None
      BY <2>1, LinkStateIsNotNone
    <3> QED
      BY <1>2, <2>1, <2>2, <2>3, <3>1 DEF Marks, MarkOf, IsPanel
  <2>5. Origins
    <3>1. ASSUME NEW c \in Client, NEW r \in DOMAIN store[c]
          PROVE  LET t == store[c][r].bundle.provider IN t # None => t.op \in Nat /\ t.op <= r
      <4> DEFINE release == [bundle |-> LegacyBundle(c), checked |-> TRUE]
      <4>1. release.bundle = LegacyBundle(c)
        OBVIOUS
      <4>2. store[c] = IF c \in DOMAIN panel THEN Put(Empty, 0, release) ELSE Empty
        BY <1>4 DEF InitLegacy
      <4> HIDE DEF release
      <4>3. c \in DOMAIN panel /\ r = 0 /\ store[c][r].bundle = LegacyBundle(c)
        BY <4>1, <4>2 DEF Put, Empty
      <4>4. LegacyBundle(c).provider # None => LegacyBundle(c).provider = state.users[c].token
        BY DEF LegacyBundle, render_user_bundle
      <4> QED
        BY <2>1, <4>3, <4>4
    <3> QED
      BY <3>1 DEF Origins
  <2> QED
    BY <1>2, <2>4, <2>5 DEF SyncInv, Deciding, SyncPublishesEveryone
<1> QED
  BY <1>3, <1>4 DEF Init

LEMMA SyncNext == NoReturns /\ LinkInv /\ SyncInv /\ [Next]_vars => SyncInv'
<1> SUFFICES ASSUME NoReturns, LinkInv, SyncInv, [Next]_vars PROVE SyncInv'
  OBVIOUS
<1>1. CASE Panel
  BY <1>1, PanelChangesSync
<1>2. CASE Operation
  BY <1>2, SyncAllSync, RotateLinkSync, RotateAirportSync, RollbackSync, ReinitializeSync DEF Operation
<1>3. CASE Step
  <2>1. ASSUME NEW c \in Client, PrepareUser(c) PROVE SyncInv'
    BY <2>1, PrepareUserSync
  <2>2. ASSUME NEW c \in Client, PrepareFails(c) PROVE SyncInv'
    BY <2>2, PrepareFailsSync
  <2> QED
    BY <1>3, <2>1, <2>2, ActivateSync, OtherSync DEF Step
<1>4. CASE Recover \/ Kill \/ KillBeforeCheck \/ KillInActivation
  BY <1>4, OtherSync
<1>5. CASE UNCHANGED vars
  <2>1. UNCHANGED <<panel, used, state, routes, marker, live, undo, store, pc, job, ops>>
    BY <1>5 DEF vars, runtime, bounds
  <2> QED
    BY <2>1, PanelSync
<1> QED
  BY <1>1, <1>2, <1>3, <1>4, <1>5 DEF Next

\* A sync that ends well has published every enabled client without an error,
\* when no deleted client comes back: SyncPublishesEveryone.
THEOREM SyncsPublishEveryone == ASSUME NoReturns PROVE Spec => []SyncPublishesEveryone
<1>1. SyncInv => SyncPublishesEveryone
  BY DEF SyncInv
<1>2. SyncInv /\ LinkInv /\ LinkInv' /\ [Next]_vars => SyncInv'
  BY SyncNext
<1> QED
  BY <1>1, <1>2, SyncInit, LinkInvariant, PTL DEF Spec

=============================================================================
