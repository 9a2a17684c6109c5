----------------------------- MODULE SpeedLeases -----------------------------
(***************************************************************************)
(* The live speeds of the administration page: web_server.Portal (sessions *)
(* and the panel passwords that wait in memory) with speeds.PanelSpeeds    *)
(* (leases of viewers, and one reader thread that lives while somebody     *)
(* looks and holds the one web socket to 3x-ui).                           *)
(*                                                                         *)
(* Requests run in threads of their own: a request passes session_record   *)
(* in one step and reaches PanelSpeeds in a later one.  Every hold of      *)
(* PanelSpeeds.lock is one action; what the reader and release() do outside *)
(* of it (panel login, recv, abort) is another.  Time is what is left of   *)
(* each lease and cooldown, so it needs no bound.                          *)
(***************************************************************************)
EXTENDS Naturals, Sequences, FiniteSets, SequencesExt

CONSTANTS Sessions,     \* portal logins there ever are; each logs in once
          Viewers,      \* browser tabs, each with the identity it draws
          MaxSessions,  \* 32 in the code
          MaxViewers,   \* 64 in the code
          Lease,        \* 8 seconds
          Cooldown,     \* 30 seconds
          Pause,        \* 1 second
          MaxPending    \* bound: requests between session_record and the hub

ASSUME TimesAreOrdered == /\ {Pause, Lease, Cooldown} \subseteq Nat \ {0}
                          /\ Pause < Cooldown

NoSession == "nobody"

VARIABLES
    sessions,    \* session -> "never" | "valid" | "stale" (expired or rebound) | "gone"
    logins,      \* speed_logins: the sessions whose password still waits
    pending,       \* viewer -> the request that has passed session_record
    leaving,     \* the logout being served: session and viewers left to release
    viewers,     \* PanelSpeeds.viewers: <<viewer, session, left>> in order of arrival
    reader,      \* where the reader thread is; "off" when there is none
    reading,     \* the session whose password the reader takes and sends
    cookie,      \* PanelSpeeds.cookie: "none" | "good" | "refused"
    conn,        \* the web socket: "none" | "open" | "aborted"
    aborting,    \* release() has taken the connection and not yet aborted it
    sources,     \* whether there are speeds to show
    error,       \* "" | "login" (panel_login_required) | "unavailable"
    cooling,     \* seconds until retry_after
    tried        \* session -> how often its password was sent to the panel

portal == <<sessions, logins>>
lane   == <<reader, reading>>
hub    == <<viewers, cookie, conn, aborting, sources, error, cooling>>
speeds == <<portal, pending, leaving, lane, hub, tried>>

----------------------------------------------------------------------------
SpeedsTypeOK ==
    /\ sessions \in [Sessions -> {"never", "valid", "stale", "gone"}]
    /\ logins \subseteq Sessions
    /\ pending \in [Viewers -> (Sessions \X {"yes", "no"}) \cup {<<>>}]
    /\ leaving \in [session : Sessions, left : SUBSET Viewers] \cup {<<>>}
    /\ viewers \in BoundedSeq([viewer : Viewers, session : Sessions, left : 1 .. Lease], MaxViewers)
    /\ reader \in {"off", "settings", "login", "submit", "check", "connect", "loop", "recv", "ending"}
    /\ reading \in Sessions \cup {NoSession}
    /\ cookie \in {"none", "good", "refused"}
    /\ conn \in {"none", "open", "aborted"}
    /\ aborting \in BOOLEAN /\ sources \in BOOLEAN
    /\ error \in {"", "login", "unavailable"}
    /\ cooling \in 0 .. Cooldown
    /\ tried \in [Sessions -> Nat]

SpeedsInit ==
    /\ sessions = [s \in Sessions |-> "never"]
    /\ logins = {} /\ pending = [v \in Viewers |-> <<>>] /\ leaving = <<>>
    /\ viewers = <<>> /\ reader = "off" /\ reading = NoSession
    /\ cookie = "none" /\ conn = "none" /\ aborting = FALSE
    /\ sources = FALSE /\ error = "" /\ cooling = 0
    /\ tried = [s \in Sessions |-> 0]

----------------------------------------------------------------------------
(* PanelSpeeds.  An expired lease is dropped when it runs out: every hold   *)
(* of the lock that looks at the viewers prunes them first.                 *)

Leases(v) == SelectSeq(viewers, LAMBDA l : l.viewer = v)

OfSession(s) == {l.viewer : l \in {k \in ToSet(viewers) : k.session = s}}

Without(V, s) == SelectSeq(viewers, LAMBDA l : ~(l.viewer \in V /\ l.session = s))

\* A lease is renewed in its place; a new viewer comes last.
Renewed(v, s) ==
    IF Leases(v) = <<>>
    THEN Append(viewers, [viewer |-> v, session |-> s, left |-> Lease])
    ELSE [i \in DOMAIN viewers |->
             IF viewers[i].viewer = v THEN [viewers[i] EXCEPT !.left = Lease] ELSE viewers[i]]

\* renew: nothing but the 409 if the viewer is another session's, or one too many.
renew(v, s) ==
    IF \/ \E l \in ToSet(viewers) : l.viewer = v /\ l.session # s
       \/ Leases(v) = <<>> /\ Len(viewers) >= MaxViewers
    THEN UNCHANGED <<lane, hub>>
    ELSE /\ viewers' = Renewed(v, s)
         /\ IF reader = "off" /\ cooling = 0
            THEN reader' = "settings" /\ error' = ""
            ELSE UNCHANGED <<reader, error>>
         /\ UNCHANGED <<reading, cookie, conn, aborting, sources, cooling>>

\* The hold of the lock of release, for the viewers V of session s; the abort
\* of the connection comes after it.
release(V, s) ==
    /\ viewers' = Without(V, s)
    /\ IF viewers' = <<>>
       THEN sources' = FALSE /\ aborting' = (aborting \/ conn # "none")
       ELSE UNCHANGED <<sources, aborting>>

Abort ==
    /\ aborting
    /\ aborting' = FALSE
    /\ conn' = IF conn = "none" THEN "none" ELSE "aborted"
    /\ UNCHANGED <<portal, pending, leaving, lane, viewers, cookie, sources, error, cooling, tried>>

----------------------------------------------------------------------------
(* Portal: logins, sessions that run out, requests of the tabs, logout.     *)

Ended(S) == [s \in Sessions |-> IF s \in S THEN "gone" ELSE sessions[s]]

\* A right password.  Expired records go; at the limit every session goes, and
\* with them their viewers.  The password waits for the reader.
login(s) ==
    /\ sessions[s] = "never"
    /\ \E expired \in SUBSET {t \in Sessions : sessions[t] = "stale"} :
         LET kept == {t \in Sessions : sessions[t] \in {"valid", "stale"}} \ expired
             full == Cardinality(kept) >= MaxSessions
         IN  /\ sessions' = [Ended(IF full THEN kept \cup expired ELSE expired) EXCEPT ![s] = "valid"]
             /\ logins' = (IF full THEN {} ELSE logins \cap kept) \cup {s}
             /\ IF full
                THEN /\ viewers' = SelectSeq(viewers, LAMBDA l : l.session \notin kept)
                     /\ IF viewers' = <<>> /\ viewers # <<>>
                        THEN sources' = FALSE /\ aborting' = (aborting \/ conn # "none")
                        ELSE UNCHANGED <<sources, aborting>>
                ELSE UNCHANGED <<viewers, sources, aborting>>
    /\ error' = IF error = "login" THEN "" ELSE error
    /\ cooling' = IF error = "login" THEN 0 ELSE cooling
    /\ UNCHANGED <<pending, leaving, lane, cookie, conn, tried>>

\* Eight hours pass, or the password, the owner or the address is changed.
Outdate(s) ==
    /\ sessions[s] = "valid"
    /\ sessions' = [sessions EXCEPT ![s] = "stale"]
    /\ UNCHANGED <<logins, pending, leaving, lane, hub, tried>>

\* session_record passes a POST to /speeds; it has not reached the hub yet.
session_record(v, s, active) ==
    /\ sessions[s] = "valid" /\ pending[v] = <<>>
    /\ Cardinality({w \in Viewers : pending[w] # <<>>}) < MaxPending
    /\ pending' = [pending EXCEPT ![v] = <<s, active>>]
    /\ UNCHANGED <<portal, leaving, lane, hub, tried>>

\* session_record meets a record that no longer holds: 401, and what the
\* session had is taken back; without viewers there is nothing to release.  (The
\* holds of the lock, one for the list and one per viewer, are one step.)
refuse(s) ==
    /\ sessions[s] = "stale"
    /\ logins' = logins \ {s}
    /\ IF OfSession(s) = {} THEN UNCHANGED <<viewers, sources, aborting>>
       ELSE release(OfSession(s), s)
    /\ UNCHANGED <<sessions, pending, leaving, lane, cookie, conn, error, cooling, tried>>

Serve(v) ==
    /\ pending[v] # <<>>
    /\ pending' = [pending EXCEPT ![v] = <<>>]
    /\ LET s == pending[v][1] IN
         \/ pending[v][2] = "yes" /\ renew(v, s)
         \/ /\ pending[v][2] = "no"
            /\ release({v}, s)
            /\ UNCHANGED <<lane, cookie, conn, error, cooling>>
    /\ UNCHANGED <<portal, leaving, tried>>

\* /logout: the password goes and the viewers are collected, then they are
\* released, then the session goes.
Logout(s) ==
    /\ sessions[s] = "valid" /\ leaving = <<>>
    /\ logins' = logins \ {s}
    /\ leaving' = [session |-> s, left |-> OfSession(s)]
    /\ UNCHANGED <<sessions, pending, lane, hub, tried>>

LogoutReleases ==
    /\ leaving # <<>> /\ leaving.left # {}
    /\ release(leaving.left, leaving.session)
    /\ leaving' = [leaving EXCEPT !.left = {}]
    /\ UNCHANGED <<portal, pending, lane, cookie, conn, error, cooling, tried>>

LogoutForgets ==
    /\ leaving # <<>> /\ leaving.left = {}
    /\ sessions' = [sessions EXCEPT ![leaving.session] = IF @ = "never" THEN @ ELSE "gone"]
    /\ leaving' = <<>>
    /\ UNCHANGED <<logins, pending, lane, hub, tried>>

----------------------------------------------------------------------------
(* The reader thread, _run.  Going is the return or the break that ends it. *)

Goes(to) == reader' = to /\ reading' = NoSession

\* except Exception: a failure keeps the panel alone for Cooldown seconds.
Fails(kind) ==
    /\ error' = kind
    /\ cookie' = IF kind = "login" THEN "none" ELSE cookie
    /\ sources' = FALSE
    /\ cooling' = Cooldown
    /\ Goes("ending")
    /\ UNCHANGED <<viewers, conn, aborting>>

ReadSettings ==
    /\ reader = "settings"
    /\ \/ /\ viewers # <<>>
          /\ IF cookie = "none"
             THEN reader' = "login" /\ reading' = viewers[1].session
             ELSE Goes("check")
          /\ UNCHANGED hub
       \/ viewers = <<>> /\ Goes("ending") /\ UNCHANGED hub
       \/ Fails("unavailable")
    /\ UNCHANGED <<portal, pending, leaving, tried>>

\* Mutant: the password is looked at and stays.
take_speed_login_peeks ==
    /\ reader = "login"
    /\ IF reading \in logins
       THEN reader' = "submit" /\ UNCHANGED <<reading, hub>>
       ELSE Fails("login")
    /\ UNCHANGED <<portal, pending, leaving, tried>>

take_speed_login ==
    /\ reader = "login"
    /\ logins' = logins \ {reading}
    /\ IF reading \in logins
       THEN reader' = "submit" /\ UNCHANGED <<reading, hub>>
       ELSE Fails("login")
    /\ UNCHANGED <<sessions, pending, leaving, tried>>

\* The password is sent to the panel, which opens a session of its own or not.
panel_login ==
    /\ reader = "submit"
    /\ tried' = [tried EXCEPT ![reading] = @ + 1]
    /\ \/ /\ cookie' = "good" /\ Goes("check")
          /\ UNCHANGED <<viewers, conn, aborting, sources, error, cooling>>
       \/ Fails("login")
    /\ UNCHANGED <<portal, pending, leaving>>

CheckViewers ==
    /\ reader = "check"
    /\ Goes(IF viewers = <<>> THEN "ending" ELSE "connect")
    /\ UNCHANGED <<portal, pending, leaving, hub, tried>>

\* The socket is published to release() in the hold that looks at the viewers
\* once more; 401 is the panel refusing the cookie.
connect_panel ==
    /\ reader = "connect"
    /\ \/ /\ cookie = "good" /\ conn' = "open"
          /\ Goes(IF viewers = <<>> THEN "ending" ELSE "loop")
          /\ UNCHANGED <<viewers, cookie, aborting, sources, error, cooling>>
       \/ cookie = "refused" /\ Fails("login")
       \/ Fails("unavailable")
    /\ UNCHANGED <<portal, pending, leaving, tried>>

\* Mutant: the reader looks for viewers only when a frame has come.
LoopUnwatched ==
    /\ reader = "loop"
    /\ Goes("recv")
    /\ UNCHANGED <<portal, pending, leaving, hub, tried>>

Loop ==
    /\ reader = "loop"
    /\ Goes(IF viewers = <<>> THEN "ending" ELSE "recv")
    /\ UNCHANGED <<portal, pending, leaving, hub, tried>>

\* recv waits a second at most.  An aborted socket wakes it with an exception.
recv ==
    /\ reader = "recv"
    /\ \/ conn = "open" /\ Goes("loop") /\ UNCHANGED hub
       \/ /\ conn = "open" /\ sources' = TRUE /\ Goes("loop")
          /\ UNCHANGED <<viewers, cookie, conn, aborting, error, cooling>>
       \/ conn = "open" /\ Goes("ending") /\ UNCHANGED hub
       \/ Fails("unavailable")
    /\ UNCHANGED <<portal, pending, leaving, tried>>

\* Mutant: the last speeds stay when the socket is closed.
EndReaderKeepsSpeeds ==
    /\ reader = "ending"
    /\ conn' = "none" /\ aborting' = FALSE
    /\ Goes("off")
    /\ cooling' = IF viewers # <<>> /\ cooling = 0 THEN Pause ELSE cooling
    /\ UNCHANGED <<portal, pending, leaving, viewers, cookie, sources, error, tried>>

\* finally: the socket is closed and the thread is gone.
EndReader ==
    /\ reader = "ending"
    /\ conn' = "none" /\ aborting' = FALSE /\ sources' = FALSE
    /\ Goes("off")
    /\ cooling' = IF viewers # <<>> /\ cooling = 0 THEN Pause ELSE cooling
    /\ UNCHANGED <<portal, pending, leaving, viewers, cookie, error, tried>>

----------------------------------------------------------------------------
\* One second.  What has run out is dropped.
Second ==
    /\ \/ cooling > 0 \/ viewers # <<>>
    /\ cooling' = IF cooling = 0 THEN 0 ELSE cooling - 1
    /\ viewers' = SelectSeq([i \in DOMAIN viewers |-> [viewers[i] EXCEPT !.left = @ - 1]],
                            LAMBDA l : l.left > 0)
    /\ UNCHANGED <<portal, pending, leaving, lane, cookie, conn, aborting, sources, error, tried>>

\* The panel restarts: the sessions it knew are refused from then on.
PanelForgets ==
    /\ cookie = "good"
    /\ cookie' = "refused"
    /\ UNCHANGED <<portal, pending, leaving, lane, viewers, conn, aborting, sources, error, cooling, tried>>

Reader == \/ ReadSettings \/ take_speed_login \/ panel_login \/ CheckViewers
          \/ connect_panel \/ Loop \/ recv \/ EndReader

Requests == \/ \E v \in Viewers : Serve(v)
            \/ LogoutReleases \/ LogoutForgets \/ Abort

SpeedsNext ==
    \/ Reader \/ Requests \/ Second \/ PanelForgets
    \/ \E s \in Sessions : login(s) \/ Outdate(s) \/ refuse(s) \/ Logout(s)
    \/ \E v \in Viewers, s \in Sessions, active \in {"yes", "no"} : session_record(v, s, active)
----------------------------------------------------------------------------
(* A password the administrator types once is sent to the panel once: a     *)
(* wrong one is not tried again, whatever the tabs, logouts and cooldowns do *)
(* (test_bad_login_has_no_retry_storm).                                      *)
PasswordIsSentOnce == \A s \in Sessions : tried[s] <= 1

(* Speeds are shown only while a reader holds a socket: never those of a     *)
(* connection that is gone, also when a frame arrives after the last viewer  *)
(* left and another one comes before the reader notices.                     *)
SpeedsAreLive == sources => reader \in {"loop", "recv", "ending"} /\ conn # "none"

(* Once no tab asks any more, the socket to the panel is closed for good and *)
(* the thread ends, whether the tabs said goodbye or just went silent.       *)
DesertedMeansClosed ==
    (<>[](\A v \in Viewers : pending[v] = <<>>)) => <>[](reader = "off" /\ conn = "none" /\ viewers = <<>>)
=============================================================================
