------------------------------- MODULE Sources -------------------------------
(***************************************************************************)
(* The subscription sources at work: the airport and the backup nodes,     *)
(* changed by an operator at the terminal and by the daily timer           *)
(* (`clash-sub airport-scheduled-refresh`), and the profiles that carry    *)
(* the backup nodes.                                                       *)
(*                                                                         *)
(* An airport operation is one hold of operation.lock.  A backup operation *)
(* is two: the record is changed in the first, every user's profile is     *)
(* rebuilt by sync_all in the second, and anything may happen in between.  *)
(* The timer reads the record before its first hold, to see whether a      *)
(* refresh is due.  It runs in a systemd sandbox that may write only to    *)
(* the private directory and to the airport's provider directory.          *)
(*                                                                         *)
(* The rest of sync_all is LinkService's; here it is the backup nodes that *)
(* it puts into each user's standard profile.                              *)
(***************************************************************************)
EXTENDS BackupNodes, AirportRefresh

CONSTANTS Users,        \* enabled clients with a standard profile
          Excluded,     \* those of EXCLUDED_USERS, who get no backup nodes
          Urls,         \* addresses of backup subscriptions
          Feeds,        \* the node lists they answer with
          Imports,      \* the node lists an operator pastes
          Kinds,        \* the operations an operator may call
          MaxOps,       \* calls by the operator
          MaxTimers,    \* starts of the timer
          MaxDays,      \* steps of the clock
          MaxTroubles   \* failing calls, kills, damaged records, turns of the airport

(* A node is its settings and a name: a name with the numbers added to it. *)
Settings == UNION {IdsOf(nodes) : nodes \in Feeds \cup Imports}
Nodes == [id : Settings, name : Seq(Nat)]

ASSUME SourcesAssumption ==
    /\ Excluded \subseteq Users
    /\ Cap \in Nat \ {0}
    /\ {MaxOps, MaxTimers, MaxDays, MaxTroubles} \subseteq Nat
    /\ Feeds \cup Imports \subseteq Seq(Nodes)

Operator == "operator"
Timer == "timer"
Actors == {Operator, Timer}

AirportKinds == {"auto", "refresh", "replace", "configure"}
BackupKinds == {"backup-replace", "backup-refresh", "backup-remove", "backup-import", "backup-remove-manual"}

(* How long a successful refresh lasts (24 hours), in steps of the clock.  *)
INTERVAL == 1

VARIABLES
    backup,         \* backup-source.json
    published,      \* the backup nodes in each user's standard profile
    airport,        \* airport-source.json and the provider file
    web,            \* the airport's portal and links
    now,            \* the clock
    holder,         \* who holds operation.lock
    call,           \* what each actor is doing and how its last call ended
    budget          \* how often things may still happen

sourcesVars == <<backup, published, airport, web, now, holder, call, budget>>

Free == "free"
Page == "page"
Done(code) == [kind |-> "none", at |-> "idle", code |-> code, url |-> NoUrl]

(* The backup nodes that belong into a user's standard profile.            *)
Wanted(u) == IF backup.is = "record" /\ u \notin Excluded THEN Merged(backup) ELSE <<>>

(* What earlier operations may have left: a record and an airport.          *)
Holding(url, feed, manual) ==
    [Blank(url) EXCEPT !.nodes = feed, !.manual = manual, !.success = IF feed = <<>> THEN Never ELSE 0]
Recorded == {Holding(url, feed, manual) :
                url \in Urls \cup {NoUrl}, feed \in Feeds \cup {<<>>}, manual \in Imports \cup {<<>>}}
Saved == {[saved |-> TRUE, source_url |-> link, activation_url |-> Page, document |-> link, fetched |-> 0] :
             link \in Links}

SourcesInit ==
    /\ backup \in Recorded \cup {NoRecord}
    /\ Readable(backup) /\ (backup.url = NoUrl <=> backup.nodes = <<>>)
    /\ published = [u \in Users |-> Wanted(u)]
    /\ airport \in Saved \cup (IF backup = NoRecord THEN {NoAirport} ELSE {})
    /\ web = [portal |-> "open", enabled |-> FALSE, alive |-> Links]
    /\ now = 0
    /\ holder = Free
    /\ call = [a \in Actors |-> Done("none")]
    /\ budget = [ops |-> MaxOps, timers |-> MaxTimers, days |-> MaxDays, troubles |-> MaxTroubles]

(* One or more units of a budget are used.                                 *)
Use(name, n) == /\ budget[name] >= n
                /\ budget' = [budget EXCEPT ![name] = @ - n]

At(a, where) == call[a].at = where

(* The end of a part of a call: the timer goes on from the backup to the   *)
(* airport unless an error without a code of the service (a failed write)  *)
(* ends it; everything else is over.                                       *)
Over(a, code) ==
    call' = [call EXCEPT ![a] =
                 IF a = Timer /\ @.kind \in BackupKinds /\ code # "error"
                 THEN [kind |-> "auto", at |-> "entering", code |-> code, url |-> NoUrl]
                 ELSE Done(code)]

-----------------------------------------------------------------------------
(* The operator's call and the timer's.                                    *)
Ask(kind) ==
    /\ At(Operator, "idle")
    /\ Use("ops", 1)
    /\ \E url \in (IF kind = "backup-replace" THEN Urls ELSE {NoUrl}) :
           call' = [call EXCEPT ![Operator] = [kind |-> kind, at |-> "entering", code |-> "none", url |-> url]]
    /\ UNCHANGED <<backup, published, airport, web, now, holder>>

Fire ==
    /\ At(Timer, "idle")
    /\ Use("timers", 1)
    /\ call' = [call EXCEPT ![Timer] = [kind |-> "backup-refresh", at |-> "due", code |-> "none", url |-> NoUrl]]
    /\ UNCHANGED <<backup, published, airport, web, now, holder>>

Due(d) == d.is = "record" /\ d.url # NoUrl /\ (d.success = Never \/ now - d.success >= INTERVAL)

(* refresh_backup_if_due reads the record without the lock.                *)
CheckDue ==
    /\ At(Timer, "due")
    /\ IF Due(backup)
       THEN call' = [call EXCEPT ![Timer].at = "entering", ![Timer].url = backup.url]
       ELSE Over(Timer, IF backup.is = "corrupt" THEN "backup_source_invalid" ELSE "ok")
    /\ UNCHANGED <<backup, published, airport, web, now, holder, budget>>

(* The lock is taken at once or not at all; the same for the second hold.  *)
Enter(a) ==
    /\ call[a].at \in {"entering", "changed"}
    /\ IF holder = Free
       THEN /\ holder' = a
            /\ call' = [call EXCEPT ![a].at = IF At(a, "changed") \/ call[a].kind = "sync" THEN "syncing" ELSE "changing"]
       ELSE /\ Over(a, "operation_busy")
            /\ UNCHANGED holder
    /\ UNCHANGED <<backup, published, airport, web, now, budget>>

Mishaps(ways) == Cardinality({i \in DOMAIN ways : ways[i] \notin {"ok", "accepts"}})

(* The record is changed; after an error there is no second hold.          *)
Conclude(a, result) ==
    /\ backup' = result.data
    /\ holder' = Free
    /\ IF result.code = "ok"
       THEN call' = [call EXCEPT ![a].at = "changed"]
       ELSE Over(a, result.code)
    /\ UNCHANGED <<published, airport, web, now>>

(* A slip: the source that was due is refreshed, not the one on record.    *)
RefreshSeen(a) ==
    /\ At(a, "changing") /\ call[a].kind \in {"backup-replace", "backup-refresh"}
    /\ \E feed \in Feeds \cup {<<>>}, core \in Cores, first, second \in Writes :
           /\ Use("troubles", Mishaps(<<core, first, second>>))
           /\ Conclude(a, refresh(backup, call[a].url, feed, core, first, second, now))

(* replace_backup_source and refresh_backup; the answer of the source is   *)
(* any of its feeds or unusable.                                           *)
Refresh(a) ==
    /\ At(a, "changing") /\ call[a].kind \in {"backup-replace", "backup-refresh"}
    /\ \E feed \in Feeds \cup {<<>>}, core \in Cores, first, second \in Writes :
           /\ Use("troubles", Mishaps(<<core, first, second>>))
           /\ Conclude(a, refresh(backup, IF call[a].kind = "backup-replace" THEN call[a].url ELSE NoUrl,
                                  feed, core, first, second, now))

Import(a) ==
    /\ At(a, "changing") /\ call[a].kind = "backup-import"
    /\ \E nodes \in Imports \cup {<<>>}, core \in Cores, how \in Writes :
           /\ Use("troubles", Mishaps(<<core, how>>))
           /\ Conclude(a, import_nodes(backup, nodes, core, how))

Delete(a) ==
    /\ At(a, "changing") /\ call[a].kind \in {"backup-remove", "backup-remove-manual"}
    /\ \E how \in Writes :
           /\ Use("troubles", Mishaps(<<how>>))
           /\ Conclude(a, IF call[a].kind = "backup-remove" THEN remove(backup, how) ELSE remove_manual(backup, how))

-----------------------------------------------------------------------------
(* Whose new profile the calling process may not write: for the timer,     *)
(* everyone's.                                                             *)
ReadOnlyFor(a) == IF a = Timer THEN {u \in Users : published[u] # Wanted(u)} ELSE {}

(* A slip: errors of single users are no error of a backup operation.      *)
SyncCodeLenient(a, failed) == IF failed # {} /\ call[a].kind = "sync" THEN "errors listed" ELSE "ok"

SyncCode(a, failed) ==
    CASE failed = {} -> "ok"
      [] failed # {} -> IF call[a].kind = "sync" THEN "errors listed" ELSE "backup_sync_failed"

(* sync_all: each user is prepared or left out, the prepared ones are      *)
(* activated together.  A record that cannot be read fails everyone.       *)
Sync(a) ==
    /\ At(a, "syncing") /\ airport.saved
    /\ \E unlucky \in SUBSET Users :
           LET failed == IF backup.is = "corrupt" THEN Users ELSE unlucky \cup ReadOnlyFor(a)
           IN  /\ Use("troubles", Cardinality(unlucky))
               /\ published' = [u \in Users |-> IF u \in failed THEN published[u] ELSE Wanted(u)]
               /\ Over(a, SyncCode(a, failed))
    /\ holder' = Free
    /\ UNCHANGED <<backup, airport, web, now>>

(* There is no provider file, which is noticed first, or the activation    *)
(* fails, which keeps every profile.                                       *)
SyncRefused(a) ==
    /\ At(a, "syncing") /\ ~airport.saved
    /\ Over(a, "airport_provider_required")
    /\ holder' = Free
    /\ UNCHANGED <<backup, published, airport, web, now, budget>>

SyncFails(a) ==
    /\ At(a, "syncing") /\ airport.saved
    /\ Use("troubles", 1)
    /\ Over(a, "sync_activation_failed")
    /\ holder' = Free
    /\ UNCHANGED <<backup, published, airport, web, now>>

-----------------------------------------------------------------------------
(* The airport's four operations.  Opening the page enables the links even *)
(* when nothing else comes of it.                                          *)
Outcomes(kind) ==
    CASE kind = "auto" -> {auto_refresh_airport(web, airport, pair[1], pair[2]) : pair \in PostPairs}
      [] kind = "configure" -> {configure_airport_portal(web, Page, pair[1], pair[2]) : pair \in PostPairs}
      [] kind = "replace" -> {replace_airport_source(web, airport, url) : url \in Links \cup {Foreign}}
      [] kind = "refresh" -> {refresh_airport(web, airport)}

Visits(kind) == kind = "configure" \/ (kind = "auto" /\ airport.activation_url # None)

RenewAirport(a) ==
    /\ At(a, "changing") /\ call[a].kind \in AirportKinds
    /\ \E made \in Outcomes(call[a].kind), stored \in BOOLEAN :
           LET code == IF made.code = "ok" /\ ~stored THEN "airport_provider_write_failed" ELSE made.code
           IN  /\ Use("troubles", IF stored THEN 0 ELSE 1)
               /\ airport' = IF code = "ok" THEN _replace_airport(made, now) ELSE airport
               /\ Over(a, code)
    /\ web' = IF Visits(call[a].kind) THEN Opened(web) ELSE web
    /\ holder' = Free
    /\ UNCHANGED <<backup, published, now>>

-----------------------------------------------------------------------------
(* A process is killed: its descriptors close, and with them the lock.     *)
KillProcess(a) ==
    /\ ~At(a, "idle")
    /\ Use("troubles", 1)
    /\ call' = [call EXCEPT ![a] = Done("killed")]
    /\ holder' = IF holder = a THEN Free ELSE holder
    /\ UNCHANGED <<backup, published, airport, web, now>>

Tick ==
    /\ Use("days", 1)
    /\ now' = now + 1
    /\ UNCHANGED <<backup, published, airport, web, holder, call>>

(* The airport: its page changes, a link is given up or comes back, and    *)
(* links go to sleep some time after the last visit.                       *)
WebTurns ==
    /\ Use("troubles", 1)
    /\ \/ \E state \in PortalStates \ {web.portal} : web' = [web EXCEPT !.portal = state]
       \/ \E link \in Links : web' = [web EXCEPT !.alive = SymDiff(@, {link})]
       \/ web.enabled /\ web' = [web EXCEPT !.enabled = FALSE]
    /\ UNCHANGED <<backup, published, airport, now, holder, call>>

(* The record is damaged on disk.                                          *)
Damage ==
    /\ backup.is = "record"
    /\ Use("troubles", 1)
    /\ backup' = Corrupt
    /\ UNCHANGED <<published, airport, web, now, holder, call>>

SourcesNext ==
    \/ \E kind \in Kinds : Ask(kind)
    \/ Fire
    \/ CheckDue
    \/ \E a \in Actors : \/ Enter(a) \/ Refresh(a) \/ Import(a) \/ Delete(a)
                         \/ Sync(a) \/ SyncRefused(a) \/ SyncFails(a)
                         \/ RenewAirport(a) \/ KillProcess(a)
    \/ Tick
    \/ WebTurns
    \/ Damage

(* A call that has started goes on until it ends: nothing in it waits.     *)
SourcesSpec == SourcesInit /\ [][SourcesNext]_sourcesVars

-----------------------------------------------------------------------------
SourcesTypeOK ==
    /\ backup.is \in {"none", "record", "corrupt"} /\ backup.url \in Urls \cup {NoUrl}
    /\ airport.source_url \in Links \cup {Foreign, None} /\ airport.activation_url \in {Page, None}
    /\ web \in [portal : PortalStates, enabled : BOOLEAN, alive : SUBSET Links]
    /\ holder \in Actors \cup {Free}
    /\ \A a \in Actors : (holder = a) = (call[a].at \in {"changing", "syncing"})

(* No operation leaves a record that the next one refuses to read, which   *)
(* would fail every user's profile until the source is removed             *)
(* (backup_subscription.read).                                             *)
RecordIsReadable == Readable(backup)

(* The provider file is the document of the link on record: never one      *)
(* link's document with the other's address, whichever link of the refresh *)
(* succeeded (service._replace_airport).                                   *)
AirportComesTogether == airport.document = airport.source_url

(* What happens to the call of an actor between one hold and the next.     *)
Changed(a) == At(a, "changing") /\ ~At(a, "changing")' /\ call'[a].code # "killed"

(* A refresh or removal of the subscription keeps the manual nodes, an     *)
(* import or removal of manual nodes keeps the subscription, and a refresh *)
(* never brings another address than the one on record: not even when the  *)
(* operator has removed or replaced the source since the timer found it    *)
(* due (service.refresh_backup_if_due).                                    *)
EachKeepsItsPart ==
    [][\A a \in Actors : Changed(a) /\ backup.is = "record" =>
           /\ call[a].kind \in {"backup-refresh", "backup-replace", "backup-remove"} =>
                  backup'.manual = backup.manual
           /\ call[a].kind \in {"backup-import", "backup-remove-manual"} =>
                  backup'.url = backup.url /\ backup'.nodes = backup.nodes
           /\ call[a].kind = "backup-refresh" => backup'.url = backup.url]_sourcesVars

(* A refresh that reports a failed download keeps the record's address and *)
(* nodes (backup_subscription.refresh).                                    *)
FailureKeepsNodes ==
    [][\A a \in Actors : Changed(a) /\ call'[a].code = "backup_download_failed" /\ backup.is = "record" =>
           backup' = [backup EXCEPT !.error = TRUE]]_sourcesVars

(* The same of the very first refresh: a failed one records the address    *)
(* without nodes.                                                          *)
FirstFailureHasNoNodes ==
    [][\A a \in Actors : Changed(a) /\ call'[a].code = "backup_download_failed" /\ backup.is = "none" =>
           backup'.nodes = <<>>]_sourcesVars

(* A backup operation or sync that reports success has put the nodes that  *)
(* are on record into every eligible profile and into no other, whatever   *)
(* other actors did between its two holds: every setting once, no name     *)
(* twice (service._sync_backup_change, backup_subscription.combined_nodes).*)
OkMeansPublished ==
    [][\A a \in Actors : At(a, "syncing") /\ call'[a].code = "ok" =>
           \A u \in Users : IF u \in Excluded
                            THEN published'[u] = <<>>
                            ELSE IsMerge(backup'.nodes, backup'.manual, published'[u])]_sourcesVars

(* As long as its page opens, a link that is alive is renewed under the    *)
(* same address by the daily refresh, also when it has gone to sleep since *)
(* the last visit (service.auto_refresh_airport).                          *)
LivingLinkIsKept ==
    [][\A a \in Actors :
           (/\ Changed(a) /\ call[a].kind = "auto" /\ call'[a].code # "airport_provider_write_failed"
            /\ airport.activation_url = Page /\ web.portal = "open" /\ airport.source_url \in web.alive) =>
                /\ airport'.source_url = airport.source_url
                /\ airport'.fetched = now]_sourcesVars

(* When the timer has refreshed a source, its sync publishes the nodes.    *)
ScheduledRefreshPublishes ==
    [][At(Timer, "syncing") /\ ~At(Timer, "syncing")' /\ call'[Timer].code # "killed" =>
           \A u \in Users : published'[u] = Wanted(u)]_sourcesVars
=============================================================================
