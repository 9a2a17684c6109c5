------------------------------ MODULE Installer ------------------------------
(***************************************************************************)
(* The integration installer, clash_sub/installer.py: an installation in   *)
(* nine journalled phases that can fail or be killed anywhere and be taken *)
(* up again, the hardening phase run anew by an update, and the rollback   *)
(* that takes everything back to what the machine had before.              *)
(*                                                                         *)
(* The steps of a phase and of the rollback are the entries of a script,   *)
(* in the order of the code.  A file is absent, ours, or foreign (what the *)
(* machine had).                                                           *)
(* Of the many units and nginx files a few stand for all.  What rollback   *)
(* keeps by design (sysctl, journald, swap, certificate, service.yaml) is  *)
(* not tracked.  The flags of the journal that no code reads are left out, *)
(* and so is _retire_online_bridge, with which the hardening phase removes *)
(* the clash-sub-online units of an old version, journalling nothing.      *)
(***************************************************************************)
EXTENDS Integers, Sequences, FiniteSetsExt

CONSTANTS
    MayPreexist,    \* files the machine may have had before
    MaxRuns,        \* bound on operations
    MaxFaults,      \* bound on failing calls
    MaxKills        \* bound on killed processes

Files == {"core", "site", "routes", "link", "socket", "timer", "web"}
Phases == {"preflight", "low_memory", "nginx_packages", "mihomo", "certificate",
           "nginx_activation", "systemd_harden", "subscription_init", "report"}

ASSUME InstallerAssumption ==
    /\ MayPreexist \subseteq Files
    /\ {MaxRuns, MaxFaults, MaxKills} \subseteq Nat

VARIABLES
    files,          \* the contents of the tracked files
    services,       \* which units are active, and enabled at boot
    default,        \* nginx's stock site
    stream,         \* the include block in nginx.conf
    journal,        \* private/install-state.json
    op, phase, pc,  \* the running operation, its phase and its step
    skipped,        \* the phases it found done
    snapshot,       \* the nginx files before their activation
    failures,       \* did a command of this rollback fail?
    outcome,        \* what the last operation reported
    configured,     \* is service.yaml there?
    original,       \* what the machine had before, and which files of it the
                    \* installer failed to read when it came to journal them
    torn,           \* has a rollback begun that did not finish?
    runs, faults, kills

machine == <<files, services, default, stream>>
process == <<op, phase, pc, skipped, snapshot, failures, outcome, configured>>
bounds == <<runs, faults, kills>>
vars == <<machine, journal, process, original, torn, bounds>>

Contents == {"absent", "foreign", "ours"}
Nothing == "nothing"
Captured == {"nginx", "socket", "timer"}    \* units whose first state is kept
Units == Captured \cup {"web"}
UnitState == SUBSET {"active", "enabled"}
On == {"active", "enabled"}
Off == {}
Unknown == {"unknown"}

NoJournal ==
    [exists |-> FALSE, done |-> {}, written |-> {},
     replaced |-> [f \in Files |-> Nothing],
     captured |-> [u \in Captured |-> Unknown],
     started |-> FALSE, site |-> FALSE, stream |-> FALSE]

-----------------------------------------------------------------------------
(* The scripts *)

Step(do, on) == [do |-> do, on |-> on]

preflight == <<Step("check", {}), Step("done", {})>>

optimize_low_memory == <<Step("check", {}), Step("done", {})>>

install_nginx_packages ==
    <<Step("capture", {"nginx"}),
      Step("apt", {}),
      Step("intend_site", {}),
      Step("unlink_site", {}),
      Step("intend_stream", {}),
      Step("write_stream", {}),
      Step("done", {})>>

install_mihomo == <<Step("record", {"core"}), Step("write", {"core"}), Step("done", {})>>

issue_certificate == <<Step("check", {}), Step("done", {})>>

activate_nginx ==
    <<Step("record", {"site", "routes"}),
      Step("snapshot", {}),
      Step("write", {"site"}),
      Step("write", {"routes"}),
      Step("reload", {}),
      Step("enable", {"nginx"}),
      Step("done", {})>>

harden_systemd ==
    <<Step("record", {"link", "socket", "timer", "web"}),
      Step("write", {"link"}),
      Step("write", {"socket"}),
      Step("write", {"timer"}),
      Step("write", {"web"}),
      Step("start", {}),
      Step("check", {}),
      Step("enable", {"socket"}),
      Step("enable", {"timer"}),
      Step("done", {})>>

initialize_subscription == <<Step("check", {}), Step("done", {})>>

finalize == <<Step("done", {})>>

\* The phases of an installation in their order
Phase(name, steps) == [name |-> name, steps |-> steps]
InstallPhases ==
    <<Phase("preflight", preflight),
      Phase("low_memory", optimize_low_memory),
      Phase("nginx_packages", install_nginx_packages),
      Phase("mihomo", install_mihomo),
      Phase("certificate", issue_certificate),
      Phase("nginx_activation", activate_nginx),
      Phase("systemd_harden", harden_systemd),
      Phase("subscription_init", initialize_subscription),
      Phase("report", finalize)>>

RollbackScript ==
    <<Step("stop", {"nginx"}),
      Step("disable", {"nginx"}),
      Step("retire", {"socket"}),
      Step("retire", {"timer"}),
      Step("retire", {"web"}),
      Step("undo", {"core"}),
      Step("undo", {"site"}),
      Step("undo", {"routes"}),
      Step("undo", {"link"}),
      Step("undo", {"socket"}),
      Step("undo", {"timer"}),
      Step("undo", {"web"}),
      Step("undo_stream", {}),
      Step("undo_site", {}),
      Step("reenable", {"socket"}),
      Step("restart", {"socket"}),
      Step("reenable", {"timer"}),
      Step("restart", {"timer"}),
      Step("forget", {})>>

Current == InstallPhases[phase].name
Script == IF op = "rollback" THEN RollbackScript ELSE InstallPhases[phase].steps
At(do) == pc > 0 /\ Script[pc].do = do
Subject == CHOOSE s \in Script[pc].on : TRUE

-----------------------------------------------------------------------------
TypeOK ==
    /\ files \in [Files -> Contents]
    /\ services \in [Units -> UnitState]
    /\ default \in {"unpackaged", "none", "stock", "removed"}
    /\ stream \in {"none", "ours", "edited"}
    /\ journal \in [exists : BOOLEAN, done : SUBSET Phases, written : SUBSET Files,
                    replaced : [Files -> Contents \cup {Nothing}],
                    captured : [Captured -> UnitState \cup {Unknown}],
                    started : BOOLEAN, site : BOOLEAN, stream : BOOLEAN]
    /\ op \in {"none", "install", "update", "rollback"}
    /\ phase \in 0..Len(InstallPhases) /\ (op \in {"none", "rollback"} <=> phase = 0)
    /\ IF op = "none" THEN pc = 0 ELSE pc \in 1..Len(Script)
    /\ skipped \in SUBSET Phases
    /\ snapshot \in [Files -> Contents]
    /\ failures \in BOOLEAN /\ configured \in BOOLEAN /\ torn \in BOOLEAN
    /\ outcome \in {"none", "installed", "updated", "rolled_back", "failed"}
    /\ original \in [files : [Files -> Contents], services : [Units -> UnitState],
                     unread : SUBSET Files]
    /\ runs \in 0..MaxRuns /\ faults \in 0..MaxFaults /\ kills \in 0..MaxKills

\* A unit is on before the installation when its file is there.
Init ==
    /\ files \in {f \in [Files -> {"absent", "foreign"}] :
                    /\ \A x \in Files : f[x] = "foreign" => x \in MayPreexist
                    /\ f["timer"] = f["socket"] /\ f["web"] = "absent"}
    /\ default \in {"unpackaged", "none", "stock"}
    /\ services \in [Units -> UnitState]
    /\ default = "unpackaged" => services["nginx"] = Off
    /\ \A u \in Units \ {"nginx"} : services[u] = IF files[u] = "foreign" THEN On ELSE Off
    /\ stream = "none"
    /\ journal = NoJournal
    /\ op = "none" /\ phase = 0 /\ pc = 0 /\ skipped = {} /\ snapshot = files
    /\ failures = FALSE /\ outcome = "none" /\ configured = FALSE /\ torn = FALSE
    /\ original = [files |-> files, services |-> services, unread |-> {}]
    /\ runs = 0 /\ faults = 0 /\ kills = 0

-----------------------------------------------------------------------------
(* Pieces of steps *)

\* The next phase that was not done when the operation began, 0 for none
Following(p, done) ==
    LET later == {q \in (p + 1)..Len(InstallPhases) : InstallPhases[q].name \notin done}
    IN  IF later = {} THEN 0 ELSE Min(later)

Enter(p) == phase' = p /\ pc' = 1

Finish(result) ==
    /\ op' = "none" /\ phase' = 0 /\ pc' = 0 /\ outcome' = result
    /\ failures' = FALSE
    /\ UNCHANGED <<skipped, snapshot, configured>>

Advance ==
    /\ pc' = pc + 1
    /\ UNCHANGED <<op, phase, skipped, failures, outcome, original, torn, bounds>>
Proceed == Advance /\ UNCHANGED configured

Save(j) == journal' = j

-----------------------------------------------------------------------------
(* Operations begin *)

Begin(kind, done) ==
    /\ op = "none" /\ runs < MaxRuns /\ runs' = runs + 1
    /\ skipped' = done
    /\ IF Following(0, done) = 0
       THEN UNCHANGED <<op, phase, pc>> /\ outcome' = "installed"
       ELSE op' = kind /\ Enter(Following(0, done)) /\ outcome' = "none"
    /\ UNCHANGED <<machine, snapshot, failures, configured, original, torn, faults, kills>>

\* The domain is saved before the first phase; phases done before are skipped.
Install ==
    /\ Save([journal EXCEPT !.exists = TRUE])
    /\ Begin("install", journal.done)

\* run_post_update hardens systemd again, whether or not there is a journal.
Update ==
    /\ configured
    /\ Save([journal EXCEPT !.exists = TRUE])
    /\ Begin("update", Phases \ {"systemd_harden"})

Rollback ==
    /\ op = "none" /\ runs < MaxRuns /\ runs' = runs + 1
    /\ journal.exists
    /\ op' = "rollback" /\ phase' = 0 /\ pc' = 1 /\ outcome' = "none" /\ failures' = FALSE
    /\ torn' = TRUE
    /\ UNCHANGED <<machine, journal, skipped, snapshot, configured, original, faults, kills>>

-----------------------------------------------------------------------------
(* Steps of an installation *)

\* Work outside the tracked state: preflight, tuning, certificate,
\* daemon-reload.  It can only fail; initialize_subscription writes service.yaml.
Check ==
    /\ At("check")
    /\ configured' = (configured \/ Current = "subscription_init")
    /\ Advance /\ UNCHANGED <<machine, journal, snapshot>>

\* Only changed files need a reload, and systemctl reloads only what is active.
CanReload ==
    \/ "active" \in services["nginx"]
    \/ snapshot["site"] = "ours" /\ snapshot["routes"] = "ours"

Reload ==
    /\ At("reload") /\ CanReload
    /\ Proceed /\ UNCHANGED <<machine, journal, snapshot>>

\* Mutant of Capture: each attempt captures the state anew.
CaptureAnew ==
    /\ At("capture")
    /\ Save([journal EXCEPT !.captured["nginx"] = services["nginx"]])
    /\ Proceed /\ UNCHANGED <<machine, snapshot>>

Capture ==
    /\ At("capture")
    /\ Save(IF journal.captured["nginx"] = Unknown
            THEN [journal EXCEPT !.captured["nginx"] = services["nginx"]] ELSE journal)
    /\ Proceed /\ UNCHANGED <<machine, snapshot>>

\* A fresh package comes with the stock site and starts nginx.
Apt ==
    /\ At("apt")
    /\ IF default = "unpackaged"
       THEN default' = "stock" /\ services' = [services EXCEPT !["nginx"] = On]
       ELSE UNCHANGED <<default, services>>
    /\ Proceed /\ UNCHANGED <<files, stream, journal, snapshot>>

IntendSite ==
    /\ At("intend_site")
    /\ Save([journal EXCEPT !.site = @ \/ default = "stock"])
    /\ Proceed /\ UNCHANGED <<machine, snapshot>>

UnlinkSite ==
    /\ At("unlink_site")
    /\ default' = IF default = "stock" THEN "removed" ELSE default
    /\ Proceed /\ UNCHANGED <<files, services, stream, journal, snapshot>>

IntendStream ==
    /\ At("intend_stream")
    /\ Save([journal EXCEPT !.stream = @ \/ stream = "none"])
    /\ Proceed /\ UNCHANGED <<machine, snapshot>>

\* A marker that is there already, edited or not, is left alone.
WriteStream ==
    /\ At("write_stream")
    /\ stream' = IF stream = "none" THEN "ours" ELSE stream
    /\ Proceed /\ UNCHANGED <<files, services, default, journal, snapshot>>

\* _record_replacement looks at what is there and neither known nor ours.
Unknowns(fs) ==
    {f \in fs : journal.replaced[f] = Nothing /\ f \notin journal.written /\ files[f] # "absent"}

\* The journal names every file of a phase before the first is written, with
\* what it replaces; of the unread files it has the names only.  The hardening
\* phase captures the state of its units in the same save.
Journal(fs, unread) ==
    LET read == Unknowns(fs) \ unread
        fresh == {u \in fs \cap Captured : journal.captured[u] = Unknown}
    IN  Save([journal EXCEPT
                !.written = @ \cup fs,
                !.replaced = [f \in Files |-> IF f \in read THEN files[f] ELSE @[f]],
                !.captured = [u \in Captured |-> IF u \in fresh THEN services[u] ELSE @[u]]])

Record ==
    /\ At("record")
    /\ Journal(Script[pc].on, {})
    /\ Proceed /\ UNCHANGED <<machine, snapshot>>

\* An existing file or link cannot be read: _record_replacement returns, and
\* the phase goes on as if there had been nothing.
RecordUnread ==
    /\ At("record")
    /\ faults < MaxFaults /\ faults' = faults + 1
    /\ \E unread \in SUBSET Unknowns(Script[pc].on) \ {{}} :
          /\ Journal(Script[pc].on, unread)
          /\ original' = [original EXCEPT !.unread = @ \cup unread]
    /\ pc' = pc + 1
    /\ UNCHANGED <<machine, op, phase, skipped, snapshot, failures, outcome, configured,
                   torn, runs, kills>>

Snapshot ==
    /\ At("snapshot")
    /\ snapshot' = files
    /\ Proceed /\ UNCHANGED <<machine, journal>>

\* A foreign command link is never overwritten.
Conflict == Subject = "link" /\ files["link"] = "foreign"

Write ==
    /\ At("write")
    /\ ~Conflict
    /\ files' = [files EXCEPT ![Subject] = "ours"]
    /\ Proceed /\ UNCHANGED <<services, default, stream, journal, snapshot>>

\* activate_nginx_files without a journal puts back what it found.
Unwound ==
    IF Current = "nginx_activation" /\ Script[pc].do \in {"write", "reload"}
    THEN [files EXCEPT !["site"] = snapshot["site"], !["routes"] = snapshot["routes"]]
    ELSE files

\* The phase fails by itself: _install_cli_symlink refuses, or nginx is stopped.
Refuse ==
    /\ \/ At("write") /\ Conflict
       \/ At("reload") /\ ~CanReload
    /\ files' = Unwound
    /\ Finish("failed")
    /\ UNCHANGED <<services, default, stream, journal, original, torn, bounds>>

Start ==
    /\ At("start")
    /\ Save([journal EXCEPT !.started = TRUE])
    /\ Proceed /\ UNCHANGED <<machine, snapshot>>

Enable ==
    /\ At("enable")
    /\ services' = [services EXCEPT ![Subject] = On]
    /\ Proceed /\ UNCHANGED <<files, default, stream, journal, snapshot>>

PhaseDone ==
    /\ At("done")
    /\ Save([journal EXCEPT !.done = @ \cup {Current}])
    /\ IF Following(phase, skipped) = 0
       THEN Finish(IF op = "install" THEN "installed" ELSE "updated")
       ELSE /\ Enter(Following(phase, skipped))
            /\ UNCHANGED <<op, skipped, snapshot, failures, outcome, configured>>
    /\ UNCHANGED <<machine, original, torn, bounds>>

\* Mutant of InstallFails: a phase counts as done whether or not it succeeded.
FailsAsDone ==
    /\ op \in {"install", "update"}
    /\ faults < MaxFaults /\ faults' = faults + 1
    /\ Save([journal EXCEPT !.done = @ \cup {Current}])
    /\ Finish("failed")
    /\ UNCHANGED <<machine, original, torn, runs, kills>>

\* A call of the step fails and the installation stops.
InstallFails ==
    /\ op \in {"install", "update"}
    /\ faults < MaxFaults /\ faults' = faults + 1
    /\ files' = Unwound
    /\ Finish("failed")
    /\ UNCHANGED <<services, default, stream, journal, original, torn, runs, kills>>

-----------------------------------------------------------------------------
(* Steps of a rollback *)

Replaced(f) == journal.replaced[f] # Nothing
Hardened == "systemd_harden" \in journal.done \/ journal.started

\* Is the command of this step called for?
Due ==
    LET u == Subject
        was == IF u \in Captured THEN journal.captured[u] ELSE Unknown
    IN  CASE At("stop")     -> was # Unknown /\ "active" \notin was
          [] At("disable")  -> was # Unknown /\ "enabled" \notin was
          [] At("retire")   -> Hardened /\ (u = "web" => "web" \in journal.written /\ ~Replaced("web"))
          [] At("reenable") -> Hardened /\ "enabled" \in was
          [] At("restart")  -> Hardened /\ "active" \in was

IsCommand ==
    /\ op = "rollback"
    /\ Script[pc].do \in {"stop", "disable", "retire", "reenable", "restart"}

\* systemctl knows a unit by its file; nginx's comes with the package.
Known(u) == IF u = "nginx" THEN default # "unpackaged" ELSE files[u] # "absent"

Effect(was) ==
    CASE At("stop")     -> was \ {"active"}
      [] At("disable")  -> was \ {"enabled"}
      [] At("retire")   -> Off
      [] At("reenable") -> was \cup {"enabled"}
      [] At("restart")  -> was \cup {"active"}

Command ==
    /\ IsCommand
    /\ services' = IF Due /\ Known(Subject)
                   THEN [services EXCEPT ![Subject] = Effect(@)] ELSE services
    /\ failures' = (failures \/ (Due /\ ~Known(Subject)))
    /\ pc' = pc + 1
    /\ UNCHANGED <<files, default, stream, journal, op, phase, skipped, snapshot, outcome,
                   configured, original, torn, bounds>>

\* A failing command is remembered and the rollback goes on.
CommandFails ==
    /\ IsCommand /\ Due
    /\ faults < MaxFaults /\ faults' = faults + 1
    /\ failures' = TRUE
    /\ pc' = pc + 1
    /\ UNCHANGED <<machine, journal, op, phase, skipped, snapshot, outcome, configured,
                   original, torn, runs, kills>>

\* Mutant of Undo: whatever the journal names is removed.
UndoByRemoval ==
    /\ At("undo")
    /\ files' = IF Subject \in journal.written THEN [files EXCEPT ![Subject] = "absent"] ELSE files
    /\ Proceed /\ UNCHANGED <<services, default, stream, journal, snapshot>>

\* _rollback_file
Undo ==
    /\ At("undo")
    /\ LET f == Subject
       IN  files' = IF Replaced(f) THEN [files EXCEPT ![f] = journal.replaced[f]]
                    ELSE IF f \in journal.written THEN [files EXCEPT ![f] = "absent"]
                    ELSE files
    /\ Proceed /\ UNCHANGED <<services, default, stream, journal, snapshot>>

\* An edited block is left to the operator.
UndoStream ==
    /\ At("undo_stream")
    /\ stream' = IF journal.stream /\ stream = "ours" THEN "none" ELSE stream
    /\ Proceed /\ UNCHANGED <<files, services, default, journal, snapshot>>

UndoSite ==
    /\ At("undo_site")
    /\ default' = IF journal.site /\ default = "removed" THEN "stock" ELSE default
    /\ Proceed /\ UNCHANGED <<files, services, stream, journal, snapshot>>

\* With a failed command the journal stays for another attempt.
Forget ==
    /\ At("forget")
    /\ IF failures
       THEN Finish("failed") /\ UNCHANGED <<journal, torn>>
       ELSE Finish("rolled_back") /\ Save(NoJournal) /\ torn' = FALSE
    /\ UNCHANGED <<machine, original, bounds>>

\* A failing file operation ends the rollback on the spot.
RollbackFails ==
    /\ op = "rollback" /\ ~IsCommand
    /\ faults < MaxFaults /\ faults' = faults + 1
    /\ Finish("failed")
    /\ UNCHANGED <<machine, journal, original, torn, runs, kills>>

-----------------------------------------------------------------------------
(* The process is killed; the operator acts between operations *)

Kill ==
    /\ op # "none"
    /\ kills < MaxKills /\ kills' = kills + 1
    /\ Finish("none")
    /\ UNCHANGED <<machine, journal, original, torn, runs, faults>>

\* After cli_symlink_conflict: the foreign command goes.
RemoveLink ==
    /\ op = "none" /\ files["link"] = "foreign"
    /\ files' = [files EXCEPT !["link"] = "absent"]
    /\ original' = [original EXCEPT !.files["link"] =
                        IF Replaced("link") THEN @ ELSE "absent"]
    /\ UNCHANGED <<services, default, stream, journal, process, torn, bounds>>

EditStream ==
    /\ op = "none" /\ stream = "ours"
    /\ stream' = "edited"
    /\ UNCHANGED <<files, services, default, journal, process, original, torn, bounds>>

\* web_manage turns the pages on; it needs the configuration, the unit and, to
\* render nginx anew, the domain and the panel's port from the journal.  With
\* no hardening on record no rollback takes this back: the unit is then one of
\* the operator's.
WebOn ==
    /\ op = "none" /\ files["web"] = "ours"
    /\ configured /\ "nginx_activation" \in journal.done
    /\ services' = [services EXCEPT !["web"] = On]
    /\ original' = [original EXCEPT !.services["web"] = IF Hardened THEN @ ELSE On]
    /\ UNCHANGED <<files, default, stream, journal, process, torn, bounds>>

Next ==
    \/ Install \/ Update \/ Rollback
    \/ Check \/ Reload \/ Capture \/ Apt \/ IntendSite \/ UnlinkSite \/ IntendStream \/ WriteStream
    \/ Record \/ RecordUnread \/ Snapshot \/ Write \/ Refuse \/ Start \/ Enable \/ PhaseDone \/ InstallFails
    \/ Command \/ CommandFails \/ Undo \/ UndoStream \/ UndoSite \/ Forget \/ RollbackFails
    \/ Kill \/ RemoveLink \/ EditStream \/ WebOn

Spec == Init /\ [][Next]_vars

-----------------------------------------------------------------------------
(* Correctness *)

\* The journal is ahead of the machine: at every moment, also between a step
\* and its next save, whatever differs from before is named in the journal
\* with what it takes to restore it (_record_replacement, the intents and the
\* captured states), but for the files it could not read when it recorded them.
\* Pages that are off need no entry: a rollback never turns them on again,
\* since it removes their unit.
JournalCoversChanges ==
    /\ \A f \in Files \ original.unread : files[f] # original.files[f] =>
          /\ f \in journal.written
          /\ original.files[f] = "foreign" => journal.replaced[f] = "foreign"
    /\ \A u \in Captured : services[u] # original.services[u] =>
          journal.captured[u] = original.services[u]
    /\ \A u \in {"socket", "timer"} : services[u] # original.services[u] => Hardened
    /\ services["web"] \notin {Off, original.services["web"]} => Hardened
    /\ default = "removed" => journal.site
    /\ stream = "ours" => journal.stream

\* A rollback that reports success has put everything back, whatever failed,
\* was killed, repeated or edited before (rollback_install), but for the files
\* that could not be read when they were recorded: a read that failed costs no
\* other file.
RollbackRestores ==
    outcome = "rolled_back" =>
        /\ \A f \in Files \ original.unread : files[f] = original.files[f]
        /\ \A u \in Captured : services[u] = original.services[u]
        /\ services["web"] \in {Off, original.services["web"]}
        /\ default # "removed" /\ stream # "ours"

\* What a rollback that reports success owes to every file the machine had:
\* _record_replacement is to "remember pre-existing file/symlink so rollback
\* can restore it", but swallows the error of a failed read, so that this is
\* false after RecordUnread.
ForeignFilesComeBack ==
    outcome = "rolled_back" =>
        \A f \in Files : original.files[f] = "foreign" => files[f] = "foreign"

\* An installation that reports success is complete, though its phases may
\* have run in several attempts, provided that no unfinished rollback has
\* taken some of them back (install).
InstalledIsComplete ==
    outcome = "installed" /\ ~torn =>
        /\ \A f \in Files : files[f] = "ours"
        /\ \A u \in Captured : services[u] = On
        /\ stream # "none" /\ default \in {"none", "removed"}

\* A rollback that failed keeps the journal to be repeated (in the words of the
\* tests, "keeps journal for retry"): with nginx installed, no command of it
\* fails unless the call itself does.  False when the first attempt removed a
\* unit, which the second one disables again.
RetryCompletes ==
    [][op = "rollback" /\ op' = op /\ faults' = faults /\ default # "unpackaged"
       => failures' = failures]_vars

=============================================================================
