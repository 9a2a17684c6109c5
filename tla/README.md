# Formal model of clash-sub

TLA+ modules, TLC configurations and TLAPS proofs for `clash_sub`: a program that
renders Clash/Mihomo subscriptions for the clients of a 3x-ui panel, publishes them
through nginx under capability tokens, and is operated from a terminal menu, a daily
timer and an owner's web portal.  Paths below are relative to `src/`; a line number
without a file belongs to the file named before it.

1. [Inventory](#1-inventory)
2. [Modules](#2-modules)
3. [Runs](#3-runs)
4. [Proofs](#4-proofs)
5. [What is not modelled](#5-what-is-not-modelled)
6. [Plan](#6-plan)

## 1. Inventory

One file lock, `private/operation.lock` (`clash_sub/operation.py:11`), serialises
everything that changes published state.  It is taken without waiting: whoever finds
it taken fails with `operation_busy`.  Several processes compete for it: terminal
commands, the daily timer, the worker of a portal task, the boot-time recovery, and the
web portal itself.  The files are changed with `os.replace` and `fsync`, and three
journals (`private/.activation-journal.json`, the airport's own, and the one of the
nginx files) let the next holder of the lock undo what a dead one left.  The installer
keeps a fourth, `private/install-state.json`, for months.

| Component | State | Operations | What is hard | What makes it correct |
|---|---|---|---|---|
| **Runtime activation** `nginx.py` (148-216, 433-605, 1028-1085) | `state.json`, the routes file, `current/*` markers, the activation journal, the routes nginx has loaded | `activate_runtime`, `recover_runtime` (before any command, at boot, by hand) | kills and power losses between any two file operations; `nginx -t` and `nginx -s reload` that fail or time out after taking effect; a journal whose fsync fails | all or nothing; a reported success is durable; a reported failure changed nothing; nginx serves what is on file; the journal does not stay |
| **nginx file activation** `nginx.py` (219-430) | the site files and their own journal | `activate_nginx_files` with and without a journal, for switches, updates and the installer | a journal of one command recovered by another | a failed switch is taken back; what was closed stays closed |
| **Airport store** `airport_store.py`, `airport_source.py` | the provider document and its source record in two directories, backups, a journal | `replace`, `recover`, reads | two directories that reach the disk independently; a rollback that is repeated | the pair is never half switched; a rollback is never stuck; the reports are true |
| **Link state** `state.py` | users, tokens, the owner, the airport token, schema version 1 or 2 | reconcile, migrate, rotate, reinitialise the owner | emails, owners and clients of the panel change between operations | replaced tokens stay dead; the airport address survives |
| **Operation service** `service.py` | none of its own; everything through the stores | sync, rotations, rollback, owner replacement, airport and backup operations | candidates are prepared one user at a time, some fail; backup operations are two holds of the lock | every published profile names addresses that are served; a sync publishes everyone it reports no error for |
| **Release store** `release_store.py` | immutable releases per client, each a private and a public directory; markers | prepare, verify, history, discard, prune | two renames in two directories; removals that tear; a prune at its limit | the current release is whole; a failed prepare leaves nothing |
| **Portal tasks** `web_tasks.py` | `web-tasks.json`, at most 30 rows | `enqueue`, `update`, `run`, `delete_history` | portal, systemd, worker and every other operation interleave; lost and repeated requests; reboots | each request once, only with the authority it was confirmed with, none unfinished for ever |
| **Page capabilities** `web_settings.py`, `web_manage.py` | `web-settings.json`: switches, page tokens bound to links | the eight actions of `execute`, `provision_pages`, `rebind_subscription` | settings, nginx files, socket and code change one after the other; a rotation and its rebinding are two holds of the lock | a switch that succeeds is in force, one that fails is taken back; a page keeps its address |
| **Web server** `web_server.py` | sessions, panel passwords waiting in memory, attempt counts | login, logout, views | one process with a thread per request | a session that ended has no effect later |
| **Metadata service** `metadata.py`, `metadata_server.py` | traffic of five minutes ago, a cache file | read, refresh, persist | clock jumps, two processes with one cache file | an answer is never older than it says |
| **Speed leases** `speeds.py` | viewers with leases of eight seconds, one reader thread, one socket to the panel | renew, release, revoke | a lease expires while the reader connects and another viewer arrives | a password is sent once; speeds are live; no socket without viewers |
| **Usage caches** `airport_usage.py`, `bandwagon.py`, `online.py`, `software_updates.py` | the last success and its time | read, record, check | failures, restarts, clock jumps, changed credentials, provider resets | a figure is of the account shown; one check a day; one correction a cycle |
| **Backup subscription** `backup_subscription.py`, `node_import.py` | `backup-source.json`: an address with its nodes, manual nodes | replace, refresh when due, import, remove | the source is read in no hold of the lock, replaced in one and published in another | no operation undoes another's part; success means published |
| **Airport portal and download** `airport_portal.py`, `sources.py` | none | open the portal, try the old link, fetch a new one, download | each step may fail; a link may be asleep | a link that lives is kept |
| **Configuration generation** `generator.py`, `checks.py`, `template_sync.py`, `node_subscription.py`, `mihomo.py` | three public template files | template-sync, render, check | the template is made by stripping a private document and tried out with made-up users only; groups are dropped in passes | every real user's profile is valid; the owner gets the document back |
| **Installer and management** `installer.py`, `manage.py`, `install.sh` | the installed files, unit states, `install-state.json` | install (nine phases), update, roll back | any step fails or is killed and the whole is taken up again, perhaps by another operation | what changed is journalled first; a rollback gives the machine back |
| **Panel database** `xui.py` | read only | snapshot | changes at any time | -- |
| **Command line** `cli.py` | none | menus, `recover`, the scheduled refresh | -- | -- |

How they interact: `service.py` reads a snapshot of the panel, reconciles it with
`state.json`, prepares releases in the release store, and hands state, routes and
markers to `activate_runtime`.  `web_tasks.run` calls `service.py` with a lock that
checks the owner's authority once more, and rebinds the pages afterwards.  The airport
store and `backup-source.json` are used by `service.py` under the same lock.  The web
portal starts workers through systemd and never waits for them; its live figures come
from threads of its own.  The installer and `web_manage` call `activate_nginx_files`.

`PROJECT.json` lists every component with its status and every hazard with its line.

## 2. Modules

| Module | Role |
|---|---|
| `RuntimeArtifacts` | the files of one activation, updates, snapshots and journals, and the runtime that a journal would recover: shared by the next two |
| `AtomicRuntime` | abstract specification: the runtime moves from one complete value to the next in one step, a power loss falls back to a complete one |
| `RuntimeActivation` | `activate_runtime` and `recover_runtime`, one action per file operation |
| `MCRuntimeActivation` | an instance with `state.json`, the routes and one marker |
| `RuntimeActivation_proofs` | theorems about `RuntimeActivation` |
| `AirportTransaction` | `AirportStore.replace` and `recover`, one action per directory operation |
| `ReleaseStore`, `ReleaseStore_proofs` | the releases of one client, one action per directory operation; theorems |
| `LinkState` | `state.py` and `render_routes` as operators |
| `LinkService` | the operations of `service.py` on links, over the release store and a changing panel |
| `MCLinkService` | an instance with two clients, and its symmetry |
| `LinkService_proofs` | theorems about `LinkService`, with lemmas about the operators of `LinkState` |
| `BackupNodes` | `backup_subscription.py` as operators on the record |
| `AirportRefresh` | the four airport operations as functions from the airport's answers to an outcome |
| `Sources`, `MCSources` | operator and timer changing both, in their holds of the lock; an instance |
| `Sources_proofs` | theorems about `AirportTransaction` and `Sources` |
| `WebTasks` | the owner's tasks: portal, systemd, workers, the shared lock |
| `WebAccess`, `WebAccess_proofs` | the portal's switches, pages, nginx files, socket and code; updates, renewals, rotations; theorems |
| `Installer`, `Installer_proofs` | install, update and rollback as scripts of steps over one journal; theorems |
| `PortalClock` | the clock of the machine, which may be set back, and the troubles of a behaviour |
| `TrafficCache`, `VersionChecks`, `ProviderUsage`, `UsageHistory`, `SpeedLeases` | one figure of the portal each |
| `Portal` | their composition |
| `WebPortal_proofs` | theorems about `WebTasks` and `Portal` |
| `Profiles` | proxy groups from private document to template, profile and publication check, as operators |
| `TemplateSync`, `MCTemplateSync`, `TemplateSync_proofs` | template-sync and rendering over them; an instance; theorems |

How they fit.  `RuntimeActivation` implements `AtomicRuntime` (the property
`AllOrNothing`, with `runtime` and `stable` mapped to what a recovery would establish
now and after a power loss).  `LinkService` and `ReleaseStore` take an activation as one
step with the outcomes that `RuntimeActivation` reaches: it happens, it is refused or
rolled back, or a journal is left that will undo it while the files are any mixture.
`LinkService` takes `prepare` as one step, which `ReleaseStore` shows to be one: what
fails leaves nothing, what is returned is whole.  `Sources` takes an airport replacement
as one step, which `AirportTransaction` shows, and the part of a sync that carries the
backup nodes.  `WebTasks` takes an operation as one hold of the lock that has an effect
or none; `WebAccess` has the rotation and its rebinding as two.

**Runtime activation.**  `file` is what a process sees, `disk` what is durable;
`_fsync_directory` copies a directory's entries from the first to the second, and
`Writeback` lets the kernel do so for any entry at any time.  `pc` walks through
`activate_runtime` (snapshot, journal, replacements each followed by its fsync, `nginx
-t`, reload when the routes changed, commit, removal of the journal) and
`recover_runtime` (restore in the order of the journal, sync, test, reload, drop the
journal).  `loaded` is what nginx runs with.  Faults are failing calls; a reload that
times out may have taken effect.  `Kill` leaves the visible files, `PowerLoss` the
durable ones.  Lost locals are cleared.

**Airport store.**  Contents are transaction numbers.  Each of the two directories has a
visible and a durable value, and within a directory changes reach the disk in order.
Candidate files do not matter to a recovery and are left out.

**Release store.**  A directory is absent, staged, ready (complete and forced to disk
under its staging name), released (under its final name) or torn.  `store` is what
programs see, `disk` the set of values a power loss may leave; an fsync makes it a
singleton.  The steps are those of `prepare`, then the activation, and the removals of a
discard or a prune in their order.  A clock set back may draw a release id that sorts
before older ones.

**Links.**  A token is a core (which operation drew it, for whom, whether it was hashed
into the airport capability) and a suffix.  A release is what its bundle names: the
provider tokens and one value for everything else.  `panel` changes at any time; a
`job` keeps the snapshot the operation read.  Every user of a sync is prepared by a
step of its own, in any order.

**Sources.**  An airport operation is one hold of the lock, in which `AirportRefresh`
computes the outcome from what the portal and the links answer.  A backup operation is
two (`service.py:213-242`): the record is changed, then a sync publishes it.  The timer
reads the record before its first hold.  Both actors may be killed, calls may fail, a
record may be damaged, the airport's site may close its portal or let links sleep or die.

**Portal tasks.**  `rows` is `web-tasks.json`; `holder` is the one lock, because
`_OperationLock` opens `operation.lock` whatever name it is given (`operation.py:27`).
Short accesses to the record take and release the lock in one step.  A worker's steps
follow `run` (`web_tasks.py:158`): claim, first check and note, the operation with its
check under the lock, the page rebinding under the lock, the report.

**Web access.**  `op` is the command that holds the lock, walking through
`web_manage.execute` or `manage.run_update`: enable the socket, write the settings,
recover the nginx journal, prepare, replace, test, reload, commit, drop, put back on
failure, stop the services at the end.  `conf` is the file, `loaded` what nginx runs
with; a certificate renewal reloads at any time.  The portal's rotation (`task`) takes
the lock twice, and any command may come between.

**Installer.**  The nine phases (`InstallPhases`) and the rollback (`RollbackScript`) are
sequences of steps in the order of the code: capture, record, write, start, enable, mark
done; or the commands, restorations and removals of the rollback.  `phase` and `pc` say
where an operation is.  What a rollback step does is drawn from the journal when the step
is reached; a finished phase goes on to the next one that was not done when the operation
began (`Following`).  `Record` and `RecordUnread` are the two ways of `_record_replacement`:
it keeps what was there, or fails to read it and returns, and the file is journalled as
written all the same.  `original.unread` remembers for which files that happened.

**Portal figures.**  Each cached figure has a file, a memory and an age; the worker and the
reader are threads with a program counter; every hold of a lock is one action.

**Profiles.**  A group is the set of its members and the set of its providers.
`Sanitized` and `Manifest` are what `template-sync` makes of a private document,
`Composed` and the passes of `_drop_unusable_groups` what the generator makes of the
template for a user, `Valid` what `validate_clash` asks of the groups and rules.

Definitions with "Mutant of" or "A slip" in their comment (or set beside the definition
they vary, without a comment) are plausible bugs of the definition that follows; no
specification uses them.  `PROJECT.json` says which property each must break.


## 3. Runs

With two workers the longest takes two minutes, most less than one.  "Troubles" and
"faults" count failing calls.

| Run | Specification and bounds | Question and answer |
|---|---|---|
| `RuntimeAtomic` | two faults, two crashes, four kinds of update, one of them rejected by nginx, recovery by hand allowed | **`AllOrNothing`**: at every step a recovery would establish a complete old or new runtime, now and after a power loss.  **`PublishedIsDurable`**: a success after a switch survives a power loss.  **`RecoveryTargetIsValid`**: what is recovered is accepted by `nginx -t` |
| `RuntimeOneFault` | one fault, one crash, a marker that may be missing, no recovery by hand | **`LoadedMatchesRoutes`**: nobody at work and no journal implies that nginx serves the routes on file.  **`FailureKeepsRuntime`**: a failure left the old runtime or a journal that restores it.  **`JournalIsResolved`** (under `FairSpec`) |
| `AirportPair` | two transactions; two faults with two kills or with two power losses | **`NeverHalfSwitched`**: whenever nobody is at work the next recovery establishes a complete pair.  **`RollbackPossible`**: no rollback lacks what it needs.  **`JournalIsResolved`** (under `FairSpec`) |
| `ReleaseStore` | three releases of one client, a store that keeps one, three troubles (failing steps, kills, power losses) | **`CurrentIsIntact`**: what is served, or would be after a pending recovery, has both its directories complete.  **`FailureLeavesNothing`**: a prepare that reports a failure left no directory of its release |
| `Links` | three operations, one change of the panel of any kind (add, rename, disable, delete, replace, return), two faults, one kill, a store that keeps one release | **`PublishedProvidersAreServed`**: the provider addresses in the owner's published profiles are answered.  **`SyncPublishesEveryone`**: a sync publishes everyone it reports no error for.  **`RevokedStaysRevoked`**: a token that was replaced answers nobody, ever.  **`AirportAddressSurvives`**: the airport address changes only by its own rotation.  **`FailedUserKeepsLinks`**: who fails in a sync keeps what he had |
| `BackupSources` | two operations, one timer, one day, two troubles or kills, two addresses, two airport links | **`EachKeepsItsPart`**: timer and operator never take back each other's part of the record.  **`OkMeansPublished`**: a reported success has published what is on record.  **`LivingLinkIsKept`**: while its page opens, the daily refresh keeps a living link, a sleeping one included |
| `BackupScheduled` | one timer, no troubles | violates `ScheduledRefreshPublishes`: see the finding |
| `Tasks` | two tasks, one other operation or deletion of the history, two stops (failed starts, failed operations, kills, reboots) | **`AppliedOnce`**: no request has two effects.  **`OnlyAuthorizedEffects`**: an effect happens only while the link it was confirmed with is in force.  **`TasksAreResolved`** (under `FairSpec`): no row stays unfinished |
| `WebAccess` | three commands, one rotation, two faults and a kill | **`SuccessIsInForce`**: a switch that reports success holds in files, nginx and socket.  **`FailureRestores`**: one that fails is back at what was, or a journal will bring it back.  **`ClosedStaysClosed`**: nothing but its own switch opens what the owner closed.  **`PageSurvivesRotation`**: a page keeps its token when its link is rotated |
| `InstallerLifecycle` | three runs of install, update and rollback, two faults, one kill, four things that may exist before | **`JournalCoversChanges`**: whatever differs from the machine before is in the journal, with what it takes to restore it, but for files that could not be read when they were recorded.  **`RollbackRestores`**: a complete rollback gives the machine back, with the same exception.  **`InstalledIsComplete`**: a reported installation has all its parts |
| `Portal` | seven ticks, two troubles, one figure in a behaviour; for speeds two sessions, two viewers, two attempts of a viewer | **`AnswersAreRecent`**: traffic is not older than its lifetime unless the newer read failed.  **`ChecksAreDaily`**: no second version check within a day.  **`UsageIsOfTheAccount`**: no figure of another account.  **`CycleIsCorrectedOnce`**: one correction in a billing cycle.  **`SpeedsAreLive`**, **`PasswordIsSentOnce`**, **`DesertedMeansClosed`** (under `PortalFairSpec`): speeds are of a connection that is up, a panel password goes out once, a socket nobody views is closed |
| `TemplateSync` | every private document of the instance, two syncs, a failing write at any file | **`SyncedTemplatesRender`**: what a sync accepted with its made-up users renders for every real user.  **`DropIsExact`**: no group is dropped that a node, a target or a provider holds up, and what is left holds itself up.  **`OwnerGetsTheSource`**: the owner's profile has the private document's groups again.  **`SyncIsAllOrNothing`**: a failed sync changed no file |

Each definition has the exact statement in its comment.  Stated in
the modules, true under the same bounds, but in no run, because another property of the
run covers most of what they say: the `TypeOK`s, `ReportIsTrue`
(`AirportTransaction`), `ServedReleasesExist` and `StateAgreesWithMarkers`
(`LinkService`), `OneTaskAtATime`, `UnstartedNeverRuns`, `SuccessIsTrue` (`WebTasks`),
`UpdatedCodeServes` and `ReplacedPageIsDead` (`WebAccess`), `RecordIsReadable`,
`AirportComesTogether`, `FailureKeepsNodes` (`Sources`), `HistoryIsReadable` and
`ChecksEnd` (`Portal`).  Those that the code does not keep are listed below.

**Why the bounds are enough.**  An activation treats all its files alike but for their
order and the routes, so three files in three directories with a first, a middle and a
last position show every order of replacements; two contents tell old from new and a
third is rejected.  Two crashes allow a crash during the recovery from a crash.  Two
airport transactions let a second one find what the first one left, and three releases
with a store that keeps one let a prune meet a current, a previous and a doomed release.
Two clients are an owner and another user; three emails allow a rename to a fresh address
and an exchange; three operations are a publication, a change and an operation that
meets its consequences.  Two changes of the panel, without returning clients, pass as
well but take minutes.  Two tasks and two requests are enough for a task that meets
another.  The holds of two actors, operator and timer, are all there are: two commands
cannot hold the lock together.  The installer's files stand for all of their kind (one
that existed before, one that did not, a unit, a link).  Lifetimes of the portal's
figures are as small as their order to each other allows, and the ticks reach past each
of them; the figures share nothing but the clock, so a behaviour follows one of them.
The documents of `MCTemplateSync` contain each shape the passes tell apart: a group of
nodes, of groups, of the primary provider, of the backup provider, chains and circles of
groups that lose their last member in turn.

**Fairness.**  The process that holds the lock runs on (weak fairness of its steps):
it is one sequential program and waits for commands with timeouts only.  Nothing
recovers in the background: the one timer, `clash-sub-airport-refresh.timer`, runs once
a day.  `FairSpec` of `RuntimeActivation` therefore states that commands and starts of
nginx are repeated, strongly fair because the lock may be taken when one is tried;
`FairSpec` of `AirportTransaction` that the daily read keeps coming.  In `WebTasks` a
started worker runs on, `systemctl` answers within its five seconds, other operations
end, and an hour passes.  In `Portal` (`PortalFairSpec`) the threads that check versions
and read speeds run on, as each of their waits has a timeout, and seconds pass.  No
fairness is assumed of enqueueing, viewers, crashes or faults.

**Deadlock** is checked in `RuntimeAtomic`, `RuntimeOneFault` and `AirportPair`.  In the
others it is not: when the bounds are used up, or the commands have ended, the system may
stop.

### Finding

- **The scheduled refresh records new backup nodes and publishes none**
  (`BackupScheduled`; `clash_sub/installer.py:918`).  The unit of the daily timer may
  write `private` and `public/provider` only; when the backup source has changed,
  `refresh_backup_if_due` (`service.py:229`) goes on to a sync, whose `prepare` creates
  directories below `public/` (`release_store.py:105`) and whose activation writes the
  routes and reloads nginx.  Every user of that sync fails, the nodes stay on record
  unpublished until somebody syncs by hand, and `README.md:48` promises the opposite.
  `tests/test_lightweight_deployment.py:313` fixes the unit's paths as they are.

### Where the passing runs stop

These are facts about the code that the bounds of the passing runs step around; each can
be seen by changing the bound, or checking the property, that is named.

*Runtime and airport.*

- `LoadedMatchesRoutes` fails with `RecoverByHand = TRUE` (`cli.py:1278`): `clash-sub
  recover` restores without a reload, as the boot-time recovery does, but nginx may be
  running.  After a kill between reload and commit the file goes back, nginx does not, and
  a later activation of the file's routes does not reload either.
- `FailureKeepsRuntime` fails with `MaxFaults = 2`: when the fsync of the committed
  journal fails twice, a failure is reported over a runtime that stays new
  (`nginx.py:498`).
- `AllOrNothing` fails when a marker may be missing (`MayBeMissing = {marker}`) and the
  power goes: a rollback that finds the new marker removed already skips the fsync
  (`nginx.py:1053`).
- `PublishedIsDurable` leaves out an activation that changes nothing: it reports success
  although the removal of an earlier journal may not be durable.
- `NeverHalfSwitched` fails with `LateFaults = TRUE`: the fsync after the removal of the
  airport journal fails, `_abort` rolls back without a journal, and a second fault, or a
  kill, comes between its two restores (`airport_store.py:201`).  In the passing run that
  failing fsync is the only trouble of a behaviour.  It fails with `Mixed = TRUE` too: a
  kill between the unlink of the journal and its fsync, the sweep of the backups
  by the next operation, and a power loss, after which the journal is back without them
  (`airport_store.py:233`).
- The provider's backup is not durable when the airport journal is
  (`airport_store.py:187`), in contrast to the comment of `replace`.  No recovery goes
  wrong by it as long as the changes of one directory reach the disk in order.

*Links and releases.*

- `SyncPublishesEveryone` fails with `MaxChanges = 2` and `Returning = TRUE`: the marker
  of a client that was deleted and comes back names a release with the same contents,
  `prepare` returns nothing to publish, and the user has no release
  (`release_store.py:78`).
- `PublishedProvidersAreServed` is stated for addresses under the owner's present email.
  After a rename `prepare_link_update` pins the derived airport token, the bundle is
  rendered with the pinned one, and the activated state has none, so that the routes carry
  the token derived from the new email (`service.py:42`, `state.py:268`); the next sync
  repairs it.
- `ServedReleasesExist` leaves out the time between an activation whose rollback failed as
  well and the recovery by the next operation: a reload that took effect and timed out,
  and a rollback whose reload fails, leave nginx with a release that is discarded
  (`service.py:53`).
- `ServedReleasesWereChecked` fails with `MaxKills = 1`: a release enters the history, and
  can be rolled back to, before its check (`service.py:365`).
- A `prepare` that is killed between the private rename and its fsync leaves a release
  that verifies; a rollback makes it current, and a power loss takes it (`service.py:256`,
  `release_store.py:105`).  `CurrentIsIntact` therefore speaks of releases `prepare`
  returned.  Directories of killed prepares stay until a prune of the same client.

*Tasks and pages.*

- `InterruptedIsTrue` of `WebTasks` is false: the worker's claim fails when the timer or a
  terminal command is under way (`operation.py:27`); the row stays queued, refuses other
  tasks for 3700 seconds and is then shown as interrupted, against
  `docs/operations.md:400`.
- `AppliedOnce` ends when the owner deletes the history, or after thirty newer tasks: the
  records alone remember the request ids (`web_tasks.py:137`).
- `PageSurvivesRotation` fails with `MaxRotations = 2`: a rotation from the terminal
  between the two holds of the portal's own gives the page a new address, bound to a link
  that is gone (`web_tasks.py:210`).
- `FailureRestores` fails with `LateFaults = TRUE`: the fsync of the committed journal of the
  nginx files fails, and the rollback fails as well; the next command drops that journal
  and keeps the new file (`nginx.py:317`).  So do `SuccessIsInForce` and `ClosedStaysClosed`:
  when the command is killed after the rollback restored the file, the committed journal
  lies over the old file while nginx runs with the new one, and the next command drops it
  and finds nothing to change.  In the passing run that failing fsync is the only trouble
  of a behaviour.
- A kill between the settings and the rendering of the pages leaves nginx with the switch
  of before until the next command (`web_manage.py:87`).

*Installer.*

- `ForeignFilesComeBack` is false: `_record_replacement` is to "remember pre-existing
  file/symlink so rollback can restore it" (`installer.py:337`), but returns without a word
  when the file or link cannot be read (351, 358).  Its callers journal the path as written
  and overwrite the file (501-504, 749-758, 833-837); the rollback finds no replacement,
  unlinks it (1193), reports success and drops the journal.  One unread mihomo binary, an
  installation and a rollback show it.  `JournalCoversChanges` and `RollbackRestores` except
  exactly the files that were not read.
- `RetryCompletes` is false: a rollback that failed keeps its journal "for retry"
  (`tests/test_lightweight_installer.py:2161`, 3541), but the retry starts again with
  `systemctl disable --now` of units whose files the first attempt has removed
  (`installer.py:1136`).  That fails, and `rollback_failed` is reported however often it is
  tried.  Any failed command of a first attempt leads there, since the attempt goes on to
  remove the files, and so does a failing file operation after those removals.
- With nginx not installed no rollback completes either: when apt failed after the state of
  nginx was captured, each attempt stops and disables a unit that does not exist
  (`installer.py:1126-1130`).  `RetryCompletes` is false even without this case, which it
  leaves out.
- `InstalledIsComplete` leaves out installations that follow a torn rollback.

*Backup nodes and portal figures.*

- `FirstFailureHasNoNodes` is false: when the very first refresh downloads nodes that fail
  the check of the merged list, it reports a failed download and keeps them on record
  (`backup_subscription.py:119`).
- A clock that is set back makes releases on file newer than their check, and the whole of
  `software-updates.json` is then ignored after a restart (`software_updates.py:154`);
  cached traffic stays fresh for as long as the clock was set back.
- One who leaves the speeds and comes back waits for thirty seconds, and while the session
  that started the reader lives, the password of no other is tried (`speeds.py:183`, 220).

*Templates.*

- A kill between two of the replacements of `template-sync` leaves files of two syncs.
- A template whose groups do not use the primary provider, or a node that is named like a
  dropped group, is outside `TemplateSync`.

## 4. Proofs

Nothing in a proof depends on a bound, but where a theorem has one for its hypothesis
(`OneFault`, `OneRotation`, `EveryTaskIsKept`): `MaxFaults`, `MaxCrashes`, `MaxReleases`, `Keep`,
`MaxTroubles`, `MaxTransactions`, `MaxKills`, `MaxPowerLosses`, `MaxSyncs`, `MaxOperations`,
`MaxChanges`, `MaxRotations`, `MaxRuns`, the lengths of the portal's intervals and all sets
are arbitrary under the named assumptions, which TLC evaluates on the instances.

### `RuntimeActivation_proofs`

- **`TypeCorrect`**: `Spec => []TypeOK`.
- **`RuntimeIsAtomic`**: with `NothingMissing`, `Spec` implies `AllOrNothing`, that is
  `RuntimeActivation` implements `AtomicRuntime`.
- **`PublishedStaysDurable`**: with `NothingMissing`, `Spec` implies
  `PublishedIsDurable`.
- **`RecoveredRoutesAreValid`**: `Spec => []RecoveryTargetIsValid`.
- **`ServedRoutesAreOnFile`**: with `OnlyCommandsRecover`, `Spec => []LoadedMatchesRoutes`.
- **`FailuresBeforeCommit`**: `Spec` implies `FailureKeepsRuntimeBeforeCommit`, which is
  `FailureKeepsRuntime` for every failing step but the second fsync of a commit.
- **`FailuresAreTakenBack`**: with `OneFault`, `Spec` implies `FailureKeepsRuntime`.

They rest on the assumptions about the constants in `RuntimeArtifacts` and
`RuntimeActivation` (every path has a directory and a rank of its own, the routes
belong to the paths, values are told apart).  `RuntimeIsAtomic` and
`PublishedStaysDurable` also need `NothingMissing == MayBeMissing = {}`: every file exists
before the first activation.  `OnlyCommandsRecover` says that nobody types `clash-sub
recover`, and `OneFault` that one call fails in all, with any number of kills and power
losses.  Without these the theorems that name them are false (section 3); the run
`RuntimeOneFault` is an instance of `ServedRoutesAreOnFile` and of `FailuresAreTakenBack`.

The refinement.  A runtime is what a recovery would establish: the files, overlaid with
the snapshot in a prepared journal.  Neither `AllOrNothing` nor `PublishedIsDurable` is
inductive, because whether a replacement may be seen depends on what the journal covers
*on the disk*.  The inductive invariant `IInv` has five parts:

- `TypeInv`: types, and which locals each step has;
- `ExistInv`: no file, snapshot or journal entry is missing;
- `JournalInv`: a file whose visible and durable contents differ is covered by a
  prepared journal that is itself durable; a prepared journal that is not durable
  covers files that were not touched;
- `RecoveryInv`: what a recovery at each of its steps has restored and synced;
- `ActivationInv`: what an activation at each of its steps has installed, and that its
  journal is durable from the first replacement to the commit.

`InvInit` and `InvNext` show that it is inductive, with one step for each action.
`AtomicNext` then maps each action to an action of `AtomicRuntime` or a stutter: the
commit to `Switch`, its fsync and the removal's fsync to `Harden` or `Report`, a power
loss to `PowerLoss`, everything else, each single replacement and each step of a
recovery included, to a stutter.  `PublishedStep` reads the durability of a report off
`ActivationInv`.

The routes.  `RecoveryTargetIsValid` speaks of the visible routes and the visible journal,
but a power loss may pair either with what is on the disk.  `TargetInv` therefore asks of
each journal, the visible and the durable one: if it is prepared, it holds valid routes;
if not, the routes are valid both on file and on the disk (`Accepted`).  `TestedInv` says
where in each loop the routes are replaced, restored or tested, so that a journal goes
only after a test.  `ServedInv` adds nginx: it is down or runs with the routes on file
(`Serving`) whenever no journal is prepared, and at each step before the first replacement
and after the reload; a recovery at boot runs only while nginx is down.

The failures.  `FoundInv` follows the snapshot: an activation that is rolled back has its
snapshot in the prepared journal, whatever a loop has not come to, or has restored, is what
the snapshot found, and a recovery that opens an activation has no snapshot yet.
`KeptStep` goes through the failing steps: each leaves a journal that holds the snapshot,
or no journal over files that agree with it, and only the second fsync of a commit does
neither.  With one fault, that fsync cannot fail, because the first one has.

### `ReleaseStore_proofs`

- **`CurrentStaysIntact`**: `Spec => []CurrentIsIntact`.
- **`FailedPreparesLeaveNothing`**: `Spec => []FailureLeavesNothing`.

`CurrentIsIntact` alone is not inductive: a removal might have a current release as its
target, and a power loss might give back what an fsync never covered.  The invariant
adds `SeenIsPossible` (what programs see is among what a power loss may leave),
`UnusedIsBlank` (a release not yet drawn has no directory, now or after a power loss),
`ReturnedIsOnDisk` (what `prepare` returned has one possible value on the disk, the
complete one, in both directories), `Progress` (what each step of `prepare` has forced to
disk), `OwnTarget` (a clean-up removes only its own release), `RecoveredFirst` (a prune or a
discard runs only without a pending journal) and `DoomedIsNotCurrent`.  The assumption is
`StoreAssumption`: the bounds are natural numbers and `Keep` is positive.

For `FailureLeavesNothing`, `LeftoverInv` says of a first and only trouble that every
directory of the failed release that has a final name, or lost files, still waits for its
removal, and that no operation works on a failed release again.  That `prepare` knows of
all such directories when it fails is `Progress`: a directory it does not know of yet
cannot have a final name.

### `Sources_proofs`

- **`PairIsNeverHalfSwitched`**: with `OneKindOfCrash` and `EarlyFaults`,
  `Spec => []NeverHalfSwitched`.
- **`RollbacksArePossible`**: `Spec => []RollbackPossible`, without either.
- **`SourcesKeepTheirParts`**: `SourcesSpec => EachKeepsItsPart`.
- **`SuccessesArePublished`**: `SourcesSpec => OkMeansPublished`.
- **`LivingLinksAreKept`**: `SourcesSpec => LivingLinkIsKept`.
- **`RecordsStayReadable`**, **`FailuresKeepNodes`**, **`AirportStaysTogether`**:
  `RecordIsReadable`, `FailureKeepsNodes` and `AirportComesTogether` hold under
  `SourcesSpec`.

`OneKindOfCrash == ~Mixed` says that a behaviour has kills or power losses, any number of
the one, and `EarlyFaults == ~LateFaults` that the failing fsync behind the removal of a
journal is the only trouble of a behaviour; without either the first theorem is false
(section 3).

`PairInv` speaks of four versions at once: each of the two directories as programs see it
and as a power loss leaves it.  Its centre is `Undoable`: for each directory, rolling back a
transaction gives what the last transaction found, from the backup, or because the original
was never moved.  `Journals` says so of whichever journal may be found with whichever of
the directories, seen or durable: after a power loss the private one, with the journal,
may be older than the other.  What is
on the disk matters only while a power loss may still come (`MayLose`).  `Idle`, `Staging`,
`Switching`, `CleaningUp` and `RollingBack` say how far each step has got, and in
particular that the provider file is durable before the private one is synced, and both
before the journal goes.

The second theorem has an invariant of its own, `TargetsInv`, which needs no such
conditions because it does not say whose contents a file has: every file that a journal
names, seen or durable, is there in both versions of its directory (`Targets`), since
only the rollback of a transaction that did not find it removes it, and such a rollback
never meets an older journal that names it.  `Durability` says when a first switch has
reached the disk, so that a power loss does not take it from a later transaction.

The theorems about `Sources` hold for any lists of nodes, users, links, calls and troubles,
and rest on `SourcesAssumption`: the limit of a list is positive, and lists are sequences of
settings with names.  `combined_nodes` is a loop over such lists, written as a recursive
function: `JoinsEnd` shows that the function exists, `OneMoreMerged` that each turn extends
a merge of the first nodes (`MergeOf`) by one, and `CombinedNodes` that the result is what
`IsMerge` promises.  That the loop in it finds a free number is `NumberedIsFree`: there are
more numbers to try than names taken.

The invariant `SourcesInv` says that a record on disk can be read again (`GoodRecord`; a
source without an address has no subscribed nodes, which a removal of manual nodes relies
on), that an airport with a page has a saved link (`AirportOK`), and that a call that is at
work has no result yet, except the timer's when it has turned from the backup to the airport
(`CallOK`): so an "ok" at the end of a second hold comes from that hold's sync.
`RefreshOfRecord`, `ImportIntoRecord` and `RemovalFromRecord` say what each operation makes
of a record, for every outcome of its calls; `OwnSteps`, that nobody ends another's hold.

### `TemplateSync_proofs`

- **`DroppingIsExact`**: `Spec => []DropIsExact`.
- **`OwnerGetsTheSourceBack`**: `Spec => []OwnerGetsTheSource`.
- **`SyncingIsAllOrNothing`**: `Spec => []SyncIsAllOrNothing`.
- **`SyncedTemplatesAlwaysRender`**: `Spec => []SyncedTemplatesRender`.

The passes of `_drop_unusable_groups` keep two facts (`Dropping`): what was dropped so far
is disjoint from every set of groups that holds itself up, and each remaining group has
all its members but the dropped ones.  When no group is left without a member, what remains
is such a set itself (`Dropped`), and so the largest.  `DropInv` says this of a rendering,
`WriteInv` which files a sync has replaced at each step, `AcceptInv` that what is synced
was accepted, `TypeInv` the types.

The last theorem compares two renderings: the one `Accepted` makes of a probe, with the
recursive function `Rendered`, and the one the steps make of a real user.  `RenderedDropped`
shows that the function ends with the largest set too, by induction over the passes: each
drops a group, so as many passes as groups are enough.  `ProbeIsAlike` finds for
every user the made-up one whose composed groups differ only in which nodes stand in the same
places, and in the backup group.  `ValidCarriesOver` is then about largest sets alone: a group
the probe lost has nothing but lost groups as members; so what it kept the user keeps, every
member that is neither a node nor a group is a built-in target, and a circle of the user's
groups would hold itself up for the probe.

The theorems rest on `OrderAssumption`, `NamesAssumption`, `SourcesAssumption`,
`UsersAssumption`, `FilesAssumption` and `ProbeAssumption`: the names are finitely many and
have an order, the special ones are among them, the documents, users and first
files are of their types, a user has nodes or the airport (the panel's answer without
nodes is refused, `sources.py:305`; only the owner's airport variant is rendered without),
and nothing else is called `template-sync-probe`.

### `WebPortal_proofs`

Of the tasks (`Spec` of `WebTasks`):

- **`EffectsAreAuthorized`**: `Spec => OnlyAuthorizedEffects`.
- **`RequestsApplyOnce`**: with `EveryTaskIsKept`, `Spec => []AppliedOnce`.

The first rests on the lock (`AuthInv`): a task at work holds it, and as long as it does
what it checked stays true, since every operation that changes the owner or the link
needs the lock.  Only `TasksAssumption` (the bounds are natural numbers) is needed.

The second needs records.  `enqueue` knows a repeated request by the records it finds, so
the invariant `OnceInv` says that every confirmed task has its record, newest first, until
the history is deleted (`Kept`), that therefore no two tasks are of one request
(`Distinct`), and that neither the request of a task that is not past its operation nor
one without a task has had an effect (`Unapplied`); a worker takes its operation once, after the claim in `run`.
`EveryTaskIsKept == MaxTasks <= MaxRows` says that no record is pushed out by newer ones;
without it the theorem is false, as the owner may confirm after thirty newer tasks (section
3).  Nothing is claimed after a deletion.

Of the figures:

- **`TrafficIsRecent`**: `PortalSpec => []AnswersAreRecent`.
- **`ReleasesAreCheckedDaily`**: `PortalSpec => []ChecksAreDaily`.
- **`UsageIsNeverMixed`**: `PortalSpec => []UsageIsOfTheAccount`.
- **`ShownSpeedsAreLive`**: `PortalSpec => []SpeedsAreLive`.
- **`PasswordsAreSentOnce`**: `PortalSpec => []PasswordIsSentOnce`.
- **`CyclesAreCorrectedOnce`**: `PortalSpec => CycleIsCorrectedOnce`.
- **`HistoriesAreReadable`**: `PortalSpec => []HistoryIsReadable`.

Each figure has an invariant of its own.  `TrafficInv`: while the clock was not set back,
every entry, in memory, in the file or on its way there, says when it was read.
`VersionsInv`: the record that is known is the last check, and a worker that is asking, or
about to ask, found it a day old.  `UsageInv`: the cache is of the present
account or empty.  `PasswordInv`: a session's password is in one place at most
(`TypedOnce`): not typed yet, waiting, in the reader's hands, or sent.  `SpeedsAreLive` is
inductive as it stands.  The first two rest on `TrafficTtlAssumption` and
`IntervalsAssumption` (the intervals are positive numbers), the next three on no
assumption.

The last two are about the whole history.  `HistoryInv` says that the samples are in order,
that the window ended before the first of them (so the file is readable), and that
both are of their types.  A sample runs the loop of `_current_observations` over all of
them; what the loop finds is proved by induction over its index, for which
`LeastNumber` stands in: every nonempty set of numbers has a least one.  `LoopsEnd` gives the
loop's function, `ObservedFacts` says that it finds either nothing or a last reset, whose
samples are the new window, and `NothingFound` that it finds nothing when no
sample is in a later cycle than the window.  They rest on `MonthAssumption`: the month and the
history have a positive length, and the reset days are days of the month.

### `LinkService_proofs`

- **`LinkInvariant`**: `Spec => []LinkInv`.
- **`ReplacedTokensStayDead`**: `Spec => []RevokedStaysRevoked`.
- **`PublishedProvidersAnswer`**: `Spec => []PublishedProvidersAreServed`.
- **`FailedUsersKeepTheirLinks`**: `Spec => FailedUserKeepsLinks`.
- **`AirportAddressStays`**: `Spec => AirportAddressSurvives`.
- **`SyncsPublishEveryone`**: with `NoReturns`, `Spec => []SyncPublishesEveryone`.

`LinkInv` is stated over what is *published*: the files that a recovery would restore
while a journal is there, the files in place otherwise (`BaseState`, `BaseRoutes`,
`BaseMarker`).  That is why a kill or a failed activation, which leaves any mixture of
files, does not disturb it.  Its parts:

- `Serves`: the routes lead to users with a release of the state, and each such user has
  all of its routes or none.
- `Releases`: a published release is in the store, is the one of the marker, and its
  addresses fit (`Fits`): they are the owner's present ones, or were made with another
  email, which is the exception of section 3.
- `Revocation`: the cores of the published state are not revoked, and no core, live or
  revoked, is younger than the operation counter, so that a new one is neither.
- `JobInv`: what the operation under way has computed from the snapshot it read: its new
  cores are its own (`JobCores`), what it will publish fits (`JobReleases`), a user of a
  sync that failed still has its old record (`JobFailures`), and the airport address is
  the old one (`JobAirport`).

The proof treats each operator of `state.py` in a lemma of its own (`ReconcileFacts`,
`LinkUpdateFacts`, `RotateFacts`, `ReinitializeFacts`, `RenderedServes`), then each
operation (`SyncAllNext`, `RotateLinkNext`, ...) and each step.  `SyncInv` adds what
`SyncPublishesEveryone` needs: whoever has a marker has a release, or is a new owner whose
marker's release names an older token (`Marks`), so that `prepare` finds the contents
changed.  `NoReturns == ~Returning` says that no deleted client comes back under its
identifier; without it the theorem is false (section 3).  The other assumptions are
`LinkAssumption` and `ServiceAssumption`: the administrator's email is one, no email looks
like a token of the old format, and `None` is no value of the data.

### `WebAccess_proofs`

- **`SwitchesTakeEffect`**: with `EarlyFaults`, `Spec => []SuccessIsInForce`.
- **`FailedSwitchesAreTakenBack`**: with `EarlyFaults`, `Spec => []FailureRestores`.
- **`ClosingIsFinal`**: with `EarlyFaults`, `Spec => []ClosedStaysClosed`.
- **`PagesKeepTheirAddresses`**: `Spec /\ [][Undisturbed]_vars => PageSurvivesRotation`.
- **`OneRotationKeepsPages`**: with `OneRotation`, `Spec => PageSurvivesRotation`.

`AccessInv` relates four values that differ while a command is at work: the saved
switches, the file, the running nginx and what the journal saved.  `Agreement` says for each
step which of them agree, `UndoAgreement` the same while a rollback is under way, `Saved`
what the command has written and enabled so far, `Restorable` that a command which found
nothing to repair can put everything back.  `Closed` strengthens `ClosedStaysClosed`: a switch that was reported closed
is off in the running nginx, in the file and in everything a recovery may still restore.

`EarlyFaults == ~LateFaults` says that the failing fsync of a commit is the only trouble of
a behaviour; without it the first three are false (section 3).

The pages need no such hypothesis.  `PageInv` says that what a command is about to save, or
to put back, has the addresses of the pages that open, and that a portal's task which has
read the new links read what they still are.  The latter needs `Undisturbed`: nobody rotates
a subscription between that reading and the rebinding in the task's second hold of the lock
(without it, section 3).  `OneRotation == MaxRotations <= 1`, the bound of the run, implies
it (`RotationNext`): the rotation a task has read was the only one.

### `Installer_proofs`

- **`Types`**: `Spec => []TypeOK`; an operation is always at a step of its script.
- **`JournalIsAhead`**: `Spec => []JournalCoversChanges`.
- **`RollbackIsComplete`**: `Spec => []RollbackRestores`.
- **`InstallationIsComplete`**: `Spec => []InstalledIsComplete`.

They hold for any number of installations, updates and rollbacks, each of which may fail
or be killed at any step, and rest on `InstallerAssumption` alone (the bounds are natural
numbers, and what may exist before is among the files).  Both of the former except the
files that could not be read when they were recorded, any number of them in any number of
phases, and no others: a file stays restorable when its neighbours in the same save are
lost (`RecordUnread`).  The invariant `IInv` relates the
machine to the journal and to what the machine had before:

- `FilesInv` (`Journalled`) and `ServicesInv` (`Kept`): a file that differs is written in
  the journal, one that replaced another has it on record, and a captured state is the
  first one, however often a phase is taken up again.  What a file replaced is what the
  journal knows of it (`Before`): nothing, if it could not be read, and then the journal
  has no replacement that a later attempt could mistake for one.
- `AheadInv`: what the steps behind have put into the journal, so that it names a file or
  a unit before the next step touches it.  `NginxInv` says the same of the stock site and
  the include block.
- `PhaseInv`: the earlier phases are done, and a later one that is done was so when the
  operation began.  Only an activation of the nginx files that was not done can therefore
  be unwound by a failure (`UnwoundUndone`), and what a finished phase wrote stays.
- `EffectInv`: what the steps behind, and the phases that are done, have brought about,
  unless a rollback has begun to take it back.
- `UndoneInv` and `CommandsInv`: how far a rollback has come; a failed command is
  remembered, so that with none each unit has lost what it did not have before
  (`Lacks`), and then got back what it had.
- `OutcomeInv`: what is reported agrees with the journal.

For the socket and the timer a captured state is not enough: a rollback touches them only
when the journal has the hardening started or done.  `JournalCoversChanges` therefore asks
for both.  Pages that are off need no entry, because a rollback removes their unit.

### Only model-checked

Every invariant and action property of a passing run is stated by a theorem.  The liveness
properties (`DesertedMeansClosed`, `JournalIsResolved`, `TasksAreResolved`) need fairness and
`ENABLED`, which are out of the prover's reach, and stay with TLC.

## 5. What is not modelled

- **File contents**: YAML documents, nginx blocks, JSON encodings, tokens as strings.
  Contents are opaque values that are compared for equality.
- **Rejection of malformed input**: symbolic links, wrong owners and modes, corrupt
  journals and state files.  Each makes an operation fail before it changes anything.
- **Candidate files** of `os.replace`: they have names of their own and are swept.
- **`LinkService`** leaves out the read-only operations (`links`, `status`, `history`),
  the early failures that change nothing (no airport document, an invalid email), the
  rebuilding from a backup, and the variants of a profile that lead to the same release.
  Which releases a prune takes beyond the newest is left open, because their ids end at
  random.
- **`Sources`** leaves out the journal of `status.json`; the traffic figures ride with the
  document; the kinds of a download error are one; there is no power loss, and the
  `TimeoutStartSec` of the unit is a kill.
- **`WebTasks`** has ages instead of a clock: a clock that jumps forward can show a
  running task as interrupted, which is not covered.
- **`WebAccess`**: a child of an update may outlive its killed parent, which is left out;
  so are power losses.
- **`Installer`** has no power loss; certificates and kernel tuning are commands without
  a state; that a rollback does not reload an nginx which was active before is left out,
  as are `install.sh`, the downloads and the questions to the user.  Left out as well is
  `_retire_online_bridge` (`installer.py:867`, 882-903): on a machine that still has the
  `clash-sub-online` units of an old version, the hardening phase disables, stops and
  unlinks them without an entry in the journal.  For those two files neither
  `JournalCoversChanges` nor `RollbackRestores` holds: no rollback brings them back.
- **`SpeedLeases`** drops expired leases at the tick, prunes stale records at any time and
  leaves out `close()` at the end of the process.  Revoking is one step, for a single
  session as for a full table, where `revoke` (`speeds.py:160`) holds the lock once for the
  list of viewers and once for each of them; only the logout is taken apart.
- **`Portal`**: `metadata_server.py`, the thirty seconds of `OnlineCache` and the HTTP calls;
  a write error that `record_sample` swallows is a sample that was not taken.
- **`Profiles`** leaves out YAML merges, anchors and comments, `include-all` and providers
  other than the two, and the positions of groups.  Of a source's groups, only the backup
  group uses the backup provider.  `WithoutBackup` starts from the names after the renaming
  of `_without_backup_source` (`template_sync.py:317-329`), which is left out: a group
  called 自建节点 becomes the primary group, as does every member of that name, a node of
  that name included, and in the primary group a member that equals one node's name but
  for trailing commas takes that name.  `OwnerGetsTheSource` therefore says that the owner
  gets the source back as renamed, not as written.
- **`TemplateSync`** renders only from files that a sync has succeeded on; one source in a
  behaviour; the scanner for secrets is left out.
- **Web server**: login lockout, CSRF tokens, page rendering, snapshot caches.
- **Repository scripts** are developer tools without state.

## 6. Plan

In the order of what they would add:

1. An abstract link directory (which token answers, for whom) that `LinkService`
   implements.
2. The login lockout of `web_server.py` and its snapshot caches, beside `SpeedLeases`.
3. Power losses in `Installer` and `WebAccess`.
4. The parsing of clients in `xui.py`, against a reference definition.

The number of runs is kept small: new components share a run where they share a
question.
