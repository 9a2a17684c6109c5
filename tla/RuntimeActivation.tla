-------------------------- MODULE RuntimeActivation --------------------------
(***************************************************************************)
(* The journaled activation of clash_sub/nginx.py (activate_runtime and    *)
(* recover_runtime) at the grain of single file operations.                *)
(*                                                                         *)
(* Every file and the journal have two values: the one a process sees, and *)
(* the one that is on the disk.  os.replace and unlink change the first;   *)
(* an fsync of the directory copies it to the second, and the kernel may   *)
(* do so for any one entry at any time.  Kill ends the process that holds  *)
(* the operation lock and leaves the visible values; PowerLoss leaves the  *)
(* durable ones.                                                           *)
(*                                                                         *)
(* All steps but those of nginx belong to the one process that holds       *)
(* private/operation.lock: an activation, a recovery before another        *)
(* command, the boot-time clash-sub-recover.service, or `clash-sub         *)
(* recover` typed by the administrator.                                    *)
(***************************************************************************)
EXTENDS RuntimeArtifacts

CONSTANTS
    Stopped,        \* stands for the routes of an nginx that is not running
    Updates,        \* what the callers may ask an activation to install
    MaxFaults,      \* bound on failing calls (I/O errors, timeouts)
    MaxCrashes,     \* bound on kills, power losses and stops of nginx
    RecoverByHand   \* may the administrator run `clash-sub recover`?

ASSUME ActivationAssumption ==
    /\ Stopped \notin Value
    /\ Updates \subseteq Update
    /\ MaxFaults \in Nat
    /\ MaxCrashes \in Nat
    /\ RecoverByHand \in BOOLEAN

VARIABLES
    file, disk,             \* visible and durable contents of each path
    journal, diskJournal,   \* visible and durable activation journal
    loaded,                 \* the routes nginx runs with, or Stopped
    starting,               \* nginx.service passed its recovery, not started
    pc,                     \* the step of the lock holder, "idle" if none
    task,                   \* why the holder recovers
    target, snap,           \* locals of activate_runtime
    todo,                   \* the paths a replace or restore loop has left
    outcome,                \* what the last activation reported
    faults, crashes

fileVars == <<file, disk, journal, diskJournal>>
localVars == <<task, target, snap, todo>>
vars == <<fileVars, loaded, starting, pc, localVars, outcome, faults, crashes>>

\* "operation" is the recovery that opens every other locked command;
\* "unwind" is the recovery after a failed activation.
Tasks == {"none", "activate", "unwind", "operation", "boot", "by_hand"}

RecoverySteps == {"restore", "restore_sync", "test_restored", "reload_restored",
                  "drop_journal", "drop_journal_sync"}

ActivationSteps == {"snapshot", "write_journal", "sync_journal", "replace",
                    "settle", "test", "reload", "commit", "commit_sync",
                    "commit_resync", "remove_journal", "remove_journal_sync"}

TypeOK ==
    /\ file \in Files /\ disk \in Files
    /\ journal \in Journal /\ diskJournal \in Journal
    /\ loaded \in Value \cup {Stopped}
    /\ starting \in BOOLEAN
    /\ pc \in RecoverySteps \cup ActivationSteps \cup {"idle"}
    /\ task \in Tasks
    /\ target \in Update \cup {<<>>}
    /\ snap \in Snapshot \cup {<<>>}
    /\ todo \in SUBSET Path
    /\ outcome \in {"none", "success", "failed"}
    /\ faults \in Nat
    /\ crashes \in Nat

Init ==
    /\ file \in InitialFiles /\ file[Routes] \in ValidRoutes
    /\ disk = file
    /\ journal = NoJournal /\ diskJournal = NoJournal
    /\ loaded = file[Routes]
    /\ starting = FALSE
    /\ pc = "idle" /\ task = "none"
    /\ target = <<>> /\ snap = <<>> /\ todo = {}
    /\ outcome = "none"
    /\ faults = 0
    /\ crashes = 0

-----------------------------------------------------------------------------
(* Pieces of steps *)

Earliest(p, S) == p \in S /\ \A q \in S : Rank[p] <= Rank[q]

\* fsync of directory d: what it shows becomes what it keeps.
Flush(d) ==
    /\ disk' = [p \in Path |-> IF Dir[p] = d THEN file[p] ELSE disk[p]]
    /\ diskJournal' = IF d = PrivateRoot THEN journal ELSE diskJournal
    /\ UNCHANGED <<file, journal>>

Goto(step) == pc' = step

Fault == faults < MaxFaults /\ faults' = faults + 1

NoFault == UNCHANGED faults

\* The artifacts whose snapshot differs from what is to be installed.
Pending == {p \in DOMAIN target : snap[p] # target[p]}

\* The holder returns: the lock is released and the locals are gone.
Leave ==
    /\ pc' = "idle" /\ task' = "none"
    /\ target' = <<>> /\ snap' = <<>> /\ todo' = {}

Report(result) == Leave /\ outcome' = result

\* recover_runtime raises: an activation fails, a boot does not start nginx.
RecoveryFails ==
    /\ Leave
    /\ outcome' = IF task \in {"activate", "unwind"} THEN "failed" ELSE outcome
    /\ UNCHANGED starting

\* recover_runtime returns: activate_runtime goes on to its snapshot.
RecoveryEnds ==
    \/ /\ task = "activate"
       /\ Goto("snapshot")
       /\ task' = "none" /\ todo' = {}
       /\ UNCHANGED <<target, snap, outcome, starting>>
    \/ /\ task = "unwind"
       /\ Report("failed")
       /\ UNCHANGED starting
    \/ /\ task \in {"operation", "boot", "by_hand"}
       /\ Leave
       /\ starting' = (starting \/ task = "boot")
       /\ UNCHANGED outcome

-----------------------------------------------------------------------------
(* recover_runtime *)

\* recover_runtime is entered by whoever took the lock; without a journal it
\* returns at once.
EnterRecovery(why, update) ==
    /\ pc = "idle"
    /\ target' = update
    /\ UNCHANGED <<fileVars, loaded, snap, crashes>> /\ NoFault
    /\ \/ /\ journal.phase = "prepared"
          /\ Goto("restore")
          /\ task' = why
          /\ todo' = DOMAIN journal.old
          /\ UNCHANGED starting
       \/ /\ journal.phase = "committed"
          /\ Goto("drop_journal")
          /\ task' = why
          /\ UNCHANGED <<todo, starting>>
       \/ /\ journal.phase = "none"
          /\ task' = "none"
          /\ Goto(IF why = "activate" THEN "snapshot" ELSE "idle")
          /\ starting' = (starting \/ why = "boot")
          /\ UNCHANGED todo

Activate(u) == EnterRecovery("activate", u) /\ outcome' = "none"

RecoverFirst == EnterRecovery("operation", <<>>) /\ UNCHANGED outcome

\* nginx.service requires clash-sub-recover.service, so every start of nginx
\* runs it first, with reload=False.
BootRecover ==
    /\ loaded = Stopped /\ ~starting
    /\ EnterRecovery("boot", <<>>) /\ UNCHANGED outcome

\* The same command from a terminal, whatever nginx is doing.
RecoverCli ==
    /\ RecoverByHand
    /\ EnterRecovery("by_hand", <<>>) /\ UNCHANGED outcome

\* Mutant of Unwind: the journal is dropped without a rollback.
UnwindWithoutRestore ==
    /\ Goto("drop_journal")
    /\ task' = "unwind"
    /\ todo' = {}
    /\ UNCHANGED <<target, snap, outcome>>

\* A failed activation recovers in place: the journal is still prepared.
Unwind ==
    /\ Goto("restore")
    /\ task' = "unwind"
    /\ todo' = DOMAIN snap
    /\ UNCHANGED <<target, snap, outcome>>

\* The files that existed are put back in order, then the others are removed.
RestoresNext(p) ==
    LET kept == {q \in todo : journal.old[q] # Absent}
    IN Earliest(p, IF kept # {} THEN kept ELSE todo)

\* A file that has to be removed and is gone already costs no fsync.
Gone(p) == journal.old[p] = Absent /\ file[p] = Absent

Restored(p) ==
    /\ todo' = todo \ {p}
    /\ Goto(IF todo' = {} THEN "test_restored" ELSE "restore")

RestoreOne ==
    /\ pc = "restore"
    /\ \E p \in todo :
         /\ RestoresNext(p) /\ ~Gone(p)
         /\ file' = [file EXCEPT ![p] = journal.old[p]]
    /\ Goto("restore_sync")
    /\ NoFault
    /\ UNCHANGED <<disk, journal, diskJournal, loaded, starting, localVars,
                   outcome, crashes>>

RestoreSync ==
    /\ pc = "restore_sync"
    /\ \E p \in todo : RestoresNext(p) /\ Flush(Dir[p]) /\ Restored(p)
    /\ NoFault
    /\ UNCHANGED <<loaded, starting, task, target, snap, outcome, crashes>>

RestoreNothing ==
    /\ pc = "restore"
    /\ \E p \in todo : RestoresNext(p) /\ Gone(p) /\ Restored(p)
    /\ NoFault
    /\ UNCHANGED <<fileVars, loaded, starting, task, target, snap, outcome,
                   crashes>>

\* Mutant of TestRestored: no recovery reloads nginx.
TestRestoredWithoutReload ==
    /\ pc = "test_restored"
    /\ file[Routes] \in ValidRoutes
    /\ Goto("drop_journal")
    /\ NoFault
    /\ UNCHANGED <<fileVars, loaded, starting, localVars, outcome, crashes>>

TestRestored ==
    /\ pc = "test_restored"
    /\ file[Routes] \in ValidRoutes
    /\ Goto(IF task \in {"boot", "by_hand"} THEN "drop_journal"
            ELSE "reload_restored")
    /\ NoFault
    /\ UNCHANGED <<fileVars, loaded, starting, localVars, outcome, crashes>>

ReloadRestored ==
    /\ pc = "reload_restored"
    /\ loaded # Stopped
    /\ loaded' = file[Routes]
    /\ Goto("drop_journal")
    /\ NoFault
    /\ UNCHANGED <<fileVars, starting, localVars, outcome, crashes>>

\* Mutant of DropJournal: the journal stays where it is.
DropJournalForgotten ==
    /\ pc = "drop_journal"
    /\ Goto("drop_journal_sync")
    /\ NoFault
    /\ UNCHANGED <<fileVars, loaded, starting, localVars, outcome, crashes>>

DropJournal ==
    /\ pc = "drop_journal"
    /\ journal' = NoJournal
    /\ Goto("drop_journal_sync")
    /\ NoFault
    /\ UNCHANGED <<file, disk, diskJournal, loaded, starting, localVars,
                   outcome, crashes>>

DropJournalSync ==
    /\ pc = "drop_journal_sync"
    /\ Flush(PrivateRoot)
    /\ RecoveryEnds
    /\ NoFault
    /\ UNCHANGED <<loaded, crashes>>

\* `nginx -t` rejects the restored routes, or nginx is not running to reload.
RecoveryRefused ==
    /\ \/ pc = "test_restored" /\ file[Routes] \notin ValidRoutes
       \/ pc = "reload_restored" /\ loaded = Stopped
    /\ RecoveryFails
    /\ NoFault
    /\ UNCHANGED <<fileVars, loaded, crashes>>

\* Any call of a recovery may fail before it takes effect, the reading of the
\* journal that precedes the first restore among them.
RecoveryFault ==
    /\ pc \in RecoverySteps
    /\ RecoveryFails
    /\ Fault
    /\ UNCHANGED <<fileVars, loaded, crashes>>

\* A reload that times out is reported as failed, but nginx may have reloaded.
ReloadRestoredTimeout ==
    /\ pc = "reload_restored"
    /\ loaded # Stopped
    /\ loaded' = file[Routes]
    /\ RecoveryFails
    /\ Fault
    /\ UNCHANGED <<fileVars, crashes>>

-----------------------------------------------------------------------------
(* activate_runtime *)

\* Nothing differs: the activation returns without a transaction.
TakeSnapshot ==
    /\ pc = "snapshot"
    /\ snap' = [p \in DOMAIN target |-> file[p]]
    /\ Goto("write_journal")
    /\ NoFault
    /\ UNCHANGED <<fileVars, loaded, starting, task, target, todo, outcome,
                   crashes>>

NothingPending ==
    /\ pc = "write_journal"
    /\ Pending = {}
    /\ Report("success")
    /\ NoFault
    /\ UNCHANGED <<fileVars, loaded, starting, crashes>>

\* The candidates are written beside their targets, then the journal that
\* holds the snapshots replaces whatever journal there was.
WriteJournal ==
    /\ pc = "write_journal"
    /\ Pending # {}
    /\ journal' = [phase |-> "prepared", old |-> snap]
    /\ Goto("sync_journal")
    /\ NoFault
    /\ UNCHANGED <<file, disk, diskJournal, loaded, starting, localVars,
                   outcome, crashes>>

\* Mutant of SyncJournal: the journal is not synced before the replacements.
SyncJournalSkipped ==
    /\ pc = "sync_journal"
    /\ todo' = Pending
    /\ Goto("replace")
    /\ NoFault
    /\ UNCHANGED <<fileVars, loaded, starting, task, target, snap, outcome, crashes>>

SyncJournal ==
    /\ pc = "sync_journal"
    /\ Flush(PrivateRoot)
    /\ todo' = Pending
    /\ Goto("replace")
    /\ NoFault
    /\ UNCHANGED <<loaded, starting, task, target, snap, outcome, crashes>>

\* One os.replace of the loop over the candidates ...
ReplaceOne ==
    /\ pc = "replace"
    /\ \E p \in todo :
         /\ Earliest(p, todo)
         /\ file' = [file EXCEPT ![p] = target[p]]
    /\ Goto("settle")
    /\ NoFault
    /\ UNCHANGED <<disk, journal, diskJournal, loaded, starting, localVars,
                   outcome, crashes>>

\* Mutant of Settle: the directory of a replaced file is not synced.
SettleWithoutSync ==
    /\ pc = "settle"
    /\ \E p \in todo : Earliest(p, todo) /\ todo' = todo \ {p}
    /\ Goto(IF todo' # {} THEN "replace"
            ELSE IF Routes \in Pending THEN "test" ELSE "commit")
    /\ NoFault
    /\ UNCHANGED <<fileVars, loaded, starting, task, target, snap, outcome, crashes>>

\* ... and the check of the installed file and the fsync that follow it.
Settle ==
    /\ pc = "settle"
    /\ \E p \in todo :
         /\ Earliest(p, todo)
         /\ Flush(Dir[p])
         /\ todo' = todo \ {p}
    /\ Goto(IF todo' # {} THEN "replace"
            ELSE IF Routes \in Pending THEN "test" ELSE "commit")
    /\ NoFault
    /\ UNCHANGED <<loaded, starting, task, target, snap, outcome, crashes>>

\* Mutant of Test: the verdict of `nginx -t` is ignored.
TestIgnored ==
    /\ pc = "test"
    /\ Goto("reload")
    /\ NoFault
    /\ UNCHANGED <<fileVars, loaded, starting, localVars, outcome, crashes>>

Test ==
    /\ pc = "test"
    /\ file[Routes] \in ValidRoutes
    /\ Goto("reload")
    /\ NoFault
    /\ UNCHANGED <<fileVars, loaded, starting, localVars, outcome, crashes>>

Reload ==
    /\ pc = "reload"
    /\ loaded # Stopped
    /\ loaded' = file[Routes]
    /\ Goto("commit")
    /\ NoFault
    /\ UNCHANGED <<fileVars, starting, localVars, outcome, crashes>>

\* The committed journal replaces the prepared one: the point of no return.
Commit ==
    /\ pc = "commit"
    /\ journal' = [journal EXCEPT !.phase = "committed"]
    /\ Goto("commit_sync")
    /\ NoFault
    /\ UNCHANGED <<file, disk, diskJournal, loaded, starting, localVars,
                   outcome, crashes>>

CommitSync ==
    /\ pc \in {"commit_sync", "commit_resync"}
    /\ Flush(PrivateRoot)
    /\ Goto("remove_journal")
    /\ NoFault
    /\ UNCHANGED <<loaded, starting, localVars, outcome, crashes>>

RemoveJournal ==
    /\ pc = "remove_journal"
    /\ journal' = NoJournal
    /\ Goto("remove_journal_sync")
    /\ NoFault
    /\ UNCHANGED <<file, disk, diskJournal, loaded, starting, localVars,
                   outcome, crashes>>

RemoveJournalSync ==
    /\ pc = "remove_journal_sync"
    /\ Flush(PrivateRoot)
    /\ Report("success")
    /\ NoFault
    /\ UNCHANGED <<loaded, starting, crashes>>

-----------------------------------------------------------------------------
(* How an activation fails *)

\* Before the journal is prepared nothing was touched.  A failed write or
\* fsync of the journal is reported as it is, wherever the journal now stands;
\* so is a target that does not pass its check after the replacement.
ActivationRaises ==
    /\ pc \in {"snapshot", "write_journal", "sync_journal", "settle"}
    /\ Fault
    /\ Report("failed")
    /\ UNCHANGED <<fileVars, loaded, starting, crashes>>

\* The first os.replace fails: only the journal has to go.
FirstReplaceFails ==
    /\ pc = "replace" /\ todo = Pending
    /\ Fault
    /\ Goto("drop_journal")
    /\ task' = "unwind" /\ todo' = {}
    /\ UNCHANGED <<fileVars, loaded, starting, target, snap, outcome, crashes>>

\* A later os.replace, an fsync, a command or the writing of the committed
\* journal fails: the prepared journal is rolled back on the spot.
StepFails ==
    /\ \/ pc = "replace" /\ todo # Pending
       \/ pc \in {"settle", "test", "reload", "commit"}
    /\ Fault
    /\ Unwind
    /\ UNCHANGED <<fileVars, loaded, starting, crashes>>

CommandRefused ==
    /\ \/ pc = "test" /\ file[Routes] \notin ValidRoutes
       \/ pc = "reload" /\ loaded = Stopped
    /\ Unwind
    /\ NoFault
    /\ UNCHANGED <<fileVars, loaded, starting, crashes>>

ReloadTimeout ==
    /\ pc = "reload"
    /\ loaded # Stopped
    /\ Fault
    /\ loaded' = file[Routes]
    /\ Unwind
    /\ UNCHANGED <<fileVars, starting, crashes>>

\* The fsync after the commit fails; the journal read back says "committed",
\* so the fsync is tried once more ...
CommitSyncFails ==
    /\ pc = "commit_sync"
    /\ Fault
    /\ Goto("commit_resync")
    /\ UNCHANGED <<fileVars, loaded, starting, localVars, outcome, crashes>>

\* ... and when that fails too the activation reports a failure.
CommitResyncFails ==
    /\ pc = "commit_resync"
    /\ Fault
    /\ Report("failed")
    /\ UNCHANGED <<fileVars, loaded, starting, crashes>>

\* The journal of a durable commit that cannot be removed is left behind.
RemoveJournalFails ==
    /\ pc \in {"remove_journal", "remove_journal_sync"}
    /\ Fault
    /\ Report("success")
    /\ UNCHANGED <<fileVars, loaded, starting, crashes>>

-----------------------------------------------------------------------------
(* nginx, and crashes *)

StartNginx ==
    /\ starting
    /\ starting' = FALSE
    /\ loaded' = IF file[Routes] \in ValidRoutes THEN file[Routes] ELSE Stopped
    /\ NoFault
    /\ UNCHANGED <<fileVars, pc, localVars, outcome, crashes>>

StopNginx ==
    /\ loaded # Stopped
    /\ loaded' = Stopped
    /\ crashes < MaxCrashes /\ crashes' = crashes + 1
    /\ NoFault
    /\ UNCHANGED <<fileVars, starting, pc, localVars, outcome>>

\* The kernel releases the lock of a dead holder.
Kill ==
    /\ pc # "idle"
    /\ Leave
    /\ crashes < MaxCrashes /\ crashes' = crashes + 1
    /\ NoFault
    /\ UNCHANGED <<fileVars, loaded, starting, outcome>>

\* The kernel writes a directory entry back on its own.
Writeback ==
    /\ \/ /\ \E p \in Path : disk' = [disk EXCEPT ![p] = file[p]]
          /\ UNCHANGED diskJournal
       \/ /\ diskJournal' = journal
          /\ UNCHANGED disk
    /\ NoFault
    /\ UNCHANGED <<file, journal, loaded, starting, pc, localVars, outcome,
                   crashes>>

PowerLoss ==
    /\ file' = disk
    /\ journal' = diskJournal
    /\ Leave
    /\ loaded' = Stopped /\ starting' = FALSE
    /\ crashes < MaxCrashes /\ crashes' = crashes + 1
    /\ NoFault
    /\ UNCHANGED <<disk, diskJournal, outcome>>

-----------------------------------------------------------------------------
Recover == RecoverFirst \/ BootRecover \/ RecoverCli

RecoveryStep ==
    \/ RestoreOne \/ RestoreSync \/ RestoreNothing \/ TestRestored \/ ReloadRestored
    \/ DropJournal \/ DropJournalSync
    \/ RecoveryRefused \/ RecoveryFault \/ ReloadRestoredTimeout

ActivationStep ==
    \/ TakeSnapshot \/ NothingPending \/ WriteJournal \/ SyncJournal
    \/ ReplaceOne \/ Settle \/ Test \/ Reload
    \/ Commit \/ CommitSync \/ RemoveJournal \/ RemoveJournalSync
    \/ ActivationRaises \/ FirstReplaceFails \/ StepFails \/ CommandRefused
    \/ ReloadTimeout \/ CommitSyncFails \/ CommitResyncFails
    \/ RemoveJournalFails

Environment == StartNginx \/ StopNginx \/ Kill \/ Writeback \/ PowerLoss

Next ==
    \/ \E u \in Updates : Activate(u)
    \/ Recover \/ RecoveryStep \/ ActivationStep \/ Environment

Spec == Init /\ [][Next]_vars

\* The process that holds the lock runs on.  Nothing recovers in the background,
\* so the rest is up to the administrator: commands that open with a recovery
\* keep being given, and a start of nginx that failed is given again.
Fairness ==
    /\ WF_vars(RecoveryStep \/ ActivationStep)
    /\ SF_vars(RecoverFirst)
    /\ SF_vars(BootRecover)
    /\ WF_vars(StartNginx)

FairSpec == Spec /\ Fairness

-----------------------------------------------------------------------------
(* Correctness *)

Visible == Recovered(file, journal)
Durable == Recovered(disk, diskJournal)

Atomic == INSTANCE AtomicRuntime WITH runtime <- Visible, stable <- Durable

\* The activation implements its abstraction: whatever instant a command fails,
\* the process dies or the power goes, the recovery that follows establishes
\* all of the old state.json, routes and markers or all of the new ones
\* (activate_runtime, recover_runtime and the journal between them).
AllOrNothing == Atomic!Spec

\* An activation that reports a failure has left the runtime it found, or left
\* a journal that restores it.  Its caller discards the releases it prepared
\* on that ground.  One failing call never breaks this; an fsync of the
\* committed journal that fails twice does.
FailureKeepsRuntime ==
    [][outcome = "none" /\ outcome' = "failed"
         => \A p \in DOMAIN snap : Visible'[p] = snap[p]]_vars

\* An activation that replaced files and reports success has them visible and
\* durable: no power loss after the report brings the old runtime back.
PublishedIsDurable ==
    [][outcome = "none" /\ outcome' = "success" /\ pc # "write_journal"
         => \A p \in DOMAIN target :
              Visible'[p] = target[p] /\ Durable'[p] = target[p]]_vars

\* While nobody works on the runtime and no journal is left, a running nginx
\* serves the routes that are on file; with a skipped reload in
\* activate_runtime (routes unchanged) nothing would ever repair a mismatch.
LoadedMatchesRoutes ==
    pc = "idle" /\ journal.phase = "none" /\ loaded # Stopped
      => loaded = file[Routes]

\* Whatever the next recovery establishes is a routes file `nginx -t` accepts,
\* so that a rollback and the next start of nginx can succeed at all.
RecoveryTargetIsValid ==
    /\ pc # "idle" \/ journal.phase # "none" \/ file[Routes] \in ValidRoutes
    /\ journal.phase = "prepared" => journal.old[Routes] \in ValidRoutes

\* A journal left by an interrupted activation does not stay for ever.
JournalIsResolved == journal.phase # "none" ~> journal.phase = "none"

=============================================================================
