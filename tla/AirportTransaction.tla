------------------------- MODULE AirportTransaction -------------------------
(***************************************************************************)
(* The roll-back transaction of clash_sub/airport_store.py (replace and    *)
(* recover) at the grain of single directory operations.                   *)
(*                                                                         *)
(* The pair of the provider document and its source record lives in two    *)
(* directories.  Each directory has two values: the one processes see and  *)
(* the one on the disk.  An fsync copies the first to the second, and the  *)
(* kernel may do so at any time.  Changes within one directory thus reach  *)
(* the disk in order; changes of different directories need not.           *)
(*                                                                         *)
(* Contents are the numbers of the transactions that wrote them, 0 for     *)
(* what was there before.  Candidate files hold the new contents until     *)
(* they are renamed and play no part in a recovery; they are left out, as  *)
(* is a journal file that some other program corrupted.                    *)
(***************************************************************************)
EXTENDS Integers

CONSTANTS
    MaxTransactions,    \* bound on calls of replace
    MaxFaults,          \* bound on failing calls of the operating system
    MaxKills,           \* bound on killed processes
    MaxPowerLosses,
    Mixed,              \* may kills and power losses meet?
    LateFaults          \* may troubles meet a failing fsync of a journal's removal?

ASSUME AirportAssumption ==
    /\ {MaxTransactions, MaxFaults, MaxKills, MaxPowerLosses} \subseteq Nat
    /\ {Mixed, LateFaults} \subseteq BOOLEAN

VARIABLES
    seen, disk,             \* the two directories, visible and durable
    journal, diskJournal,   \* the transaction journal in the private root
    pc, task,               \* the step of the process that holds the lock
    txn,                    \* the number of the last transaction
    had,                    \* which files a transaction found and backed up
    before,                 \* the pair the last transaction found
    outcome,                \* what it reported
    faults, kills, losses

dirVars == <<seen, disk, journal, diskJournal>>
vars == <<dirVars, pc, task, txn, had, before, outcome, faults, kills, losses>>

Dirs == {"provider", "private"}
Absent == -1
Transactions == 1..MaxTransactions
Value == 0..MaxTransactions \cup {Absent}
Directory == [final : Value, backup : [Transactions -> Value]]
NoJournal == [txn |-> 0, had |-> {}]

StagingSteps == {"backup_provider", "backup_source", "write_journal", "sync_journal"}
SwitchSteps == {"switch_provider", "switch_source", "sync_provider", "sync_source",
                "unlink_journal", "sync_unlink"}
RollbackSteps == {"restore_provider", "restore_source", "sync_restored_provider",
                  "sync_restored_source", "remove_backups", "unlink_restored",
                  "sync_restored"}

TypeOK ==
    /\ seen \in [Dirs -> Directory] /\ disk \in [Dirs -> Directory]
    /\ {journal, diskJournal} \subseteq [txn : 0..MaxTransactions, had : SUBSET Dirs]
    /\ pc \in StagingSteps \cup SwitchSteps \cup RollbackSteps \cup {"cleanup", "idle"}
    /\ task \in {"none", "replace", "abort", "read"}
    /\ txn \in 0..MaxTransactions
    /\ had \in SUBSET Dirs
    /\ journal.had \subseteq {d \in Dirs : before[d] # Absent}
    /\ before \in [Dirs -> Value]
    /\ outcome \in {"none", "success", "failed"}
    /\ faults \in 0..MaxFaults /\ kills \in 0..MaxKills /\ losses \in 0..MaxPowerLosses

\* A source record never exists without its provider.
Init ==
    /\ before \in {[d \in Dirs |-> 0], [d \in Dirs |-> Absent],
                   [d \in Dirs |-> IF d = "provider" THEN 0 ELSE Absent]}
    /\ seen = [d \in Dirs |-> [final |-> before[d],
                               backup |-> [t \in Transactions |-> Absent]]]
    /\ disk = seen
    /\ journal = NoJournal /\ diskJournal = NoJournal
    /\ pc = "idle" /\ task = "none" /\ txn = 0 /\ had = {}
    /\ outcome = "none"
    /\ faults = 0 /\ kills = 0 /\ losses = 0

-----------------------------------------------------------------------------
(* Pieces of steps *)

Untroubled == UNCHANGED <<faults, kills, losses>>

\* A number of calls fails, at steps where they may.
Faulty(n) ==
    /\ faults + n <= MaxFaults /\ faults' = faults + n
    /\ UNCHANGED <<kills, losses>>

Fault == Faulty(1)

\* A fault that uses up the bounds on troubles.
OnlyTrouble ==
    /\ faults + kills + losses = 0 /\ MaxFaults > 0
    /\ faults' = MaxFaults /\ kills' = MaxKills /\ losses' = MaxPowerLosses

\* fsync of directory d
Flush(d) ==
    /\ disk' = [disk EXCEPT ![d] = seen[d]]
    /\ diskJournal' = IF d = "private" THEN journal ELSE diskJournal
    /\ UNCHANGED <<seen, journal>>

NoBackups(dirs) ==
    [d \in Dirs |-> [dirs[d] EXCEPT !.backup = [t \in Transactions |-> Absent]]]

WithoutBackups(dirs, t) == [d \in Dirs |-> [dirs[d] EXCEPT !.backup[t] = Absent]]

\* The call returns or raises, and the lock is released.
Return(result) ==
    /\ pc' = "idle" /\ task' = "none" /\ had' = {}
    /\ outcome' = result
    /\ UNCHANGED <<txn, before>>

Goto(step) == pc' = step /\ UNCHANGED <<task, txn, had, before, outcome>>

-----------------------------------------------------------------------------
(* replace *)

\* After its recovery a call of replace begins to stage the new pair.
Stage ==
    /\ pc' = "backup_provider" /\ task' = "none" /\ had' = {}
    /\ txn' = txn + 1
    /\ before' = [d \in Dirs |-> seen'[d].final]
    /\ outcome' = "none"

\* The recovery that opens every operation: without a journal the backups of
\* past transactions are swept, with one the transaction is rolled back.
Recover(why) ==
    /\ pc = "idle"
    /\ \/ /\ journal = NoJournal
          /\ seen' = NoBackups(seen)
          /\ UNCHANGED <<disk, journal, diskJournal>>
          /\ IF why = "replace" THEN Stage ELSE Return(outcome)
       \/ /\ journal # NoJournal
          /\ pc' = "restore_provider" /\ task' = why /\ had' = journal.had
          /\ UNCHANGED <<dirVars, txn, before>>
          /\ outcome' = IF why = "replace" THEN "none" ELSE outcome
    /\ Untroubled

Replace == txn < MaxTransactions /\ Recover("replace")

Read == Recover("read")

\* A copy of the current file is written beside it, unless there is none.
Backup(d, step, next) ==
    /\ pc = step
    /\ \/ /\ seen[d].final # Absent
          /\ seen' = [seen EXCEPT ![d].backup[txn] = seen[d].final]
          /\ had' = had \cup {d}
       \/ /\ seen[d].final = Absent
          /\ UNCHANGED <<seen, had>>
    /\ pc' = next
    /\ Untroubled
    /\ UNCHANGED <<disk, journal, diskJournal, task, txn, before, outcome>>

BackupProvider == Backup("provider", "backup_provider", "backup_source")
BackupSource   == Backup("private", "backup_source", "write_journal")

\* Mutant of WriteJournal: it names both files, backed up or not.
WriteJournalOfBoth ==
    /\ pc = "write_journal"
    /\ journal' = [txn |-> txn, had |-> Dirs]
    /\ Goto("sync_journal") /\ Untroubled
    /\ UNCHANGED <<seen, disk, diskJournal>>

WriteJournal ==
    /\ pc = "write_journal"
    /\ journal' = [txn |-> txn, had |-> had]
    /\ Goto("sync_journal") /\ Untroubled
    /\ UNCHANGED <<seen, disk, diskJournal>>

SyncJournal ==
    /\ pc = "sync_journal"
    /\ Flush("private")
    /\ Goto("switch_provider") /\ Untroubled

\* A failure before the journal is durable removes what was staged, a journal
\* that was renamed into place included; each removal is best effort.
StagingFails ==
    /\ pc \in StagingSteps
    /\ Fault
    /\ seen' = WithoutBackups(seen, txn)
    /\ journal' = NoJournal
    /\ Return("failed")
    /\ UNCHANGED <<disk, diskJournal>>

\* Two calls fail: the journal is in place, its fsync fails and so does its
\* removal.  The backups go all the same.
JournalStays ==
    /\ pc = "sync_journal"
    /\ Faulty(2)
    /\ seen' = WithoutBackups(seen, txn)
    /\ Return("failed")
    /\ UNCHANGED <<disk, journal, diskJournal>>

Switch(d, step, next) ==
    /\ pc = step
    /\ seen' = [seen EXCEPT ![d].final = txn]
    /\ Goto(next) /\ Untroubled
    /\ UNCHANGED <<disk, journal, diskJournal>>

SwitchProvider == Switch("provider", "switch_provider", "switch_source")

SwitchSource   == Switch("private", "switch_source", "sync_provider")

\* Mutant of SyncProvider: the directory of the provider is not synced.
SyncProviderSkipped == pc = "sync_provider" /\ UNCHANGED dirVars /\ Goto("sync_source") /\ Untroubled

SyncProvider == pc = "sync_provider" /\ Flush("provider") /\ Goto("sync_source") /\ Untroubled
SyncSource   == pc = "sync_source" /\ Flush("private") /\ Goto("unlink_journal") /\ Untroubled

UnlinkJournal ==
    /\ pc = "unlink_journal"
    /\ journal' = NoJournal
    /\ Goto("sync_unlink") /\ Untroubled
    /\ UNCHANGED <<seen, disk, diskJournal>>

SyncUnlink == pc = "sync_unlink" /\ Flush("private") /\ Goto("cleanup") /\ Untroubled

\* The backups go last; one that cannot be removed waits for the next sweep.
Cleanup ==
    /\ pc = "cleanup"
    /\ \/ seen' = WithoutBackups(seen, txn) /\ Untroubled
       \/ UNCHANGED seen /\ Fault
    /\ Return("success")
    /\ UNCHANGED <<disk, journal, diskJournal>>

\* A failure after the journal is durable rolls back on the spot, with the
\* names replace still has in its locals, even when the journal is gone.
SwitchFails ==
    /\ pc \in SwitchSteps
    /\ IF pc = "sync_unlink" /\ ~LateFaults THEN OnlyTrouble ELSE Fault
    /\ pc' = "restore_provider" /\ task' = "abort"
    /\ UNCHANGED <<dirVars, txn, had, before, outcome>>

-----------------------------------------------------------------------------
(* _roll_back *)

\* The transaction that is rolled back: the one in the journal, or the running
\* one if it aborts.
Undone == IF task = "abort" THEN txn ELSE journal.txn

\* A backup that is gone was restored before, so its target must be there.
RestorePossible(d) ==
    d \in had => seen[d].backup[Undone] # Absent \/ seen[d].final # Absent

Restore(d, step, next) ==
    /\ pc = step
    /\ RestorePossible(d)
    /\ seen' = [seen EXCEPT
                  ![d].final = IF d \notin had THEN Absent
                               ELSE IF seen[d].backup[Undone] # Absent
                                    THEN seen[d].backup[Undone] ELSE @,
                  ![d].backup[Undone] = Absent]
    /\ Goto(next) /\ Untroubled
    /\ UNCHANGED <<disk, journal, diskJournal>>

RestoreProvider == Restore("provider", "restore_provider", "restore_source")
RestoreSource   == Restore("private", "restore_source", "sync_restored_provider")

SyncRestoredProvider ==
    /\ pc = "sync_restored_provider"
    /\ Flush("provider") /\ Goto("sync_restored_source") /\ Untroubled

SyncRestoredSource ==
    /\ pc = "sync_restored_source"
    /\ Flush("private") /\ Goto("remove_backups") /\ Untroubled

RemoveBackups ==
    /\ pc = "remove_backups"
    /\ seen' = WithoutBackups(seen, Undone)
    /\ Goto("unlink_restored") /\ Untroubled
    /\ UNCHANGED <<disk, journal, diskJournal>>

\* Mutant of UnlinkRestored: the journal of a finished rollback stays.
UnlinkRestoredForgotten ==
    /\ pc = "unlink_restored"
    /\ journal # NoJournal
    /\ Goto("sync_restored") /\ Untroubled
    /\ UNCHANGED dirVars

UnlinkRestored ==
    /\ pc = "unlink_restored"
    /\ journal # NoJournal
    /\ journal' = NoJournal
    /\ Goto("sync_restored") /\ Untroubled
    /\ UNCHANGED <<seen, disk, diskJournal>>

SyncRestored ==
    /\ pc = "sync_restored"
    /\ Flush("private")
    /\ IF task = "replace" THEN Stage
       ELSE Return(IF task = "abort" THEN "failed" ELSE outcome)
    /\ Untroubled

RollbackRaises ==
    /\ Return(IF task = "read" THEN outcome ELSE "failed")
    /\ UNCHANGED dirVars

\* A target is missing that must be there, or the journal is gone already.
RollbackRefused ==
    /\ \/ pc = "restore_provider" /\ ~RestorePossible("provider")
       \/ pc = "restore_source" /\ ~RestorePossible("private")
       \/ pc = "unlink_restored" /\ journal = NoJournal
    /\ RollbackRaises /\ Untroubled

RollbackFails ==
    /\ pc \in RollbackSteps
    /\ Fault /\ RollbackRaises

-----------------------------------------------------------------------------
(* Crashes *)

Lost == pc' = "idle" /\ task' = "none" /\ had' = {} /\ UNCHANGED <<txn, before, outcome>>

Kill ==
    /\ pc # "idle"
    /\ kills < MaxKills /\ kills' = kills + 1
    /\ Mixed \/ losses = 0
    /\ Lost
    /\ UNCHANGED <<dirVars, faults, losses>>

Writeback ==
    /\ \E d \in Dirs : Flush(d)
    /\ UNCHANGED <<pc, task, txn, had, before, outcome, faults, kills, losses>>

PowerLoss ==
    /\ losses < MaxPowerLosses /\ losses' = losses + 1
    /\ Mixed \/ kills = 0
    /\ seen' = disk /\ journal' = diskJournal
    /\ Lost
    /\ UNCHANGED <<disk, diskJournal, faults, kills>>

-----------------------------------------------------------------------------
ReplaceStep ==
    \/ BackupProvider \/ BackupSource \/ WriteJournal \/ SyncJournal
    \/ StagingFails \/ JournalStays
    \/ SwitchProvider \/ SwitchSource \/ SyncProvider \/ SyncSource
    \/ UnlinkJournal \/ SyncUnlink \/ Cleanup \/ SwitchFails

RollbackStep ==
    \/ RestoreProvider \/ RestoreSource \/ SyncRestoredProvider \/ SyncRestoredSource
    \/ RemoveBackups \/ UnlinkRestored \/ SyncRestored
    \/ RollbackRefused \/ RollbackFails

Next ==
    \/ Replace \/ Read \/ ReplaceStep \/ RollbackStep
    \/ Kill \/ Writeback \/ PowerLoss

Spec == Init /\ [][Next]_vars

\* The holder of the lock runs on, and airport operations keep coming: the
\* daily timer alone calls read_source once a day.
Fairness == WF_vars(ReplaceStep \/ RollbackStep) /\ WF_vars(Read)

FairSpec == Spec /\ Fairness

-----------------------------------------------------------------------------
(* Correctness *)

\* The pair a recovery would establish from these directories and journal.
Recovered(dirs, j) ==
    [d \in Dirs |->
        IF j = NoJournal THEN dirs[d].final
        ELSE IF d \notin j.had THEN Absent
        ELSE IF dirs[d].backup[j.txn] # Absent THEN dirs[d].backup[j.txn]
        ELSE dirs[d].final]

\* Both halves come from one transaction.  A provider without a record is what
\* an installation that predates the records has.
Complete(pair) ==
    pair.provider = pair.private \/ pair = [provider |-> 0, private |-> Absent]

NewPair == [d \in Dirs |-> txn]

\* The provider and its source record are never left half switched: whenever
\* no operation is under way, also because one died or failed, the pair the
\* next recovery establishes is a complete one (replace, _abort, _roll_back).
\* After a power loss that is the pair on the disk, whatever had reached it.
NeverHalfSwitched == pc = "idle" => Complete(Recovered(seen, journal))

\* A replace that reports success has switched, visibly and durably; one that
\* reports a failure has not, or has left a journal that takes it back.
ReportIsTrue ==
    [][outcome = "none" /\ outcome' # "none" =>
         /\ outcome' = "success" =>
              Recovered(seen', journal') = NewPair /\ Recovered(disk', diskJournal') = NewPair
         /\ outcome' = "failed" /\ task # "replace" => Recovered(seen', journal') = before]_vars

\* A rollback always finds what it needs: it is never stuck on a backup that
\* is gone together with its target.
RollbackPossible ==
    /\ pc = "restore_provider" => RestorePossible("provider")
    /\ pc = "restore_source" => RestorePossible("private")

\* An interrupted transaction does not stay pending for ever.
JournalIsResolved == journal # NoJournal ~> journal = NoJournal

=============================================================================
