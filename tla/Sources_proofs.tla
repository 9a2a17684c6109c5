--------------------------- MODULE Sources_proofs ---------------------------
(***************************************************************************)
(* What the airport and the backup nodes promise.                          *)
(*                                                                         *)
(* Replacing and rolling back the airport's two files (AirportTransaction),*)
(* for any number of transactions, failing calls, kills and power losses:  *)
(* the pair is never half switched as long as crashes are of one kind      *)
(* (OneKindOfCrash) and the one fsync that can fail behind the removal of  *)
(* a journal meets no other trouble (EarlyFaults); a rollback has what it  *)
(* needs in any case.                                                      *)
(*                                                                         *)
(* Changing both sources from the terminal and by the timer (Sources), for *)
(* any lists of nodes: neither takes back the other's part of the record,  *)
(* and a reported success has published a merge of what is on record.      *)
(***************************************************************************)
EXTENDS AirportTransaction, Sources, FiniteSetTheorems, SequenceTheorems,
        WellFoundedInduction, TLAPS

-----------------------------------------------------------------------------
(* The inductive invariant *)

OneKindOfCrash == ~Mixed
EarlyFaults == ~LateFaults

\* A power loss may still come: what is on the disk matters.
MayLose == losses < MaxPowerLosses /\ kills = 0

\* No trouble may come any more.
Quiet == faults = MaxFaults /\ kills = MaxKills /\ losses = MaxPowerLosses

\* The files the last transaction found
Had == {d \in Dirs : before[d] # Absent}

OwnJournal == [txn |-> txn, had |-> Had]

IsJournal(j) == j = NoJournal \/ (j.txn \in 1..txn /\ j = [txn |-> j.txn, had |-> Had])

\* Rolling back transaction t gives d what the last transaction found.
Undoable(dirs, t, d) ==
    \/ dirs[d].backup[t] = before[d]
    \/ dirs[d].backup[t] = Absent /\ dirs[d].final = before[d]

Directories == seen \in [Dirs -> Directory] /\ disk \in [Dirs -> Directory]

Types ==
    /\ Directories
    /\ txn \in 0..MaxTransactions
    /\ before \in [Dirs -> Value] /\ Complete(before)
    /\ {faults, kills, losses} \subseteq Nat
    /\ task \in {"none", "replace", "abort", "read"}
    /\ pc \in {"idle", "cleanup"} \cup StagingSteps \cup SwitchSteps \cup RollbackSteps
    /\ pc \in RollbackSteps <=> task # "none"
    /\ pc \in {"cleanup"} \cup StagingSteps \cup SwitchSteps \/ task = "abort" => txn > 0
    /\ task = "replace" => txn < MaxTransactions
    /\ \A d \in Dirs, t \in Transactions : t > txn =>
          seen[d].backup[t] = Absent /\ disk[d].backup[t] = Absent

\* Whichever journal is found, with whichever of the directories: it undoes.
Journals ==
    /\ IsJournal(journal)
    /\ journal # NoJournal => \A d \in Dirs : Undoable(seen, journal.txn, d)
    /\ MayLose =>
         /\ IsJournal(diskJournal)
         /\ diskJournal # NoJournal =>
              /\ \A d \in Dirs : Undoable(disk, diskJournal.txn, d)
              /\ Undoable(seen, diskJournal.txn, "provider")
         /\ journal # NoJournal => Undoable(disk, journal.txn, "provider")

Unswitched == \A d \in Dirs : seen[d].final = before[d] /\ (MayLose => disk[d].final = before[d])

Switched(dirs, d) == dirs[d].final = txn

Idle ==
    pc = "idle" =>
       /\ journal = NoJournal =>
            /\ Complete([d \in Dirs |-> seen[d].final])
            /\ MayLose => \/ diskJournal = NoJournal /\ \A d \in Dirs : disk[d].final = seen[d].final
                          \/ diskJournal # NoJournal /\ Unswitched
       /\ MayLose /\ journal # NoJournal /\ diskJournal = NoJournal => Unswitched

Staging ==
    pc \in StagingSteps =>
       /\ Unswitched
       /\ journal = IF pc = "sync_journal" THEN OwnJournal ELSE NoJournal
       /\ had = CASE pc = "backup_provider" -> {}
                  [] pc = "backup_source" -> Had \cap {"provider"}
                  [] OTHER -> Had
       /\ \A d \in Dirs : Undoable(seen, txn, d) /\ (MayLose => Undoable(disk, txn, d))
       /\ pc # "backup_provider" => seen["provider"].backup[txn] = before["provider"]
       /\ pc \notin {"backup_provider", "backup_source"} => seen["private"].backup[txn] = before["private"]

Switching ==
    pc \in SwitchSteps =>
       /\ had = Had
       /\ \A d \in Dirs : seen[d].backup[txn] = before[d] /\ (MayLose => Undoable(disk, txn, d))
       /\ journal = IF pc = "sync_unlink" THEN NoJournal ELSE OwnJournal
       /\ MayLose => diskJournal = OwnJournal \/ (pc = "sync_unlink" /\ diskJournal = NoJournal)
       /\ pc # "switch_provider" => Switched(seen, "provider")
       /\ pc \notin {"switch_provider", "switch_source"} => Switched(seen, "private")
       /\ MayLose /\ pc \in {"sync_source", "unlink_journal", "sync_unlink"} => Switched(disk, "provider")
       /\ MayLose /\ pc \in {"unlink_journal", "sync_unlink"} => Switched(disk, "private")

CleaningUp ==
    pc = "cleanup" =>
       /\ journal = NoJournal /\ (MayLose => diskJournal = NoJournal)
       /\ \A d \in Dirs : Switched(seen, d) /\ (MayLose => Switched(disk, d))

RollingBack ==
    pc \in RollbackSteps =>
       /\ had = Had
       /\ pc = "sync_restored" => journal = NoJournal
       /\ pc # "sync_restored" =>
            /\ \/ journal # NoJournal /\ journal.txn = Undone
               \/ journal = NoJournal /\ task = "abort" /\ Quiet
            /\ \A d \in Dirs : Undoable(seen, Undone, d)
            /\ MayLose /\ diskJournal = NoJournal => Unswitched
       /\ pc # "restore_provider" => seen["provider"].final = before["provider"]
       /\ pc \notin {"restore_provider", "restore_source"} => seen["private"].final = before["private"]
       /\ MayLose /\ pc \in {"sync_restored_source", "remove_backups", "unlink_restored", "sync_restored"} =>
            disk["provider"].final = before["provider"]
       /\ MayLose /\ pc \in {"remove_backups", "unlink_restored", "sync_restored"} =>
            disk["private"].final = before["private"]

PairInv ==
    Types /\ Journals /\ Idle /\ Staging /\ Switching /\ CleaningUp /\ RollingBack

-----------------------------------------------------------------------------
(* Steps of one directory *)

\* An fsync makes the disk agree with what is seen.
LEMMA FlushFacts ==
    ASSUME Directories, NEW d \in Dirs, Flush(d)
    PROVE  /\ disk' \in [Dirs -> Directory] /\ disk'[d] = seen[d]
           /\ \A e \in Dirs \ {d} : disk'[e] = disk[e]
           /\ seen' = seen /\ journal' = journal
           /\ diskJournal' = IF d = "private" THEN journal ELSE diskJournal
  BY DEF Directories, Flush

\* Whatever reaches the disk, the journals undo.
LEMMA FlushJournals ==
    ASSUME Types, Journals, NEW d \in Dirs, Flush(d), UNCHANGED <<txn, before>>, MayLose' => MayLose
    PROVE  Journals'
  BY FlushFacts DEF Types, Directories, Journals, IsJournal, Undoable, Had, Dirs

LEMMA SwitchFacts ==
    ASSUME Directories, NEW d \in Dirs, NEW v \in Value, seen' = [seen EXCEPT ![d].final = v]
    PROVE  /\ seen' \in [Dirs -> Directory] /\ seen'[d].final = v /\ seen'[d].backup = seen[d].backup
           /\ \A e \in Dirs \ {d} : seen'[e] = seen[e]
  BY DEF Directories, Directory

LEMMA BackupFacts ==
    ASSUME Directories, NEW d \in Dirs, txn \in Transactions, seen' = [seen EXCEPT ![d].backup[txn] = seen[d].final]
    PROVE  /\ seen' \in [Dirs -> Directory] /\ seen'[d].final = seen[d].final
           /\ seen'[d].backup[txn] = seen[d].final
           /\ \A t \in Transactions \ {txn} : seen'[d].backup[t] = seen[d].backup[t]
           /\ \A e \in Dirs \ {d} : seen'[e] = seen[e]
  BY DEF Directories, Directory

\* A directory with a backup of transaction t written or removed
LEMMA EntryFacts ==
    ASSUME NEW f \in Directory, NEW t \in Transactions, NEW v \in Value
    PROVE  LET g == [f EXCEPT !.backup[t] = v]
           IN /\ g \in Directory /\ g.final = f.final /\ g.backup[t] = v
              /\ \A u \in Transactions \ {t} : g.backup[u] = f.backup[u]
  BY DEF Directory

LEMMA AbsentIsAValue == Absent \in Value
  BY DEF Value

LEMMA WithoutFacts ==
    ASSUME Directories, NEW t \in Transactions, seen' = WithoutBackups(seen, t)
    PROVE  /\ seen' \in [Dirs -> Directory]
           /\ \A d \in Dirs : /\ seen'[d].final = seen[d].final /\ seen'[d].backup[t] = Absent
                              /\ \A u \in Transactions \ {t} : seen'[d].backup[u] = seen[d].backup[u]
<1>1. ASSUME NEW d \in Dirs
      PROVE  seen[d] \in Directory /\ seen'[d] = [seen[d] EXCEPT !.backup[t] = Absent]
  BY DEF Directories, WithoutBackups
<1>2. ASSUME NEW d \in Dirs
      PROVE  /\ seen'[d] \in Directory /\ seen'[d].final = seen[d].final /\ seen'[d].backup[t] = Absent
             /\ \A u \in Transactions \ {t} : seen'[d].backup[u] = seen[d].backup[u]
  <2> DEFINE g == [seen[d] EXCEPT !.backup[t] = Absent]
  <2>1. /\ g \in Directory /\ g.final = seen[d].final /\ g.backup[t] = Absent
        /\ \A u \in Transactions \ {t} : g.backup[u] = seen[d].backup[u]
    BY <1>1, EntryFacts, AbsentIsAValue
  <2>2. seen'[d] = g
    BY <1>1
  <2> HIDE DEF g
  <2> QED
    BY <2>1, <2>2
<1>3. seen' = [d \in Dirs |-> seen'[d]]
  BY DEF WithoutBackups
<1> QED
  BY <1>2, <1>3

LEMMA NoBackupsFacts ==
    ASSUME Directories, seen' = NoBackups(seen)
    PROVE  /\ seen' \in [Dirs -> Directory]
           /\ \A d \in Dirs : /\ seen'[d].final = seen[d].final
                              /\ \A u \in Transactions : seen'[d].backup[u] = Absent
<1> DEFINE none == [t \in Transactions |-> Absent]
<1>1. none \in [Transactions -> Value] /\ \A u \in Transactions : none[u] = Absent
  BY AbsentIsAValue
<1>2. seen' = [d \in Dirs |-> [seen[d] EXCEPT !.backup = none]]
  BY DEF NoBackups
<1> HIDE DEF none
<1>3. ASSUME NEW d \in Dirs
      PROVE  seen'[d] \in Directory /\ seen'[d].final = seen[d].final /\ seen'[d].backup = none
  BY <1>1, <1>2 DEF Directories, Directory
<1> QED
  BY <1>1, <1>2, <1>3

\* What is seen when d has v and the backup of transaction t is consumed
GivenBack(d, t, v) == [seen EXCEPT ![d].final = v, ![d].backup[t] = Absent]

LEMMA RestoreFacts ==
    ASSUME Directories, NEW d \in Dirs, NEW t \in Transactions, NEW v \in Value,
           seen' = GivenBack(d, t, v)
    PROVE  /\ seen' \in [Dirs -> Directory] /\ seen'[d].final = v /\ seen'[d].backup[t] = Absent
           /\ \A u \in Transactions \ {t} : seen'[d].backup[u] = seen[d].backup[u]
           /\ \A e \in Dirs \ {d} : seen'[e] = seen[e]
<1> DEFINE f == [seen[d] EXCEPT !.final = v]
           g == [f EXCEPT !.backup[t] = Absent]
<1>1. f \in Directory /\ f.final = v /\ f.backup = seen[d].backup
  BY DEF Directories, Directory
<1> HIDE DEF f
<1>2. /\ g \in Directory /\ g.final = f.final /\ g.backup[t] = Absent
      /\ \A u \in Transactions \ {t} : g.backup[u] = f.backup[u]
  BY <1>1, EntryFacts, AbsentIsAValue
<1> HIDE DEF g
<1>3. seen' = [seen EXCEPT ![d] = g]
  BY DEF f, g, GivenBack, Directories
<1>4. seen \in [Dirs -> Directory]
  BY DEF Directories
<1>5. seen'[d] = g /\ \A e \in Dirs \ {d} : seen'[e] = seen[e]
  BY <1>3, <1>4
<1>6. seen' \in [Dirs -> Directory]
  BY <1>2, <1>3, <1>4
<1>7. /\ g.final = v /\ g.backup[t] = Absent
      /\ \A u \in Transactions \ {t} : g.backup[u] = seen[d].backup[u]
  BY <1>1, <1>2
<1> QED
  BY <1>5, <1>6, <1>7

-----------------------------------------------------------------------------
(* Beginning *)

LEMMA PairInit == Init => PairInv
<1> SUFFICES ASSUME Init PROVE PairInv
  OBVIOUS
<1>1. /\ before \in [Dirs -> Value] /\ Complete(before)
      /\ seen = [d \in Dirs |-> [final |-> before[d], backup |-> [t \in Transactions |-> Absent]]]
      /\ disk = seen /\ journal = NoJournal /\ diskJournal = NoJournal
      /\ pc = "idle" /\ task = "none" /\ txn = 0
      /\ faults = 0 /\ kills = 0 /\ losses = 0
  <2>1. ASSUME NEW b, b \in {[d \in Dirs |-> 0], [d \in Dirs |-> Absent],
                             [d \in Dirs |-> IF d = "provider" THEN 0 ELSE Absent]}
        PROVE  b \in [Dirs -> Value] /\ Complete(b)
    <3>1. 0 \in Value /\ Absent \in Value
      BY AirportAssumption DEF Value
    <3>2. b \in [Dirs -> Value]
      BY <2>1, <3>1
    <3>3. CASE b = [d \in Dirs |-> 0]
      BY <3>2, <3>3 DEF Complete, Dirs
    <3>4. CASE b = [d \in Dirs |-> Absent]
      BY <3>2, <3>4 DEF Complete, Dirs
    <3>5. CASE b = [d \in Dirs |-> IF d = "provider" THEN 0 ELSE Absent]
      BY <3>2, <3>5 DEF Complete, Dirs
    <3> QED
      BY <2>1, <3>2, <3>3, <3>4, <3>5
  <2> QED
    BY <2>1 DEF Init
<1>2. seen \in [Dirs -> Directory]
  BY <1>1, AbsentIsAValue DEF Directory
<1>3. ASSUME NEW d \in Dirs
      PROVE  seen[d].final = before[d] /\ \A t \in Transactions : seen[d].backup[t] = Absent
  BY <1>1
<1>4. Types
  BY <1>1, <1>2, <1>3, AirportAssumption DEF Types, Directories, StagingSteps, SwitchSteps, RollbackSteps
<1>5. Journals /\ Staging /\ Switching /\ CleaningUp /\ RollingBack
  BY <1>1 DEF Journals, IsJournal, Staging, Switching, CleaningUp, RollingBack, StagingSteps,
              SwitchSteps, RollbackSteps
<1>6. Idle
  <2>1. Complete([d \in Dirs |-> seen[d].final])
    BY <1>1, <1>3 DEF Complete, Dirs
  <2> QED
    BY <1>1, <2>1 DEF Idle
<1> QED
  BY <1>4, <1>5, <1>6 DEF PairInv

\* A transaction begins over the pair that is in place.
LEMMA StageNext ==
    ASSUME PairInv, Stage, txn < MaxTransactions,
           seen' \in [Dirs -> Directory], disk' \in [Dirs -> Directory],
           \A d \in Dirs, t \in Transactions : t > txn =>
              seen'[d].backup[t] = Absent /\ disk'[d].backup[t] = Absent,
           journal' = NoJournal, UNCHANGED <<faults, kills, losses>>,
           Complete([d \in Dirs |-> seen'[d].final]),
           MayLose => /\ \A d \in Dirs : disk'[d].final = seen'[d].final
                      /\ \/ diskJournal' = NoJournal
                         \/ /\ IsJournal(diskJournal') /\ \A d \in Dirs : seen'[d].final = before[d]
                            /\ \A d \in Dirs : Undoable(disk', diskJournal'.txn, d)
                            /\ Undoable(seen', diskJournal'.txn, "provider")
    PROVE  PairInv'
<1>0. /\ pc' = "backup_provider" /\ task' = "none" /\ had' = {} /\ txn' = txn + 1
      /\ before' = [d \in Dirs |-> seen'[d].final] /\ txn \in Nat /\ txn' \in Transactions
      /\ MayLose' = MayLose
  BY AirportAssumption DEF Stage, PairInv, Types, Directories, Transactions, MayLose
<1>1. /\ before' \in [Dirs -> Value]
      /\ \A d \in Dirs : before'[d] = seen'[d].final
  BY <1>0 DEF Directory
<1>2. Types'
  BY <1>0, <1>1, AirportAssumption DEF PairInv, Types, Directories, Transactions, StagingSteps, SwitchSteps, RollbackSteps
<1>3. ASSUME MayLose, diskJournal' # NoJournal
      PROVE  before' = before
  BY <1>0, <1>1, <1>3 DEF PairInv, Types, Directories
<1>4. Journals'
  BY <1>0, <1>3 DEF PairInv, Types, Directories, Journals, IsJournal, Undoable, Had
<1>5. Staging'
  BY <1>0, <1>1 DEF PairInv, Types, Directories, Staging, Unswitched, Undoable, StagingSteps
<1>6. Idle' /\ Switching' /\ CleaningUp' /\ RollingBack'
  BY <1>0 DEF Idle, Switching, CleaningUp, RollingBack, SwitchSteps, RollbackSteps
<1> QED
  BY <1>2, <1>4, <1>5, <1>6 DEF PairInv

LEMMA RecoverNext == ASSUME PairInv, NEW why \in {"replace", "read"}, Recover(why),
                            why = "replace" => txn < MaxTransactions
                     PROVE  PairInv'
<1>0. pc = "idle" /\ UNCHANGED <<faults, kills, losses>> /\ MayLose' = MayLose
  BY DEF Recover, Untroubled, MayLose
<1>1. CASE journal = NoJournal
  <2>1. /\ seen' = NoBackups(seen) /\ UNCHANGED <<disk, journal, diskJournal>>
        /\ IF why = "replace" THEN Stage ELSE Return(outcome)
    BY <1>1 DEF Recover
  <2>2. /\ seen' \in [Dirs -> Directory]
        /\ \A d \in Dirs : /\ seen'[d].final = seen[d].final
                           /\ \A u \in Transactions : seen'[d].backup[u] = Absent
    BY <2>1, NoBackupsFacts DEF PairInv, Types, Directories
  <2>3. Complete([d \in Dirs |-> seen'[d].final])
    BY <1>0, <1>1, <2>2 DEF PairInv, Idle, Complete, Dirs
  <2>4. MayLose /\ diskJournal # NoJournal =>
           /\ diskJournal.txn \in Transactions
           /\ \A d \in Dirs : seen'[d].final = before[d] /\ Undoable(disk, diskJournal.txn, d)
           /\ Undoable(seen', diskJournal.txn, "provider")
    BY <1>0, <1>1, <2>2, AirportAssumption
       DEF PairInv, Idle, Unswitched, Journals, IsJournal, Undoable, Types, Directories, Transactions, Dirs
  <2>5. MayLose => \A d \in Dirs : disk[d].final = seen'[d].final
    BY <1>0, <1>1, <2>2 DEF PairInv, Idle, Unswitched
  <2>6. CASE why = "replace"
    <3>1. Stage /\ txn < MaxTransactions /\ disk' = disk /\ diskJournal' = diskJournal /\ journal' = NoJournal
      BY <1>1, <2>1, <2>6
    <3>2. \A d \in Dirs, t \in Transactions : t > txn =>
             seen'[d].backup[t] = Absent /\ disk'[d].backup[t] = Absent
      BY <2>2, <3>1 DEF PairInv, Types, Directories
    <3>3. disk' \in [Dirs -> Directory]
      BY <3>1 DEF PairInv, Types, Directories
    <3>4. MayLose => /\ \A d \in Dirs : disk'[d].final = seen'[d].final
                     /\ \/ diskJournal' = NoJournal
                        \/ /\ IsJournal(diskJournal') /\ \A d \in Dirs : seen'[d].final = before[d]
                           /\ \A d \in Dirs : Undoable(disk', diskJournal'.txn, d)
                           /\ Undoable(seen', diskJournal'.txn, "provider")
      BY <2>4, <2>5, <3>1 DEF PairInv, Journals, Undoable
    <3> QED
      BY <1>0, <2>2, <2>3, <3>1, <3>2, <3>3, <3>4, StageNext
  <2>7. CASE why = "read"
    <3>1. pc' = "idle" /\ task' = "none" /\ had' = {} /\ UNCHANGED <<txn, before>>
      BY <2>1, <2>7 DEF Return
    <3>2. Types'
      BY <1>0, <2>1, <2>2, <3>1 DEF PairInv, Types, Directories, StagingSteps, SwitchSteps, RollbackSteps
    <3>3. Journals'
      BY <1>0, <1>1, <2>1, <2>4, <3>1 DEF PairInv, Journals, IsJournal, Undoable, Had
    <3>4. Idle'
      BY <1>0, <1>1, <2>1, <2>2, <2>3, <2>4, <2>5, <3>1 DEF PairInv, Idle, Unswitched
    <3> QED
      BY <3>1, <3>2, <3>3, <3>4
         DEF PairInv, Staging, Switching, CleaningUp, RollingBack, StagingSteps, SwitchSteps, RollbackSteps
  <2> QED
    BY <2>6, <2>7
<1>2. CASE journal # NoJournal
  <2>1. /\ pc' = "restore_provider" /\ task' = why /\ had' = journal.had
        /\ UNCHANGED <<seen, disk, journal, diskJournal, txn, before>>
    BY <1>2 DEF Recover, dirVars
  <2>2. Types' /\ Journals'
    BY <1>0, <2>1 DEF PairInv, Types, Directories, Journals, IsJournal, Undoable, Had, MayLose, StagingSteps, SwitchSteps, RollbackSteps
  <2>3. RollingBack'
    BY <1>0, <1>2, <2>1 DEF PairInv, RollingBack, Journals, IsJournal, Idle, Undone, Undoable, Unswitched, Had
  <2> QED
    BY <2>1, <2>2, <2>3
       DEF PairInv, Idle, Staging, Switching, CleaningUp, StagingSteps, SwitchSteps
<1> QED
  BY <1>1, <1>2

-----------------------------------------------------------------------------
(* Staging *)

LEMMA BackupNext ==
    ASSUME PairInv, NEW d \in Dirs,
           \/ d = "provider" /\ Backup(d, "backup_provider", "backup_source")
           \/ d = "private" /\ Backup(d, "backup_source", "write_journal")
    PROVE  PairInv'
<1>0. /\ pc = IF d = "provider" THEN "backup_provider" ELSE "backup_source"
      /\ pc' = IF d = "provider" THEN "backup_source" ELSE "write_journal"
      /\ UNCHANGED <<disk, journal, diskJournal, task, txn, before, faults, kills, losses>>
      /\ MayLose' = MayLose /\ Unswitched
      /\ txn \in Transactions
  BY AirportAssumption DEF Backup, Untroubled, MayLose, PairInv, Staging, StagingSteps, Types, Directories, Transactions
<1>1. \/ /\ before[d] # Absent /\ had' = had \cup {d}
         /\ seen' = [seen EXCEPT ![d].backup[txn] = seen[d].final]
      \/ before[d] = Absent /\ UNCHANGED <<seen, had>>
  BY <1>0 DEF Backup, Unswitched
<1>2. /\ seen' \in [Dirs -> Directory]
      /\ seen'[d].final = seen[d].final
      /\ \A t \in Transactions \ {txn} : seen'[d].backup[t] = seen[d].backup[t]
      /\ \A e \in Dirs \ {d} : seen'[e] = seen[e]
      /\ seen'[d].backup[txn] = before[d]
  <2>1. CASE before[d] = Absent /\ UNCHANGED <<seen, had>>
    BY <1>0, <2>1 DEF PairInv, Types, Directories, Staging, StagingSteps, Undoable
  <2>2. CASE seen' = [seen EXCEPT ![d].backup[txn] = seen[d].final]
    BY <1>0, <2>2, BackupFacts DEF PairInv, Types, Directories, Unswitched
  <2> QED
    BY <1>1, <2>1, <2>2
<1>3. Types'
  BY <1>0, <1>2 DEF PairInv, Types, Directories, StagingSteps, SwitchSteps, RollbackSteps
<1>4. Journals'
  <2>1. \A t \in Transactions, e \in Dirs : Undoable(seen, t, e) => Undoable(seen', t, e)
    BY <1>0, <1>2 DEF Undoable, Unswitched
  <2>2. "provider" \in Dirs /\ Had' = Had
    BY <1>0 DEF Dirs, Had
  <2>3. \A j : IsJournal(j) /\ j # NoJournal => j.txn \in Transactions
    BY AirportAssumption DEF IsJournal, PairInv, Types, Directories, Transactions
  <2> QED
    BY <1>0, <2>1, <2>2, <2>3 DEF PairInv, Journals, IsJournal, Undoable
<1>5. Staging'
  <2>1. Unswitched'
    BY <1>0, <1>2 DEF Unswitched
  <2>2. had' = IF d = "provider" THEN Had \cap {"provider"} ELSE Had
    BY <1>0, <1>1 DEF PairInv, Staging, StagingSteps, Had, Dirs
  <2> QED
    BY <1>0, <1>2, <2>1, <2>2 DEF PairInv, Staging, StagingSteps, Undoable, Had, OwnJournal, Dirs
<1>6. Idle' /\ Switching' /\ CleaningUp' /\ RollingBack'
  BY <1>0 DEF Idle, Switching, CleaningUp, RollingBack, SwitchSteps, RollbackSteps
<1> QED
  BY <1>3, <1>4, <1>5, <1>6 DEF PairInv

LEMMA WriteJournalNext == PairInv /\ WriteJournal => PairInv'
<1> SUFFICES ASSUME PairInv, WriteJournal PROVE PairInv'
  OBVIOUS
<1>0. /\ pc = "write_journal" /\ pc' = "sync_journal" /\ journal' = [txn |-> txn, had |-> had]
      /\ UNCHANGED <<seen, disk, diskJournal, task, txn, had, before, faults, kills, losses>>
      /\ MayLose' = MayLose /\ had = Had /\ txn > 0 /\ txn \in Nat
  BY DEF WriteJournal, Goto, Untroubled, MayLose, PairInv, Staging, StagingSteps, Types, Directories
<1>1. Types'
  BY <1>0 DEF PairInv, Types, Directories, StagingSteps, SwitchSteps, RollbackSteps
<1>2. Journals'
  <2>1. /\ \A d \in Dirs : Undoable(seen, txn, d) /\ (MayLose => Undoable(disk, txn, d))
        /\ journal = NoJournal /\ Had' = Had
    BY <1>0 DEF PairInv, Staging, StagingSteps, Had
  <2>2. IsJournal(journal)' /\ journal'.txn = txn
    BY <1>0, <2>1 DEF IsJournal
  <2>4. \A d \in Dirs : Undoable(seen, journal.txn, d)' /\ (MayLose => Undoable(disk, journal.txn, d)')
    BY <1>0, <2>1, <2>2 DEF Undoable
  <2>5. MayLose => /\ IsJournal(diskJournal)'
                   /\ diskJournal' # NoJournal =>
                         /\ \A d \in Dirs : Undoable(disk, diskJournal.txn, d)'
                         /\ Undoable(seen, diskJournal.txn, "provider")'
    BY <1>0, <2>1 DEF PairInv, Journals, IsJournal, Undoable
  <2> QED
    BY <1>0, <2>2, <2>4, <2>5 DEF Journals, Dirs
<1>3. Staging'
  BY <1>0 DEF PairInv, Staging, StagingSteps, Undoable, Unswitched, Had, OwnJournal
<1> QED
  BY <1>0, <1>1, <1>2, <1>3
     DEF PairInv, Idle, Switching, CleaningUp, RollingBack, SwitchSteps, RollbackSteps

LEMMA SyncJournalNext == PairInv /\ SyncJournal => PairInv'
<1> SUFFICES ASSUME PairInv, SyncJournal PROVE PairInv'
  OBVIOUS
<1>0. /\ pc = "sync_journal" /\ pc' = "switch_provider" /\ Flush("private")
      /\ UNCHANGED <<seen, journal, task, txn, had, before, faults, kills, losses>>
      /\ MayLose' = MayLose /\ had = Had /\ diskJournal' = OwnJournal /\ journal = OwnJournal
  BY DEF SyncJournal, Flush, Goto, Untroubled, MayLose, PairInv, Staging, StagingSteps
<1>1. /\ disk' \in [Dirs -> Directory] /\ disk'["private"] = seen["private"]
      /\ disk'["provider"] = disk["provider"]
  BY <1>0, FlushFacts DEF PairInv, Types, Directories, Dirs
<1>2. Types'
  BY <1>0, <1>1 DEF PairInv, Types, Directories, StagingSteps, SwitchSteps, RollbackSteps, Dirs
<1>3. Journals'
  BY <1>0, FlushJournals DEF PairInv, Dirs
<1>4. Switching'
  BY <1>0, <1>1 DEF PairInv, Staging, StagingSteps, Switching, SwitchSteps, Undoable, OwnJournal, Had, Dirs
<1> QED
  BY <1>0, <1>2, <1>3, <1>4
     DEF PairInv, Idle, Staging, CleaningUp, RollingBack, StagingSteps, RollbackSteps

\* The transaction fails and takes back what it staged, its journal perhaps not.
LEMMA GiveUpNext ==
    ASSUME PairInv, pc \in StagingSteps, seen' = WithoutBackups(seen, txn), Return("failed"),
           journal' \in {journal, NoJournal}, UNCHANGED <<disk, diskJournal, kills, losses>>, faults' \in Nat
    PROVE  PairInv'
<1>0. /\ pc' = "idle" /\ task' = "none" /\ UNCHANGED <<txn, before>>
      /\ MayLose' = MayLose /\ Unswitched /\ txn \in Transactions
  BY AirportAssumption DEF Return, MayLose, PairInv, Staging, StagingSteps, Types, Directories, Transactions
<1>1. /\ seen' \in [Dirs -> Directory]
      /\ \A d \in Dirs : /\ seen'[d].final = seen[d].final /\ seen'[d].backup[txn] = Absent
                         /\ \A u \in Transactions \ {txn} : seen'[d].backup[u] = seen[d].backup[u]
  BY <1>0, WithoutFacts DEF PairInv, Types, Directories
<1>2. Types'
  BY <1>0, <1>1 DEF PairInv, Types, Directories, StagingSteps, SwitchSteps, RollbackSteps
<1>3. \A t \in Transactions, d \in Dirs : Undoable(seen, t, d) => Undoable(seen', t, d)
  BY <1>0, <1>1 DEF Undoable, Unswitched
<1>4. Journals'
  <2>1. Had' = Had /\ "provider" \in Dirs /\ 1..txn \subseteq Transactions
    BY <1>0, AirportAssumption DEF Had, Transactions, Dirs
  <2>2. /\ journal' = NoJournal \/ journal' = journal
        /\ Journals /\ UNCHANGED <<txn, before, disk, diskJournal>>
    BY <1>0 DEF PairInv
  <2> QED
    BY <1>0, <1>3, <2>1, <2>2 DEF Journals, IsJournal, Undoable
<1>5. Unswitched'
  BY <1>0, <1>1 DEF Unswitched
<1>6. Complete([d \in Dirs |-> seen'[d].final])
  <2>1. [d \in Dirs |-> seen'[d].final] = before
    BY <1>0, <1>1 DEF Unswitched, PairInv, Types, Directories
  <2> QED
    BY <2>1 DEF PairInv, Types, Directories
<1>7. Idle'
  BY <1>0, <1>1, <1>5, <1>6 DEF Idle, Unswitched
<1> QED
  BY <1>0, <1>2, <1>4, <1>7
     DEF PairInv, Staging, Switching, CleaningUp, RollingBack, StagingSteps, SwitchSteps, RollbackSteps

LEMMA StagingNext ==
    PairInv /\ (BackupProvider \/ BackupSource \/ WriteJournal \/ SyncJournal \/ StagingFails \/ JournalStays)
        => PairInv'
<1> SUFFICES ASSUME PairInv PROVE BackupProvider \/ BackupSource \/ WriteJournal \/ SyncJournal \/ StagingFails \/ JournalStays
        => PairInv'
  OBVIOUS
<1>1. faults \in Nat /\ faults + 1 \in Nat /\ faults + 2 \in Nat
  BY DEF PairInv, Types, Directories
<1>2. StagingFails => PairInv'
  BY <1>1, GiveUpNext DEF StagingFails, Fault, Faulty
<1>3. JournalStays => PairInv'
  BY <1>1, GiveUpNext DEF JournalStays, Faulty, StagingSteps
<1>4. BackupProvider \/ BackupSource => PairInv'
  BY BackupNext DEF BackupProvider, BackupSource, Dirs
<1> QED
  BY <1>2, <1>3, <1>4, WriteJournalNext, SyncJournalNext

-----------------------------------------------------------------------------
(* Switching *)

LEMMA SwitchNext ==
    ASSUME PairInv, NEW d \in Dirs,
           \/ d = "provider" /\ Switch(d, "switch_provider", "switch_source")
           \/ d = "private" /\ Switch(d, "switch_source", "sync_provider")
    PROVE  PairInv'
<1>0. /\ pc = IF d = "provider" THEN "switch_provider" ELSE "switch_source"
      /\ pc' = IF d = "provider" THEN "switch_source" ELSE "sync_provider"
      /\ seen' = [seen EXCEPT ![d].final = txn]
      /\ UNCHANGED <<disk, journal, diskJournal, task, txn, had, before, faults, kills, losses>>
      /\ MayLose' = MayLose /\ txn \in Value /\ Had' = Had
  BY AirportAssumption DEF Switch, Goto, Untroubled, MayLose, PairInv, Types, Directories, Value, Had
<1>1. /\ seen' \in [Dirs -> Directory] /\ seen'[d].final = txn /\ seen'[d].backup = seen[d].backup
      /\ \A e \in Dirs \ {d} : seen'[e] = seen[e]
  BY <1>0, SwitchFacts DEF PairInv, Types, Directories
<1>2. Types'
  BY <1>0, <1>1 DEF PairInv, Types, Directories, StagingSteps, SwitchSteps, RollbackSteps
<1>3. Switching'
  BY <1>0, <1>1 DEF PairInv, Switching, SwitchSteps, Undoable, Switched, OwnJournal, Dirs
<1>4. Journals'
  <2>1. /\ journal = OwnJournal /\ (MayLose => diskJournal = OwnJournal) /\ IsJournal(OwnJournal)
        /\ \A e \in Dirs : seen'[e].backup[txn] = before[e] /\ (MayLose => Undoable(disk, txn, e))
    BY <1>0, <1>1 DEF PairInv, Types, Directories, Switching, SwitchSteps, IsJournal, OwnJournal
  <2>2. journal.txn = txn /\ (MayLose => diskJournal.txn = txn)
    BY <2>1 DEF OwnJournal
  <2>3. OwnJournal' = OwnJournal
    BY <1>0 DEF OwnJournal
  <2> QED
    BY <1>0, <2>1, <2>2, <2>3 DEF Journals, IsJournal, Undoable, Dirs
<1> QED
  BY <1>0, <1>2, <1>3, <1>4
     DEF PairInv, Idle, Staging, CleaningUp, RollingBack, StagingSteps, RollbackSteps

\* The directories have reached the disk, one after the other.
LEMMA SyncSwitchedNext ==
    ASSUME PairInv, SyncProvider \/ SyncSource \/ SyncUnlink
    PROVE  PairInv'
<1> DEFINE d == IF pc = "sync_provider" THEN "provider" ELSE "private"
<1>0. /\ pc \in {"sync_provider", "sync_source", "sync_unlink"} /\ Flush(d) /\ d \in Dirs
      /\ pc' = CASE pc = "sync_provider" -> "sync_source"
                 [] pc = "sync_source" -> "unlink_journal"
                 [] pc = "sync_unlink" -> "cleanup"
      /\ UNCHANGED <<seen, journal, task, txn, had, before, faults, kills, losses>>
      /\ MayLose' = MayLose
  BY DEF SyncProvider, SyncSource, SyncUnlink, Flush, Goto, Untroubled, MayLose, Dirs
<1> HIDE DEF d
<1>1. /\ disk' \in [Dirs -> Directory] /\ disk'[d] = seen[d]
      /\ \A e \in Dirs \ {d} : disk'[e] = disk[e]
      /\ diskJournal' = IF d = "private" THEN journal ELSE diskJournal
  BY <1>0, FlushFacts DEF PairInv, Types, Directories
<1>2. Types'
  BY <1>0, <1>1 DEF PairInv, Types, Directories, StagingSteps, SwitchSteps, RollbackSteps
<1>3. Journals'
  BY <1>0, FlushJournals DEF PairInv
<1>4. Had' = Had /\ OwnJournal' = OwnJournal
  BY <1>0 DEF Had, OwnJournal
<1>5. Switching' /\ CleaningUp'
  BY <1>0, <1>1, <1>4 DEF d, PairInv, Switching, CleaningUp, SwitchSteps, Undoable, Switched, Dirs
<1> QED
  BY <1>0, <1>2, <1>3, <1>5
     DEF PairInv, Idle, Staging, RollingBack, StagingSteps, RollbackSteps

LEMMA UnlinkJournalNext == PairInv /\ UnlinkJournal => PairInv'
<1> SUFFICES ASSUME PairInv, UnlinkJournal PROVE PairInv'
  OBVIOUS
<1>0. /\ pc = "unlink_journal" /\ pc' = "sync_unlink" /\ journal' = NoJournal
      /\ UNCHANGED <<seen, disk, diskJournal, task, txn, had, before, faults, kills, losses>>
      /\ MayLose' = MayLose /\ Had' = Had /\ OwnJournal' = OwnJournal
  BY DEF UnlinkJournal, Goto, Untroubled, MayLose, Had, OwnJournal
<1>1. Types'
  BY <1>0 DEF PairInv, Types, Directories, StagingSteps, SwitchSteps, RollbackSteps
<1>2. Journals'
  BY <1>0 DEF PairInv, Journals, IsJournal, Undoable
<1>3. Switching'
  BY <1>0 DEF PairInv, Switching, SwitchSteps, Undoable, Switched
<1> QED
  BY <1>0, <1>1, <1>2, <1>3
     DEF PairInv, Idle, Staging, CleaningUp, RollingBack, StagingSteps, RollbackSteps

LEMMA CleanupNext == PairInv /\ Cleanup => PairInv'
<1> SUFFICES ASSUME PairInv, Cleanup PROVE PairInv'
  OBVIOUS
<1>0. /\ pc = "cleanup" /\ pc' = "idle" /\ task' = "none"
      /\ UNCHANGED <<disk, journal, diskJournal, txn, before, kills, losses>> /\ faults' \in Nat
      /\ MayLose' = MayLose /\ Had' = Had /\ txn \in Transactions
      /\ seen' \in {seen, WithoutBackups(seen, txn)}
  BY AirportAssumption
     DEF Cleanup, Return, Untroubled, Fault, Faulty, MayLose, Had, PairInv, Types, Directories, Transactions
<1>1. /\ seen' \in [Dirs -> Directory]
      /\ \A d \in Dirs : /\ seen'[d].final = seen[d].final
                         /\ \A u \in Transactions \ {txn} : seen'[d].backup[u] = seen[d].backup[u]
  BY <1>0, WithoutFacts DEF PairInv, Types, Directories
<1>2. Types'
  BY <1>0, <1>1 DEF PairInv, Types, Directories, StagingSteps, SwitchSteps, RollbackSteps
<1>3. journal = NoJournal /\ (MayLose => diskJournal = NoJournal)
  BY <1>0 DEF PairInv, CleaningUp
<1>4. Journals'
  BY <1>0, <1>3 DEF Journals, IsJournal
<1>5. Idle'
  BY <1>0, <1>1, <1>3 DEF PairInv, CleaningUp, Switched, Idle, Complete, Dirs
<1> QED
  BY <1>0, <1>2, <1>4, <1>5
     DEF PairInv, Staging, Switching, CleaningUp, RollingBack, StagingSteps, SwitchSteps, RollbackSteps

\* A rollback on the spot: without a journal nothing else goes wrong.
LEMMA SwitchFailsNext == EarlyFaults /\ PairInv /\ SwitchFails => PairInv'
<1> SUFFICES ASSUME EarlyFaults, PairInv, SwitchFails PROVE PairInv'
  OBVIOUS
<1>0. /\ pc \in SwitchSteps /\ pc' = "restore_provider" /\ task' = "abort"
      /\ UNCHANGED <<seen, disk, journal, diskJournal, txn, had, before>>
      /\ {faults', kills', losses'} \subseteq Nat
      /\ pc = "sync_unlink" => Quiet'
      /\ MayLose' => MayLose
      /\ Had' = Had /\ txn \in Nat /\ txn > 0 /\ Undone' = txn
  BY AirportAssumption DEF SwitchFails, EarlyFaults, OnlyTrouble, Fault, Faulty, Quiet, MayLose, dirVars, Had,
     PairInv, Types, Directories, Undone
<1>1. Types'
  BY <1>0 DEF PairInv, Types, Directories, StagingSteps, SwitchSteps, RollbackSteps
<1>2. Journals'
  BY <1>0 DEF PairInv, Journals, IsJournal, Undoable
<1>3. RollingBack'
  <2>1. \A d \in Dirs : Undoable(seen, txn, d)'
    BY <1>0 DEF PairInv, Switching, Undoable
  <2>2. \/ journal' # NoJournal /\ journal'.txn = txn
        \/ journal' = NoJournal /\ task' = "abort" /\ Quiet'
    BY <1>0 DEF PairInv, Switching, OwnJournal, NoJournal
  <2>3. MayLose' => diskJournal' # NoJournal
    BY <1>0 DEF PairInv, Switching, OwnJournal, NoJournal, Quiet, MayLose
  <2>4. had' = Had'
    BY <1>0 DEF PairInv, Switching
  <2> QED
    BY <1>0, <2>1, <2>2, <2>3, <2>4 DEF RollingBack, Undoable
<1> QED
  BY <1>0, <1>1, <1>2, <1>3
     DEF PairInv, Idle, Staging, Switching, CleaningUp, StagingSteps, SwitchSteps

-----------------------------------------------------------------------------
(* Rolling back *)

\* A rollback finds what it needs.
LEMMA RestoreIsPossible ==
    ASSUME PairInv, NEW d \in Dirs, pc \in {"restore_provider", "restore_source"}
    PROVE  RestorePossible(d)
  BY DEF PairInv, RollingBack, RollbackSteps, RestorePossible, Undoable, Had

LEMMA RestoreNext ==
    ASSUME PairInv, NEW d \in Dirs,
           \/ d = "provider" /\ Restore(d, "restore_provider", "restore_source")
           \/ d = "private" /\ Restore(d, "restore_source", "sync_restored_provider")
    PROVE  PairInv'
<1> DEFINE v == IF d \notin had THEN Absent
                ELSE IF seen[d].backup[Undone] # Absent THEN seen[d].backup[Undone] ELSE seen[d].final
<1>0. /\ pc = IF d = "provider" THEN "restore_provider" ELSE "restore_source"
      /\ pc' = IF d = "provider" THEN "restore_source" ELSE "sync_restored_provider"
      /\ UNCHANGED <<disk, journal, diskJournal, task, txn, had, before, faults, kills, losses>>
      /\ MayLose' = MayLose /\ Had' = Had /\ Undone' = Undone
  BY DEF Restore, Goto, Untroubled, MayLose, Had, Undone
<1>1. Undone \in Transactions /\ Undoable(seen, Undone, d) /\ had = Had
  BY <1>0, AirportAssumption
     DEF PairInv, Types, Directories, RollingBack, RollbackSteps, Undone, Journals, IsJournal, Transactions
<1>2. v = before[d]
  BY <1>0, <1>1 DEF Undoable, Had
<1>3. seen' = [seen EXCEPT ![d].final = before[d], ![d].backup[Undone] = Absent]
  <2>1. seen' = [seen EXCEPT ![d].final = v, ![d].backup[Undone] = Absent]
    <3>1. seen' = [seen EXCEPT
                  ![d].final = IF d \notin had THEN Absent
                               ELSE IF seen[d].backup[Undone] # Absent
                                    THEN seen[d].backup[Undone] ELSE @,
                  ![d].backup[Undone] = Absent]
      BY DEF Restore
    <3> QED
      BY <3>1
  <2> QED
    BY <1>2, <2>1
<1>4. /\ seen' \in [Dirs -> Directory] /\ seen'[d].final = before[d] /\ seen'[d].backup[Undone] = Absent
      /\ \A u \in Transactions \ {Undone} : seen'[d].backup[u] = seen[d].backup[u]
      /\ \A e \in Dirs \ {d} : seen'[e] = seen[e]
  <2>1. before[d] \in Value
    BY DEF PairInv, Types, Directories
  <2>2. Directories
    BY DEF PairInv, Types
  <2>3. seen' = GivenBack(d, Undone, before[d])
    BY <1>3 DEF GivenBack
  <2> QED
    BY <1>1, <2>1, <2>2, <2>3, RestoreFacts
<1> HIDE DEF v
<1>5. \A t \in Transactions, e \in Dirs : Undoable(seen, t, e) => Undoable(seen', t, e)
  BY <1>1, <1>4 DEF Undoable
<1>6. Types'
  BY <1>0, <1>4 DEF PairInv, Types, Directories, StagingSteps, SwitchSteps, RollbackSteps
<1>7. Journals'
  <2>1. "provider" \in Dirs
    BY DEF Dirs
  <2>2. \A j : IsJournal(j) /\ j # NoJournal => j.txn \in Transactions
    BY AirportAssumption DEF IsJournal, PairInv, Types, Directories, Transactions
  <2> QED
    BY <1>0, <1>5, <2>1, <2>2 DEF PairInv, Journals, IsJournal, Undoable
<1>8. RollingBack'
  <2>1. Unswitched => Unswitched'
    BY <1>0, <1>4 DEF Unswitched
  <2>2. \A e \in Dirs : Undoable(seen, Undone, e)'
    BY <1>0, <1>1, <1>5 DEF PairInv, RollingBack, RollbackSteps, Undoable
  <2> QED
    BY <1>0, <1>4, <2>1, <2>2 DEF PairInv, RollingBack, RollbackSteps, Quiet, Dirs
<1> QED
  BY <1>0, <1>6, <1>7, <1>8
     DEF PairInv, Idle, Staging, Switching, CleaningUp, StagingSteps, SwitchSteps

LEMMA SyncRestoredNext == PairInv /\ (SyncRestoredProvider \/ SyncRestoredSource) => PairInv'
<1> SUFFICES ASSUME PairInv, SyncRestoredProvider \/ SyncRestoredSource PROVE PairInv'
  OBVIOUS
<1> DEFINE d == IF pc = "sync_restored_provider" THEN "provider" ELSE "private"
<1>0. /\ pc \in {"sync_restored_provider", "sync_restored_source"} /\ Flush(d) /\ d \in Dirs
      /\ pc' = IF pc = "sync_restored_provider" THEN "sync_restored_source" ELSE "remove_backups"
      /\ UNCHANGED <<seen, journal, task, txn, had, before, faults, kills, losses>>
      /\ MayLose' = MayLose /\ Had' = Had /\ Undone' = Undone
  BY DEF SyncRestoredProvider, SyncRestoredSource, Flush, Goto, Untroubled, MayLose, Dirs, Had, Undone
<1> HIDE DEF d
<1>1. /\ disk' \in [Dirs -> Directory] /\ disk'[d] = seen[d]
      /\ \A e \in Dirs \ {d} : disk'[e] = disk[e]
      /\ diskJournal' = IF d = "private" THEN journal ELSE diskJournal
  BY <1>0, FlushFacts DEF PairInv, Types, Directories
<1>2. Types'
  BY <1>0, <1>1 DEF PairInv, Types, Directories, StagingSteps, SwitchSteps, RollbackSteps
<1>3. Journals'
  BY <1>0, FlushJournals DEF PairInv
<1>4. RollingBack'
  BY <1>0, <1>1 DEF d, PairInv, RollingBack, RollbackSteps, Undoable, Quiet, MayLose, Unswitched, Dirs
<1> QED
  BY <1>0, <1>2, <1>3, <1>4
     DEF PairInv, Idle, Staging, Switching, CleaningUp, StagingSteps, SwitchSteps

LEMMA RemoveBackupsNext == PairInv /\ RemoveBackups => PairInv'
<1> SUFFICES ASSUME PairInv, RemoveBackups PROVE PairInv'
  OBVIOUS
<1>0. /\ pc = "remove_backups" /\ pc' = "unlink_restored" /\ seen' = WithoutBackups(seen, Undone)
      /\ UNCHANGED <<disk, journal, diskJournal, task, txn, had, before, faults, kills, losses>>
      /\ MayLose' = MayLose /\ Had' = Had /\ Undone' = Undone
  BY DEF RemoveBackups, Goto, Untroubled, MayLose, Had, Undone
<1>1. Undone \in Transactions /\ \A d \in Dirs : seen[d].final = before[d]
  BY <1>0, AirportAssumption
     DEF PairInv, Types, Directories, RollingBack, RollbackSteps, Undone, Journals, IsJournal, Transactions, Dirs
<1>2. /\ seen' \in [Dirs -> Directory]
      /\ \A d \in Dirs : /\ seen'[d].final = seen[d].final /\ seen'[d].backup[Undone] = Absent
                         /\ \A u \in Transactions \ {Undone} : seen'[d].backup[u] = seen[d].backup[u]
  BY <1>0, <1>1, WithoutFacts DEF PairInv, Types, Directories
<1>3. \A t \in Transactions, e \in Dirs : Undoable(seen, t, e) => Undoable(seen', t, e)
  BY <1>1, <1>2 DEF Undoable
<1>4. Types'
  BY <1>0, <1>2 DEF PairInv, Types, Directories, StagingSteps, SwitchSteps, RollbackSteps
<1>5. Journals'
  <2>1. "provider" \in Dirs
    BY DEF Dirs
  <2>2. \A j : IsJournal(j) /\ j # NoJournal => j.txn \in Transactions
    BY AirportAssumption DEF IsJournal, PairInv, Types, Directories, Transactions
  <2> QED
    BY <1>0, <1>3, <2>1, <2>2 DEF PairInv, Journals, IsJournal, Undoable
<1>6. RollingBack'
  <2>1. Unswitched => Unswitched'
    BY <1>0, <1>2 DEF Unswitched
  <2>2. \A e \in Dirs : Undoable(seen, Undone, e)'
    BY <1>0, <1>1, <1>3 DEF PairInv, RollingBack, RollbackSteps, Undoable
  <2> QED
    BY <1>0, <1>2, <2>1, <2>2 DEF PairInv, RollingBack, RollbackSteps, Quiet, Dirs
<1> QED
  BY <1>0, <1>4, <1>5, <1>6
     DEF PairInv, Idle, Staging, Switching, CleaningUp, StagingSteps, SwitchSteps

LEMMA UnlinkRestoredNext == PairInv /\ UnlinkRestored => PairInv'
<1> SUFFICES ASSUME PairInv, UnlinkRestored PROVE PairInv'
  OBVIOUS
<1>0. /\ pc = "unlink_restored" /\ pc' = "sync_restored" /\ journal' = NoJournal
      /\ UNCHANGED <<seen, disk, diskJournal, task, txn, had, before, faults, kills, losses>>
      /\ MayLose' = MayLose /\ Had' = Had
  BY DEF UnlinkRestored, Goto, Untroubled, MayLose, Had
<1>1. Types'
  BY <1>0 DEF PairInv, Types, Directories, StagingSteps, SwitchSteps, RollbackSteps
<1>2. Journals'
  BY <1>0 DEF PairInv, Journals, IsJournal, Undoable
<1>3. RollingBack'
  BY <1>0 DEF PairInv, RollingBack, RollbackSteps
<1> QED
  BY <1>0, <1>1, <1>2, <1>3
     DEF PairInv, Idle, Staging, Switching, CleaningUp, StagingSteps, SwitchSteps

\* The rollback is over: its caller returns, or begins its own transaction.
LEMMA EndOfRollbackNext == PairInv /\ SyncRestored => PairInv'
<1> SUFFICES ASSUME PairInv, SyncRestored PROVE PairInv'
  OBVIOUS
<1>0. /\ pc = "sync_restored" /\ Flush("private")
      /\ UNCHANGED <<seen, journal, faults, kills, losses>>
      /\ MayLose' = MayLose /\ journal = NoJournal
      /\ \A d \in Dirs : seen[d].final = before[d] /\ (MayLose => disk[d].final = before[d])
  BY DEF SyncRestored, Flush, Untroubled, MayLose, PairInv, RollingBack, RollbackSteps, Dirs
<1>1. /\ disk' \in [Dirs -> Directory] /\ disk'["private"] = seen["private"]
      /\ disk'["provider"] = disk["provider"] /\ diskJournal' = NoJournal
  BY <1>0, FlushFacts DEF PairInv, Types, Directories, Dirs
<1>2. Complete([d \in Dirs |-> seen[d].final])
  <2>1. [d \in Dirs |-> seen[d].final] = before
    BY <1>0 DEF PairInv, Types, Directories
  <2> QED
    BY <2>1 DEF PairInv, Types, Directories
<1>3. \A d \in Dirs, t \in Transactions : t > txn =>
         seen'[d].backup[t] = Absent /\ disk'[d].backup[t] = Absent
  BY <1>0, <1>1 DEF PairInv, Types, Directories, Dirs
<1>4. MayLose => \A d \in Dirs : disk'[d].final = seen'[d].final
  BY <1>0, <1>1 DEF Dirs
<1>5. CASE task = "replace"
  <2>1. Stage /\ txn < MaxTransactions /\ seen' \in [Dirs -> Directory] /\ journal' = NoJournal
    BY <1>0, <1>5 DEF SyncRestored, PairInv, Types, Directories
  <2>2. Complete([d \in Dirs |-> seen'[d].final])
    BY <1>0, <1>2
  <2> QED
    BY <1>0, <1>1, <1>3, <1>4, <2>1, <2>2, StageNext
<1>6. CASE task # "replace"
  <2>1. pc' = "idle" /\ task' = "none" /\ UNCHANGED <<txn, before>>
    BY <1>6 DEF SyncRestored, Return
  <2>2. Types'
    BY <1>0, <1>1, <2>1 DEF PairInv, Types, Directories, StagingSteps, SwitchSteps, RollbackSteps, Dirs
  <2>3. Journals'
    BY <1>0, <1>1, <2>1 DEF Journals, IsJournal
  <2>4. Idle'
    BY <1>0, <1>1, <1>2, <1>4, <2>1 DEF Idle
  <2> QED
    BY <2>1, <2>2, <2>3, <2>4
       DEF PairInv, Staging, Switching, CleaningUp, RollingBack, StagingSteps, SwitchSteps, RollbackSteps
<1> QED
  BY <1>5, <1>6

LEMMA RollbackEndsNext == PairInv /\ (RollbackRefused \/ RollbackFails) => PairInv'
<1> SUFFICES ASSUME PairInv, RollbackRefused \/ RollbackFails PROVE PairInv'
  OBVIOUS
<1>0. /\ pc \in RollbackSteps /\ pc' = "idle" /\ task' = "none"
      /\ UNCHANGED <<seen, disk, journal, diskJournal, txn, before, kills, losses>> /\ faults' \in Nat
      /\ MayLose' = MayLose
  BY DEF RollbackRefused, RollbackFails, RollbackRaises, Return, Untroubled, Fault, Faulty, MayLose, dirVars,
         RollbackSteps, PairInv, Types, Directories
<1>1. Types'
  BY <1>0 DEF PairInv, Types, Directories, StagingSteps, SwitchSteps, RollbackSteps
<1>2. Journals'
  BY <1>0 DEF PairInv, Journals, IsJournal, Undoable, Had
<1>3. \/ journal # NoJournal
      \/ pc = "unlink_restored" /\ ~MayLose
      \/ pc = "sync_restored"
  <2>1. CASE RollbackRefused
    <3>1. pc = "unlink_restored" /\ journal = NoJournal
      BY <2>1, RestoreIsPossible DEF RollbackRefused, Dirs
    <3>2. Quiet
      BY <3>1 DEF PairInv, RollingBack, RollbackSteps
    <3> QED
      BY <3>1, <3>2, AirportAssumption DEF Quiet, MayLose, PairInv, Types, Directories
  <2>2. CASE RollbackFails
    BY <2>2 DEF RollbackFails, Fault, Faulty, PairInv, RollingBack, Quiet, Types, Directories
  <2> QED
    BY <2>1, <2>2
<1>4. Idle'
  <2>1. CASE journal # NoJournal
    BY <1>0, <2>1 DEF PairInv, RollingBack, Idle, Unswitched
  <2>2. CASE journal = NoJournal
    <3>1. Unswitched
      BY <1>3, <2>2 DEF PairInv, RollingBack, RollbackSteps, Unswitched, Dirs
    <3>2. [d \in Dirs |-> seen[d].final] = before
      BY <3>1 DEF Unswitched, PairInv, Types, Directories
    <3> QED
      BY <1>0, <2>2, <3>1, <3>2 DEF PairInv, Types, Directories, Idle, Unswitched
  <2> QED
    BY <2>1, <2>2
<1> QED
  BY <1>0, <1>1, <1>2, <1>4
     DEF PairInv, Staging, Switching, CleaningUp, RollingBack, StagingSteps, SwitchSteps, RollbackSteps

-----------------------------------------------------------------------------
(* Crashes *)

LEMMA KillNext == OneKindOfCrash /\ PairInv /\ Kill => PairInv'
<1> SUFFICES ASSUME OneKindOfCrash, PairInv, Kill PROVE PairInv'
  OBVIOUS
<1>0. /\ pc # "idle" /\ pc' = "idle" /\ task' = "none" /\ kills < MaxKills /\ kills' \in Nat /\ ~MayLose'
      /\ UNCHANGED <<seen, disk, journal, diskJournal, txn, before, faults, losses>> /\ Had' = Had
  BY AirportAssumption DEF Kill, Lost, dirVars, MayLose, Had, PairInv, Types, Directories
<1>1. Types'
  BY <1>0 DEF PairInv, Types, Directories, StagingSteps, SwitchSteps, RollbackSteps
<1>2. Journals'
  BY <1>0 DEF PairInv, Journals, IsJournal, Undoable
<1>3. journal = NoJournal => Complete([d \in Dirs |-> seen[d].final])
  <2> SUFFICES ASSUME journal = NoJournal PROVE Complete([d \in Dirs |-> seen[d].final])
    OBVIOUS
  <2>1. ~Quiet
    BY <1>0, AirportAssumption DEF Quiet, PairInv, Types, Directories
  <2>2. \/ \A d \in Dirs : seen[d].final = before[d]
        \/ \A d \in Dirs : seen[d].final = txn
    <3>1. CASE pc \in StagingSteps
      BY <3>1 DEF PairInv, Staging, Unswitched
    <3>2. CASE pc \in SwitchSteps
      BY <3>2 DEF PairInv, Switching, Switched, OwnJournal, NoJournal, Types, Directories, Dirs
    <3>3. CASE pc = "cleanup"
      BY <3>3 DEF PairInv, CleaningUp, Switched
    <3>4. CASE pc \in RollbackSteps
      BY <2>1, <3>4 DEF PairInv, RollingBack, Dirs
    <3> QED
      BY <1>0, <3>1, <3>2, <3>3, <3>4 DEF PairInv, Types, Directories
  <2>3. CASE \A d \in Dirs : seen[d].final = before[d]
    <3>1. [d \in Dirs |-> seen[d].final] = before
      BY <2>3 DEF PairInv, Types, Directories
    <3> QED
      BY <3>1 DEF PairInv, Types, Directories
  <2>4. CASE \A d \in Dirs : seen[d].final = txn
    BY <2>4 DEF Complete, Dirs
  <2> QED
    BY <2>2, <2>3, <2>4
<1>4. Idle'
  BY <1>0, <1>3 DEF Idle
<1> QED
  BY <1>0, <1>1, <1>2, <1>4
     DEF PairInv, Staging, Switching, CleaningUp, RollingBack, StagingSteps, SwitchSteps, RollbackSteps

LEMMA WritebackNext == PairInv /\ Writeback => PairInv'
<1> SUFFICES ASSUME PairInv, NEW d \in Dirs, Flush(d),
                    UNCHANGED <<pc, task, txn, had, before, outcome, faults, kills, losses>>
             PROVE  PairInv'
  BY DEF Writeback
<1>0. UNCHANGED <<seen, journal>> /\ MayLose' = MayLose /\ Had' = Had /\ OwnJournal' = OwnJournal
      /\ Undone' = Undone /\ Quiet' = Quiet
  BY DEF Flush, MayLose, Had, OwnJournal, Undone, Quiet
<1>1. /\ disk' \in [Dirs -> Directory] /\ disk'[d] = seen[d]
      /\ \A e \in Dirs \ {d} : disk'[e] = disk[e]
      /\ diskJournal' = IF d = "private" THEN journal ELSE diskJournal
  BY FlushFacts DEF PairInv, Types, Directories
<1>2. Types'
  BY <1>1, <1>0 DEF PairInv, Types, Directories
<1>3. Journals'
  BY <1>0, FlushJournals DEF PairInv
<1>4. Unswitched => Unswitched'
  BY <1>0, <1>1 DEF Unswitched
<1>5. Idle'
  BY <1>0, <1>1, <1>4 DEF PairInv, Idle, Unswitched, Dirs
<1>6. Staging'
  BY <1>0, <1>1, <1>4 DEF PairInv, Staging, Undoable, Dirs
<1>7. Switching'
  BY <1>0, <1>1 DEF PairInv, Switching, SwitchSteps, Undoable, Switched, Dirs
<1>8. CleaningUp'
  BY <1>0, <1>1 DEF PairInv, CleaningUp, Switched, Dirs
<1>9. RollingBack'
  <2>1. Quiet => ~MayLose
    BY AirportAssumption DEF Quiet, MayLose, PairInv, Types, Directories
  <2>2. MayLose /\ diskJournal' = NoJournal /\ pc \in RollbackSteps /\ pc # "sync_restored" => Unswitched'
    BY <1>0, <1>1, <1>4, <2>1 DEF PairInv, RollingBack
  <2>3. pc \in RollbackSteps /\ pc # "sync_restored" => \A e \in Dirs : Undoable(seen, Undone, e)'
    BY <1>0 DEF PairInv, RollingBack, Undoable
  <2> QED
    BY <1>0, <1>1, <2>2, <2>3 DEF PairInv, RollingBack, RollbackSteps, Dirs
<1> QED
  BY <1>2, <1>3, <1>5, <1>6, <1>7, <1>8, <1>9 DEF PairInv

LEMMA PowerLossNext == OneKindOfCrash /\ PairInv /\ PowerLoss => PairInv'
<1> SUFFICES ASSUME OneKindOfCrash, PairInv, PowerLoss PROVE PairInv'
  OBVIOUS
<1>0. /\ pc' = "idle" /\ task' = "none" /\ seen' = disk /\ journal' = diskJournal
      /\ UNCHANGED <<disk, diskJournal, txn, before, faults, kills>> /\ losses' \in Nat
      /\ MayLose /\ Had' = Had
  BY AirportAssumption DEF PowerLoss, OneKindOfCrash, Lost, MayLose, Had, PairInv, Types, Directories
<1>1. Types'
  BY <1>0 DEF PairInv, Types, Directories, StagingSteps, SwitchSteps, RollbackSteps
<1>2. Journals'
  BY <1>0 DEF PairInv, Journals, IsJournal, Undoable, Dirs
<1>3. diskJournal = NoJournal => Complete([d \in Dirs |-> disk[d].final])
  <2> SUFFICES ASSUME diskJournal = NoJournal PROVE Complete([d \in Dirs |-> disk[d].final])
    OBVIOUS
  <2>1. \/ \A d \in Dirs : disk[d].final = before[d]
        \/ \A d \in Dirs : disk[d].final = txn
        \/ pc = "idle" /\ journal = NoJournal /\ \A d \in Dirs : disk[d].final = seen[d].final
    <3>1. CASE pc \in StagingSteps
      BY <1>0, <3>1 DEF PairInv, Staging, Unswitched
    <3>2. CASE pc \in SwitchSteps
      BY <1>0, <3>2 DEF PairInv, Switching, Switched, OwnJournal, NoJournal, Types, Directories, Dirs
    <3>3. CASE pc = "cleanup"
      BY <1>0, <3>3 DEF PairInv, CleaningUp, Switched
    <3>4. CASE pc \in RollbackSteps
      BY <1>0, <3>4 DEF PairInv, RollingBack, Unswitched, Dirs
    <3>5. CASE pc = "idle"
      BY <1>0, <3>5 DEF PairInv, Idle, Unswitched
    <3> QED
      BY <3>1, <3>2, <3>3, <3>4, <3>5 DEF PairInv, Types, Directories
  <2>2. CASE \A d \in Dirs : disk[d].final = before[d]
    <3>1. [d \in Dirs |-> disk[d].final] = before
      BY <2>2 DEF PairInv, Types, Directories
    <3> QED
      BY <3>1 DEF PairInv, Types, Directories
  <2>3. CASE \A d \in Dirs : disk[d].final = txn
    BY <2>3 DEF Complete, Dirs
  <2>4. CASE pc = "idle" /\ journal = NoJournal /\ \A d \in Dirs : disk[d].final = seen[d].final
    BY <2>4 DEF PairInv, Idle
  <2> QED
    BY <2>1, <2>2, <2>3, <2>4
<1>4. Idle'
  BY <1>0, <1>3 DEF Idle
<1> QED
  BY <1>0, <1>1, <1>2, <1>4
     DEF PairInv, Staging, Switching, CleaningUp, RollingBack, StagingSteps, SwitchSteps, RollbackSteps

-----------------------------------------------------------------------------
(* The theorems *)

LEMMA PairNext == OneKindOfCrash /\ EarlyFaults /\ PairInv /\ [Next]_vars => PairInv'
<1> SUFFICES ASSUME OneKindOfCrash, EarlyFaults, PairInv, [Next]_vars PROVE PairInv'
  OBVIOUS
<1>1. CASE Replace \/ Read
  BY <1>1, RecoverNext DEF Replace, Read
<1>2. CASE ReplaceStep
  BY <1>2, StagingNext, SwitchNext, SyncSwitchedNext, UnlinkJournalNext, CleanupNext, SwitchFailsNext
     DEF ReplaceStep, SwitchProvider, SwitchSource, Dirs
<1>3. CASE RollbackStep
  BY <1>3, RestoreNext, SyncRestoredNext, RemoveBackupsNext, UnlinkRestoredNext, EndOfRollbackNext, RollbackEndsNext
     DEF RollbackStep, RestoreProvider, RestoreSource, Dirs
<1>4. CASE Kill \/ Writeback \/ PowerLoss
  BY <1>4, KillNext, WritebackNext, PowerLossNext
<1>5. CASE UNCHANGED vars
  <2>1. /\ UNCHANGED <<seen, disk, journal, diskJournal, pc, task, txn, had, before, faults, kills, losses>>
        /\ MayLose' = MayLose /\ Had' = Had /\ OwnJournal' = OwnJournal /\ Undone' = Undone /\ Quiet' = Quiet
    BY <1>5 DEF vars, dirVars, MayLose, Had, OwnJournal, Undone, Quiet
  <2>2. Types' /\ Idle' /\ CleaningUp'
    BY <2>1 DEF PairInv, Types, Directories, Idle, Unswitched, CleaningUp, Switched
  <2>3. Journals'
    BY <2>1 DEF PairInv, Journals, IsJournal, Undoable
  <2>4. Staging'
    BY <2>1 DEF PairInv, Staging, Unswitched, Undoable
  <2>5. Switching'
    BY <2>1 DEF PairInv, Switching, Switched, Undoable
  <2>6. RollingBack'
    BY <2>1 DEF PairInv, RollingBack, Unswitched, Undoable
  <2> QED
    BY <2>2, <2>3, <2>4, <2>5, <2>6 DEF PairInv
<1> QED
  BY <1>1, <1>2, <1>3, <1>4, <1>5 DEF Next

\* The provider document and its source record are never left half switched,
\* whichever calls of replace, _abort and _roll_back fail, and whether their
\* processes are killed or the machine loses its power: NeverHalfSwitched.
THEOREM PairIsNeverHalfSwitched == ASSUME OneKindOfCrash, EarlyFaults PROVE Spec => []NeverHalfSwitched
<1>1. PairInv => NeverHalfSwitched
  <2> SUFFICES ASSUME PairInv, pc = "idle" PROVE Complete(Recovered(seen, journal))
    BY DEF NeverHalfSwitched
  <2>1. CASE journal = NoJournal
    BY <2>1 DEF PairInv, Idle, Recovered
  <2>2. CASE journal # NoJournal
    <3>1. ASSUME NEW d \in Dirs PROVE Recovered(seen, journal)[d] = before[d]
      BY <2>2 DEF PairInv, Journals, IsJournal, Undoable, Had, Recovered
    <3>2. Recovered(seen, journal) = before
      BY <3>1 DEF Recovered, PairInv, Types, Directories
    <3> QED
      BY <3>2 DEF PairInv, Types, Directories
  <2> QED
    BY <2>1, <2>2
<1> QED
  BY PairInit, PairNext, <1>1, PTL DEF Spec

-----------------------------------------------------------------------------
(* What a rollback needs *)

\* A file that a rollback may have to put back is there.
There(d) == seen[d].final # Absent /\ disk[d].final # Absent

\* The first file of its name is on the disk when a power loss may not take it.
Settled(d) == seen[d].final # Absent => disk[d].final # Absent

Named == journal.had \cup diskJournal.had

TargetTypes ==
    /\ Directories
    /\ txn \in 0..MaxTransactions
    /\ {journal, diskJournal} \subseteq {NoJournal} \cup [txn : Transactions, had : SUBSET Dirs]
    /\ had \subseteq Dirs
    /\ task = "replace" => txn < MaxTransactions
    /\ pc \in {"cleanup"} \cup StagingSteps \cup SwitchSteps \/ task = "abort" => txn > 0
    /\ pc \in RollbackSteps \ {"sync_restored"} /\ task # "abort" => journal # NoJournal

\* Whatever journal is found, the files it names are there; the names an
\* operation has are at least those of the journals.
Targets ==
    /\ \A d \in Named : There(d)
    /\ journal # NoJournal => diskJournal.had \subseteq journal.had
    /\ pc \in StagingSteps \cup SwitchSteps \cup RollbackSteps => \A d \in had : There(d)
    /\ pc \in SwitchSteps \cup RollbackSteps \cup {"write_journal", "sync_journal"} => Named \subseteq had
    /\ pc = "backup_source" /\ "provider" \in Named => "provider" \in had

\* A switch is durable before its journal goes, and a restore too.
Durability ==
    /\ pc \in StagingSteps \ {"sync_journal"} => journal = NoJournal
    /\ pc \in ({"sync_journal"} \cup SwitchSteps) \ {"sync_unlink"} => journal # NoJournal
    /\ journal = NoJournal \/ pc \in {"sync_journal", "switch_provider"} => \A d \in Dirs : Settled(d)
    /\ pc \in {"sync_source", "unlink_journal", "sync_restored_source", "remove_backups", "unlink_restored"} =>
         Settled("provider")
    /\ pc = "sync_restored" => journal = NoJournal
    /\ pc \in {"unlink_journal", "remove_backups", "unlink_restored"} => Settled("private")

TargetsInv == TargetTypes /\ Targets /\ Durability

LEMMA TargetsInit == Init => TargetsInv
<1> SUFFICES ASSUME Init PROVE TargetsInv
  OBVIOUS
<1>1. /\ before \in [Dirs -> Value]
      /\ seen = [d \in Dirs |-> [final |-> before[d], backup |-> [t \in Transactions |-> Absent]]]
      /\ disk = seen /\ journal = NoJournal /\ diskJournal = NoJournal
      /\ pc = "idle" /\ task = "none" /\ txn = 0 /\ had = {}
  BY PairInit DEF Init, PairInv, Types
<1>2. Directories
  BY <1>1, AbsentIsAValue DEF Directories, Directory
<1> QED
  BY <1>1, <1>2, AirportAssumption
     DEF TargetsInv, TargetTypes, Targets, Durability, Named, Settled, NoJournal,
         StagingSteps, SwitchSteps, RollbackSteps

\* Steps that leave every file in place keep the files there.
LEMMA TargetsOfStage ==
    ASSUME TargetsInv, Stage, txn < MaxTransactions,
           seen' \in [Dirs -> Directory], disk' \in [Dirs -> Directory],
           journal' = NoJournal, diskJournal' \in {journal, diskJournal},
           \A d \in Dirs : /\ seen'[d].final = seen[d].final
                           /\ disk'[d].final \in {seen[d].final, disk[d].final},
           \A d \in Dirs : Settled(d)'
    PROVE  TargetsInv'
<1>0. /\ pc' = "backup_provider" /\ task' = "none" /\ had' = {} /\ txn' = txn + 1
      /\ txn' \in 0..MaxTransactions /\ txn' > 0
  BY AirportAssumption DEF Stage, TargetsInv, TargetTypes
<1>1. TargetTypes'
  BY <1>0 DEF TargetsInv, TargetTypes, Directories, RollbackSteps
<1>2. Targets'
  BY <1>0 DEF TargetsInv, TargetTypes, Targets, Named, NoJournal, There, SwitchSteps, RollbackSteps
<1>3. Durability'
  BY <1>0 DEF Durability, SwitchSteps
<1> QED
  BY <1>1, <1>2, <1>3 DEF TargetsInv

LEMMA TargetsOfRecover ==
    ASSUME TargetsInv, NEW why \in {"replace", "read"}, Recover(why),
           why = "replace" => txn < MaxTransactions
    PROVE  TargetsInv'
<1>0. pc = "idle"
  BY DEF Recover
<1>1. CASE journal = NoJournal
  <2>1. /\ seen' = NoBackups(seen) /\ UNCHANGED <<disk, journal, diskJournal>>
        /\ IF why = "replace" THEN Stage ELSE Return(outcome)
    BY <1>1 DEF Recover
  <2>2. seen' \in [Dirs -> Directory] /\ \A d \in Dirs : seen'[d].final = seen[d].final
    BY <2>1, NoBackupsFacts DEF TargetsInv, TargetTypes
  <2>3. disk' \in [Dirs -> Directory] /\ \A d \in Dirs : Settled(d)'
    BY <1>1, <2>1, <2>2 DEF TargetsInv, TargetTypes, Directories, Durability, Settled
  <2>4. CASE why = "replace"
    BY <1>1, <2>1, <2>2, <2>3, <2>4, TargetsOfStage
  <2>5. CASE why = "read"
    <3>1. pc' = "idle" /\ task' = "none" /\ had' = {} /\ txn' = txn
      BY <2>1, <2>5 DEF Return
    <3>2. TargetTypes'
      BY <2>1, <2>2, <2>3, <3>1 DEF TargetsInv, TargetTypes, Directories, StagingSteps, SwitchSteps, RollbackSteps
    <3>3. Targets'
      BY <1>0, <2>1, <2>2, <3>1 DEF TargetsInv, TargetTypes, Targets, Named, NoJournal, There, StagingSteps, SwitchSteps, RollbackSteps
    <3>4. Durability'
      BY <2>3, <3>1 DEF Durability, StagingSteps, SwitchSteps
    <3> QED
      BY <3>2, <3>3, <3>4 DEF TargetsInv
  <2> QED
    BY <2>4, <2>5
<1>2. CASE journal # NoJournal
  <2>1. /\ pc' = "restore_provider" /\ task' = why /\ had' = journal.had
        /\ UNCHANGED <<seen, disk, journal, diskJournal, txn>>
    BY <1>2 DEF Recover, dirVars
  <2>2. TargetTypes'
    BY <1>2, <2>1 DEF TargetsInv, TargetTypes, Directories, NoJournal, StagingSteps, SwitchSteps, RollbackSteps
  <2>3. Targets'
    BY <1>2, <2>1 DEF TargetsInv, Targets, Named, There, StagingSteps, SwitchSteps, RollbackSteps
  <2>4. Durability'
    BY <1>2, <2>1 DEF TargetsInv, Durability, Settled, StagingSteps, SwitchSteps
  <2> QED
    BY <2>2, <2>3, <2>4 DEF TargetsInv
<1> QED
  BY <1>1, <1>2

\* The operation ends, or dies; the files are as they were.
LEMMA TargetsOfReturn ==
    ASSUME TargetsInv, pc' = "idle", task' = "none", had' = {}, txn' = txn,
           seen' \in [Dirs -> Directory], disk' = disk, diskJournal' = diskJournal,
           \A d \in Dirs : seen'[d].final = seen[d].final,
           journal' \in {journal, NoJournal},
           journal' = NoJournal => \A d \in Dirs : Settled(d)
    PROVE  TargetsInv'
<1>1. TargetTypes'
  BY DEF TargetsInv, TargetTypes, Directories, StagingSteps, SwitchSteps, RollbackSteps
<1>2. Targets'
  BY DEF TargetsInv, TargetTypes, Targets, Named, NoJournal, There, StagingSteps, SwitchSteps, RollbackSteps
<1>3. Durability'
  BY DEF TargetsInv, Durability, Settled, StagingSteps, SwitchSteps
<1> QED
  BY <1>1, <1>2, <1>3 DEF TargetsInv

LEMMA TargetsOfBackup ==
    ASSUME TargetsInv, NEW d \in Dirs, NEW here, NEW next, Backup(d, here, next),
           \/ d = "provider" /\ here = "backup_provider" /\ next = "backup_source"
           \/ d = "private" /\ here = "backup_source" /\ next = "write_journal"
    PROVE  TargetsInv'
<1>0. /\ pc = here /\ pc' = next /\ UNCHANGED <<disk, journal, diskJournal, task, txn>>
      /\ journal = NoJournal /\ txn \in Transactions /\ Settled(d)
  BY AirportAssumption DEF Backup, TargetsInv, TargetTypes, Durability, StagingSteps, Transactions
<1>1. /\ seen' \in [Dirs -> Directory] /\ \A e \in Dirs : seen'[e].final = seen[e].final
      /\ had' = IF seen[d].final # Absent THEN had \cup {d} ELSE had
  <2>1. CASE seen[d].final # Absent
    <3>1. seen' = [seen EXCEPT ![d].backup[txn] = seen[d].final] /\ had' = had \cup {d}
      BY <2>1 DEF Backup
    <3> QED
      BY <1>0, <2>1, <3>1, BackupFacts DEF TargetsInv, TargetTypes
  <2>2. CASE seen[d].final = Absent
    BY <2>2 DEF Backup, TargetsInv, TargetTypes, Directories
  <2> QED
    BY <2>1, <2>2
<1>2. TargetTypes'
  BY <1>0, <1>1 DEF TargetsInv, TargetTypes, Directories, StagingSteps, SwitchSteps, RollbackSteps
<1>3. Targets'
  <2>1. \A e \in Named' : e \in Named /\ There(e)'
    BY <1>0, <1>1 DEF TargetsInv, TargetTypes, Targets, Named, There, NoJournal
  <2>2. \A e \in had' : There(e)'
    BY <1>0, <1>1 DEF TargetsInv, TargetTypes, Targets, There, Settled, StagingSteps
  <2>3. d \in Named => d \in had'
    BY <1>1 DEF TargetsInv, Targets, There
  <2> QED
    BY <1>0, <1>1, <2>1, <2>2, <2>3
       DEF TargetsInv, TargetTypes, Targets, Named, NoJournal, Dirs, SwitchSteps, RollbackSteps
<1>4. Durability'
  BY <1>0, <1>1 DEF TargetsInv, Durability, Settled, StagingSteps, SwitchSteps
<1> QED
  BY <1>2, <1>3, <1>4 DEF TargetsInv

LEMMA TargetsOfStaging ==
    TargetsInv /\ (WriteJournal \/ SyncJournal \/ StagingFails \/ JournalStays) => TargetsInv'
<1> SUFFICES ASSUME TargetsInv PROVE WriteJournal \/ SyncJournal \/ StagingFails \/ JournalStays => TargetsInv'
  OBVIOUS
<1>1. CASE WriteJournal
  <2>0. /\ pc = "write_journal" /\ pc' = "sync_journal" /\ journal' = [txn |-> txn, had |-> had]
        /\ journal = NoJournal
        /\ UNCHANGED <<seen, disk, diskJournal, task, txn, had>>
    BY <1>1 DEF WriteJournal, Goto, TargetsInv, Durability, StagingSteps
  <2>1. TargetTypes'
    BY <2>0, AirportAssumption
       DEF TargetsInv, TargetTypes, Directories, StagingSteps, SwitchSteps, RollbackSteps, Transactions
  <2>2. Targets'
    BY <2>0 DEF TargetsInv, Targets, Named, There, StagingSteps, SwitchSteps, RollbackSteps
  <2>3. Durability'
    <3>1. journal' # NoJournal
      BY <2>0, AirportAssumption DEF TargetsInv, TargetTypes, NoJournal, StagingSteps
    <3> QED
      BY <2>0, <3>1 DEF TargetsInv, Durability, Settled, StagingSteps, SwitchSteps
  <2> QED
    BY <2>1, <2>2, <2>3 DEF TargetsInv
<1>2. CASE SyncJournal
  <2>0. /\ pc = "sync_journal" /\ pc' = "switch_provider" /\ Flush("private") /\ "private" \in Dirs
        /\ UNCHANGED <<task, txn, had>>
    BY <1>2 DEF SyncJournal, Goto, Dirs
  <2>1. /\ disk' \in [Dirs -> Directory] /\ \A d \in Dirs : disk'[d] \in {seen[d], disk[d]}
        /\ UNCHANGED <<seen, journal>> /\ diskJournal' = journal
    BY <2>0, FlushFacts DEF TargetsInv, TargetTypes
  <2>2. journal # NoJournal /\ \A d \in Dirs : Settled(d)
    BY <2>0 DEF TargetsInv, Durability
  <2>3. TargetTypes'
    BY <2>0, <2>1 DEF TargetsInv, TargetTypes, Directories, StagingSteps, SwitchSteps, RollbackSteps
  <2>4. Targets'
    BY <2>0, <2>1 DEF TargetsInv, TargetTypes, Targets, Named, There, StagingSteps, SwitchSteps, RollbackSteps
  <2>5. Durability'
    BY <2>0, <2>1, <2>2 DEF Durability, Settled, StagingSteps, SwitchSteps
  <2> QED
    BY <2>3, <2>4, <2>5 DEF TargetsInv
<1>3. CASE StagingFails
  <2>0. /\ pc \in StagingSteps /\ seen' = WithoutBackups(seen, txn) /\ journal' = NoJournal
        /\ pc' = "idle" /\ task' = "none" /\ had' = {} /\ UNCHANGED <<txn, disk, diskJournal>>
    BY <1>3 DEF StagingFails, Return
  <2>1. txn \in Transactions /\ \A d \in Dirs : Settled(d)
    BY <2>0, AirportAssumption DEF TargetsInv, TargetTypes, Durability, Transactions, StagingSteps
  <2>2. seen' \in [Dirs -> Directory] /\ \A d \in Dirs : seen'[d].final = seen[d].final
    BY <2>0, <2>1, WithoutFacts DEF TargetsInv, TargetTypes
  <2> QED
    BY <2>0, <2>1, <2>2, TargetsOfReturn
<1>4. CASE JournalStays
  <2>0. /\ pc = "sync_journal" /\ seen' = WithoutBackups(seen, txn)
        /\ pc' = "idle" /\ task' = "none" /\ had' = {} /\ UNCHANGED <<txn, disk, journal, diskJournal>>
    BY <1>4 DEF JournalStays, Return
  <2>1. txn \in Transactions /\ \A d \in Dirs : Settled(d)
    BY <2>0, AirportAssumption DEF TargetsInv, TargetTypes, Durability, Transactions, StagingSteps
  <2>2. seen' \in [Dirs -> Directory] /\ \A d \in Dirs : seen'[d].final = seen[d].final
    BY <2>0, <2>1, WithoutFacts DEF TargetsInv, TargetTypes
  <2> QED
    BY <2>0, <2>1, <2>2, TargetsOfReturn
<1> QED
  BY <1>1, <1>2, <1>3, <1>4

LEMMA TargetsOfSwitch ==
    ASSUME TargetsInv, NEW d \in Dirs, NEW here, NEW next, Switch(d, here, next),
           \/ d = "provider" /\ here = "switch_provider" /\ next = "switch_source"
           \/ d = "private" /\ here = "switch_source" /\ next = "sync_provider"
    PROVE  TargetsInv'
<1>0. /\ pc = here /\ pc' = next /\ UNCHANGED <<disk, journal, diskJournal, task, txn, had>>
      /\ txn \in Value /\ txn # Absent /\ journal # NoJournal
  BY AirportAssumption DEF Switch, Goto, TargetsInv, TargetTypes, Durability, SwitchSteps, Value, Absent
<1>1. /\ seen' \in [Dirs -> Directory] /\ seen'[d].final # Absent
      /\ \A e \in Dirs \ {d} : seen'[e] = seen[e]
  BY <1>0, SwitchFacts DEF Switch, TargetsInv, TargetTypes
<1>2. TargetTypes'
  BY <1>0, <1>1 DEF TargetsInv, TargetTypes, Directories, StagingSteps, SwitchSteps, RollbackSteps
<1>3. Targets'
  <2>1. \A e \in Dirs : There(e) => There(e)'
    BY <1>0, <1>1 DEF There
  <2>2. Named \subseteq Dirs /\ had \subseteq Dirs
    BY DEF TargetsInv, TargetTypes, Named, NoJournal
  <2> QED
    BY <1>0, <2>1, <2>2 DEF TargetsInv, Targets, Named, StagingSteps, SwitchSteps, RollbackSteps
<1>4. Durability'
  BY <1>0 DEF Durability, StagingSteps
<1> QED
  BY <1>2, <1>3, <1>4 DEF TargetsInv

\* An fsync settles its directory, and takes nothing from the disk that a
\* journal or an operation names.
LEMMA TargetsOfFlush ==
    ASSUME TargetsInv, NEW d \in Dirs, Flush(d), UNCHANGED <<txn, had>>
    PROVE  /\ Directories' /\ UNCHANGED <<seen, journal>>
           /\ diskJournal' \in {journal, diskJournal}
           /\ Named' \subseteq Named /\ Settled(d)'
           /\ \A e \in Dirs : (There(e) => There(e)') /\ (Settled(e) => Settled(e)')
           /\ journal # NoJournal => diskJournal'.had \subseteq journal.had
<1>1. /\ disk' \in [Dirs -> Directory] /\ disk'[d] = seen[d]
      /\ \A e \in Dirs \ {d} : disk'[e] = disk[e]
      /\ seen' = seen /\ journal' = journal
      /\ diskJournal' = IF d = "private" THEN journal ELSE diskJournal
  BY FlushFacts DEF TargetsInv, TargetTypes
<1> QED
  BY <1>1 DEF TargetsInv, TargetTypes, Targets, Directories, Named, There, Settled

LEMMA TargetsOfSync ==
    TargetsInv /\ (\/ SyncProvider \/ SyncSource \/ SyncUnlink
                   \/ SyncRestoredProvider \/ SyncRestoredSource) => TargetsInv'
<1> SUFFICES ASSUME TargetsInv, NEW d \in Dirs, NEW here, NEW next,
                    pc = here, Flush(d), Goto(next),
                    \/ d = "provider" /\ here = "sync_provider" /\ next = "sync_source"
                    \/ d = "private" /\ here = "sync_source" /\ next = "unlink_journal"
                    \/ d = "private" /\ here = "sync_unlink" /\ next = "cleanup"
                    \/ d = "provider" /\ here = "sync_restored_provider" /\ next = "sync_restored_source"
                    \/ d = "private" /\ here = "sync_restored_source" /\ next = "remove_backups"
             PROVE  TargetsInv'
  BY DEF SyncProvider, SyncSource, SyncUnlink, SyncRestoredProvider, SyncRestoredSource, Dirs
<1>0. pc' = next /\ UNCHANGED <<task, txn, had>>
  BY DEF Goto
<1>1. /\ Directories' /\ UNCHANGED <<seen, journal>>
      /\ diskJournal' \in {journal, diskJournal}
      /\ Named' \subseteq Named /\ Settled(d)'
      /\ \A e \in Dirs : (There(e) => There(e)') /\ (Settled(e) => Settled(e)')
      /\ journal # NoJournal => diskJournal'.had \subseteq journal.had
  BY <1>0, TargetsOfFlush
<1>2. TargetTypes'
  BY <1>0, <1>1 DEF TargetsInv, TargetTypes, StagingSteps, SwitchSteps, RollbackSteps
<1>3. Targets'
  <2>1. Named \subseteq Dirs /\ had \subseteq Dirs
    BY DEF TargetsInv, TargetTypes, Named, NoJournal
  <2> QED
    BY <1>0, <1>1, <2>1 DEF TargetsInv, Targets, StagingSteps, SwitchSteps, RollbackSteps
<1>4. Durability'
  BY <1>0, <1>1 DEF TargetsInv, Durability, StagingSteps, SwitchSteps, Dirs
<1> QED
  BY <1>2, <1>3, <1>4 DEF TargetsInv

LEMMA TargetsOfUnlink == TargetsInv /\ (UnlinkJournal \/ UnlinkRestored) => TargetsInv'
<1> SUFFICES ASSUME TargetsInv, UnlinkJournal \/ UnlinkRestored PROVE TargetsInv'
  OBVIOUS
<1>0. /\ journal' = NoJournal /\ UNCHANGED <<seen, disk, diskJournal, task, txn, had>>
      /\ \/ pc = "unlink_journal" /\ pc' = "sync_unlink"
         \/ pc = "unlink_restored" /\ pc' = "sync_restored"
      /\ \A d \in Dirs : Settled(d)
  BY DEF UnlinkJournal, UnlinkRestored, Goto, TargetsInv, Durability, Dirs
<1>1. TargetTypes'
  BY <1>0 DEF TargetsInv, TargetTypes, Directories, StagingSteps, SwitchSteps, RollbackSteps
<1>2. Targets'
  BY <1>0 DEF TargetsInv, Targets, Named, NoJournal, There, StagingSteps, SwitchSteps, RollbackSteps
<1>3. Durability'
  BY <1>0 DEF Durability, Settled, StagingSteps, SwitchSteps
<1> QED
  BY <1>1, <1>2, <1>3 DEF TargetsInv

LEMMA TargetsOfSwitchFails == TargetsInv /\ SwitchFails => TargetsInv'
<1> SUFFICES ASSUME TargetsInv, SwitchFails PROVE TargetsInv'
  OBVIOUS
<1>0. /\ pc \in SwitchSteps /\ pc' = "restore_provider" /\ task' = "abort"
      /\ UNCHANGED <<seen, disk, journal, diskJournal, txn, had>>
  BY DEF SwitchFails, dirVars
<1>1. TargetTypes'
  BY <1>0 DEF TargetsInv, TargetTypes, Directories
<1>2. Targets'
  BY <1>0 DEF TargetsInv, Targets, Named, There, StagingSteps, SwitchSteps, RollbackSteps
<1>3. Durability'
  BY <1>0 DEF TargetsInv, Durability, Settled, StagingSteps, SwitchSteps
<1> QED
  BY <1>1, <1>2, <1>3 DEF TargetsInv

\* A restore gives a file back to whoever had it, and takes it from nobody who
\* is named; what it leaves needs no fsync to survive.
LEMMA TargetsOfRestore ==
    ASSUME TargetsInv, NEW d \in Dirs, NEW here, NEW next, Restore(d, here, next),
           \/ d = "provider" /\ here = "restore_provider" /\ next = "restore_source"
           \/ d = "private" /\ here = "restore_source" /\ next = "sync_restored_provider"
    PROVE  TargetsInv'
<1> DEFINE v == IF d \notin had THEN Absent
                ELSE IF seen[d].backup[Undone] # Absent THEN seen[d].backup[Undone] ELSE seen[d].final
<1>0. /\ pc = here /\ pc' = next /\ UNCHANGED <<disk, journal, diskJournal, task, txn, had>>
      /\ seen' = [seen EXCEPT ![d].final = v, ![d].backup[Undone] = Absent]
  BY DEF Restore, Goto
<1>1. Undone \in Transactions
  BY <1>0, AirportAssumption
     DEF TargetsInv, TargetTypes, Undone, Transactions, NoJournal, RollbackSteps
<1>2. v \in Value /\ (d \in had => v # Absent /\ There(d))
  BY <1>0, <1>1, AbsentIsAValue
     DEF TargetsInv, TargetTypes, Targets, Directories, Directory, There, RollbackSteps
<1> HIDE DEF v
<1>3. /\ seen' \in [Dirs -> Directory] /\ seen'[d].final = v
      /\ \A e \in Dirs \ {d} : seen'[e] = seen[e]
  <2>1. Directories
    BY DEF TargetsInv, TargetTypes
  <2>2. seen' = GivenBack(d, Undone, v)
    BY <1>0 DEF GivenBack
  <2> QED
    BY <1>1, <1>2, <2>1, <2>2, RestoreFacts
<1>4. d \notin had => v = Absent
  BY DEF v
<1>5. TargetTypes'
  BY <1>0, <1>3 DEF TargetsInv, TargetTypes, Directories, StagingSteps, SwitchSteps, RollbackSteps
<1>6. Targets'
  <2>1. Named \subseteq had /\ \A e \in had : There(e)'
    BY <1>0, <1>2, <1>3 DEF TargetsInv, TargetTypes, Targets, There, RollbackSteps
  <2> QED
    BY <1>0, <2>1 DEF TargetsInv, Targets, Named, StagingSteps, SwitchSteps, RollbackSteps
<1>7. Durability'
  <2>1. Settled(d)' /\ \A e \in Dirs \ {d} : Settled(e)' <=> Settled(e)
    BY <1>0, <1>2, <1>3, <1>4 DEF Settled, There
  <2> QED
    BY <1>0, <2>1 DEF TargetsInv, Durability, StagingSteps, SwitchSteps, Dirs
<1> QED
  BY <1>5, <1>6, <1>7 DEF TargetsInv

LEMMA TargetsOfRemoveBackups == TargetsInv /\ RemoveBackups => TargetsInv'
<1> SUFFICES ASSUME TargetsInv, RemoveBackups PROVE TargetsInv'
  OBVIOUS
<1>0. /\ pc = "remove_backups" /\ pc' = "unlink_restored"
      /\ UNCHANGED <<disk, journal, diskJournal, task, txn, had>>
      /\ seen' = WithoutBackups(seen, Undone)
  BY DEF RemoveBackups, Goto
<1>1. Undone \in Transactions
  BY <1>0, AirportAssumption
     DEF TargetsInv, TargetTypes, Undone, Transactions, NoJournal, RollbackSteps
<1>2. seen' \in [Dirs -> Directory] /\ \A d \in Dirs : seen'[d].final = seen[d].final
  BY <1>0, <1>1, WithoutFacts DEF TargetsInv, TargetTypes
<1>3. TargetTypes'
  BY <1>0, <1>2 DEF TargetsInv, TargetTypes, Directories, StagingSteps, SwitchSteps, RollbackSteps
<1>4. Targets'
  <2>1. Named \subseteq Dirs /\ had \subseteq Dirs /\ \A d \in Dirs : There(d)' <=> There(d)
    BY <1>0, <1>2 DEF TargetsInv, TargetTypes, Named, NoJournal, There
  <2> QED
    BY <1>0, <2>1 DEF TargetsInv, Targets, Named, StagingSteps, SwitchSteps, RollbackSteps
<1>5. Durability'
  BY <1>0, <1>2 DEF TargetsInv, Durability, Settled, StagingSteps, SwitchSteps, Dirs
<1> QED
  BY <1>3, <1>4, <1>5 DEF TargetsInv

LEMMA TargetsOfEnds ==
    TargetsInv /\ (SyncRestored \/ RollbackRefused \/ RollbackFails \/ Cleanup) => TargetsInv'
<1> SUFFICES ASSUME TargetsInv PROVE SyncRestored \/ RollbackRefused \/ RollbackFails \/ Cleanup => TargetsInv'
  OBVIOUS
<1>1. CASE SyncRestored
  <2>0. /\ pc = "sync_restored" /\ journal = NoJournal /\ Flush("private") /\ "private" \in Dirs
        /\ \A d \in Dirs : Settled(d)
    BY <1>1 DEF SyncRestored, TargetsInv, Durability, Dirs
  <2>1. /\ disk' \in [Dirs -> Directory] /\ \A d \in Dirs : disk'[d] \in {seen[d], disk[d]}
        /\ seen' = seen /\ journal' = NoJournal /\ diskJournal' = NoJournal
    BY <2>0, FlushFacts DEF TargetsInv, TargetTypes
  <2>2. \A d \in Dirs : Settled(d)'
    BY <2>0, <2>1 DEF Settled
  <2>3. CASE task = "replace"
    <3>1. Stage /\ txn < MaxTransactions
      BY <1>1, <2>3 DEF SyncRestored, TargetsInv, TargetTypes
    <3>2. seen' \in [Dirs -> Directory]
      BY <2>1 DEF TargetsInv, TargetTypes, Directories
    <3> QED
      BY <2>0, <2>1, <2>2, <3>1, <3>2, TargetsOfStage
  <2>4. CASE task # "replace"
    <3>1. pc' = "idle" /\ task' = "none" /\ had' = {} /\ txn' = txn
      BY <1>1, <2>4 DEF SyncRestored, Return
    <3>2. TargetTypes'
      BY <2>1, <3>1 DEF TargetsInv, TargetTypes, Directories, StagingSteps, SwitchSteps, RollbackSteps
    <3>3. Targets'
      BY <2>1, <3>1 DEF Targets, Named, NoJournal, StagingSteps, SwitchSteps, RollbackSteps
    <3>4. Durability'
      BY <2>2, <3>1 DEF Durability, StagingSteps, SwitchSteps
    <3> QED
      BY <3>2, <3>3, <3>4 DEF TargetsInv
  <2> QED
    BY <2>3, <2>4
<1>2. CASE RollbackRefused \/ RollbackFails
  <2>1. /\ pc' = "idle" /\ task' = "none" /\ had' = {} /\ txn' = txn
        /\ UNCHANGED <<seen, disk, journal, diskJournal>>
    BY <1>2 DEF RollbackRefused, RollbackFails, RollbackRaises, Return, dirVars
  <2> QED
    BY <2>1, TargetsOfReturn DEF TargetsInv, TargetTypes, Directories, Durability
<1>3. CASE Cleanup
  <2>1. /\ pc = "cleanup" /\ pc' = "idle" /\ task' = "none" /\ had' = {} /\ txn' = txn
        /\ UNCHANGED <<disk, journal, diskJournal>>
        /\ seen' \in {seen, WithoutBackups(seen, txn)} /\ txn \in Transactions
    BY <1>3, AirportAssumption DEF Cleanup, Return, TargetsInv, TargetTypes, Transactions
  <2>2. seen' \in [Dirs -> Directory] /\ \A d \in Dirs : seen'[d].final = seen[d].final
    BY <2>1, WithoutFacts DEF TargetsInv, TargetTypes, Directories
  <2> QED
    BY <2>1, <2>2, TargetsOfReturn DEF TargetsInv, Durability
<1> QED
  BY <1>1, <1>2, <1>3

LEMMA TargetsOfCrashes == TargetsInv /\ (Kill \/ Writeback \/ PowerLoss) => TargetsInv'
<1> SUFFICES ASSUME TargetsInv PROVE Kill \/ Writeback \/ PowerLoss => TargetsInv'
  OBVIOUS
<1>1. CASE Kill
  <2>1. /\ pc' = "idle" /\ task' = "none" /\ had' = {} /\ txn' = txn
        /\ UNCHANGED <<seen, disk, journal, diskJournal>>
    BY <1>1 DEF Kill, Lost, dirVars
  <2> QED
    BY <2>1, TargetsOfReturn DEF TargetsInv, TargetTypes, Directories, Durability
<1>2. ASSUME NEW d \in Dirs, Flush(d), UNCHANGED <<pc, task, txn, had>> PROVE TargetsInv'
  <2>1. /\ Directories' /\ UNCHANGED <<seen, journal>>
        /\ diskJournal' \in {journal, diskJournal}
        /\ Named' \subseteq Named
        /\ \A e \in Dirs : (There(e) => There(e)') /\ (Settled(e) => Settled(e)')
        /\ journal # NoJournal => diskJournal'.had \subseteq journal.had
    BY <1>2, TargetsOfFlush
  <2>2. TargetTypes'
    BY <1>2, <2>1 DEF TargetsInv, TargetTypes
  <2>3. Targets'
    <3>1. Named \subseteq Dirs /\ had \subseteq Dirs
      BY DEF TargetsInv, TargetTypes, Named, NoJournal
    <3> QED
      BY <1>2, <2>1, <3>1 DEF TargetsInv, Targets
  <2>4. Durability'
    BY <1>2, <2>1 DEF TargetsInv, Durability, Dirs
  <2> QED
    BY <2>2, <2>3, <2>4 DEF TargetsInv
<1>3. CASE Writeback
  BY <1>2, <1>3 DEF Writeback
<1>4. CASE PowerLoss
  <2>1. /\ seen' = disk /\ journal' = diskJournal /\ UNCHANGED <<disk, diskJournal>>
        /\ pc' = "idle" /\ task' = "none" /\ had' = {} /\ txn' = txn
    BY <1>4 DEF PowerLoss, Lost
  <2>2. TargetTypes'
    BY <2>1 DEF TargetsInv, TargetTypes, Directories, StagingSteps, SwitchSteps, RollbackSteps
  <2>3. Targets'
    BY <2>1 DEF TargetsInv, Targets, Named, There, StagingSteps, SwitchSteps, RollbackSteps
  <2>4. Durability'
    BY <2>1 DEF Durability, Settled, StagingSteps, SwitchSteps
  <2> QED
    BY <2>2, <2>3, <2>4 DEF TargetsInv
<1> QED
  BY <1>1, <1>3, <1>4

LEMMA TargetsNext == TargetsInv /\ [Next]_vars => TargetsInv'
<1> SUFFICES ASSUME TargetsInv, [Next]_vars PROVE TargetsInv'
  OBVIOUS
<1>1. CASE Replace \/ Read
  BY <1>1, TargetsOfRecover DEF Replace, Read
<1>2. CASE ReplaceStep
  BY <1>2, TargetsOfBackup, TargetsOfStaging, TargetsOfSwitch, TargetsOfSync, TargetsOfUnlink,
     TargetsOfSwitchFails, TargetsOfEnds
     DEF ReplaceStep, BackupProvider, BackupSource, SwitchProvider, SwitchSource, Dirs
<1>3. CASE RollbackStep
  BY <1>3, TargetsOfRestore, TargetsOfSync, TargetsOfRemoveBackups, TargetsOfUnlink, TargetsOfEnds
     DEF RollbackStep, RestoreProvider, RestoreSource, Dirs
<1>4. CASE Kill \/ Writeback \/ PowerLoss
  BY <1>4, TargetsOfCrashes
<1>5. CASE UNCHANGED vars
  <2>1. UNCHANGED <<seen, disk, journal, diskJournal, pc, task, txn, had>>
    BY <1>5 DEF vars, dirVars
  <2> QED
    BY <2>1 DEF TargetsInv, TargetTypes, Directories, Targets, Durability, Named, There, Settled
<1> QED
  BY <1>1, <1>2, <1>3, <1>4, <1>5 DEF Next

\* A rollback is never stuck, whatever fails or is killed, kills and power
\* losses in any order included: a file that the journal names is there, and
\* the backup or, once that is gone, the file itself is what it finds
\* (_roll_back, airport_store.py): RollbackPossible.
THEOREM RollbacksArePossible == Spec => []RollbackPossible
<1>1. TargetsInv => RollbackPossible
  BY DEF TargetsInv, TargetTypes, Targets, There, RollbackPossible, RestorePossible, RollbackSteps
<1> QED
  BY TargetsInit, TargetsNext, <1>1, PTL DEF Spec

-----------------------------------------------------------------------------
(* Lists of nodes *)

\* Of the numbers with a property one is the least: what holds of every number
\* whose predecessors have it holds of all.
LEMMA LeastNumber ==
    ASSUME NEW S, S \subseteq Nat, S # {}
    PROVE  \E n \in S : \A k \in S : n <= k
<1>1. PICK n \in S : \A k \in S : ~ (<<k, n>> \in OpToRel(<, Nat))
  BY NatLessThanWellFounded, WFMin, Zenon
<1>2. \A k \in S : ~ (k < n)
  BY <1>1, Zenon DEF OpToRel
<1> QED
  BY <1>2

LEMMA NamesFinite ==
    ASSUME NEW M \in Seq(Nodes)
    PROVE  IsFiniteSet(NamesOf(M)) /\ NamesOf(M) \subseteq Seq(Nat)
<1> DEFINE D == 1..Len(M)
           f == [i \in D |-> M[i].name]
<1>1. DOMAIN M = D /\ Len(M) \in Nat /\ \A i \in D : M[i] \in Nodes
  BY LenProperties, ElementOfSeq
<1>2. NamesOf(M) = {M[i].name : i \in D}
  BY <1>1 DEF NamesOf
<1>3. f \in Surjection(D, NamesOf(M))
  BY <1>2 DEF Surjection
<1>4. IsFiniteSet(D)
  BY <1>1, FS_Interval
<1> HIDE DEF D, f
<1>5. IsFiniteSet(NamesOf(M))
  BY <1>3, <1>4, FS_Surjection
<1> QED
  BY <1>1, <1>2, <1>5 DEF Nodes

\* Numbering gives a name that is not taken: there are more numbers to try than
\* taken names.
LEMMA NumberedIsFree ==
    ASSUME NEW taken, IsFiniteSet(taken), NEW name \in Seq(Nat)
    PROVE  /\ Numbered(name, taken) \notin taken
           /\ \/ Numbered(name, taken) = name
              \/ /\ name \in taken
                 /\ \E k \in Nat : Numbered(name, taken) = Append(name, k)
<1> DEFINE n == Cardinality(taken) + 2
           free == {k \in 2..n : Append(name, k) \notin taken}
           number == CHOOSE k \in free : \A j \in free : k <= j
<1>1. CASE name \notin taken
  BY <1>1 DEF Numbered
<1>2. CASE name \in taken
  <2>1. Numbered(name, taken) = Append(name, number)
    BY <1>2 DEF Numbered
  <2>2. Cardinality(taken) \in Nat
    BY FS_CardinalityType
  <2>3. free # {}
    <3> SUFFICES ASSUME free = {} PROVE FALSE
      OBVIOUS
    <3> DEFINE f == [k \in 2..n |-> Append(name, k)]
    <3>1. f \in [2..n -> taken]
      OBVIOUS
    <3>2. IsFiniteSet(2..n) /\ Cardinality(2..n) = Cardinality(taken) + 1
      <4>1. n \in Int /\ 2 \in Int /\ n >= 2 /\ n - 2 + 1 = Cardinality(taken) + 1
        BY <2>2
      <4> HIDE DEF n
      <4> QED
        BY <4>1, FS_Interval
    <3>3. \A x, y \in 2..n : f[x] = f[y] => x = y
      <4> SUFFICES ASSUME NEW x \in 2..n, NEW y \in 2..n, Append(name, x) = Append(name, y)
                   PROVE  x = y
        OBVIOUS
      <4>1. Append(name, x)[Len(name) + 1] = x /\ Append(name, y)[Len(name) + 1] = y
        BY <2>2
      <4> QED
        BY <4>1
    <3>4. Cardinality(taken) < Cardinality(2..n)
      BY <2>2, <3>2
    <3> HIDE DEF f, n
    <3>5. \E x, y \in 2..n : x # y /\ f[x] = f[y]
      <4> DEFINE S == 2..n
      <4>1. f \in [S -> taken] /\ IsFiniteSet(S) /\ Cardinality(taken) < Cardinality(S)
        BY <3>1, <3>2, <3>4
      <4> HIDE DEF S
      <4>2. \E x, y \in S : x # y /\ f[x] = f[y]
        BY <4>1, FS_PigeonHole
      <4> QED
        BY <4>2 DEF S
    <3> QED
      BY <3>3, <3>5
  <2>4. free \subseteq Nat
    BY <2>2
  <2>5. \E k \in free : \A j \in free : k <= j
    <3> HIDE DEF free
    <3> QED
      BY <2>3, <2>4, LeastNumber
  <2>6. number \in free
    <3> HIDE DEF free
    <3> QED
      BY <2>5
  <2> HIDE DEF number
  <2> QED
    BY <1>2, <2>1, <2>4, <2>6
<1> QED
  BY <1>1, <1>2

LEMMA FrontOfAppend ==
    ASSUME NEW name \in Seq(Nat), NEW k \in Nat
    PROVE  /\ Append(name, k) \in Seq(Nat)
           /\ Len(Append(name, k)) = Len(name) + 1
           /\ Front(Append(name, k)) = name
<1> DEFINE long == Append(name, k)
<1>1. /\ long \in Seq(Nat) /\ Len(long) = Len(name) + 1 /\ Len(name) \in Nat
      /\ \A i \in 1..Len(name) : long[i] = name[i]
  OBVIOUS
<1> HIDE DEF long
<1>2. Front(long) = SubSeq(long, 1, Len(name))
  BY <1>1 DEF Front
<1>3. \A i \in 1..Len(name) : long[i] \in Nat
  BY <1>1
<1>4. /\ SubSeq(long, 1, Len(name)) \in Seq(Nat)
      /\ Len(SubSeq(long, 1, Len(name))) = Len(name)
      /\ \A i \in 1..Len(name) : SubSeq(long, 1, Len(name))[i] = name[i]
  BY <1>1, <1>3
<1>5. SubSeq(long, 1, Len(name)) = name
  BY <1>4, SeqEqual
<1> QED
  BY <1>1, <1>2, <1>5 DEF long

\* Where a setting appears first in a list
LEMMA FirstOfIsFirst ==
    ASSUME NEW all \in Seq(Nodes), NEW k \in 1..Len(all)
    PROVE  /\ FirstOf(all, all[k].id) \in 1..k
           /\ all[FirstOf(all, all[k].id)].id = all[k].id
           /\ \A j \in 1..Len(all) : all[j].id = all[k].id => FirstOf(all, all[k].id) <= j
<1> DEFINE id == all[k].id
           Same == {i \in 1..Len(all) : all[i].id = id}
<1>1. DOMAIN all = 1..Len(all) /\ Len(all) \in Nat
  BY LenProperties
<1>2. \E i \in Same : \A j \in Same : i <= j
  <2>1. Same \subseteq Nat /\ k \in Same
    BY <1>1
  <2> HIDE DEF Same
  <2> QED
    BY <2>1, LeastNumber
<1>3. \E i \in DOMAIN all : all[i].id = id /\ \A j \in DOMAIN all : all[j].id = id => i <= j
  BY <1>1, <1>2
<1> HIDE DEF id
<1>4. /\ FirstOf(all, id) \in DOMAIN all
      /\ all[FirstOf(all, id)].id = id
      /\ \A j \in DOMAIN all : all[j].id = id => FirstOf(all, id) <= j
  BY <1>3, Zenon DEF FirstOf
<1> QED
  BY <1>1, <1>4 DEF id

\* M is the merge of the first k nodes.
NameFrom(M, i, own) ==
    \/ M[i].name = own
    \/ /\ Len(M[i].name) = Len(own) + 1
       /\ Front(M[i].name) = own
       /\ \E j \in 1..(i - 1) : M[j].name = own

MergeOf(M, all, k) ==
    /\ M \in Seq(Nodes)
    /\ Len(M) <= k /\ (k > 0 => Len(M) > 0)
    /\ IdsOf(M) = {all[i].id : i \in 1..k}
    /\ \A i \in 1..Len(M) : FirstOf(all, M[i].id) \in 1..k
    /\ \A i, j \in 1..Len(M) :
           i < j => /\ FirstOf(all, M[i].id) < FirstOf(all, M[j].id)
                    /\ M[i].name # M[j].name
    /\ \A i \in 1..Len(M) : NameFrom(M, i, all[FirstOf(all, M[i].id)].name)

LEMMA NothingMerged ==
    ASSUME NEW all
    PROVE  MergeOf(<<>>, all, 0)
BY DEF MergeOf, IdsOf

LEMMA OneMoreMerged ==
    ASSUME NEW all \in Seq(Nodes), NEW k \in 1..Len(all), NEW M, MergeOf(M, all, k - 1)
    PROVE  MergeOf(Joined(M, all[k]), all, k)
<1> DEFINE node == all[k]
           First(i) == FirstOf(all, M[i].id)
<1>1. /\ node \in Nodes /\ k - 1 \in Nat /\ Len(all) \in Nat
      /\ node.id \in Settings /\ node.name \in Seq(Nat)
  <2>1. node \in Nodes /\ Len(all) \in Nat
    BY ElementOfSeq, LenProperties
  <2> HIDE DEF node
  <2> QED
    BY <2>1 DEF Nodes
<1>2. M \in Seq(Nodes) /\ DOMAIN M = 1..Len(M) /\ Len(M) \in Nat
  BY LenProperties DEF MergeOf
<1>3. {all[i].id : i \in 1..k} = IdsOf(M) \cup {node.id}
  <2>1. 1..k = 1..(k - 1) \cup {k}
    BY <1>1
  <2> QED
    BY <2>1 DEF MergeOf
<1>4. CASE node.id \in IdsOf(M)
  <2>1. Joined(M, node) = M
    BY <1>4 DEF Joined
  <2>2. \A i \in 1..Len(M) : First(i) \in 1..k
    BY <1>1 DEF MergeOf
  <2>3. Len(M) <= k /\ Len(M) > 0
    BY <1>1, <1>2, <1>4 DEF MergeOf, IdsOf
  <2> QED
    BY <1>3, <1>4, <2>1, <2>2, <2>3 DEF MergeOf
<1>5. CASE node.id \notin IdsOf(M)
  <2> DEFINE name == Numbered(node.name, NamesOf(M))
             new == [node EXCEPT !.name = name]
             N == Append(M, new)
             l == Len(M) + 1
  <2>1. Joined(M, node) = N
    BY <1>5 DEF Joined
  <2>2. /\ name \in Seq(Nat) /\ name \notin NamesOf(M)
        /\ \/ name = node.name
           \/ /\ node.name \in NamesOf(M)
              /\ Len(name) = Len(node.name) + 1 /\ Front(name) = node.name
    <3>1. IsFiniteSet(NamesOf(M)) /\ node.name \in Seq(Nat)
      BY <1>1, <1>2, NamesFinite
    <3>2. /\ name \notin NamesOf(M)
          /\ \/ name = node.name
             \/ node.name \in NamesOf(M) /\ \E n \in Nat : name = Append(node.name, n)
      BY <3>1, NumberedIsFree
    <3> HIDE DEF name, node
    <3>3. ASSUME NEW n \in Nat, name = Append(node.name, n)
          PROVE  /\ name \in Seq(Nat)
                 /\ Len(name) = Len(node.name) + 1 /\ Front(name) = node.name
      BY <3>1, <3>3, FrontOfAppend
    <3> QED
      BY <3>1, <3>2, <3>3
  <2>3. new \in Nodes /\ new.id = node.id /\ new.name = name
    BY <1>1, <2>2 DEF Nodes
  <2> HIDE DEF new, name
  <2>4. /\ N \in Seq(Nodes) /\ Len(N) = l /\ DOMAIN N = 1..l /\ N[l] = new
        /\ \A i \in 1..Len(M) : N[i] = M[i]
    BY <1>2, <2>3
  <2> HIDE DEF N, node
  <2>5. IdsOf(N) = IdsOf(M) \cup {node.id}
    <3>1. DOMAIN N = 1..Len(M) \cup {l}
      BY <1>2, <2>4
    <3> HIDE DEF l
    <3>2. IdsOf(N) = {N[i].id : i \in 1..Len(M)} \cup {N[l].id}
      BY <3>1 DEF IdsOf
    <3>3. {N[i].id : i \in 1..Len(M)} = {M[i].id : i \in 1..Len(M)}
      BY <2>4
    <3> QED
      BY <1>2, <2>3, <2>4, <3>2, <3>3 DEF IdsOf
  <2>6. FirstOf(all, node.id) = k
    <3>1. FirstOf(all, node.id) \in 1..k /\ all[FirstOf(all, node.id)].id = node.id
      BY FirstOfIsFirst DEF node
    <3>2. FirstOf(all, node.id) \notin 1..(k - 1)
      BY <1>5, <3>1 DEF MergeOf
    <3> QED
      BY <1>1, <3>1, <3>2
  <2>7. Len(N) <= k /\ Len(N) > 0
    BY <1>1, <1>2, <2>4 DEF MergeOf
  <2>8. \A i \in 1..Len(M) : First(i) \in 1..(k - 1)
    BY DEF MergeOf
  <2>9. \A i \in 1..Len(N) : FirstOf(all, N[i].id) \in 1..k
    BY <1>1, <1>2, <2>3, <2>4, <2>6, <2>8
  <2>10. ASSUME NEW i \in 1..Len(N), NEW j \in 1..Len(N), i < j
         PROVE  /\ FirstOf(all, N[i].id) < FirstOf(all, N[j].id)
                /\ N[i].name # N[j].name
    <3>1. i \in 1..Len(M) /\ N[i] = M[i]
      BY <1>2, <2>4, <2>10
    <3>2. CASE j = l
      <4>1. FirstOf(all, N[i].id) < FirstOf(all, N[j].id)
        BY <1>1, <2>3, <2>4, <2>6, <2>8, <3>1, <3>2
      <4>2. M[i].name \in NamesOf(M)
        BY <1>2, <3>1 DEF NamesOf
      <4> QED
        BY <2>2, <2>3, <2>4, <3>1, <3>2, <4>1, <4>2
    <3>3. CASE j # l
      <4>1. j \in 1..Len(M) /\ N[j] = M[j]
        BY <1>2, <2>4, <3>3
      <4> QED
        BY <2>10, <3>1, <4>1 DEF MergeOf
    <3> QED
      BY <3>2, <3>3
  <2>11. ASSUME NEW i \in 1..Len(N)
         PROVE  NameFrom(N, i, all[FirstOf(all, N[i].id)].name)
    <3>1. CASE i = l
      <4>1. all[FirstOf(all, N[i].id)].name = node.name /\ N[i].name = name
        BY <2>3, <2>4, <2>6, <3>1 DEF node
      <4>2. node.name \in NamesOf(M) => \E j \in 1..(i - 1) : N[j].name = node.name
        BY <1>2, <2>4, <3>1 DEF NamesOf
      <4> QED
        BY <2>2, <4>1, <4>2 DEF NameFrom
    <3>2. CASE i # l
      <4>1. i \in 1..Len(M) /\ N[i] = M[i] /\ \A j \in 1..(i - 1) : N[j] = M[j]
        BY <1>2, <2>4, <3>2
      <4>2. NameFrom(M, i, all[FirstOf(all, M[i].id)].name)
        BY <4>1 DEF MergeOf
      <4> QED
        BY <4>1, <4>2 DEF NameFrom
    <3> QED
      BY <3>1, <3>2
  <2>12. MergeOf(N, all, k)
    BY <1>3, <2>4, <2>5, <2>7, <2>9, <2>10, <2>11 DEF MergeOf
  <2> QED
    BY <2>1, <2>12 DEF node
<1> QED
  BY <1>4, <1>5

\* The lists of a loop over the nodes, up to the n-th
Joins(f, all, n) ==
    f = [k \in 0..n |-> IF k = 0 THEN <<>> ELSE Joined(f[k - 1], all[k])]

LEMMA JoinsEnd ==
    ASSUME NEW all, NEW n \in Nat
    PROVE  \E f : Joins(f, all, n)
<1> DEFINE Endless == {k \in Nat : ~ \E f : Joins(f, all, k)}
<1> SUFFICES ASSUME Endless # {} PROVE FALSE
  OBVIOUS
<1>1. PICK k \in Endless : \A j \in Endless : k <= j
  BY LeastNumber
<1>2. CASE k = 0
  <2> DEFINE f == [i \in 0..0 |-> <<>>]
  <2>1. f = [i \in 0..0 |-> IF i = 0 THEN <<>> ELSE Joined(f[i - 1], all[i])]
    OBVIOUS
  <2> HIDE DEF f
  <2>2. Joins(f, all, 0)
    BY <2>1 DEF Joins
  <2> QED
    BY <1>1, <1>2, <2>2
<1>3. CASE k > 0
  <2>1. k - 1 \in Nat /\ k - 1 \notin Endless
    BY <1>1, <1>3
  <2>2. PICK f : Joins(f, all, k - 1)
    BY <2>1
  <2>3. \A i \in 0..(k - 1) : f[i] = IF i = 0 THEN <<>> ELSE Joined(f[i - 1], all[i])
    BY <2>2 DEF Joins
  <2> DEFINE g == [i \in 0..k |-> IF i < k THEN f[i] ELSE Joined(f[i - 1], all[i])]
  <2>4. ASSUME NEW i \in 0..k
        PROVE  g[i] = IF i = 0 THEN <<>> ELSE Joined(g[i - 1], all[i])
    <3>1. i > 0 => g[i - 1] = f[i - 1]
      BY <1>1
    <3>2. i < k => g[i] = f[i] /\ i \in 0..(k - 1)
      BY <1>1
    <3>3. i = k => g[i] = Joined(f[i - 1], all[i])
      BY <1>1
    <3> HIDE DEF g
    <3> QED
      BY <1>1, <1>3, <2>3, <3>1, <3>2, <3>3
  <2>5. g = [i \in 0..k |-> IF i = 0 THEN <<>> ELSE Joined(g[i - 1], all[i])]
    <3>1. DOMAIN g = 0..k /\ g = [i \in 0..k |-> g[i]]
      OBVIOUS
    <3> HIDE DEF g
    <3> QED
      BY <2>4, <3>1
  <2> HIDE DEF g
  <2>6. Joins(g, all, k)
    BY <2>5 DEF Joins
  <2> QED
    BY <1>1, <2>6
<1> QED
  BY <1>1, <1>2, <1>3

LEMMA CombinedNodesAreMerged ==
    ASSUME NEW nodes \in Seq(Nodes), NEW manual \in Seq(Nodes)
    PROVE  MergeOf(combined_nodes(nodes, manual), nodes \o manual, Len(nodes \o manual))
<1> DEFINE all == nodes \o manual
           merged == CHOOSE f : f = [k \in 0..Len(all) |->
                                        IF k = 0 THEN <<>> ELSE Joined(f[k - 1], all[k])]
<1>1. combined_nodes(nodes, manual) = merged[Len(all)]
  BY DEF combined_nodes
<1>2. all \in Seq(Nodes) /\ Len(all) \in Nat
  BY ConcatProperties, LenProperties
<1> HIDE DEF all
<1>3. \E f : f = [k \in 0..Len(all) |-> IF k = 0 THEN <<>> ELSE Joined(f[k - 1], all[k])]
  BY <1>2, JoinsEnd DEF Joins
<1>4. merged = [k \in 0..Len(all) |-> IF k = 0 THEN <<>> ELSE Joined(merged[k - 1], all[k])]
  BY <1>3
<1> HIDE DEF merged
<1> DEFINE Wrong == {k \in 0..Len(all) : ~ MergeOf(merged[k], all, k)}
<1>5. Wrong = {}
  <2> SUFFICES ASSUME Wrong # {} PROVE FALSE
    OBVIOUS
  <2>1. PICK k \in Wrong : \A j \in Wrong : k <= j
    <3>1. Wrong \subseteq Nat
      BY <1>2
    <3> HIDE DEF Wrong
    <3> QED
      BY <3>1, LeastNumber
  <2>2. CASE k = 0
    BY <1>2, <1>4, <2>1, <2>2, NothingMerged
  <2>3. CASE k # 0
    <3>1. k \in 1..Len(all) /\ k - 1 \in 0..Len(all)
      BY <1>2, <2>1, <2>3
    <3>2. MergeOf(merged[k - 1], all, k - 1)
      BY <2>1, <3>1
    <3>3. merged[k] = Joined(merged[k - 1], all[k])
      BY <1>4, <2>3, <3>1
    <3> QED
      BY <1>2, <2>1, <3>1, <3>2, <3>3, OneMoreMerged
  <2> QED
    BY <2>2, <2>3
<1>6. MergeOf(merged[Len(all)], all, Len(all))
  BY <1>2, <1>5
<1> QED
  BY <1>1, <1>6 DEF all

\* What combined_nodes computes is what IsMerge promises, and no longer than the
\* two lists.
LEMMA CombinedNodes ==
    ASSUME NEW nodes \in Seq(Nodes), NEW manual \in Seq(Nodes)
    PROVE  /\ combined_nodes(nodes, manual) \in Seq(Nodes)
           /\ IsMerge(nodes, manual, combined_nodes(nodes, manual))
           /\ Len(combined_nodes(nodes, manual)) <= Len(nodes) + Len(manual)
           /\ nodes \o manual # <<>> => combined_nodes(nodes, manual) # <<>>
<1> DEFINE all == nodes \o manual
           M == combined_nodes(nodes, manual)
<1>1. /\ all \in Seq(Nodes) /\ Len(all) \in Nat /\ DOMAIN all = 1..Len(all)
      /\ Len(all) = Len(nodes) + Len(manual)
  BY ConcatProperties, LenProperties
<1>2. MergeOf(M, all, Len(all))
  BY CombinedNodesAreMerged
<1> HIDE DEF all, M
<1>3. M \in Seq(Nodes) /\ DOMAIN M = 1..Len(M) /\ Len(M) \in Nat
  BY <1>2, LenProperties DEF MergeOf
<1>4. IsMerge(nodes, manual, M)
  <2>1. IdsOf(M) = IdsOf(all)
    BY <1>1, <1>2 DEF MergeOf, IdsOf
  <2>2. \A i, j \in DOMAIN M :
           i < j => /\ FirstOf(all, M[i].id) < FirstOf(all, M[j].id)
                    /\ M[i].name # M[j].name
    BY <1>2, <1>3 DEF MergeOf
  <2>3. \A i \in DOMAIN M : NameFrom(M, i, all[FirstOf(all, M[i].id)].name)
    BY <1>2, <1>3 DEF MergeOf
  <2> QED
    BY <2>1, <2>2, <2>3 DEF IsMerge, NameFrom, all
<1>5. all # <<>> => M # <<>>
  <2>1. all # <<>> => Len(all) > 0
    BY <1>1
  <2> QED
    BY <1>2, <1>3, <2>1 DEF MergeOf
<1> QED
  BY <1>1, <1>2, <1>3, <1>4, <1>5 DEF MergeOf, all, M

-----------------------------------------------------------------------------
(* The record *)

Addresses == Urls \cup {NoUrl}

Records == [is : {"none", "record", "corrupt"}, url : Addresses, nodes : Seq(Nodes),
            manual : Seq(Nodes), success : Int, error : BOOLEAN]

\* A record, or what stands for no record: a record that cannot be read has no nodes.
GoodRecord(d) ==
    /\ d \in Records
    /\ Readable(d)
    /\ d.is # "record" => d.nodes = <<>> /\ d.manual = <<>>

LEMMA NodeLists ==
    /\ Cap \in Nat \ {0}
    /\ Feeds \cup Imports \cup {<<>>} \subseteq Seq(Nodes)
    /\ <<>> \in Seq(Nodes) /\ Len(<<>>) = 0
<1>1. <<>> \in Seq(Nodes) /\ Len(<<>>) = 0
  BY EmptySeq
<1> QED
  BY <1>1, SourcesAssumption

LEMMA NoRecordIsGood ==
    /\ GoodRecord(NoRecord) /\ GoodRecord(Corrupt)
    /\ Corrupt.is = "corrupt" /\ NoRecord.is = "none"
    /\ NoRecord.url = NoUrl /\ NoRecord.nodes = <<>> /\ NoRecord.manual = <<>>
    /\ \A url \in Addresses : Blank(url) \in Records
<1> DEFINE none(error) == [is |-> "none", url |-> NoUrl, nodes |-> <<>>, manual |-> <<>>,
                           success |-> Never, error |-> error]
<1>1. NoUrl \in Addresses /\ Never \in Int
  BY DEF Addresses, Never
<1>2. ASSUME NEW error \in BOOLEAN
      PROVE  /\ none(error) \in Records
             /\ [none(error) EXCEPT !.is = "corrupt"] \in Records
             /\ \A url \in Addresses : [none(error) EXCEPT !.is = "record", !.url = url] \in Records
  BY <1>1, NodeLists DEF Records
<1>3. NoRecord = none(FALSE)
  BY Zenon DEF NoRecord
<1>4. /\ NoRecord \in Records /\ Corrupt \in Records
      /\ \A url \in Addresses : Blank(url) \in Records
  <2> HIDE DEF none
  <2> QED
    BY <1>2, <1>3, Zenon DEF Corrupt, Blank
<1>5. /\ Corrupt.is = "corrupt" /\ Corrupt.nodes = <<>> /\ Corrupt.manual = <<>>
      /\ NoRecord.is = "none" /\ NoRecord.url = NoUrl
      /\ NoRecord.nodes = <<>> /\ NoRecord.manual = <<>>
  BY DEF Corrupt, NoRecord
<1> QED
  BY <1>4, <1>5 DEF GoodRecord, Readable

\* A record whose last refresh failed
Erred(d) == [d EXCEPT !.error = TRUE]

\* What a refresh leaves: after a failure the previous record, or the address alone
LEMMA RefreshOfRecord ==
    ASSUME NEW d, GoodRecord(d), NEW given \in Addresses, NEW feed \in Feeds \cup {<<>>},
           NEW core, NEW first, NEW second, NEW time \in Int
    PROVE  LET r == refresh(d, given, feed, core, first, second, time)
           IN  /\ GoodRecord(r.data)
               /\ d.is = "record" =>
                      /\ r.data.manual = d.manual
                      /\ given = NoUrl => r.data.url = d.url
                      /\ r.code = "backup_download_failed" => r.data = Erred(d)
<1> DEFINE source == IF given # NoUrl THEN given ELSE d.url
           base == Kept(d, Blank(source), FALSE)
           new == [base EXCEPT !.url = source, !.nodes = feed, !.success = time, !.error = FALSE]
           filled == Fits(feed) /\ core # "rejects"
           written == filled /\ core = "accepts" /\ Fits(Merged(new))
           between == IF written THEN Put(d, new, first) ELSE d
           kept == Kept(d, new, filled)
           stale == Erred(kept)
           r == refresh(d, given, feed, core, first, second, time)
<1>0. d \in Records /\ feed \in Seq(Nodes)
  BY NodeLists DEF GoodRecord
<1>1. CASE d.is = "corrupt"
  BY <1>1 DEF refresh, Result
<1>2. CASE d.is # "corrupt" /\ source = NoUrl
  <2>1. r.data = d /\ r.code \in {"ok", "backup_url_invalid"}
    BY <1>2 DEF refresh, Result
  <2> QED
    BY <2>1
<1>3. CASE d.is # "corrupt" /\ source # NoUrl
  <2>1. r = IF written /\ first = "ok"
            THEN Result(new, "ok")
            ELSE Result(Put(between, stale, second),
                        IF second = "ok" THEN "backup_download_failed" ELSE "error")
    BY <1>3 DEF refresh, Erred
  <2>2. source \in Addresses
    BY <1>0 DEF Records
  <2>3. /\ base \in Records /\ base.is = "record"
        /\ base.manual = IF d.is = "record" THEN d.manual ELSE <<>>
        /\ d.is = "record" => base = d
        /\ d.is # "record" => base.nodes = <<>>
    BY <1>0, <2>2, NoRecordIsGood DEF Kept, Blank, NoRecord
  <2> HIDE DEF base
  <2>4. /\ new \in Records /\ new.is = "record" /\ new.url = source /\ new.nodes = feed
        /\ new.manual = base.manual
    BY <1>0, <2>2, <2>3 DEF Records
  <2>5. Len(base.manual) <= Cap /\ (base.is = "record" => Len(base.nodes) <= Cap)
    BY <1>0, <2>3, NodeLists DEF GoodRecord, Readable
  <2> HIDE DEF new
  <2>6. filled => GoodRecord(new)
    BY <1>3, <2>3, <2>4, <2>5 DEF GoodRecord, Readable, Fits
  <2> HIDE DEF source
  <2>7. /\ kept \in Records /\ kept.is = "record" /\ GoodRecord(kept)
        /\ d.is = "record" => kept = d
    <3>1. CASE d.is = "record"
      BY <1>0, <3>1 DEF Kept
    <3>2. CASE d.is # "record" /\ filled
      <4>1. kept = new
        BY <3>2 DEF Kept
      <4> HIDE DEF kept
      <4> QED
        BY <2>4, <2>6, <3>2, <4>1
    <3>3. CASE d.is # "record" /\ ~filled
      <4>1. kept = Blank(source)
        BY <2>4, <3>3 DEF Kept
      <4>2. /\ Blank(source).is = "record" /\ Blank(source).url = source
            /\ Blank(source).nodes = <<>> /\ Blank(source).manual = <<>>
        BY DEF Blank, NoRecord
      <4> HIDE DEF kept
      <4> QED
        BY <1>3, <2>2, <3>3, <4>1, <4>2, NodeLists, NoRecordIsGood DEF GoodRecord, Readable
    <3> QED
      BY <3>1, <3>2, <3>3
  <2> HIDE DEF kept
  <2>8. /\ GoodRecord(stale) /\ stale.manual = kept.manual /\ stale.url = kept.url
        /\ d.is = "record" => stale = Erred(d)
    <3>1. d.is = "record" => stale = Erred(d)
      BY <2>7
    <3>2. ASSUME NEW e \in BOOLEAN, NEW x, x = [kept EXCEPT !.error = e]
          PROVE  GoodRecord(x) /\ x.manual = kept.manual /\ x.url = kept.url
      BY <2>7, <3>2 DEF GoodRecord, Records, Readable
    <3> QED
      BY <3>1, <3>2, Zenon DEF Erred
  <2> HIDE DEF stale, filled
  <2>9. /\ GoodRecord(between)
        /\ d.is = "record" =>
               /\ between.manual = d.manual
               /\ given = NoUrl => between.url = d.url
    BY <2>3, <2>4, <2>6 DEF Put, source
  <2> HIDE DEF between
  <2>10. CASE written /\ first = "ok"
    <3>1. r.data = new /\ r.code = "ok"
      BY <2>1, <2>10 DEF Result
    <3> QED
      BY <2>3, <2>4, <2>6, <2>10, <3>1 DEF source
  <2>11. CASE ~ (written /\ first = "ok")
    <3>1. /\ r.data = IF second = "unwritten" THEN between ELSE stale
          /\ r.code = IF second = "ok" THEN "backup_download_failed" ELSE "error"
      BY <2>1, <2>11 DEF Result, Put
    <3>2. CASE second = "unwritten"
      BY <2>9, <3>1, <3>2
    <3>3. CASE second # "unwritten"
      <4>1. r.data = stale
        BY <3>1, <3>3
      <4> QED
        BY <2>7, <2>8, <4>1
    <3> QED
      BY <3>2, <3>3
  <2> QED
    BY <2>10, <2>11
<1> QED
  BY <1>1, <1>2, <1>3

\* What an import leaves: the subscription as it was
LEMMA ImportIntoRecord ==
    ASSUME NEW d, GoodRecord(d), NEW nodes \in Imports \cup {<<>>}, NEW core, NEW how
    PROVE  LET r == import_nodes(d, nodes, core, how)
           IN  /\ GoodRecord(r.data)
               /\ d.is = "record" => r.data.url = d.url /\ r.data.nodes = d.nodes
               /\ r.code # "backup_download_failed"
<1> DEFINE candidate == combined_nodes(<<>>, nodes)
           base == Kept(d, Blank(NoUrl), FALSE)
           new == [base EXCEPT !.manual = candidate]
           r == import_nodes(d, nodes, core, how)
<1>0. d \in Records /\ nodes \in Seq(Nodes)
  BY NodeLists DEF GoodRecord
<1>1. CASE r.data = d /\ r.code # "backup_download_failed"
  BY <1>1
<1>2. CASE ~ (r.data = d /\ r.code # "backup_download_failed")
  <2>1. Fits(nodes) /\ d.is # "corrupt" /\ r = Written(d, new, how)
    BY <1>2 DEF import_nodes, Result
  <2>2. r.data \in {d, new} /\ r.code # "backup_download_failed"
    BY <2>1 DEF Written, Put, Result
  <2>3. candidate \in Seq(Nodes) /\ Len(candidate) <= Cap /\ candidate # <<>>
    <3>1. Len(candidate) <= Len(<<>>) + Len(nodes) /\ candidate \in Seq(Nodes)
      BY <1>0, NodeLists, CombinedNodes
    <3>2. <<>> \o nodes = nodes /\ nodes # <<>> /\ Len(nodes) <= Cap
      BY <1>0, <2>1, ConcatEmptySeq DEF Fits
    <3>3. candidate # <<>>
      BY <1>0, <3>2, NodeLists, CombinedNodes
    <3>4. Len(candidate) \in Nat /\ Len(nodes) \in Nat /\ Len(<<>>) = 0
      BY <1>0, <3>1, LenProperties, EmptySeq
    <3> QED
      BY <3>1, <3>2, <3>3, <3>4, NodeLists
  <2> HIDE DEF candidate
  <2>4. /\ base \in Records /\ base.is = "record"
        /\ d.is = "record" => base = d
        /\ d.is # "record" => base.nodes = <<>>
    BY <1>0, NoRecordIsGood DEF Kept, Blank, NoRecord, Addresses
  <2> HIDE DEF base
  <2>5. (base.url = NoUrl => base.nodes = <<>>) /\ Len(base.nodes) <= Cap
    <3>1. CASE d.is = "record"
      BY <2>4, <3>1 DEF GoodRecord, Readable
    <3>2. CASE d.is # "record"
      BY <2>4, <3>2, NodeLists
    <3> QED
      BY <3>1, <3>2
  <2>6. /\ new \in Records /\ new.is = "record" /\ new.url = base.url
        /\ new.nodes = base.nodes /\ new.manual = candidate
    BY <2>3, <2>4 DEF Records
  <2> HIDE DEF new
  <2>7. GoodRecord(new)
    BY <2>3, <2>5, <2>6 DEF GoodRecord, Readable
  <2> QED
    BY <2>2, <2>4, <2>6, <2>7
<1> QED
  BY <1>1, <1>2

\* What a removal leaves: of the subscription the manual nodes, of those the
\* subscription
LEMMA RemovalFromRecord ==
    ASSUME NEW d, GoodRecord(d), NEW how
    PROVE  LET r == remove(d, how)
               m == remove_manual(d, how)
           IN  /\ GoodRecord(r.data) /\ GoodRecord(m.data)
               /\ d.is = "record" => /\ r.data.manual = d.manual
                                     /\ m.data.url = d.url /\ m.data.nodes = d.nodes
               /\ "backup_download_failed" \notin {r.code, m.code}
<1> DEFINE r == remove(d, how)
           m == remove_manual(d, how)
           un == Unsubscribed(d)
           bare == [d EXCEPT !.manual = <<>>]
<1>1. d \in Records /\ Cap \in Nat /\ <<>> \in Seq(Nodes) /\ Len(<<>>) = 0
  BY NodeLists DEF GoodRecord
<1>2. \A new, h : /\ Written(d, new, h).data \in {d, new}
                  /\ Written(d, new, h).code # "backup_download_failed"
  BY DEF Written, Put, Result
<1>3. /\ RemoveFile(d, how).data \in {d, NoRecord}
      /\ RemoveFile(d, how).code # "backup_download_failed"
  BY <1>2 DEF RemoveFile, Result
<1>4. /\ d.manual # <<>> => GoodRecord(un)
      /\ un.manual = d.manual
  <2>1. un = [d EXCEPT !.url = NoUrl, !.nodes = <<>>, !.success = Never, !.error = FALSE]
    BY DEF Unsubscribed
  <2>2. un \in Records /\ un.is = d.is /\ un.url = NoUrl /\ un.nodes = <<>> /\ un.manual = d.manual
    <3>1. ASSUME NEW error \in BOOLEAN, NEW time \in Int,
                 NEW x, x = [d EXCEPT !.url = NoUrl, !.nodes = <<>>, !.success = time, !.error = error]
          PROVE  /\ x \in Records /\ x.is = d.is /\ x.url = NoUrl /\ x.nodes = <<>>
                 /\ x.manual = d.manual
      BY <1>1, <3>1 DEF Records, Addresses
    <3>2. Never \in Int
      BY DEF Never
    <3> HIDE DEF un
    <3> QED
      BY <2>1, <3>1, <3>2, Zenon
  <2> HIDE DEF un
  <2> QED
    BY <1>1, <2>2 DEF GoodRecord, Readable
<1>5. /\ d.url # NoUrl => GoodRecord(bare)
      /\ bare.url = d.url /\ bare.nodes = d.nodes
  <2>1. /\ bare \in Records /\ bare.is = d.is /\ bare.url = d.url /\ bare.nodes = d.nodes
        /\ bare.manual = <<>>
    BY <1>1 DEF Records
  <2> HIDE DEF bare
  <2> QED
    BY <1>1, <2>1 DEF GoodRecord, Readable
<1> HIDE DEF un, bare
<1>6. /\ GoodRecord(r.data) /\ (d.is = "record" => r.data.manual = d.manual)
      /\ r.code # "backup_download_failed"
  <2>1. CASE d.is = "record" /\ d.manual # <<>>
    <3>1. r = Written(d, un, how)
      BY <2>1 DEF remove, un
    <3> QED
      BY <1>2, <1>4, <2>1, <3>1
  <2>2. CASE ~ (d.is = "record" /\ d.manual # <<>>)
    <3>1. r = RemoveFile(d, how)
      BY <2>2 DEF remove
    <3> QED
      BY <1>3, <2>2, <3>1, NoRecordIsGood
  <2> QED
    BY <2>1, <2>2
<1>7. /\ GoodRecord(m.data)
      /\ d.is = "record" => m.data.url = d.url /\ m.data.nodes = d.nodes
      /\ m.code # "backup_download_failed"
  <2>1. CASE d.is # "record"
    <3>1. m.data = d /\ m.code \in {"backup_source_invalid", "ok"}
      BY <1>1, <2>1 DEF remove_manual, Result, Records
    <3> QED
      BY <2>1, <3>1
  <2>2. CASE d.is = "record" /\ d.url = NoUrl
    <3>1. m = RemoveFile(d, how) /\ d.nodes = <<>>
      BY <2>2 DEF remove_manual, GoodRecord, Readable
    <3> QED
      BY <1>3, <2>2, <3>1, NoRecordIsGood
  <2>3. CASE d.is = "record" /\ d.url # NoUrl
    <3>1. m = Written(d, bare, how)
      BY <2>3 DEF remove_manual, bare
    <3> QED
      BY <1>2, <1>5, <2>3, <3>1
  <2> QED
    BY <2>1, <2>2, <2>3
<1> QED
  BY <1>6, <1>7

-----------------------------------------------------------------------------
(* The airport *)

\* What goes together: a document and the link it was fetched from
Together(made) ==
    /\ made.code = "ok" => made.document = made.source_url
    /\ made.code # "backup_download_failed"

LEMMA OperationsGoTogether ==
    ASSUME NEW w, w.portal \in PortalStates, NEW a, NEW page, NEW url, NEW first, NEW second
    PROVE  /\ Together(configure_airport_portal(w, page, first, second))
           /\ Together(replace_airport_source(w, a, url))
           /\ Together(refresh_airport(w, a))
           /\ Together(auto_refresh_airport(w, a, first, second))
<1>1. \A v, link : LET download == download_airport_document(v, link)
                   IN  /\ download.ok => download.link = link
                       /\ ~download.ok => download.code \notin {"ok", "backup_download_failed"}
  BY DEF download_airport_document, Got, Failed
<1>2. LET link == generate_source_url(first, second) IN ~link.ok => link.code \notin {"ok", "backup_download_failed"}
  BY DEF generate_source_url, _validated_source_url, Got, Failed
<1>3. LET opened == activate(w) IN ~opened.ok => opened.code \notin {"ok", "backup_download_failed"}
  BY DEF activate, Got, Failed, PortalError, PortalStates
<1>4. \A code : code \notin {"ok", "backup_download_failed"} => Together(Ends(code))
  BY DEF Together, Ends
<1>5. \A link, p : Together(Replaces(link, p, link))
  BY DEF Together, Replaces
<1>6. \A p : Together(FromPage(w, p, first, second))
  BY <1>1, <1>2, <1>4, <1>5 DEF FromPage
<1>7. Together(configure_airport_portal(w, page, first, second))
  BY <1>3, <1>4, <1>6 DEF configure_airport_portal
<1>8. \A u : Together(replace_airport_source(w, a, u))
  BY <1>1, <1>4, <1>5 DEF replace_airport_source
<1>9. Together(refresh_airport(w, a))
  BY <1>4, <1>8 DEF refresh_airport
<1>10. Together(auto_refresh_airport(w, a, first, second))
  <2> DEFINE again == download_airport_document(Opened(w), a.source_url)
             opened == activate(w)
  <2>1. again.ok => again.link = a.source_url
    BY <1>1
  <2>2. ~opened.ok => opened.code \notin {"ok", "backup_download_failed"}
    BY <1>3
  <2> HIDE DEF again, opened
  <2>3. auto_refresh_airport(w, a, first, second) = Chain(w, again, a, first, second)
    BY DEF auto_refresh_airport, again
  <2>4. Together(Chain(w, again, a, first, second))
    BY <1>4, <1>5, <1>6, <2>1, <2>2 DEF Chain, opened
  <2> QED
    BY <2>3, <2>4
<1> QED
  BY <1>7, <1>8, <1>9, <1>10

-----------------------------------------------------------------------------
(* The inductive invariant *)

\* A call has an error to report when it has ended, or when the timer has turned
\* from the backup to the airport; the airport's operations have no second hold.
CallOK(c) ==
    /\ c = [kind |-> c.kind, at |-> c.at, code |-> c.code, url |-> c.url]
    /\ c.url \in Addresses
    /\ c.at # "idle" /\ c.kind # "auto" => c.code = "none"
    /\ c.at \in {"changed", "syncing"} => c.kind # "auto"

CallsOK ==
    /\ call = [a \in Actors |-> call[a]]
    /\ \A a \in Actors : CallOK(call[a])

AirportOK ==
    /\ airport.activation_url = Page => airport.saved
    /\ AirportComesTogether

WebOK == web \in [portal : PortalStates, enabled : BOOLEAN, alive : SUBSET Links]

SourcesInv ==
    /\ GoodRecord(backup)
    /\ AirportOK
    /\ WebOK
    /\ now \in Int
    /\ CallsOK

LEMMA CallChanges ==
    ASSUME CallsOK, NEW a \in Actors, NEW c, CallOK(c), call' = [call EXCEPT ![a] = c]
    PROVE  CallsOK' /\ call'[a] = c
<1>1. /\ call' = [b \in Actors |-> call'[b]]
      /\ call'[a] = c /\ \A b \in Actors : b # a => call'[b] = call[b]
  BY DEF CallsOK
<1> QED
  BY <1>1 DEF CallsOK, CallOK

LEMMA DoneIsOK ==
    ASSUME NEW code
    PROVE  CallOK(Done(code)) /\ Done(code).at = "idle" /\ Done(code).code = code
  BY DEF CallOK, Done, Addresses

LEMMA CallEnds ==
    ASSUME CallsOK, NEW a \in Actors, NEW code, Over(a, code)
    PROVE  /\ CallsOK' /\ call'[a].code = code /\ call'[a].at \in {"idle", "entering"}
           /\ \A b \in Actors : b # a => call'[b] = call[b]
<1> DEFINE turned == [kind |-> "auto", at |-> "entering", code |-> code, url |-> NoUrl]
           c == IF a = Timer /\ call[a].kind \in BackupKinds /\ code # "error"
                THEN turned ELSE Done(code)
<1>1. call' = [call EXCEPT ![a] = c]
  BY DEF Over
<1>2. CallOK(turned) /\ turned.code = code /\ turned.at = "entering"
  BY DEF CallOK, Addresses
<1> HIDE DEF turned
<1>3. CallOK(c) /\ c.code = code /\ c.at \in {"idle", "entering"}
  BY <1>2, DoneIsOK
<1> HIDE DEF c
<1> QED
  BY <1>1, <1>3, CallChanges DEF CallsOK

LEMMA SourcesInvInit == SourcesInit => SourcesInv
<1> SUFFICES ASSUME SourcesInit PROVE SourcesInv
  OBVIOUS
<1>0. /\ backup \in Recorded \cup {NoRecord}
      /\ Readable(backup)
      /\ airport \in Saved \cup {NoAirport}
      /\ web = [portal |-> "open", enabled |-> FALSE, alive |-> Links]
      /\ now = 0
      /\ call = [a \in Actors |-> Done("none")]
  BY Zenon DEF SourcesInit
<1>1. GoodRecord(backup)
  <2>1. CASE backup = NoRecord
    BY <2>1, NoRecordIsGood
  <2>2. CASE backup # NoRecord
    <3>1. PICK url \in Urls \cup {NoUrl}, feed \in Feeds \cup {<<>>}, manual \in Imports \cup {<<>>} :
             backup = Holding(url, feed, manual)
      <4>1. backup \in Recorded
        BY <1>0, <2>2, Zenon
      <4> QED
        BY <4>1 DEF Recorded
    <3>2. Blank(url) \in Records /\ Blank(url).is = "record"
      BY NoRecordIsGood DEF Addresses, Blank, NoRecord
    <3>3. feed \in Seq(Nodes) /\ manual \in Seq(Nodes)
      BY NodeLists
    <3> DEFINE success == IF feed = <<>> THEN Never ELSE 0
    <3>4. success \in Int
      BY DEF Never
    <3> HIDE DEF success
    <3>5. backup = [Blank(url) EXCEPT !.nodes = feed, !.manual = manual, !.success = success]
      BY <3>1, Zenon DEF Holding, success
    <3>6. backup \in Records /\ backup.is = "record"
      BY <3>2, <3>3, <3>4, <3>5 DEF Records
    <3> QED
      BY <1>0, <3>6 DEF GoodRecord
  <2> QED
    BY <2>1, <2>2
<1>2. AirportOK
  <2>1. CASE airport = NoAirport
    BY <2>1 DEF AirportOK, AirportComesTogether, NoAirport, Page, None
  <2>2. CASE airport # NoAirport
    <3>1. airport \in Saved
      BY <1>0, <2>2, Zenon
    <3> QED
      BY <3>1 DEF Saved, AirportOK, AirportComesTogether
  <2> QED
    BY <2>1, <2>2
<1>3. WebOK
  <2>1. "open" \in PortalStates
    BY DEF PortalStates
  <2>2. \A e \in BOOLEAN : [portal |-> "open", enabled |-> e, alive |-> Links]
                              \in [portal : PortalStates, enabled : BOOLEAN, alive : SUBSET Links]
    BY <2>1
  <2> QED
    BY <1>0, <2>2, Zenon DEF WebOK
<1>4. CallsOK
  BY <1>0, DoneIsOK DEF CallsOK
<1> QED
  BY <1>0, <1>1, <1>2, <1>3, <1>4 DEF SourcesInv

\* What one hold makes of the record
LEMMA HoldConcludes ==
    ASSUME SourcesInv, NEW a \in Actors, NEW result, GoodRecord(result.data), Conclude(a, result),
           call[a].at = "changing", call[a].kind # "auto"
    PROVE  SourcesInv'
<1>1. GoodRecord(backup)'
  BY DEF Conclude
<1>2. CallsOK'
  <2>1. CASE result.code = "ok"
    <3> DEFINE c == [call[a] EXCEPT !.at = "changed"]
    <3>1. call' = [call EXCEPT ![a] = c]
      BY <2>1 DEF Conclude, SourcesInv, CallsOK, CallOK
    <3>2. CallOK(c)
      BY DEF SourcesInv, CallsOK, CallOK
    <3> HIDE DEF c
    <3> QED
      BY <3>1, <3>2, CallChanges DEF SourcesInv
  <2>2. CASE result.code # "ok"
    BY <2>2, CallEnds DEF Conclude, SourcesInv
  <2> QED
    BY <2>1, <2>2
<1> QED
  BY <1>1, <1>2 DEF Conclude, SourcesInv, AirportOK, AirportComesTogether, WebOK

LEMMA RecordChanges ==
    ASSUME SourcesInv, NEW a \in Actors, Refresh(a) \/ Import(a) \/ Delete(a)
    PROVE  SourcesInv'
<1>0. GoodRecord(backup) /\ call[a].url \in Addresses /\ NoUrl \in Addresses /\ now \in Int
  BY DEF SourcesInv, CallsOK, CallOK, Addresses
<1>1. CASE Refresh(a)
  <2>1. PICK feed \in Feeds \cup {<<>>}, core \in Cores, first \in Writes, second \in Writes :
           Conclude(a, refresh(backup, IF call[a].kind = "backup-replace" THEN call[a].url ELSE NoUrl,
                               feed, core, first, second, now))
    BY <1>1 DEF Refresh
  <2> DEFINE given == IF call[a].kind = "backup-replace" THEN call[a].url ELSE NoUrl
             result == refresh(backup, given, feed, core, first, second, now)
  <2>2. given \in Addresses
    BY <1>0
  <2>3. call[a].at = "changing" /\ call[a].kind # "auto"
    BY <1>1 DEF Refresh, At
  <2>4. Conclude(a, result)
    BY <2>1
  <2> HIDE DEF given
  <2>5. GoodRecord(result.data)
    BY <1>0, <2>2, RefreshOfRecord
  <2> HIDE DEF result
  <2> QED
    BY <2>3, <2>4, <2>5, HoldConcludes
<1>2. CASE Import(a)
  <2>1. PICK nodes \in Imports \cup {<<>>}, core \in Cores, how \in Writes :
           Conclude(a, import_nodes(backup, nodes, core, how))
    BY <1>2 DEF Import
  <2>2. call[a].at = "changing" /\ call[a].kind # "auto"
    BY <1>2 DEF Import, At
  <2>3. GoodRecord(import_nodes(backup, nodes, core, how).data)
    BY <1>0, ImportIntoRecord
  <2> QED
    BY <2>1, <2>2, <2>3, HoldConcludes
<1>3. CASE Delete(a)
  <2>1. PICK how \in Writes :
           Conclude(a, IF call[a].kind = "backup-remove" THEN remove(backup, how)
                       ELSE remove_manual(backup, how))
    BY <1>3 DEF Delete
  <2>2. call[a].at = "changing" /\ call[a].kind # "auto"
    BY <1>3 DEF Delete, At
  <2>3. GoodRecord(remove(backup, how).data) /\ GoodRecord(remove_manual(backup, how).data)
    BY <1>0, RemovalFromRecord
  <2> QED
    BY <2>1, <2>2, <2>3, HoldConcludes
<1> QED
  BY <1>1, <1>2, <1>3

LEMMA OutcomesGoTogether ==
    ASSUME SourcesInv, NEW kind \in AirportKinds, NEW made \in Outcomes(kind)
    PROVE  Together(made)
<1>1. web.portal \in PortalStates
  BY DEF SourcesInv, WebOK
<1>2. kind \in {"auto", "refresh", "replace", "configure"}
  BY DEF AirportKinds
<1>3. CASE kind = "auto"
  <2>1. \E pair \in PostPairs : made = auto_refresh_airport(web, airport, pair[1], pair[2])
    BY <1>3 DEF Outcomes
  <2> QED
    BY <1>1, <2>1, OperationsGoTogether
<1>4. CASE kind = "configure"
  <2>1. \E pair \in PostPairs : made = configure_airport_portal(web, Page, pair[1], pair[2])
    BY <1>4 DEF Outcomes
  <2> QED
    BY <1>1, <2>1, OperationsGoTogether
<1>5. CASE kind = "replace"
  <2>1. \E url \in Links \cup {Foreign} : made = replace_airport_source(web, airport, url)
    BY <1>5 DEF Outcomes
  <2> QED
    BY <1>1, <2>1, OperationsGoTogether
<1>6. CASE kind = "refresh"
  <2>1. made = refresh_airport(web, airport)
    BY <1>6 DEF Outcomes
  <2> QED
    BY <1>1, <2>1, OperationsGoTogether
<1> QED
  BY <1>2, <1>3, <1>4, <1>5, <1>6

LEMMA AirportIsRenewed ==
    ASSUME SourcesInv, NEW a \in Actors, RenewAirport(a)
    PROVE  SourcesInv'
<1>1. PICK made \in Outcomes(call[a].kind), stored \in BOOLEAN :
         LET code == IF made.code = "ok" /\ ~stored THEN "airport_provider_write_failed" ELSE made.code
         IN  /\ airport' = IF code = "ok" THEN _replace_airport(made, now) ELSE airport
             /\ Over(a, code)
  BY DEF RenewAirport
<1>2. Together(made)
  BY <1>1, OutcomesGoTogether DEF RenewAirport
<1>3. AirportOK'
  <2>1. airport' = airport \/ (made.code = "ok" /\ airport' = _replace_airport(made, now))
    BY <1>1
  <2> QED
    BY <1>2, <2>1 DEF SourcesInv, AirportOK, AirportComesTogether, Together, _replace_airport
<1>4. WebOK'
  <2>1. web' = web \/ web' = Opened(web)
    BY DEF RenewAirport
  <2> QED
    BY <2>1 DEF SourcesInv, WebOK, Opened
<1>5. CallsOK'
  BY <1>1, CallEnds DEF SourcesInv
<1> QED
  BY <1>3, <1>4, <1>5 DEF SourcesInv, RenewAirport

LEMMA SyncEnds ==
    ASSUME SourcesInv, NEW a \in Actors, Sync(a) \/ SyncRefused(a) \/ SyncFails(a)
    PROVE  SourcesInv'
<1>1. \E code : Over(a, code)
  BY DEF Sync, SyncRefused, SyncFails
<1>2. CallsOK'
  BY <1>1, CallEnds DEF SourcesInv
<1> QED
  BY <1>2 DEF SourcesInv, AirportOK, AirportComesTogether, WebOK, Sync, SyncRefused, SyncFails

LEMMA OtherSteps ==
    ASSUME SourcesInv,
           \/ \E kind \in Kinds : Ask(kind)
           \/ Fire \/ CheckDue \/ Tick \/ WebTurns \/ Damage
           \/ \E a \in Actors : Enter(a) \/ KillProcess(a)
           \/ UNCHANGED sourcesVars
    PROVE  SourcesInv'
<1> USE DEF SourcesInv
<1>0. /\ CallsOK
      /\ \A a \in Actors : CallOK(call[a])
      /\ Operator \in Actors /\ Timer \in Actors
  BY DEF CallsOK, Actors
<1> DEFINE Rest == UNCHANGED <<backup, airport, web, now>>
<1>1. ASSUME CallsOK', Rest
      PROVE  SourcesInv'
  BY <1>1 DEF AirportOK, AirportComesTogether, WebOK
<1>2. ASSUME NEW kind \in Kinds, Ask(kind)
      PROVE  SourcesInv'
  <2>1. PICK url \in Addresses :
           call' = [call EXCEPT ![Operator] = [kind |-> kind, at |-> "entering", code |-> "none", url |-> url]]
    BY <1>2 DEF Ask, Addresses
  <2>2. CallOK([kind |-> kind, at |-> "entering", code |-> "none", url |-> url])
    BY DEF CallOK
  <2>3. CallsOK'
    BY <1>0, <2>1, <2>2, CallChanges
  <2> QED
    BY <1>1, <1>2, <2>3 DEF Ask
<1>3. CASE Fire
  <2> DEFINE c == [kind |-> "backup-refresh", at |-> "due", code |-> "none", url |-> NoUrl]
  <2>1. call' = [call EXCEPT ![Timer] = c] /\ CallOK(c)
    BY <1>3 DEF Fire, CallOK, Addresses
  <2> HIDE DEF c
  <2>2. CallsOK'
    BY <1>0, <2>1, CallChanges
  <2> QED
    BY <1>1, <1>3, <2>2 DEF Fire
<1>4. CASE CheckDue
  <2>1. CallsOK'
    <3>1. CASE Due(backup)
      <4> DEFINE c == [call[Timer] EXCEPT !.at = "entering", !.url = backup.url]
      <4>1. call' = [call EXCEPT ![Timer] = c]
        BY <1>0, <1>4, <3>1 DEF CheckDue, CallsOK
      <4>2. CallOK(c)
        <5>1. backup.url \in Addresses
          BY DEF GoodRecord, Records
        <5>2. CallOK(call[Timer]) /\ call[Timer].at = "due"
          BY <1>0, <1>4 DEF CheckDue, At
        <5>3. ASSUME NEW d, CallOK(d), d.at = "due", NEW url \in Addresses
              PROVE  CallOK([d EXCEPT !.at = "entering", !.url = url])
          <6> DEFINE x == [d EXCEPT !.at = "entering"]
                     y == [x EXCEPT !.url = url]
          <6>1. x = [kind |-> d.kind, at |-> "entering", code |-> d.code, url |-> d.url]
            BY <5>3 DEF CallOK
          <6>2. d.kind # "auto" => d.code = "none"
            BY <5>3 DEF CallOK
          <6> HIDE DEF x
          <6>3. y = [kind |-> d.kind, at |-> "entering", code |-> d.code, url |-> url]
            BY <6>1
          <6>4. CallOK(y)
            BY <6>2, <6>3 DEF CallOK
          <6> QED
            BY <6>4 DEF x
        <5> QED
          BY <5>1, <5>2, <5>3
      <4> HIDE DEF c
      <4> QED
        BY <1>0, <4>1, <4>2, CallChanges
    <3>2. CASE ~Due(backup)
      <4>1. \E code : Over(Timer, code)
        BY <1>4, <3>2 DEF CheckDue
      <4> QED
        BY <1>0, <4>1, CallEnds
    <3> QED
      BY <3>1, <3>2
  <2> QED
    BY <1>1, <1>4, <2>1 DEF CheckDue
<1>5. CASE Tick
  BY <1>5 DEF Tick, AirportOK, AirportComesTogether, WebOK, CallsOK
<1>6. CASE WebTurns
  <2>1. WebOK'
    <3>1. CASE \E state \in PortalStates \ {web.portal} : web' = [web EXCEPT !.portal = state]
      BY <3>1 DEF WebOK
    <3>2. CASE \E link \in Links : web' = [web EXCEPT !.alive = SymDiff(@, {link})]
      <4>1. PICK link \in Links : web' = [web EXCEPT !.alive = SymDiff(@, {link})]
        BY <3>2
      <4>2. SymDiff(web.alive, {link}) \in SUBSET Links
        BY DEF WebOK, SymDiff
      <4> QED
        BY <4>1, <4>2 DEF WebOK
    <3>3. CASE web' = [web EXCEPT !.enabled = FALSE]
      <4>1. \A e \in BOOLEAN : [web EXCEPT !.enabled = e]
                               \in [portal : PortalStates, enabled : BOOLEAN, alive : SUBSET Links]
        BY DEF WebOK
      <4> QED
        BY <3>3, <4>1, Zenon DEF WebOK
    <3> QED
      BY <1>6, <3>1, <3>2, <3>3 DEF WebTurns
  <2> QED
    BY <1>6, <2>1 DEF WebTurns, AirportOK, AirportComesTogether, CallsOK
<1>7. CASE Damage
  BY <1>7, NoRecordIsGood DEF Damage, AirportOK, AirportComesTogether, WebOK, CallsOK
<1>8. ASSUME NEW a \in Actors, Enter(a)
      PROVE  SourcesInv'
  <2>1. CallsOK'
    <3>1. CASE holder = Free
      <4> DEFINE where == IF At(a, "changed") \/ call[a].kind = "sync" THEN "syncing" ELSE "changing"
                 c == [call[a] EXCEPT !.at = where]
      <4>1. call' = [call EXCEPT ![a] = c]
        BY <1>0, <1>8, <3>1 DEF Enter, CallsOK
      <4>2. CallOK(c)
        <5>1. /\ CallOK(call[a]) /\ call[a].at \in {"entering", "changed"}
              /\ where \in {"syncing", "changing"}
              /\ where = "syncing" => call[a].at = "changed" \/ call[a].kind = "sync"
          BY <1>0, <1>8 DEF Enter, At
        <5> HIDE DEF where
        <5> QED
          BY <5>1 DEF CallOK
      <4> HIDE DEF c
      <4> QED
        BY <1>0, <4>1, <4>2, CallChanges
    <3>2. CASE holder # Free
      BY <1>0, <1>8, <3>2, CallEnds DEF Enter
    <3> QED
      BY <3>1, <3>2
  <2> QED
    BY <1>1, <1>8, <2>1 DEF Enter
<1>9. ASSUME NEW a \in Actors, KillProcess(a)
      PROVE  SourcesInv'
  <2>1. call' = [call EXCEPT ![a] = Done("killed")]
    BY <1>9 DEF KillProcess
  <2>2. CallsOK'
    BY <1>0, <2>1, DoneIsOK, CallChanges
  <2> QED
    BY <1>1, <1>9, <2>2 DEF KillProcess
<1>10. CASE UNCHANGED sourcesVars
  BY <1>10 DEF sourcesVars, AirportOK, AirportComesTogether, WebOK, CallsOK
<1> QED
  BY <1>2, <1>3, <1>4, <1>5, <1>6, <1>7, <1>8, <1>9, <1>10

LEMMA SourcesInvNext == SourcesInv /\ [SourcesNext]_sourcesVars => SourcesInv'
<1> SUFFICES ASSUME SourcesInv, [SourcesNext]_sourcesVars PROVE SourcesInv'
  OBVIOUS
<1>1. ASSUME NEW a \in Actors, Refresh(a) \/ Import(a) \/ Delete(a)
      PROVE  SourcesInv'
  BY <1>1, RecordChanges
<1>2. ASSUME NEW a \in Actors, Sync(a) \/ SyncRefused(a) \/ SyncFails(a)
      PROVE  SourcesInv'
  BY <1>2, SyncEnds
<1>3. ASSUME NEW a \in Actors, RenewAirport(a)
      PROVE  SourcesInv'
  BY <1>3, AirportIsRenewed
<1> QED
  BY <1>1, <1>2, <1>3, OtherSteps DEF SourcesNext

LEMMA SourcesInvHolds == SourcesSpec => []SourcesInv
<1> QED
  BY SourcesInvInit, SourcesInvNext, PTL DEF SourcesSpec

-----------------------------------------------------------------------------
(* Who ends a hold *)

\* A step that changes an actor's call is this actor's own.
LEMMA OwnSteps ==
    ASSUME SourcesInv, [SourcesNext]_sourcesVars, NEW a \in Actors,
           At(a, "changing") \/ At(a, "syncing"), call'[a].code # "killed"
    PROVE  \/ call'[a] = call[a]
           \/ Refresh(a) \/ Import(a) \/ Delete(a) \/ RenewAirport(a)
           \/ Sync(a) \/ SyncRefused(a) \/ SyncFails(a)
<1>0. CallsOK /\ call[a].at \in {"changing", "syncing"}
  BY DEF SourcesInv, At
<1>1. \A b \in Actors : \A c : b # a /\ call' = [call EXCEPT ![b] = c] => call'[a] = call[a]
  BY <1>0 DEF CallsOK
<1>2. \A b \in Actors : \A code : b # a /\ Over(b, code) => call'[a] = call[a]
  BY <1>0, CallEnds
<1>3. CASE \E kind \in Kinds : Ask(kind)
  <2>1. PICK c : call' = [call EXCEPT ![Operator] = c]
    BY <1>3 DEF Ask
  <2>2. Operator # a /\ Operator \in Actors
    BY <1>0, <1>3 DEF Ask, At, Actors
  <2> QED
    BY <1>1, <2>1, <2>2
<1>4. CASE Fire
  <2>1. PICK c : call' = [call EXCEPT ![Timer] = c]
    BY <1>4 DEF Fire
  <2>2. Timer # a /\ Timer \in Actors
    BY <1>0, <1>4 DEF Fire, At, Actors
  <2> QED
    BY <1>1, <2>1, <2>2
<1>5. CASE CheckDue
  <2>1. Timer # a /\ Timer \in Actors
    BY <1>0, <1>5 DEF CheckDue, At, Actors
  <2>2. CASE Due(backup)
    <3>1. call' = [call EXCEPT ![Timer].at = "entering", ![Timer].url = backup.url]
      BY <1>5, <2>2 DEF CheckDue
    <3> QED
      BY <1>0, <2>1, <3>1 DEF CallsOK
  <2>3. CASE ~Due(backup)
    BY <1>2, <1>5, <2>1, <2>3 DEF CheckDue
  <2> QED
    BY <2>2, <2>3
<1>6. CASE Tick \/ WebTurns \/ Damage \/ UNCHANGED sourcesVars
  BY <1>6 DEF Tick, WebTurns, Damage, sourcesVars
<1>7. ASSUME NEW b \in Actors, Enter(b)
      PROVE  call'[a] = call[a]
  <2>1. b # a
    BY <1>0, <1>7 DEF Enter
  <2>2. CASE holder = Free
    <3>1. PICK where : call' = [call EXCEPT ![b].at = where]
      BY <1>7, <2>2 DEF Enter
    <3> QED
      BY <1>0, <2>1, <3>1 DEF CallsOK
  <2>3. CASE holder # Free
    BY <1>2, <1>7, <2>1, <2>3 DEF Enter
  <2> QED
    BY <2>2, <2>3
<1>8. ASSUME NEW b \in Actors, b # a, Refresh(b) \/ Import(b) \/ Delete(b)
      PROVE  call'[a] = call[a]
  <2>1. PICK result : Conclude(b, result)
    BY <1>8 DEF Refresh, Import, Delete
  <2>2. CASE result.code = "ok"
    <3>1. call' = [call EXCEPT ![b].at = "changed"]
      BY <2>1, <2>2 DEF Conclude
    <3> QED
      BY <1>0, <1>8, <3>1 DEF CallsOK
  <2>3. CASE result.code # "ok"
    BY <1>2, <1>8, <2>1, <2>3 DEF Conclude
  <2> QED
    BY <2>2, <2>3
<1>9. ASSUME NEW b \in Actors, b # a, Sync(b) \/ SyncRefused(b) \/ SyncFails(b) \/ RenewAirport(b)
      PROVE  call'[a] = call[a]
  <2>1. \E code : Over(b, code)
    BY <1>9 DEF Sync, SyncRefused, SyncFails, RenewAirport
  <2> QED
    BY <1>2, <1>9, <2>1
<1>10. ASSUME NEW b \in Actors, KillProcess(b)
       PROVE  call'[a] = call[a]
  <2>1. call' = [call EXCEPT ![b] = Done("killed")]
    BY <1>10 DEF KillProcess
  <2>2. b # a
    BY <1>0, <2>1, DoneIsOK DEF CallsOK
  <2> QED
    BY <1>1, <2>1, <2>2
<1> QED
  BY <1>3, <1>4, <1>5, <1>6, <1>7, <1>8, <1>9, <1>10 DEF SourcesNext

LEMMA ChangingEnds ==
    ASSUME SourcesInv, [SourcesNext]_sourcesVars, NEW a \in Actors, Changed(a)
    PROVE  /\ Refresh(a) \/ Import(a) \/ Delete(a) \/ RenewAirport(a)
           /\ call[a].at = "changing"
<1>1. /\ call[a].at = "changing" /\ call'[a].at # "changing"
      /\ At(a, "changing") /\ call'[a].code # "killed"
  BY DEF Changed, At
<1>2. ~Sync(a) /\ ~SyncRefused(a) /\ ~SyncFails(a)
  BY <1>1 DEF Sync, SyncRefused, SyncFails, At
<1> QED
  BY <1>1, <1>2, OwnSteps

LEMMA SyncingEnds ==
    ASSUME SourcesInv, [SourcesNext]_sourcesVars, NEW a \in Actors,
           At(a, "syncing"), call'[a].code = "ok"
    PROVE  Sync(a)
<1>1. call[a].at = "syncing" /\ call[a].code = "none"
  BY DEF SourcesInv, CallsOK, CallOK, At
<1>2. ~Refresh(a) /\ ~Import(a) /\ ~Delete(a) /\ ~RenewAirport(a)
  BY <1>1 DEF Refresh, Import, Delete, RenewAirport, At
<1>3. ~SyncRefused(a) /\ ~SyncFails(a)
  <2>1. \A code : Over(a, code) => call'[a].code = code
    BY CallEnds DEF SourcesInv
  <2> QED
    BY <2>1 DEF SyncRefused, SyncFails
<1> QED
  BY <1>1, <1>2, <1>3, OwnSteps

-----------------------------------------------------------------------------
(* What each source keeps *)

\* What a hold of an operation that changes the record makes of it
LEMMA HoldKeeps ==
    ASSUME SourcesInv, NEW a \in Actors, backup.is = "record",
           Refresh(a) \/ Import(a) \/ Delete(a)
    PROVE  /\ call[a].kind \in {"backup-refresh", "backup-replace", "backup-remove"} =>
                  backup'.manual = backup.manual
           /\ call[a].kind \in {"backup-import", "backup-remove-manual"} =>
                  backup'.url = backup.url /\ backup'.nodes = backup.nodes
           /\ call[a].kind = "backup-refresh" => backup'.url = backup.url
           /\ call'[a].code = "backup_download_failed" => backup' = Erred(backup)
<1>0. /\ GoodRecord(backup) /\ CallsOK /\ now \in Int
      /\ call[a].url \in Addresses /\ NoUrl \in Addresses
  BY DEF SourcesInv, CallsOK, CallOK, Addresses
<1>1. \A result : Conclude(a, result) =>
         /\ backup' = result.data
         /\ call'[a].code = "backup_download_failed" => result.code = "backup_download_failed"
  <2> SUFFICES ASSUME NEW result, Conclude(a, result)
               PROVE  /\ backup' = result.data
                      /\ call'[a].code = "backup_download_failed" => result.code = "backup_download_failed"
    OBVIOUS
  <2>1. CASE result.code = "ok"
    <3>1. call' = [call EXCEPT ![a].at = "changed"]
      BY <2>1 DEF Conclude
    <3>2. call'[a] = [call[a] EXCEPT !.at = "changed"]
      BY <1>0, <3>1 DEF CallsOK
    <3>3. CallOK(call[a]) /\ call[a].at = "changing" /\ call[a].kind # "auto"
      BY <1>0 DEF CallsOK, Refresh, Import, Delete, At
    <3>4. call'[a].code = "none"
      BY <3>2, <3>3 DEF CallOK
    <3> QED
      BY <3>4 DEF Conclude
  <2>2. CASE result.code # "ok"
    <3>1. call'[a].code = result.code
      BY <1>0, <2>2, CallEnds DEF Conclude
    <3> QED
      BY <3>1 DEF Conclude
  <2> QED
    BY <2>1, <2>2
<1>2. CASE Refresh(a)
  <2> DEFINE given == IF call[a].kind = "backup-replace" THEN call[a].url ELSE NoUrl
  <2>1. PICK feed \in Feeds \cup {<<>>}, core \in Cores, first \in Writes, second \in Writes :
           Conclude(a, refresh(backup, given, feed, core, first, second, now))
    BY <1>2 DEF Refresh
  <2> DEFINE result == refresh(backup, given, feed, core, first, second, now)
  <2>2. /\ given \in Addresses
        /\ call[a].kind = "backup-refresh" => given = NoUrl
        /\ call[a].kind \in {"backup-replace", "backup-refresh"}
    BY <1>0, <1>2 DEF Refresh
  <2>3. Conclude(a, result)
    BY <2>1
  <2> HIDE DEF given
  <2>4. /\ result.data.manual = backup.manual
        /\ given = NoUrl => result.data.url = backup.url
        /\ result.code = "backup_download_failed" => result.data = Erred(backup)
    <3>1. GoodRecord(backup) /\ given \in Addresses /\ feed \in Feeds \cup {<<>>} /\ now \in Int
      BY <1>0, <2>2
    <3>2. /\ backup.is = "record" =>
                 /\ result.data.manual = backup.manual
                 /\ given = NoUrl => result.data.url = backup.url
                 /\ result.code = "backup_download_failed" => result.data = Erred(backup)
      BY <3>1, RefreshOfRecord
    <3> QED
      BY <3>2
  <2> HIDE DEF result
  <2>5. /\ backup' = result.data
        /\ call'[a].code = "backup_download_failed" => result.code = "backup_download_failed"
    BY <1>1, <2>3
  <2> QED
    BY <2>2, <2>4, <2>5
<1>3. CASE Import(a)
  <2>1. PICK nodes \in Imports \cup {<<>>}, core \in Cores, how \in Writes :
           Conclude(a, import_nodes(backup, nodes, core, how))
    BY <1>3 DEF Import
  <2> DEFINE result == import_nodes(backup, nodes, core, how)
  <2>2. call[a].kind = "backup-import"
    BY <1>3 DEF Import
  <2>3. /\ result.data.url = backup.url /\ result.data.nodes = backup.nodes
        /\ result.code # "backup_download_failed"
    BY <1>0, ImportIntoRecord
  <2>4. Conclude(a, result)
    BY <2>1
  <2> HIDE DEF result
  <2> QED
    BY <1>1, <2>2, <2>3, <2>4
<1>4. CASE Delete(a)
  <2>1. PICK how \in Writes :
           Conclude(a, IF call[a].kind = "backup-remove" THEN remove(backup, how)
                       ELSE remove_manual(backup, how))
    BY <1>4 DEF Delete
  <2> DEFINE r == remove(backup, how)
             m == remove_manual(backup, how)
  <2>2. call[a].kind \in {"backup-remove", "backup-remove-manual"}
    BY <1>4 DEF Delete
  <2>3. /\ r.data.manual = backup.manual
        /\ m.data.url = backup.url /\ m.data.nodes = backup.nodes
        /\ r.code # "backup_download_failed" /\ m.code # "backup_download_failed"
    BY <1>0, RemovalFromRecord
  <2>4. /\ call[a].kind = "backup-remove" => Conclude(a, r)
        /\ call[a].kind = "backup-remove-manual" => Conclude(a, m)
    BY <2>1, <2>2
  <2> HIDE DEF r, m
  <2> QED
    BY <1>1, <2>2, <2>3, <2>4
<1> QED
  BY <1>2, <1>3, <1>4

\* What a hold of an airport operation leaves alone
LEMMA AirportHoldKeeps ==
    ASSUME SourcesInv, NEW a \in Actors, RenewAirport(a)
    PROVE  /\ UNCHANGED backup
           /\ call[a].kind \notin {"backup-refresh", "backup-replace", "backup-remove",
                                   "backup-import", "backup-remove-manual"}
           /\ call'[a].code # "backup_download_failed"
<1>1. call[a].kind \in AirportKinds /\ UNCHANGED backup
  BY DEF RenewAirport
<1>2. PICK made \in Outcomes(call[a].kind) : \E code :
         /\ code = made.code \/ code = "airport_provider_write_failed"
         /\ Over(a, code)
  BY DEF RenewAirport
<1>3. PICK code : code \in {made.code, "airport_provider_write_failed"} /\ Over(a, code)
  BY <1>2
<1>4. code # "backup_download_failed"
  BY <1>1, <1>3, OutcomesGoTogether DEF Together
<1>5. call'[a].code = code
  BY <1>3, CallEnds DEF SourcesInv
<1> QED
  BY <1>1, <1>4, <1>5 DEF AirportKinds

(* A refresh or removal of the subscription keeps the manual nodes, an     *)
(* import or removal of manual nodes keeps the subscription, and a refresh *)
(* keeps the address on record, whatever other actors do between an        *)
(* actor's look at the record and its hold (service.refresh_backup_if_due).*)
THEOREM SourcesKeepTheirParts == SourcesSpec => EachKeepsItsPart
<1>1. ASSUME SourcesInv, [SourcesNext]_sourcesVars, NEW a \in Actors,
             Changed(a), backup.is = "record"
      PROVE  /\ call[a].kind \in {"backup-refresh", "backup-replace", "backup-remove"} =>
                    backup'.manual = backup.manual
             /\ call[a].kind \in {"backup-import", "backup-remove-manual"} =>
                    backup'.url = backup.url /\ backup'.nodes = backup.nodes
             /\ call[a].kind = "backup-refresh" => backup'.url = backup.url
  BY <1>1, ChangingEnds, HoldKeeps, AirportHoldKeeps
<1>2. SourcesInv /\ [SourcesNext]_sourcesVars =>
         [\A a \in Actors : Changed(a) /\ backup.is = "record" =>
           /\ call[a].kind \in {"backup-refresh", "backup-replace", "backup-remove"} =>
                  backup'.manual = backup.manual
           /\ call[a].kind \in {"backup-import", "backup-remove-manual"} =>
                  backup'.url = backup.url /\ backup'.nodes = backup.nodes
           /\ call[a].kind = "backup-refresh" => backup'.url = backup.url]_sourcesVars
  BY <1>1
<1> QED
  BY <1>2, SourcesInvHolds, PTL DEF SourcesSpec, EachKeepsItsPart

(* No operation leaves a record that the next one refuses to read, however *)
(* its downloads, checks and writes fail (backup_subscription.read).       *)
THEOREM RecordsStayReadable == SourcesSpec => []RecordIsReadable
<1>1. SourcesInv => RecordIsReadable
  BY DEF SourcesInv, GoodRecord, RecordIsReadable
<1> QED
  BY <1>1, SourcesInvHolds, PTL

(* The provider file is the document of the link on record, whichever link *)
(* of a refresh succeeded (service._replace_airport).                      *)
THEOREM AirportStaysTogether == SourcesSpec => []AirportComesTogether
<1>1. SourcesInv => AirportComesTogether
  BY DEF SourcesInv, AirportOK
<1> QED
  BY <1>1, SourcesInvHolds, PTL

(* A refresh that reports a failed download keeps the record's address and *)
(* nodes, also when the failure comes after the new record has been        *)
(* written (backup_subscription.refresh).                                  *)
THEOREM FailuresKeepNodes == SourcesSpec => FailureKeepsNodes
<1>1. ASSUME SourcesInv, [SourcesNext]_sourcesVars, NEW a \in Actors, Changed(a),
             call'[a].code = "backup_download_failed", backup.is = "record"
      PROVE  backup' = Erred(backup)
  <2>1. ~RenewAirport(a)
    BY <1>1, AirportHoldKeeps
  <2> QED
    BY <1>1, <2>1, ChangingEnds, HoldKeeps
<1>2. SourcesInv /\ [SourcesNext]_sourcesVars =>
         [\A a \in Actors :
             Changed(a) /\ call'[a].code = "backup_download_failed" /\ backup.is = "record" =>
                 backup' = [backup EXCEPT !.error = TRUE]]_sourcesVars
  BY <1>1, Zenon DEF Erred
<1> QED
  BY <1>2, SourcesInvHolds, PTL DEF SourcesSpec, FailureKeepsNodes

(* As long as its page opens, a link that is alive is renewed under the    *)
(* same address by the daily refresh, also when it has gone to sleep since *)
(* the last visit (service.auto_refresh_airport).                          *)
THEOREM LivingLinksAreKept == SourcesSpec => LivingLinkIsKept
<1>1. ASSUME SourcesInv, [SourcesNext]_sourcesVars, NEW a \in Actors, Changed(a),
             call[a].kind = "auto", call'[a].code # "airport_provider_write_failed",
             airport.activation_url = Page, web.portal = "open", airport.source_url \in web.alive
      PROVE  airport'.source_url = airport.source_url /\ airport'.fetched = now
  <2>1. RenewAirport(a)
    <3>1. ~Refresh(a) /\ ~Import(a) /\ ~Delete(a)
      BY <1>1 DEF Refresh, Import, Delete
    <3> QED
      BY <1>1, <3>1, ChangingEnds
  <2>2. PICK made \in Outcomes("auto"), stored \in BOOLEAN :
           LET code == IF made.code = "ok" /\ ~stored THEN "airport_provider_write_failed" ELSE made.code
           IN  /\ airport' = IF code = "ok" THEN _replace_airport(made, now) ELSE airport
               /\ Over(a, code)
    BY <1>1, <2>1 DEF RenewAirport
  <2>3. PICK pair \in PostPairs : made = auto_refresh_airport(web, airport, pair[1], pair[2])
    BY <2>2 DEF Outcomes
  <2>4. airport.saved /\ Page # None
    BY <1>1 DEF SourcesInv, AirportOK, Page, None
  <2> DEFINE again == download_airport_document(Opened(web), airport.source_url)
  <2>5. again.ok /\ again.link = airport.source_url
    <3>1. Opened(web).enabled /\ Opened(web).alive = web.alive
      BY <1>1 DEF SourcesInv, WebOK, Opened
    <3> QED
      BY <1>1, <3>1 DEF download_airport_document, Got
  <2> HIDE DEF again
  <2>6. made = Chain(web, again, airport, pair[1], pair[2])
    BY <2>3 DEF auto_refresh_airport, again
  <2>7. made = Replaces(airport.source_url, airport.activation_url, again.link)
    BY <1>1, <2>4, <2>5, <2>6 DEF Chain
  <2>8. made.code = "ok" /\ made.source_url = airport.source_url
    BY <2>7 DEF Replaces
  <2>9. stored
    <3>1. \A code : Over(a, code) => call'[a].code = code
      BY <1>1, CallEnds DEF SourcesInv
    <3> QED
      BY <1>1, <2>2, <2>8, <3>1
  <2>10. airport' = _replace_airport(made, now)
    BY <2>2, <2>8, <2>9
  <2> QED
    BY <2>8, <2>10 DEF _replace_airport
<1>2. SourcesInv /\ [SourcesNext]_sourcesVars =>
         [\A a \in Actors :
             (/\ Changed(a) /\ call[a].kind = "auto" /\ call'[a].code # "airport_provider_write_failed"
              /\ airport.activation_url = Page /\ web.portal = "open" /\ airport.source_url \in web.alive) =>
                  /\ airport'.source_url = airport.source_url
                  /\ airport'.fetched = now]_sourcesVars
  BY <1>1
<1> QED
  BY <1>2, SourcesInvHolds, PTL DEF SourcesSpec, LivingLinkIsKept

\* What belongs into a profile is a merge of the record's two lists.
LEMMA WantedIsMerge ==
    ASSUME SourcesInv, backup.is # "corrupt", NEW u \in Users
    PROVE  IF u \in Excluded
           THEN Wanted(u) = <<>>
           ELSE IsMerge(backup.nodes, backup.manual, Wanted(u))
<1>0. /\ GoodRecord(backup)
      /\ backup.nodes \in Seq(Nodes) /\ backup.manual \in Seq(Nodes)
  BY DEF SourcesInv, GoodRecord, Records
<1>1. CASE u \in Excluded
  BY <1>1 DEF Wanted
<1>2. CASE u \notin Excluded /\ backup.is = "record"
  <2>1. Wanted(u) = combined_nodes(backup.nodes, backup.manual)
    BY <1>2 DEF Wanted, Merged
  <2> QED
    BY <1>0, <1>2, <2>1, CombinedNodes
<1>3. CASE u \notin Excluded /\ backup.is # "record"
  <2>1. Wanted(u) = <<>> /\ backup.nodes = <<>> /\ backup.manual = <<>>
    BY <1>0, <1>3 DEF Wanted, GoodRecord
  <2>2. <<>> \o <<>> = <<>>
    BY NodeLists, ConcatEmptySeq
  <2>3. IsMerge(<<>>, <<>>, <<>>)
    BY <2>2 DEF IsMerge, IdsOf
  <2> QED
    BY <1>3, <2>1, <2>3
<1> QED
  BY <1>1, <1>2, <1>3

(* A backup operation or sync that reports success has put the nodes that  *)
(* are on record into every eligible profile and into no other, whatever   *)
(* other actors did between its two holds; and what it has put there has   *)
(* every setting once, where it first appears, and no name twice           *)
(* (service._sync_backup_change, backup_subscription.combined_nodes).      *)
THEOREM SuccessesArePublished == SourcesSpec => OkMeansPublished
<1>1. ASSUME SourcesInv, [SourcesNext]_sourcesVars, NEW a \in Actors,
             At(a, "syncing"), call'[a].code = "ok", NEW u \in Users
      PROVE  IF u \in Excluded
             THEN published'[u] = <<>>
             ELSE IsMerge(backup'.nodes, backup'.manual, published'[u])
  <2>1. Sync(a)
    BY <1>1, SyncingEnds
  <2>2. PICK unlucky \in SUBSET Users :
           LET failed == IF backup.is = "corrupt" THEN Users ELSE unlucky \cup ReadOnlyFor(a)
           IN  /\ published' = [v \in Users |-> IF v \in failed THEN published[v] ELSE Wanted(v)]
               /\ Over(a, SyncCode(a, failed))
    BY <2>1 DEF Sync
  <2> DEFINE failed == IF backup.is = "corrupt" THEN Users ELSE unlucky \cup ReadOnlyFor(a)
  <2>3. failed = {}
    <3>1. call'[a].code = SyncCode(a, failed)
      BY <1>1, <2>2, CallEnds DEF SourcesInv
    <3>2. failed # {} => SyncCode(a, failed) # "ok"
      BY DEF SyncCode
    <3> QED
      BY <1>1, <3>1, <3>2
  <2>4. backup.is # "corrupt"
    BY <2>3
  <2>5. published'[u] = Wanted(u) /\ backup' = backup
    BY <2>1, <2>2, <2>3 DEF Sync
  <2> QED
    BY <1>1, <2>4, <2>5, WantedIsMerge
<1>2. SourcesInv /\ [SourcesNext]_sourcesVars =>
         [\A a \in Actors : At(a, "syncing") /\ call'[a].code = "ok" =>
             \A u \in Users : IF u \in Excluded
                              THEN published'[u] = <<>>
                              ELSE IsMerge(backup'.nodes, backup'.manual, published'[u])]_sourcesVars
  BY <1>1
<1> QED
  BY <1>2, SourcesInvHolds, PTL DEF SourcesSpec, OkMeansPublished
=============================================================================
