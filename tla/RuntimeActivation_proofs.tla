----------------------- MODULE RuntimeActivation_proofs -----------------------
(***************************************************************************)
(* Proofs about RuntimeActivation, for any set of paths and contents, any  *)
(* updates, and any number of faults and crashes: its type correctness,    *)
(* that it implements AtomicRuntime, that a published update is durable,   *)
(* that what a recovery establishes is a routes file nginx accepts, that   *)
(* nginx serves the routes on file, and that a failure takes the files     *)
(* back.                                                                   *)
(*                                                                         *)
(* The refinement and the durability are about runtimes whose files all    *)
(* exist before the first activation.  A rollback that has to remove a     *)
(* file skips the fsync when the file is gone already (_restore), so that  *)
(* a power loss may bring a removed marker back: without the assumption    *)
(* these two theorems are false.  The others do not need it.               *)
(***************************************************************************)
EXTENDS RuntimeActivation, TLAPS

NothingMissing == MayBeMissing = {}

-----------------------------------------------------------------------------
(* The inductive invariant *)

Agrees(f, g) == \A p \in DOMAIN g : f[p] = g[p]

\* An activation that is under way has its locals, and has not reported.
LocalsInv ==
    /\ pc \in ActivationSteps \/ task = "activate" =>
         target \in Update /\ outcome = "none"
    /\ pc \in ActivationSteps \ {"snapshot"} =>
         snap \in Snapshot /\ DOMAIN snap = DOMAIN target

\* The loops run over paths the journal knows.
ControlInv ==
    /\ pc \in {"restore", "restore_sync"} =>
         journal.phase = "prepared" /\ todo \subseteq DOMAIN journal.old
    /\ pc \in {"sync_journal", "replace", "settle", "test", "reload", "commit"} =>
         journal = [phase |-> "prepared", old |-> snap]
    /\ pc \in {"replace", "settle"} => todo \subseteq Pending

TypeInv == TypeOK /\ LocalsInv /\ ControlInv

\* No file is ever missing.
ExistInv ==
    /\ \A p \in Path : file[p] # Absent /\ disk[p] # Absent
    /\ \A p \in DOMAIN journal.old : journal.old[p] # Absent
    /\ \A p \in DOMAIN diskJournal.old : diskJournal.old[p] # Absent
    /\ \A p \in DOMAIN snap : snap[p] # Absent

\* A file that is not durable is covered by a journal that is; a prepared
\* journal that is not durable covers files that were not touched.
JournalInv ==
    /\ \A p \in Path : file[p] # disk[p]
         => /\ journal.phase = "prepared" /\ diskJournal = journal
            /\ p \in DOMAIN journal.old
    /\ journal.phase = "prepared" /\ diskJournal # journal => Agrees(file, journal.old)

\* Where a recovery stands.
RecoveryInv ==
    /\ pc \in {"restore", "restore_sync"} =>
         /\ \A p \in Path : file[p] # disk[p] => p \in todo
         /\ \A p \in DOMAIN journal.old : p \notin todo => file[p] = journal.old[p]
    /\ pc = "restore_sync" =>
         \A p \in todo : RestoresNext(p) => file[p] = journal.old[p]
    /\ pc \in {"test_restored", "reload_restored", "drop_journal"} =>
         /\ file = disk
         /\ journal.phase = "prepared" => Agrees(file, journal.old)
    /\ pc = "drop_journal_sync" => journal.phase = "none"

\* Where an activation stands.
ActivationInv ==
    /\ pc \in {"snapshot", "write_journal"} => journal.phase = "none"
    /\ pc \in {"write_journal", "sync_journal"} => Agrees(file, snap)
    /\ pc \in {"replace", "settle", "test", "reload", "commit"} => diskJournal = journal
    /\ pc \in {"sync_journal", "replace", "test", "reload", "commit"} => file = disk
    /\ pc \in {"replace", "settle"} =>
         \A p \in DOMAIN target : p \notin todo => file[p] = target[p]
    /\ pc = "replace" => \A p \in todo : file[p] = snap[p]
    /\ pc = "settle" =>
         /\ \A p \in Path : file[p] # disk[p] => Earliest(p, todo)
         /\ \A p \in todo : IF Earliest(p, todo) THEN file[p] = target[p]
                                                ELSE file[p] = snap[p]
    /\ pc \in {"test", "reload", "commit", "commit_sync", "commit_resync",
               "remove_journal", "remove_journal_sync"} => Agrees(file, target)
    /\ pc \in {"commit_sync", "commit_resync", "remove_journal"} =>
         journal.phase = "committed"
    /\ pc = "remove_journal_sync" => journal.phase = "none"
    /\ pc \in {"remove_journal", "remove_journal_sync"} =>
         diskJournal.phase # "prepared"

IInv == TypeInv /\ ExistInv /\ JournalInv /\ RecoveryInv /\ ActivationInv

-----------------------------------------------------------------------------
(* Lemmas about the data *)

\* A snapshot records values of paths; an update, contents of paths.
LEMMA SnapshotFacts ==
    /\ \A s \in Snapshot : DOMAIN s \subseteq Path /\ \A p \in DOMAIN s : s[p] \in Value
    /\ \A u \in Update : DOMAIN u \subseteq Path /\ \A p \in DOMAIN u : u[p] \in Content
    /\ \A u \in Update, f \in Files : [p \in DOMAIN u |-> f[p]] \in Snapshot
BY DEF Snapshot, Update, Scope, Files

\* A journal that exists holds a snapshot; NoJournal holds none.
LEMMA JournalFacts ==
    /\ \A j \in Journal :
         \/ j.phase = "none" /\ j.old = <<>> /\ j = NoJournal
         \/ j.phase \in {"prepared", "committed"} /\ j.old \in Snapshot
    /\ \A j \in Journal : j = [phase |-> j.phase, old |-> j.old]
    /\ NoJournal \in Journal /\ NoJournal.phase = "none" /\ NoJournal.old = <<>>
    /\ \A s \in Snapshot : [phase |-> "prepared", old |-> s] \in Journal
    /\ \A s \in Snapshot : [phase |-> "committed", old |-> s] \in Journal
BY DEF Journal, NoJournal

\* The loops take one path at a time.
LEMMA EarliestUnique ==
    ASSUME NEW S \in SUBSET Path, NEW p, NEW q, Earliest(p, S), Earliest(q, S)
    PROVE  p = q
BY ArtifactsAssumption DEF Earliest

LEMMA RestoresNextUnique ==
    ASSUME todo \in SUBSET Path, NEW p, NEW q, RestoresNext(p), RestoresNext(q)
    PROVE  p = q
<1> DEFINE kept == {r \in todo : journal.old[r] # Absent}
<1> DEFINE S == IF kept # {} THEN kept ELSE todo
<1>1. S \in SUBSET Path
  OBVIOUS
<1>2. Earliest(p, S) /\ Earliest(q, S)
  BY DEF RestoresNext
<1> QED
  BY <1>1, <1>2, EarliestUnique

-----------------------------------------------------------------------------
(* Type correctness *)

LEMMA TypeInit == Init => TypeInv
<1> SUFFICES ASSUME Init PROVE TypeInv
  OBVIOUS
<1>1. starting \in BOOLEAN
  BY Zenon DEF Init
<1>2. TypeOK
  BY <1>1, JournalFacts, ArtifactsAssumption
  DEF Init, InitialFiles, TypeOK, Tasks, Value, Files
<1>3. LocalsInv /\ ControlInv
  BY DEF Init, LocalsInv, ControlInv, ActivationSteps
<1> QED
  BY <1>2, <1>3 DEF TypeInv

LEMMA FlushType ==
    ASSUME TypeOK, NEW d, Flush(d)
    PROVE  /\ file' \in Files /\ disk' \in Files
           /\ journal' \in Journal /\ diskJournal' \in Journal
           /\ file' = file /\ journal' = journal
BY DEF Flush, TypeOK, Files

\* Entering, or starting again, a recovery.
LEMMA EnterType ==
    ASSUME TypeInv, NEW why \in Tasks, NEW u \in Update \cup {<<>>},
           why = "activate" => u \in Update /\ outcome' = "none",
           EnterRecovery(why, u), outcome' \in {"none", outcome}
    PROVE  TypeInv'
<1> USE DEF EnterRecovery, TypeInv, NoFault, Goto, fileVars
<1>1. TypeOK'
  <2>1. /\ UNCHANGED <<file, disk, journal, diskJournal, loaded, snap, crashes, faults>>
        /\ target' \in Update \cup {<<>>}
    OBVIOUS
  <2>2. outcome' \in {"none", "success", "failed"}
    BY DEF TypeOK
  <2>3. pc' \in RecoverySteps \cup ActivationSteps \cup {"idle"}
    BY DEF RecoverySteps, ActivationSteps
  <2>4. todo' \in SUBSET Path
    BY JournalFacts, SnapshotFacts DEF TypeOK
  <2>5. task' \in Tasks
    BY DEF Tasks
  <2>6. starting' \in BOOLEAN
    BY DEF TypeOK
  <2> QED
    BY <2>1, <2>2, <2>3, <2>4, <2>5, <2>6 DEF TypeOK
<1>2. LocalsInv'
  BY DEF LocalsInv, TypeOK, RecoverySteps, ActivationSteps, Tasks
<1>3. ControlInv'
  BY DEF ControlInv, TypeOK
<1> QED
  BY <1>1, <1>2, <1>3

LEMMA TypeNext == TypeInv /\ [Next]_vars => TypeInv'
<1> SUFFICES ASSUME TypeInv, [Next]_vars PROVE TypeInv'
  OBVIOUS
<1>1. ASSUME NEW u \in Updates, Activate(u) PROVE TypeInv'
  BY <1>1, EnterType, ActivationAssumption DEF Activate, Tasks
<1>2. CASE Recover
  BY <1>2, EnterType DEF Recover, RecoverFirst, BootRecover, RecoverCli, Tasks, TypeInv, TypeOK
<1>3. CASE RecoveryStep
  <2> USE DEF TypeInv, NoFault, Fault, Goto, fileVars, localVars, Restored, RecoveryFails,
              RecoveryEnds, Leave, Report
  <2>1. CASE RestoreOne
    BY <2>1, JournalFacts, SnapshotFacts
    DEF RestoreOne, TypeOK, LocalsInv, ControlInv, RecoverySteps, ActivationSteps, Files
  <2>2. CASE RestoreSync
    BY <2>2, FlushType DEF RestoreSync, TypeOK, LocalsInv, ControlInv, RecoverySteps, ActivationSteps
  <2>3. CASE RestoreNothing
    BY <2>3 DEF RestoreNothing, TypeOK, LocalsInv, ControlInv, RecoverySteps, ActivationSteps
  <2>4. CASE TestRestored \/ ReloadRestored
    BY <2>4, ArtifactsAssumption
    DEF TestRestored, ReloadRestored, TypeOK, LocalsInv, ControlInv, RecoverySteps,
        ActivationSteps, Files
  <2>5. CASE DropJournal
    BY <2>5, JournalFacts
    DEF DropJournal, TypeOK, LocalsInv, ControlInv, RecoverySteps, ActivationSteps
  <2>6. CASE DropJournalSync
    BY <2>6, FlushType
    DEF DropJournalSync, TypeOK, LocalsInv, ControlInv, RecoverySteps, ActivationSteps, Tasks
  <2>7. CASE RecoveryRefused \/ RecoveryFault \/ ReloadRestoredTimeout
    BY <2>7, ArtifactsAssumption
    DEF RecoveryRefused, RecoveryFault, ReloadRestoredTimeout, TypeOK, LocalsInv, ControlInv,
        RecoverySteps, ActivationSteps, Tasks, Files
  <2> QED
    BY <1>3, <2>1, <2>2, <2>3, <2>4, <2>5, <2>6, <2>7 DEF RecoveryStep
<1>4. CASE ActivationStep
  <2> USE DEF TypeInv, NoFault, Fault, Goto, fileVars, localVars, Leave, Report, Pending
  <2>1. CASE TakeSnapshot
    BY <2>1, SnapshotFacts
    DEF TakeSnapshot, TypeOK, LocalsInv, ControlInv, RecoverySteps, ActivationSteps
  <2>2. CASE WriteJournal
    BY <2>2, JournalFacts
    DEF WriteJournal, TypeOK, LocalsInv, ControlInv, RecoverySteps, ActivationSteps
  <2>3. CASE SyncJournal
    BY <2>3, FlushType, SnapshotFacts
    DEF SyncJournal, TypeOK, LocalsInv, ControlInv, RecoverySteps, ActivationSteps
  <2>4. CASE ReplaceOne
    BY <2>4, SnapshotFacts
    DEF ReplaceOne, TypeOK, LocalsInv, ControlInv, RecoverySteps, ActivationSteps, Files, Value
  <2>5. CASE Settle
    BY <2>5, FlushType
    DEF Settle, TypeOK, LocalsInv, ControlInv, RecoverySteps, ActivationSteps
  <2>6. CASE Test \/ Reload
    BY <2>6, ArtifactsAssumption
    DEF Test, Reload, TypeOK, LocalsInv, ControlInv, RecoverySteps, ActivationSteps, Files
  <2>7. CASE Commit
    BY <2>7, JournalFacts
    DEF Commit, TypeOK, LocalsInv, ControlInv, RecoverySteps, ActivationSteps
  <2>8. CASE CommitSync
    BY <2>8, FlushType
    DEF CommitSync, TypeOK, LocalsInv, ControlInv, RecoverySteps, ActivationSteps
  <2>9. CASE RemoveJournal
    BY <2>9, JournalFacts
    DEF RemoveJournal, TypeOK, LocalsInv, ControlInv, RecoverySteps, ActivationSteps
  <2>10. CASE RemoveJournalSync
    BY <2>10, FlushType
    DEF RemoveJournalSync, TypeOK, LocalsInv, ControlInv, RecoverySteps, ActivationSteps, Tasks
  <2>11. CASE NothingPending \/ ActivationRaises \/ CommitResyncFails \/ RemoveJournalFails
    BY <2>11
    DEF NothingPending, ActivationRaises, CommitResyncFails, RemoveJournalFails,
        TypeOK, LocalsInv, ControlInv, RecoverySteps, ActivationSteps, Tasks
  <2>12. CASE FirstReplaceFails \/ CommitSyncFails
    BY <2>12
    DEF FirstReplaceFails, CommitSyncFails, TypeOK, LocalsInv, ControlInv, RecoverySteps,
        ActivationSteps, Tasks
  <2>13. CASE StepFails \/ CommandRefused \/ ReloadTimeout
    BY <2>13, SnapshotFacts, ArtifactsAssumption
    DEF StepFails, CommandRefused, ReloadTimeout, Unwind, TypeOK, LocalsInv, ControlInv,
        RecoverySteps, ActivationSteps, Tasks, Files
  <2> QED
    BY <1>4, <2>1, <2>2, <2>3, <2>4, <2>5, <2>6, <2>7, <2>8, <2>9, <2>10, <2>11, <2>12, <2>13
    DEF ActivationStep
<1>5. CASE Environment
  <2> USE DEF TypeInv, NoFault, fileVars, localVars, Leave
  <2>1. CASE StartNginx \/ StopNginx
    <3> starting' \in BOOLEAN
      BY <2>1, Zenon DEF StartNginx, StopNginx, TypeOK
    <3>1. TypeOK'
      BY <2>1, ArtifactsAssumption DEF StartNginx, StopNginx, TypeOK, Files
    <3>2. LocalsInv' /\ ControlInv'
      BY <2>1 DEF StartNginx, StopNginx, LocalsInv, ControlInv, Pending
    <3> QED
      BY <3>1, <3>2
  <2>2. CASE Kill
    BY <2>2 DEF Kill, TypeOK, LocalsInv, ControlInv, RecoverySteps, ActivationSteps, Tasks
  <2>3. CASE Writeback
    BY <2>3 DEF Writeback, TypeOK, LocalsInv, ControlInv, Pending, Files
  <2>4. CASE PowerLoss
    <3> starting' \in BOOLEAN
      BY <2>4, Zenon DEF PowerLoss
    <3>1. TypeOK'
      BY <2>4 DEF PowerLoss, TypeOK, Tasks
    <3>2. LocalsInv' /\ ControlInv'
      BY <2>4 DEF PowerLoss, LocalsInv, ControlInv, ActivationSteps
    <3> QED
      BY <3>1, <3>2
  <2> QED
    BY <1>5, <2>1, <2>2, <2>3, <2>4 DEF Environment
<1>6. CASE UNCHANGED vars
  BY <1>6 DEF vars, fileVars, localVars, TypeInv, TypeOK, LocalsInv, ControlInv, Pending
<1> QED
  BY <1>1, <1>2, <1>3, <1>4, <1>5, <1>6 DEF Next

\* In every reachable state each variable has its type: in particular the
\* journal a recovery reads back is one an activation can have written, and
\* every path it names is a file of the runtime.
THEOREM TypeCorrect == Spec => []TypeOK
<1>1. TypeInv => TypeOK
  BY DEF TypeInv
<1> QED
  BY TypeInit, TypeNext, <1>1, PTL DEF Spec

-----------------------------------------------------------------------------
(* The inductive invariant holds *)

RestInv == ExistInv /\ JournalInv /\ RecoveryInv /\ ActivationInv

LEMMA InvInit == NothingMissing /\ Init => IInv
BY TypeInit, JournalFacts
DEF NothingMissing, Init, InitialFiles, IInv, ExistInv, JournalInv, RecoveryInv, ActivationInv,
    RecoverySteps, ActivationSteps

LEMMA EnterInv ==
    ASSUME IInv, NEW why \in Tasks, NEW u, EnterRecovery(why, u)
    PROVE  RestInv'
BY JournalFacts DEF EnterRecovery, RestInv, IInv, ExistInv, JournalInv, RecoveryInv, ActivationInv,
   NoFault, Goto, fileVars, TypeInv, TypeOK, Agrees, Files

LEMMA InvNext == IInv /\ [Next]_vars => IInv'
<1> SUFFICES ASSUME IInv, [Next]_vars PROVE RestInv'
  BY TypeNext DEF IInv, RestInv
<1> USE DEF IInv, RestInv
<1>1. CASE \E u \in Updates : Activate(u)
  BY <1>1, EnterInv DEF Activate, Tasks
<1>2. CASE Recover
  BY <1>2, EnterInv DEF Recover, RecoverFirst, BootRecover, RecoverCli, Tasks
<1>3. CASE RecoveryStep
  <2> USE DEF NoFault, Fault, Goto, fileVars, localVars, Leave, Report, Pending, RecoverySteps, ActivationSteps,
              ExistInv, JournalInv, RecoveryInv, ActivationInv, TypeInv, LocalsInv, ControlInv, TypeOK, Agrees, Files
  <2>1. CASE RestoreOne
    <3>1. PICK p \in todo : RestoresNext(p) /\ file' = [file EXCEPT ![p] = journal.old[p]]
      BY <2>1 DEF RestoreOne
    <3>2. pc = "restore" /\ pc' = "restore_sync"
          /\ UNCHANGED <<disk, journal, diskJournal, localVars>>
      BY <2>1 DEF RestoreOne
    <3>3. ASSUME NEW q \in todo, RestoresNext(q)' PROVE file'[q] = journal.old[q]
      <4>1. RestoresNext(q)
        BY <3>2, <3>3 DEF RestoresNext, Earliest
      <4>2. q = p
        BY <3>1, <4>1, RestoresNextUnique
      <4> QED
        BY <3>1, <3>2, <4>2, SnapshotFacts, JournalFacts
    <3>4. RecoveryInv'
      BY <3>1, <3>2, <3>3, SnapshotFacts
    <3>5. ExistInv' /\ JournalInv' /\ ActivationInv'
      BY <3>1, <3>2, SnapshotFacts
    <3> QED
      BY <3>4, <3>5
  <2>2. CASE RestoreSync
    BY <2>2, RestoresNextUnique, SnapshotFacts DEF RestoreSync, Flush, Restored
  <2>3. CASE RestoreNothing
    BY <2>3, SnapshotFacts DEF RestoreNothing, Gone, Restored
  <2>4. CASE TestRestored \/ ReloadRestored
    BY <2>4, SnapshotFacts DEF TestRestored, ReloadRestored
  <2>5. CASE DropJournal
    BY <2>5, JournalFacts, SnapshotFacts DEF DropJournal
  <2>6. CASE DropJournalSync
    BY <2>6, SnapshotFacts DEF DropJournalSync, Flush, RecoveryEnds
  <2>7. CASE RecoveryRefused \/ RecoveryFault \/ ReloadRestoredTimeout
    BY <2>7, SnapshotFacts DEF RecoveryRefused, RecoveryFault, ReloadRestoredTimeout, RecoveryFails
  <2> QED
    BY <1>3, <2>1, <2>2, <2>3, <2>4, <2>5, <2>6, <2>7
    DEF RecoveryStep
<1>4. CASE ActivationStep
  <2> USE DEF NoFault, Fault, Goto, fileVars, localVars, Leave, Report, Pending, RecoverySteps, ActivationSteps,
              ExistInv, JournalInv, RecoveryInv, ActivationInv, TypeInv, LocalsInv, ControlInv, TypeOK, Agrees, Files
  <2>1. CASE TakeSnapshot
    BY <2>1, SnapshotFacts DEF TakeSnapshot
  <2>2. CASE WriteJournal
    BY <2>2, SnapshotFacts DEF WriteJournal
  <2>3. CASE SyncJournal
    BY <2>3, SnapshotFacts DEF SyncJournal, Flush
  <2>4. CASE ReplaceOne
    BY <2>4, EarliestUnique, ArtifactsAssumption, SnapshotFacts DEF ReplaceOne
  <2>5. CASE Settle
    BY <2>5, EarliestUnique, SnapshotFacts DEF Settle, Flush
  <2>6. CASE Test \/ Reload
    BY <2>6, SnapshotFacts DEF Test, Reload
  <2>7. CASE Commit
    BY <2>7, SnapshotFacts DEF Commit
  <2>8. CASE CommitSync
    BY <2>8, SnapshotFacts DEF CommitSync, Flush
  <2>9. CASE RemoveJournal
    BY <2>9, JournalFacts, SnapshotFacts DEF RemoveJournal
  <2>10. CASE RemoveJournalSync
    BY <2>10, SnapshotFacts DEF RemoveJournalSync, Flush
  <2>11. CASE NothingPending \/ ActivationRaises \/ CommitResyncFails \/ RemoveJournalFails
    BY <2>11, SnapshotFacts DEF NothingPending, ActivationRaises, CommitResyncFails, RemoveJournalFails
  <2>12. CASE FirstReplaceFails \/ CommitSyncFails
    BY <2>12, SnapshotFacts DEF FirstReplaceFails, CommitSyncFails
  <2>13. CASE StepFails \/ CommandRefused \/ ReloadTimeout
    BY <2>13, SnapshotFacts DEF StepFails, CommandRefused, ReloadTimeout, Unwind
  <2> QED
    BY <1>4, <2>1, <2>2, <2>3, <2>4, <2>5, <2>6, <2>7, <2>8, <2>9, <2>10, <2>11, <2>12, <2>13
    DEF ActivationStep
<1>5. CASE Environment
  <2> USE DEF NoFault, Fault, Goto, fileVars, localVars, Leave, Report, Pending, RecoverySteps, ActivationSteps,
              ExistInv, JournalInv, RecoveryInv, ActivationInv, TypeInv, LocalsInv, ControlInv, TypeOK, Agrees, Files
  <2>1. CASE StartNginx \/ StopNginx
    BY <2>1, SnapshotFacts DEF StartNginx, StopNginx, RestoresNext, Earliest
  <2>2. CASE Kill
    BY <2>2, SnapshotFacts DEF Kill
  <2>3. CASE Writeback
    BY <2>3, SnapshotFacts DEF Writeback, RestoresNext, Earliest
  <2>4. CASE PowerLoss
    BY <2>4, SnapshotFacts DEF PowerLoss
  <2> QED
    BY <1>5, <2>1, <2>2, <2>3, <2>4
    DEF Environment
<1>6. CASE UNCHANGED vars
  BY <1>6 DEF vars, fileVars, localVars, ExistInv, JournalInv, RecoveryInv, ActivationInv, Agrees,
     Earliest, RestoresNext, Pending
<1> QED
  BY <1>1, <1>2, <1>3, <1>4, <1>5, <1>6 DEF Next

-----------------------------------------------------------------------------
(* Refinement *)

\* What reaches the disk never leaves the durable runtime half-way: it stays,
\* or it becomes the visible one.
LEMMA DiskStep ==
    ASSUME IInv, UNCHANGED <<file, journal>>,
           \A p \in Path : disk'[p] \in {disk[p], file[p]}, disk' \in Files,
           diskJournal' \in {diskJournal, journal}
    PROVE  Visible' = Visible /\ Durable' \in {Durable, Visible}
<1> USE DEF IInv, TypeInv, TypeOK, JournalInv, Visible, Durable, Recovered, Overlay, Files
<1>1. Visible' = Visible
  OBVIOUS
<1>2. CASE diskJournal' = journal
  BY <1>2
<1>3. CASE diskJournal' = diskJournal
  BY <1>3
<1> QED
  BY <1>1, <1>2, <1>3

LEMMA FlushStep ==
    ASSUME IInv, NEW d, Flush(d)
    PROVE  Visible' = Visible /\ Durable' \in {Durable, Visible}
BY DiskStep DEF Flush, IInv, TypeInv, TypeOK, Files

\* Writing a file the durable journal covers, with whatever contents, does not
\* change what a recovery establishes.
LEMMA CoveredWrite ==
    ASSUME TypeOK, NEW p \in Path, NEW v, file' = [file EXCEPT ![p] = v],
           journal.phase = "prepared", p \in DOMAIN journal.old,
           UNCHANGED <<disk, journal, diskJournal>>
    PROVE  UNCHANGED <<Visible, Durable>>
BY DEF TypeOK, Visible, Durable, Recovered, Overlay, Files

LEMMA AtomicInit == Init => Atomic!Init
BY JournalFacts DEF Init, Atomic!Init, Visible, Durable, Recovered, InitialFiles, Files, Value,
    Atomic!InitialFiles, Atomic!Files, Atomic!Value

LEMMA AtomicNext == IInv /\ [Next]_vars => [Atomic!Next]_<<Visible, Durable, outcome>>
<1> SUFFICES ASSUME IInv, [Next]_vars
             PROVE  \/ Atomic!Next
                    \/ UNCHANGED <<Visible, Durable, outcome>>
  OBVIOUS
<1> USE DEF IInv, TypeInv, TypeOK, NoFault, Fault, Goto, fileVars, localVars, Leave, Report
<1>0. ASSUME UNCHANGED fileVars PROVE UNCHANGED <<Visible, Durable>>
  BY <1>0 DEF Visible, Durable, Recovered, Overlay
<1>1. ASSUME UNCHANGED fileVars, outcome' \in {outcome, "none", "success", "failed"}
      PROVE  Atomic!Next \/ UNCHANGED <<Visible, Durable, outcome>>
  BY <1>0, <1>1 DEF Atomic!Next, Atomic!Request, Atomic!Report
<1>2. ASSUME NEW d, Flush(d), outcome' \in {outcome, "success", "failed"}
      PROVE  Atomic!Next \/ UNCHANGED <<Visible, Durable, outcome>>
  BY <1>2, FlushStep DEF Atomic!Next, Atomic!Harden, Atomic!Report
<1>3. CASE \E u \in Updates : Activate(u)
  BY <1>1, <1>3 DEF Activate, EnterRecovery
<1>4. CASE Recover
  BY <1>1, <1>4 DEF Recover, RecoverFirst, BootRecover, RecoverCli, EnterRecovery
<1>5. CASE RecoveryStep
  <2>1. CASE RestoreOne
    BY <2>1, CoveredWrite, SnapshotFacts, JournalFacts DEF RestoreOne, ControlInv
  <2>2. CASE RestoreSync
    BY <2>2, <1>2 DEF RestoreSync
  <2>3. CASE DropJournal
    BY <2>3, JournalFacts
    DEF DropJournal, RecoveryInv, Agrees, Visible, Durable, Recovered, Overlay, Files
  <2>4. CASE DropJournalSync
    BY <2>4, <1>2 DEF DropJournalSync, RecoveryEnds
  <2>5. CASE RestoreNothing \/ TestRestored \/ ReloadRestored
    BY <2>5, <1>1 DEF RestoreNothing, TestRestored, ReloadRestored
  <2>6. CASE RecoveryRefused \/ RecoveryFault \/ ReloadRestoredTimeout
    BY <2>6, <1>1 DEF RecoveryRefused, RecoveryFault, ReloadRestoredTimeout, RecoveryFails
  <2> QED
    BY <1>5, <2>1, <2>2, <2>3, <2>4, <2>5, <2>6 DEF RecoveryStep
<1>6. CASE ActivationStep
  <2>1. CASE WriteJournal
    BY <2>1, JournalFacts
    DEF WriteJournal, ActivationInv, Agrees, Visible, Durable, Recovered, Overlay, Files
  <2>2. CASE SyncJournal \/ Settle \/ CommitSync \/ RemoveJournalSync
    BY <2>2, <1>2 DEF SyncJournal, Settle, CommitSync, RemoveJournalSync
  <2>3. CASE ReplaceOne
    <3>1. PICK p \in todo : file' = [file EXCEPT ![p] = target[p]]
      BY <2>3 DEF ReplaceOne
    <3>2. /\ p \in Path /\ journal.phase = "prepared" /\ p \in DOMAIN journal.old
          /\ UNCHANGED <<disk, journal, diskJournal, outcome>>
      BY <2>3, SnapshotFacts DEF ReplaceOne, LocalsInv, ControlInv, Pending, ActivationSteps
    <3> QED
      BY <3>1, <3>2, CoveredWrite
  <2>4. CASE Commit
    <3>1. Visible' = Overlay(Visible, target)
      BY <2>4, SnapshotFacts
      DEF Commit, LocalsInv, ControlInv, ActivationInv, ActivationSteps, Agrees, Visible,
          Recovered, Overlay, Files
    <3>2. target \in Update /\ outcome = "none" /\ UNCHANGED <<Durable, outcome>>
      BY <2>4 DEF Commit, LocalsInv, ActivationSteps, Durable, Recovered, Overlay
    <3> QED
      BY <3>1, <3>2
      DEF Atomic!Next, Atomic!Switch, Atomic!Update, Atomic!Scope, Atomic!Overlay, Update, Scope,
          Overlay
  <2>5. CASE RemoveJournal
    BY <2>5, JournalFacts DEF RemoveJournal, ActivationInv, Visible, Durable, Recovered, Overlay
  <2>6. CASE TakeSnapshot \/ NothingPending \/ Test \/ Reload
    BY <2>6, <1>1 DEF TakeSnapshot, NothingPending, Test, Reload
  <2>7. CASE ActivationRaises \/ FirstReplaceFails \/ StepFails \/ CommandRefused \/ ReloadTimeout
    BY <2>7, <1>1
    DEF ActivationRaises, FirstReplaceFails, StepFails, CommandRefused, ReloadTimeout, Unwind
  <2>8. CASE CommitSyncFails \/ CommitResyncFails \/ RemoveJournalFails
    BY <2>8, <1>1 DEF CommitSyncFails, CommitResyncFails, RemoveJournalFails
  <2> QED
    BY <1>6, <2>1, <2>2, <2>3, <2>4, <2>5, <2>6, <2>7, <2>8 DEF ActivationStep
<1>7. CASE Environment
  <2>1. CASE StartNginx \/ StopNginx \/ Kill
    BY <2>1, <1>1 DEF StartNginx, StopNginx, Kill
  <2>2. CASE Writeback
    <3>1. Visible' = Visible /\ Durable' \in {Durable, Visible}
      BY <2>2, DiskStep DEF Writeback, Files
    <3> QED
      BY <2>2, <3>1 DEF Writeback, Atomic!Next, Atomic!Harden
  <2>3. CASE PowerLoss
    BY <2>3 DEF PowerLoss, Visible, Durable, Recovered, Overlay, Atomic!Next, Atomic!PowerLoss
  <2> QED
    BY <1>7, <2>1, <2>2, <2>3 DEF Environment
<1>8. CASE UNCHANGED vars
  BY <1>1, <1>8 DEF vars
<1> QED
  BY <1>3, <1>4, <1>5, <1>6, <1>7, <1>8 DEF Next

\* Every behaviour of the journaled activation, with any number of failing
\* calls, kills and power losses at any step, is one of the atomic runtime:
\* a recovery establishes all of the old files or all of the new ones.
THEOREM RuntimeIsAtomic == NothingMissing => (Spec => AllOrNothing)
<1>1. NothingMissing /\ Init => IInv
  BY InvInit
<1>2. Init => Atomic!Init
  BY AtomicInit
<1>3. IInv /\ [Next]_vars => IInv'
  BY InvNext
<1>4. IInv /\ [Next]_vars => [Atomic!Next]_<<Visible, Durable, outcome>>
  BY AtomicNext
<1> QED
  BY <1>1, <1>2, <1>3, <1>4, PTL
  DEF Spec, AllOrNothing, Atomic!Spec, Atomic!avars, NothingMissing

\* A success that is reported after files were replaced is visible, durable,
\* and stays so through any later power loss.
LEMMA PublishedStep ==
    IInv /\ [Next]_vars =>
      (outcome = "none" /\ outcome' = "success" /\ pc # "write_journal"
         => \A p \in DOMAIN target : Visible'[p] = target[p] /\ Durable'[p] = target[p])
<1> SUFFICES ASSUME IInv, Next, outcome = "none", outcome' = "success", pc # "write_journal",
                    NEW p \in DOMAIN target
             PROVE  Visible'[p] = target[p] /\ Durable'[p] = target[p]
  BY DEF vars
<1> USE DEF NoFault, Fault, Leave, Report
<1>1. RemoveJournalSync \/ RemoveJournalFails
  <2>1. ~ \E u \in Updates : Activate(u)
    BY DEF Activate
  <2>2. ~ Recover
    BY DEF Recover, RecoverFirst, BootRecover, RecoverCli
  <2>3. ~ RecoveryStep
    BY DEF RecoveryStep, RestoreOne, RestoreSync, RestoreNothing, TestRestored, ReloadRestored,
       DropJournal, DropJournalSync, RecoveryRefused, RecoveryFault, ReloadRestoredTimeout,
       RecoveryFails, RecoveryEnds
  <2>4. ActivationStep => RemoveJournalSync \/ RemoveJournalFails
    BY DEF ActivationStep, TakeSnapshot, NothingPending, WriteJournal, SyncJournal, ReplaceOne,
       Settle, Test, Reload, Commit, CommitSync, RemoveJournal, ActivationRaises,
       FirstReplaceFails, StepFails, CommandRefused, ReloadTimeout, CommitSyncFails,
       CommitResyncFails, Unwind
  <2>5. ~ Environment
    BY DEF Environment, StartNginx, StopNginx, Kill, Writeback, PowerLoss
  <2> QED
    BY <2>1, <2>2, <2>3, <2>4, <2>5 DEF Next
<1>2. pc \in {"remove_journal", "remove_journal_sync"}
  BY <1>1 DEF RemoveJournalSync, RemoveJournalFails
<1>3. /\ Agrees(file, target) /\ file = disk /\ p \in Path
      /\ journal.phase # "prepared" /\ diskJournal.phase # "prepared"
  BY <1>2, SnapshotFacts
  DEF IInv, ActivationInv, JournalInv, TypeInv, TypeOK, LocalsInv, ActivationSteps, Files
<1>4. /\ file' = file /\ disk' = disk
      /\ journal' = journal /\ diskJournal' \in {diskJournal, journal}
  BY <1>1, <1>3 DEF RemoveJournalSync, RemoveJournalFails, Flush, fileVars, IInv, TypeInv,
     TypeOK, Files
<1> QED
  BY <1>3, <1>4 DEF Visible, Durable, Recovered, Agrees

\* No power loss takes back an update whose activation replaced files and
\* reported a success.
THEOREM PublishedStaysDurable == NothingMissing => (Spec => PublishedIsDurable)
<1>1. NothingMissing /\ Init => IInv
  BY InvInit
<1>2. IInv /\ [Next]_vars => IInv'
  BY InvNext
<1>3. IInv /\ [Next]_vars =>
        [outcome = "none" /\ outcome' = "success" /\ pc # "write_journal"
           => \A p \in DOMAIN target : Visible'[p] = target[p] /\ Durable'[p] = target[p]]_vars
  BY PublishedStep
<1> QED
  BY <1>1, <1>2, <1>3, PTL DEF Spec, PublishedIsDurable, NothingMissing

-----------------------------------------------------------------------------
(* The routes that are recovered, and the routes that are served *)

Accepted == file[Routes] \in ValidRoutes /\ disk[Routes] \in ValidRoutes

\* A journal, visible or durable, that would restore the routes holds routes
\* that nginx accepts; over any other the routes on file are such.
TargetInv ==
    \A j \in {journal, diskJournal} :
        IF j.phase = "prepared" THEN j.old[Routes] \in ValidRoutes ELSE Accepted

\* No step of a loop has come to the routes yet, or none will.
RoutesUntouched == Routes \in todo \/ Routes \notin Pending

\* Where the routes have been restored or tested.
TestedInv ==
    /\ pc \in {"restore", "restore_sync"} /\ Routes \notin todo => Accepted
    /\ pc = "restore_sync" /\ Routes \in todo /\ RestoresNext(Routes) => file[Routes] \in ValidRoutes
    /\ pc \in {"test_restored", "reload_restored", "drop_journal", "reload", "commit"} => Accepted
    /\ pc \in {"drop_journal_sync", "snapshot", "write_journal"} => journal.phase = "none"
    /\ pc \in {"commit_sync", "commit_resync", "remove_journal"} => journal.phase = "committed"
    /\ pc = "write_journal" => snap[Routes] \in ValidRoutes
    /\ pc \in {"replace", "settle", "test", "reload", "commit"} => diskJournal = journal
    /\ pc = "sync_journal" \/ (pc = "replace" /\ RoutesUntouched) => Accepted
    /\ pc = "settle" /\ RoutesUntouched /\ ~Earliest(Routes, todo) => Accepted
    /\ pc \in {"replace", "settle"} /\ ~RoutesUntouched => file[Routes] = disk[Routes]
    /\ pc = "test" => file[Routes] = disk[Routes]

\* nginx is down, or runs with the routes on file.
Serving == loaded \in {Stopped, file[Routes]}

\* Between the first replacement and the reload, or between the first restore
\* and the next reload, there is a prepared journal; a start of nginx is no
\* exception, because its recovery runs before it.
ServedInv ==
    /\ task # "by_hand"
    /\ pc \in RecoverySteps /\ task = "boot" => loaded = Stopped /\ ~starting
    /\ journal.phase # "prepared" => Serving
    /\ pc \in {"sync_journal", "commit", "drop_journal"} => Serving
    /\ pc = "replace" /\ RoutesUntouched => Serving
    /\ pc = "settle" /\ RoutesUntouched /\ ~Earliest(Routes, todo) => Serving

RoutesInv == TypeInv /\ TargetInv /\ TestedInv

\* Every activation has the routes among its files.
LEMMA RoutesAreCovered ==
    /\ Routes \in Path
    /\ \A s \in Snapshot \cup Update : Routes \in DOMAIN s
    /\ \A j \in Journal : j.phase = "prepared" => Routes \in DOMAIN j.old
BY ArtifactsAssumption DEF Snapshot, Update, Scope, Journal

LEMMA AcceptedIsContent == \A r \in ValidRoutes : r # Absent
BY ArtifactsAssumption

\* What an fsync does to the routes.
LEMMA FlushRoutes ==
    ASSUME TypeOK, NEW d, Flush(d)
    PROVE  /\ file' = file /\ journal' = journal
           /\ disk'[Routes] = IF Dir[Routes] = d THEN file[Routes] ELSE disk[Routes]
           /\ diskJournal' \in {journal, diskJournal}
           /\ d = PrivateRoot => diskJournal' = journal
BY RoutesAreCovered DEF Flush, TypeOK, Files

LEMMA RoutesInit == Init => RoutesInv
BY TypeInit, JournalFacts DEF Init, RoutesInv, TargetInv, TestedInv, Accepted

LEMMA RoutesEnter ==
    ASSUME RoutesInv, NEW why \in Tasks, NEW u, EnterRecovery(why, u)
    PROVE  TargetInv' /\ TestedInv'
BY RoutesAreCovered
DEF EnterRecovery, RoutesInv, TypeInv, TypeOK, TargetInv, TestedInv, Accepted, RoutesUntouched, Goto, fileVars

LEMMA RoutesRecovery == RoutesInv /\ RecoveryStep => TargetInv' /\ TestedInv'
<1> SUFFICES ASSUME RoutesInv, RecoveryStep PROVE TargetInv' /\ TestedInv'
  OBVIOUS
<1> USE DEF RoutesInv, TargetInv, TestedInv, Accepted, TypeInv
<1>1. CASE RestoreOne
  <2>1. PICK p \in todo : RestoresNext(p) /\ file' = [file EXCEPT ![p] = journal.old[p]]
    BY <1>1 DEF RestoreOne
  <2>2. /\ pc = "restore" /\ pc' = "restore_sync"
        /\ UNCHANGED <<disk, journal, diskJournal, todo, task, target, snap>>
    BY <1>1 DEF RestoreOne, Goto, localVars
  <2>3. journal.phase = "prepared" /\ journal.old[Routes] \in ValidRoutes
    BY <2>2 DEF ControlInv
  <2>4. file'[Routes] = IF p = Routes THEN journal.old[Routes] ELSE file[Routes]
    BY <2>1, RoutesAreCovered DEF TypeOK, Files
  <2>5. ASSUME Routes \in todo, RestoresNext(Routes)' PROVE file'[Routes] \in ValidRoutes
    <3>1. RestoresNext(Routes)
      BY <2>2, <2>5 DEF RestoresNext, Earliest
    <3>2. p = Routes
      BY <2>1, <3>1, RestoresNextUnique DEF TypeOK
    <3> QED
      BY <2>3, <2>4, <3>2
  <2>6. TargetInv'
    BY <2>2, <2>3, <2>4
  <2>7. TestedInv'
    BY <2>1, <2>2, <2>3, <2>4, <2>5
  <2> QED
    BY <2>6, <2>7
<1>2. CASE RestoreSync
  <2>1. PICK p \in todo : RestoresNext(p) /\ Flush(Dir[p]) /\ Restored(p)
    BY <1>2 DEF RestoreSync
  <2>2. /\ pc = "restore_sync" /\ pc' = IF todo' = {} THEN "test_restored" ELSE "restore"
        /\ todo' = todo \ {p} /\ UNCHANGED <<file, journal, task, target, snap>>
        /\ journal.phase = "prepared" /\ journal.old[Routes] \in ValidRoutes
    BY <1>2, <2>1 DEF RestoreSync, Restored, Goto, Flush, ControlInv
  <2>3. /\ disk'[Routes] \in {file[Routes], disk[Routes]} /\ (p = Routes => disk'[Routes] = file[Routes])
        /\ diskJournal' \in {journal, diskJournal}
    BY <2>1, FlushRoutes
  <2>4. Routes \notin todo' => Accepted'
    BY <2>1, <2>2, <2>3
  <2>5. TargetInv'
    BY <2>2, <2>3
  <2>6. TestedInv'
    BY <2>2, <2>4
  <2> QED
    BY <2>5, <2>6
<1>3. CASE RestoreNothing
  <2>1. PICK p \in todo : RestoresNext(p) /\ Gone(p) /\ Restored(p)
    BY <1>3 DEF RestoreNothing
  <2>2. /\ pc = "restore" /\ pc' = IF todo' = {} THEN "test_restored" ELSE "restore"
        /\ todo' = todo \ {p} /\ UNCHANGED <<file, disk, journal, diskJournal, task, target, snap>>
        /\ journal.phase = "prepared" /\ journal.old[Routes] \in ValidRoutes
    BY <1>3, <2>1 DEF RestoreNothing, Restored, Goto, fileVars, ControlInv
  <2>3. p # Routes
    BY <2>1, <2>2, AcceptedIsContent DEF Gone
  <2> QED
    BY <2>2, <2>3
<1>4. CASE TestRestored \/ ReloadRestored
  BY <1>4 DEF TestRestored, ReloadRestored, Goto, fileVars, localVars
<1>5. CASE DropJournal
  BY <1>5, JournalFacts DEF DropJournal, Goto, localVars
<1>6. CASE DropJournalSync
  <2>1. /\ journal.phase = "none" /\ pc' \in {"idle", "snapshot"} /\ Flush(PrivateRoot)
    BY <1>6 DEF DropJournalSync, RecoveryEnds, Leave, Report, Goto
  <2> QED
    BY <2>1, FlushRoutes
<1>7. CASE RecoveryRefused \/ RecoveryFault \/ ReloadRestoredTimeout
  BY <1>7 DEF RecoveryRefused, RecoveryFault, ReloadRestoredTimeout, RecoveryFails, Leave, fileVars
<1> QED
  BY <1>1, <1>2, <1>3, <1>4, <1>5, <1>6, <1>7 DEF RecoveryStep

LEMMA RoutesActivation == RoutesInv /\ ActivationStep => TargetInv' /\ TestedInv'
<1> SUFFICES ASSUME RoutesInv, ActivationStep PROVE TargetInv' /\ TestedInv'
  OBVIOUS
<1> USE DEF RoutesInv, TargetInv, TestedInv, Accepted, TypeInv, RoutesUntouched
<1>0. pc \in ActivationSteps \ {"snapshot"} => Routes \in DOMAIN snap /\ Routes \in DOMAIN target
  BY RoutesAreCovered DEF LocalsInv
<1>1. CASE TakeSnapshot
  <2>1. snap'[Routes] = file[Routes] /\ journal.phase = "none"
    BY <1>1, RoutesAreCovered DEF TakeSnapshot, LocalsInv, ActivationSteps
  <2> QED
    BY <1>1, <2>1 DEF TakeSnapshot, Goto, fileVars
<1>2. CASE WriteJournal
  BY <1>2 DEF WriteJournal, Goto, localVars
<1>3. CASE SyncJournal
  <2>1. Flush(PrivateRoot) /\ pc' = "replace" /\ todo' = Pending /\ UNCHANGED <<target, snap>>
        /\ pc = "sync_journal" /\ Pending' = Pending
    BY <1>3 DEF SyncJournal, Goto, Pending
  <2> QED
    BY <2>1, FlushRoutes
<1>4. CASE ReplaceOne
  <2>1. PICK p \in todo : Earliest(p, todo) /\ file' = [file EXCEPT ![p] = target[p]]
    BY <1>4 DEF ReplaceOne
  <2>2. /\ pc = "replace" /\ pc' = "settle" /\ Pending' = Pending
        /\ UNCHANGED <<disk, journal, diskJournal, todo, task, target, snap>>
    BY <1>4 DEF ReplaceOne, Goto, localVars, Pending
  <2>3. /\ journal = [phase |-> "prepared", old |-> snap] /\ diskJournal = journal
        /\ todo \subseteq Pending
    BY <2>2 DEF ControlInv
  <2>4. p # Routes => file'[Routes] = file[Routes]
    BY <2>1, RoutesAreCovered DEF TypeOK, Files
  <2>5. p = Routes => Routes \in todo /\ Earliest(Routes, todo)
    BY <2>1
  <2>6. TargetInv'
    BY <2>2, <2>3
  <2>7. TestedInv'
    <3>1. RoutesUntouched' <=> RoutesUntouched
      BY <2>2
    <3>2. Earliest(Routes, todo)' <=> Earliest(Routes, todo)
      BY <2>2 DEF Earliest
    <3>3. RoutesUntouched /\ ~Earliest(Routes, todo) => Accepted'
      BY <2>2, <2>4, <2>5
    <3>4. ~RoutesUntouched => file'[Routes] = disk'[Routes]
      BY <2>1, <2>2, <2>4, <2>5
    <3> QED
      BY <2>2, <2>3, <3>1, <3>2, <3>3, <3>4
  <2> QED
    BY <2>6, <2>7
<1>5. CASE Settle
  <2>1. PICK p \in todo : Earliest(p, todo) /\ Flush(Dir[p]) /\ todo' = todo \ {p}
    BY <1>5 DEF Settle
  <2>2. /\ pc = "settle" /\ Pending' = Pending /\ UNCHANGED <<file, journal, task, target, snap>>
        /\ pc' = IF todo' # {} THEN "replace" ELSE IF Routes \in Pending THEN "test" ELSE "commit"
    BY <1>5, <2>1 DEF Settle, Goto, Pending, Flush
  <2>3. /\ journal.phase = "prepared" /\ journal.old[Routes] \in ValidRoutes /\ diskJournal' = journal
        /\ todo \subseteq Pending
    BY <2>1, <2>2, FlushRoutes DEF ControlInv
  <2>4. /\ disk'[Routes] \in {file[Routes], disk[Routes]} /\ (p = Routes => disk'[Routes] = file[Routes])
    BY <2>1, FlushRoutes
  <2>5. Routes \in todo /\ Earliest(Routes, todo) => p = Routes
    BY <2>1, EarliestUnique DEF TypeOK
  <2>6. RoutesUntouched' => RoutesUntouched /\ ~Earliest(Routes, todo)
    BY <2>1, <2>2, <2>3, <2>5 DEF Earliest
  <2>7. ~RoutesUntouched' => file'[Routes] = disk'[Routes]
    BY <2>1, <2>2, <2>4
  <2> QED
    BY <2>2, <2>3, <2>4, <2>6, <2>7
<1>6. CASE Test \/ Reload
  BY <1>6 DEF Test, Reload, Goto, fileVars, localVars
<1>7. CASE Commit
  BY <1>7 DEF Commit, Goto, localVars, ControlInv
<1>8. CASE CommitSync \/ RemoveJournalSync
  <2>1. /\ Flush(PrivateRoot) /\ pc' \in {"remove_journal", "idle"}
        /\ pc' = "remove_journal" => pc \in {"commit_sync", "commit_resync"}
    BY <1>8 DEF CommitSync, RemoveJournalSync, Goto, Report, Leave
  <2> QED
    BY <2>1, FlushRoutes
<1>9. CASE RemoveJournal
  BY <1>9, JournalFacts DEF RemoveJournal, Goto, localVars
<1>10. CASE NothingPending \/ ActivationRaises \/ CommitResyncFails \/ RemoveJournalFails \/ CommitSyncFails
  BY <1>10 DEF NothingPending, ActivationRaises, CommitResyncFails, RemoveJournalFails, CommitSyncFails,
               Goto, Report, Leave, fileVars
<1>11. CASE FirstReplaceFails
  BY <1>11 DEF FirstReplaceFails, Goto, fileVars
<1>12. CASE StepFails \/ CommandRefused \/ ReloadTimeout
  <2>1. /\ pc' = "restore" /\ todo' = DOMAIN snap /\ UNCHANGED <<file, disk, journal, diskJournal>>
        /\ pc \in {"replace", "settle", "test", "reload", "commit"}
    BY <1>12 DEF StepFails, CommandRefused, ReloadTimeout, Unwind, Goto, fileVars
  <2> QED
    BY <1>0, <2>1 DEF ActivationSteps
<1> QED
  BY <1>1, <1>2, <1>3, <1>4, <1>5, <1>6, <1>7, <1>8, <1>9, <1>10, <1>11, <1>12 DEF ActivationStep

LEMMA RoutesNext == RoutesInv /\ [Next]_vars => RoutesInv'
<1> SUFFICES ASSUME RoutesInv, [Next]_vars PROVE TargetInv' /\ TestedInv'
  BY TypeNext DEF RoutesInv
<1>1. CASE \E u \in Updates : Activate(u)
  BY <1>1, RoutesEnter DEF Activate, Tasks
<1>2. CASE Recover
  BY <1>2, RoutesEnter DEF Recover, RecoverFirst, BootRecover, RecoverCli, Tasks
<1>3. CASE RecoveryStep
  BY <1>3, RoutesRecovery
<1>4. CASE ActivationStep
  BY <1>4, RoutesActivation
<1>5. CASE Environment
  <2> USE DEF RoutesInv, TargetInv, TestedInv, Accepted, RoutesUntouched, Pending
  <2>1. CASE StartNginx \/ StopNginx
    <3>1. UNCHANGED <<file, disk, journal, diskJournal, pc, task, target, snap, todo>>
      BY <2>1 DEF StartNginx, StopNginx, fileVars, localVars
    <3> QED
      BY <3>1 DEF RestoresNext, Earliest
  <2>2. CASE Kill
    BY <2>2 DEF Kill, Leave, fileVars
  <2>3. CASE Writeback
    <3>1. /\ disk'[Routes] \in {file[Routes], disk[Routes]} /\ diskJournal' \in {journal, diskJournal}
          /\ UNCHANGED <<file, journal, pc, task, target, snap, todo>>
      BY <2>3, RoutesAreCovered DEF Writeback, localVars, TypeInv, TypeOK, Files
    <3> QED
      BY <3>1 DEF RestoresNext, Earliest
  <2>4. CASE PowerLoss
    BY <2>4 DEF PowerLoss, Leave
  <2> QED
    BY <1>5, <2>1, <2>2, <2>3, <2>4 DEF Environment
<1>6. CASE UNCHANGED vars
  <2>1. UNCHANGED <<file, disk, journal, diskJournal, pc, task, target, snap, todo>>
    BY <1>6 DEF vars, fileVars, localVars
  <2> QED
    BY <2>1 DEF RoutesInv, TargetInv, TestedInv, Accepted, RoutesUntouched, Pending, RestoresNext, Earliest
<1> QED
  BY <1>1, <1>2, <1>3, <1>4, <1>5, <1>6 DEF Next

\* Whatever is on file while nobody works, and whatever a journal would
\* restore, nginx accepts, so that a rollback and a start of nginx can succeed:
\* RecoveryTargetIsValid, also for runtimes with files that may be missing.
THEOREM RecoveredRoutesAreValid == Spec => []RecoveryTargetIsValid
<1>1. RoutesInv => RecoveryTargetIsValid
  BY DEF RoutesInv, TargetInv, Accepted, RecoveryTargetIsValid
<1> QED
  BY RoutesInit, RoutesNext, <1>1, PTL DEF Spec

\* The routes of a running nginx, where only commands recover.
OnlyCommandsRecover == ~RecoverByHand

ServingInv == RoutesInv /\ ServedInv

LEMMA ServedRecovery == ServingInv /\ RecoveryStep => ServedInv'
<1> SUFFICES ASSUME ServingInv, RecoveryStep PROVE ServedInv'
  OBVIOUS
<1> USE DEF ServingInv, ServedInv, RecoverySteps, ActivationSteps
<1>1. CASE RestoreOne \/ RestoreSync \/ RestoreNothing
  <2>1. /\ pc \in {"restore", "restore_sync"} /\ pc' \in {"restore", "restore_sync", "test_restored"}
        /\ UNCHANGED <<journal, loaded, starting, task>> /\ journal.phase = "prepared"
    BY <1>1 DEF RestoreOne, RestoreSync, RestoreNothing, Restored, Goto, fileVars, localVars, Flush,
                RoutesInv, TypeInv, ControlInv
  <2> QED
    BY <2>1
<1>2. CASE TestRestored
  <2>1. /\ pc = "test_restored" /\ UNCHANGED <<file, journal, loaded, starting, task>>
        /\ pc' = IF task = "boot" THEN "drop_journal" ELSE "reload_restored"
    BY <1>2 DEF TestRestored, Goto, fileVars, localVars
  <2> QED
    BY <2>1 DEF Serving
<1>3. CASE ReloadRestored \/ ReloadRestoredTimeout
  <2>1. /\ loaded' = file'[Routes] /\ loaded # Stopped /\ pc' \in {"drop_journal", "idle"}
        /\ task' \in {task, "none"} /\ pc = "reload_restored"
    BY <1>3 DEF ReloadRestored, ReloadRestoredTimeout, RecoveryFails, Leave, Goto, fileVars, localVars
  <2> QED
    BY <2>1 DEF Serving
<1>4. CASE DropJournal
  BY <1>4 DEF DropJournal, Goto, localVars, Serving
<1>5. CASE DropJournalSync
  <2>1. /\ pc = "drop_journal_sync" /\ pc' \in {"idle", "snapshot"} /\ UNCHANGED <<file, journal, loaded>>
        /\ task' = "none" /\ journal.phase = "none"
    BY <1>5 DEF DropJournalSync, RecoveryEnds, Leave, Report, Goto, Flush, RoutesInv, TestedInv
  <2> QED
    BY <2>1 DEF Serving
<1>6. CASE RecoveryRefused \/ RecoveryFault
  BY <1>6 DEF RecoveryRefused, RecoveryFault, RecoveryFails, Leave, fileVars, Serving
<1> QED
  BY <1>1, <1>2, <1>3, <1>4, <1>5, <1>6 DEF RecoveryStep

LEMMA ServedActivation == ServingInv /\ ActivationStep => ServedInv'
<1> SUFFICES ASSUME ServingInv, ActivationStep PROVE ServedInv'
  OBVIOUS
<1> USE DEF ServingInv, ServedInv, RecoverySteps
<1>1. CASE TakeSnapshot \/ WriteJournal
  BY <1>1 DEF TakeSnapshot, WriteJournal, Goto, fileVars, localVars, Serving, RoutesInv, TestedInv
<1>2. CASE SyncJournal
  BY <1>2 DEF SyncJournal, Goto, Flush, Serving
<1>3. CASE ReplaceOne
  <2>1. PICK p \in todo : Earliest(p, todo) /\ file' = [file EXCEPT ![p] = target[p]]
    BY <1>3 DEF ReplaceOne
  <2>2. /\ pc = "replace" /\ pc' = "settle" /\ Pending' = Pending
        /\ UNCHANGED <<journal, loaded, starting, todo, task>> /\ journal.phase = "prepared"
    BY <1>3 DEF ReplaceOne, Goto, localVars, Pending, RoutesInv, TypeInv, ControlInv
  <2>3. p # Routes => file'[Routes] = file[Routes]
    BY <2>1, RoutesAreCovered DEF RoutesInv, TypeInv, TypeOK, Files
  <2>4. RoutesUntouched' = RoutesUntouched /\ Earliest(Routes, todo)' = Earliest(Routes, todo)
    BY <2>2 DEF RoutesUntouched, Earliest
  <2>5. RoutesUntouched /\ ~Earliest(Routes, todo) => Serving'
    BY <2>1, <2>2, <2>3 DEF Serving
  <2> QED
    BY <2>2, <2>4, <2>5
<1>4. CASE Settle
  <2>1. PICK p \in todo : Earliest(p, todo) /\ todo' = todo \ {p}
    BY <1>4 DEF Settle
  <2>2. /\ pc = "settle" /\ Pending' = Pending /\ UNCHANGED <<file, journal, loaded, starting, task>>
        /\ pc' = IF todo' # {} THEN "replace" ELSE IF Routes \in Pending THEN "test" ELSE "commit"
        /\ journal.phase = "prepared" /\ todo \subseteq Pending
    BY <1>4, <2>1 DEF Settle, Goto, Pending, Flush, RoutesInv, TypeInv, ControlInv
  <2>3. Routes \in todo /\ Earliest(Routes, todo) => p = Routes
    BY <2>1, EarliestUnique DEF RoutesInv, TypeInv, TypeOK
  <2>4. RoutesUntouched' => RoutesUntouched /\ ~Earliest(Routes, todo)
    BY <2>1, <2>2, <2>3 DEF Earliest, RoutesUntouched
  <2>5. pc' = "commit" => RoutesUntouched /\ ~Earliest(Routes, todo)
    BY <2>2 DEF Earliest, RoutesUntouched
  <2> QED
    BY <2>2, <2>4, <2>5 DEF Serving
<1>5. CASE Test
  BY <1>5 DEF Test, Goto, fileVars, localVars, Serving
<1>6. CASE Reload
  BY <1>6 DEF Reload, Goto, fileVars, localVars, Serving
<1>7. CASE Commit \/ RemoveJournal
  BY <1>7 DEF Commit, RemoveJournal, Goto, localVars, Serving, RoutesInv, TestedInv
<1>8. CASE CommitSync \/ RemoveJournalSync
  BY <1>8 DEF CommitSync, RemoveJournalSync, Goto, Report, Leave, Flush, localVars, Serving
<1>9. CASE NothingPending \/ ActivationRaises \/ CommitResyncFails \/ RemoveJournalFails \/ CommitSyncFails
  BY <1>9 DEF NothingPending, ActivationRaises, CommitResyncFails, RemoveJournalFails, CommitSyncFails,
              Goto, Report, Leave, fileVars, localVars, Serving
<1>10. CASE FirstReplaceFails
  BY <1>10 DEF FirstReplaceFails, Goto, fileVars, Serving, RoutesUntouched
<1>11. CASE StepFails \/ CommandRefused \/ ReloadTimeout
  <2>1. /\ pc' = "restore" /\ task' = "unwind" /\ journal' = journal
        /\ pc \in {"replace", "settle", "test", "reload", "commit"}
    BY <1>11 DEF StepFails, CommandRefused, ReloadTimeout, Unwind, Goto, fileVars
  <2>2. journal.phase = "prepared"
    BY <2>1 DEF RoutesInv, TypeInv, ControlInv
  <2> QED
    BY <2>1, <2>2
<1> QED
  BY <1>1, <1>2, <1>3, <1>4, <1>5, <1>6, <1>7, <1>8, <1>9, <1>10, <1>11 DEF ActivationStep

LEMMA ServedNext == OnlyCommandsRecover /\ ServingInv /\ [Next]_vars => ServingInv'
<1> SUFFICES ASSUME OnlyCommandsRecover, ServingInv, [Next]_vars PROVE ServedInv'
  BY RoutesNext DEF ServingInv
<1>1. ASSUME NEW why \in {"activate", "operation", "boot"}, NEW u, EnterRecovery(why, u),
             why = "boot" => loaded = Stopped /\ ~starting
      PROVE  ServedInv'
  <2>1. /\ UNCHANGED <<file, journal, loaded>> /\ pc' \in {"restore", "drop_journal", "snapshot", "idle"}
        /\ pc' = "restore" => journal.phase = "prepared" /\ task' = why /\ UNCHANGED starting
        /\ pc' = "drop_journal" => journal.phase # "prepared" /\ task' = why /\ UNCHANGED starting
        /\ pc' \in {"snapshot", "idle"} => task' = "none" /\ journal.phase # "prepared"
    BY <1>1 DEF EnterRecovery, Goto, fileVars
  <2> QED
    BY <1>1, <2>1 DEF ServingInv, ServedInv, Serving
<1>2. CASE \E u \in Updates : Activate(u)
  BY <1>1, <1>2 DEF Activate
<1>3. CASE Recover
  BY <1>1, <1>3 DEF Recover, RecoverFirst, BootRecover, RecoverCli, OnlyCommandsRecover
<1>4. CASE RecoveryStep
  BY <1>4, ServedRecovery
<1>5. CASE ActivationStep
  BY <1>5, ServedActivation
<1>6. CASE Environment
  <2> USE DEF ServingInv, ServedInv, Serving
  <2>1. CASE StartNginx \/ StopNginx
    <3>1. UNCHANGED <<file, journal, pc, task, target, snap, todo>> /\ loaded' \in {Stopped, file[Routes]}
      BY <2>1 DEF StartNginx, StopNginx, fileVars, localVars
    <3>2. loaded = Stopped /\ ~starting => loaded' = Stopped /\ ~starting'
      BY <2>1 DEF StartNginx, StopNginx
    <3> QED
      BY <3>1, <3>2 DEF RoutesUntouched, Pending, Earliest
  <2>2. CASE Kill
    BY <2>2 DEF Kill, Leave, fileVars, RecoverySteps
  <2>3. CASE Writeback
    <3>1. UNCHANGED <<file, journal, loaded, starting, pc, task, target, snap, todo>>
      BY <2>3 DEF Writeback, localVars
    <3> QED
      BY <3>1 DEF RoutesUntouched, Pending, Earliest
  <2>4. CASE PowerLoss
    BY <2>4 DEF PowerLoss, Leave, RecoverySteps
  <2> QED
    BY <1>6, <2>1, <2>2, <2>3, <2>4 DEF Environment
<1>7. CASE UNCHANGED vars
  <2>1. UNCHANGED <<file, journal, loaded, starting, pc, task, target, snap, todo>>
    BY <1>7 DEF vars, fileVars, localVars
  <2> QED
    BY <2>1 DEF ServingInv, ServedInv, Serving, RoutesUntouched, Pending, Earliest
<1> QED
  BY <1>2, <1>3, <1>4, <1>5, <1>6, <1>7 DEF Next

\* Once an activation or a recovery is over, a running nginx serves the routes
\* on file, through failing calls, kills, power losses and stops of nginx, as
\* long as nobody types `clash-sub recover`: LoadedMatchesRoutes.
THEOREM ServedRoutesAreOnFile == ASSUME OnlyCommandsRecover PROVE Spec => []LoadedMatchesRoutes
<1>1. Init => ServingInv
  BY RoutesInit, JournalFacts DEF Init, ServingInv, ServedInv, Serving, RecoverySteps
<1>2. ServingInv => LoadedMatchesRoutes
  BY DEF ServingInv, ServedInv, Serving, LoadedMatchesRoutes
<1> QED
  BY <1>1, ServedNext, <1>2, PTL DEF Spec

-----------------------------------------------------------------------------
(* What a failed activation leaves *)

OneFault == MaxFaults <= 1

\* The activation that is rolled back is the one in the journal; whatever was
\* not replaced, or was restored, is what the snapshot found.
FoundInv ==
    /\ pc \in {"idle", "snapshot"} \/ (pc \in RecoverySteps /\ task = "activate") => snap = <<>>
    /\ task = "unwind" /\ pc \in RecoverySteps \ {"drop_journal_sync"} =>
         journal = [phase |-> "prepared", old |-> snap]
    /\ pc \in {"restore", "restore_sync"} =>
         \A p \in DOMAIN journal.old : p \notin todo => file[p] = journal.old[p]
    /\ pc = "restore_sync" => \A p \in todo : RestoresNext(p) => file[p] = journal.old[p]
    /\ pc \in {"test_restored", "reload_restored"} => Agrees(file, journal.old)
    /\ task = "unwind" /\ pc \in {"drop_journal", "drop_journal_sync"} => Agrees(file, snap)
    /\ pc \in {"write_journal", "sync_journal"} => Agrees(file, snap)
    /\ pc = "replace" => \A p \in DOMAIN snap : file[p] = IF p \in todo THEN snap[p] ELSE target[p]
    /\ pc = "settle" => \A p \in DOMAIN snap :
         file[p] = IF p \in todo /\ ~Earliest(p, todo) THEN snap[p] ELSE target[p]
    /\ pc = "commit_resync" => faults > 0

KeptInv == RoutesInv /\ FoundInv

LEMMA KeptInit == Init => KeptInv
BY RoutesInit DEF Init, KeptInv, FoundInv, RecoverySteps

LEMMA KeptRecovery == KeptInv /\ RecoveryStep => FoundInv'
<1> SUFFICES ASSUME KeptInv, RecoveryStep PROVE FoundInv'
  OBVIOUS
<1> USE DEF KeptInv, FoundInv, RecoverySteps, RoutesInv
<1>1. CASE RestoreOne
  <2>1. PICK p \in todo : RestoresNext(p) /\ file' = [file EXCEPT ![p] = journal.old[p]]
    BY <1>1 DEF RestoreOne
  <2>2. /\ pc = "restore" /\ pc' = "restore_sync" /\ UNCHANGED <<journal, todo, task, snap>>
        /\ journal.phase = "prepared" /\ todo \subseteq DOMAIN journal.old
    BY <1>1 DEF RestoreOne, Goto, localVars, TypeInv, ControlInv
  <2>3. DOMAIN journal.old \subseteq Path
    BY JournalFacts, SnapshotFacts DEF TypeInv, TypeOK
  <2>4. ASSUME NEW q \in DOMAIN journal.old
        PROVE  file'[q] = IF q = p THEN journal.old[q] ELSE file[q]
    BY <2>1, <2>3 DEF TypeInv, TypeOK, Files
  <2>5. ASSUME NEW q \in todo, RestoresNext(q)' PROVE file'[q] = journal.old[q]
    <3>1. RestoresNext(q)
      BY <2>2, <2>5 DEF RestoresNext, Earliest
    <3>2. q = p
      BY <2>1, <3>1, RestoresNextUnique DEF TypeInv, TypeOK
    <3> QED
      BY <2>2, <2>4, <3>2
  <2> QED
    BY <2>2, <2>4, <2>5
<1>2. CASE RestoreSync
  <2>1. PICK p \in todo : RestoresNext(p) /\ todo' = todo \ {p}
                          /\ pc' = (IF todo' = {} THEN "test_restored" ELSE "restore")
    BY <1>2 DEF RestoreSync, Restored, Goto
  <2>2. pc = "restore_sync" /\ UNCHANGED <<file, journal, task, snap>>
    BY <1>2 DEF RestoreSync, Flush
  <2> QED
    BY <2>1, <2>2 DEF Agrees
<1>3. CASE RestoreNothing
  <2>1. PICK p \in todo : Gone(p) /\ todo' = todo \ {p}
                          /\ pc' = (IF todo' = {} THEN "test_restored" ELSE "restore")
    BY <1>3 DEF RestoreNothing, Restored, Goto
  <2>2. pc = "restore" /\ UNCHANGED <<file, journal, task, snap>>
    BY <1>3 DEF RestoreNothing, fileVars
  <2> QED
    BY <2>1, <2>2 DEF Agrees, Gone
<1>4. CASE TestRestored \/ ReloadRestored
  BY <1>4 DEF TestRestored, ReloadRestored, Goto, fileVars, localVars, Agrees
<1>5. CASE DropJournal
  BY <1>5 DEF DropJournal, Goto, localVars, Agrees
<1>6. CASE DropJournalSync
  BY <1>6 DEF DropJournalSync, RecoveryEnds, Leave, Report, Goto
<1>7. CASE RecoveryRefused \/ RecoveryFault \/ ReloadRestoredTimeout
  BY <1>7 DEF RecoveryRefused, RecoveryFault, ReloadRestoredTimeout, RecoveryFails, Leave
<1> QED
  BY <1>1, <1>2, <1>3, <1>4, <1>5, <1>6, <1>7 DEF RecoveryStep

LEMMA KeptActivation == KeptInv /\ ActivationStep => FoundInv'
<1> SUFFICES ASSUME KeptInv, ActivationStep PROVE FoundInv'
  OBVIOUS
<1> USE DEF KeptInv, FoundInv, RecoverySteps, RoutesInv, TypeInv
<1>0. pc \in ActivationSteps \ {"snapshot"} => DOMAIN snap = DOMAIN target /\ DOMAIN snap \subseteq Path
  BY SnapshotFacts DEF LocalsInv
<1>1. CASE TakeSnapshot
  <2>1. snap' = [p \in DOMAIN target |-> file[p]] /\ pc' = "write_journal" /\ UNCHANGED <<file, task>>
        /\ pc = "snapshot"
    BY <1>1 DEF TakeSnapshot, Goto, fileVars
  <2> QED
    BY <2>1 DEF Agrees
<1>2. CASE WriteJournal \/ SyncJournal
  <2>1. /\ pc \in {"write_journal", "sync_journal"} /\ pc' \in {"sync_journal", "replace"}
        /\ pc' = "replace" => todo' = Pending
        /\ UNCHANGED <<file, target, snap, task>>
    BY <1>2 DEF WriteJournal, SyncJournal, Goto, localVars, Flush
  <2>2. \A p \in DOMAIN snap : p \notin Pending => snap[p] = target[p]
    BY <1>0, <2>1 DEF Pending, ActivationSteps
  <2> QED
    BY <2>1, <2>2 DEF Agrees
<1>3. CASE ReplaceOne
  <2>1. PICK p \in todo : Earliest(p, todo) /\ file' = [file EXCEPT ![p] = target[p]]
    BY <1>3 DEF ReplaceOne
  <2>2. /\ pc = "replace" /\ pc' = "settle" /\ UNCHANGED <<todo, task, target, snap>>
    BY <1>3 DEF ReplaceOne, Goto, localVars
  <2>3. ASSUME NEW q \in DOMAIN snap
        PROVE  file'[q] = IF q \in todo /\ ~Earliest(q, todo) THEN snap[q] ELSE target[q]
    <3>1. file'[q] = IF q = p THEN target[q] ELSE file[q]
      BY <1>0, <2>1, <2>2 DEF TypeOK, Files, ActivationSteps
    <3>2. q \in todo /\ Earliest(q, todo) => q = p
      BY <2>1, EarliestUnique DEF TypeOK
    <3> QED
      BY <2>1, <2>2, <3>1, <3>2
  <2>4. ASSUME NEW q PROVE Earliest(q, todo)' <=> Earliest(q, todo)
    BY <2>2 DEF Earliest
  <2> QED
    BY <2>2, <2>3, <2>4
<1>4. CASE Settle
  <2>1. PICK p \in todo : Earliest(p, todo) /\ todo' = todo \ {p}
    BY <1>4 DEF Settle
  <2>2. /\ pc = "settle" /\ pc' \in {"replace", "test", "commit"} /\ UNCHANGED <<file, task, target, snap>>
    BY <1>4 DEF Settle, Goto, Flush
  <2>3. \A q \in todo : Earliest(q, todo) => q = p
    BY <2>1, EarliestUnique DEF TypeOK
  <2> QED
    BY <2>1, <2>2, <2>3
<1>5. CASE Test \/ Reload \/ Commit \/ CommitSync \/ RemoveJournal
  BY <1>5 DEF Test, Reload, Commit, CommitSync, RemoveJournal, Goto, localVars
<1>6. CASE RemoveJournalSync \/ NothingPending \/ ActivationRaises \/ CommitResyncFails \/ RemoveJournalFails
  BY <1>6 DEF RemoveJournalSync, NothingPending, ActivationRaises, CommitResyncFails, RemoveJournalFails,
              Report, Leave
<1>7. CASE CommitSyncFails
  BY <1>7 DEF CommitSyncFails, Goto, Fault, localVars, TypeOK
<1>8. CASE FirstReplaceFails
  <2>1. /\ pc = "replace" /\ todo = Pending /\ pc' = "drop_journal" /\ task' = "unwind"
        /\ UNCHANGED <<file, journal, target, snap>>
    BY <1>8 DEF FirstReplaceFails, Goto, fileVars
  <2>2. \A p \in DOMAIN snap : p \notin Pending => snap[p] = target[p]
    BY <1>0, <2>1 DEF Pending, ActivationSteps
  <2> QED
    BY <2>1, <2>2 DEF Agrees, ControlInv
<1>9. CASE StepFails \/ CommandRefused \/ ReloadTimeout
  <2>1. /\ pc' = "restore" /\ task' = "unwind" /\ todo' = DOMAIN snap /\ UNCHANGED <<file, journal, snap>>
        /\ pc \in {"replace", "settle", "test", "reload", "commit"}
    BY <1>9 DEF StepFails, CommandRefused, ReloadTimeout, Unwind, Goto, fileVars
  <2>2. journal = [phase |-> "prepared", old |-> snap]
    BY <2>1 DEF ControlInv
  <2> QED
    BY <2>1, <2>2
<1> QED
  BY <1>1, <1>2, <1>3, <1>4, <1>5, <1>6, <1>7, <1>8, <1>9 DEF ActivationStep

LEMMA KeptNext == KeptInv /\ [Next]_vars => KeptInv'
<1> SUFFICES ASSUME KeptInv, [Next]_vars PROVE FoundInv'
  BY RoutesNext DEF KeptInv
<1>1. ASSUME NEW why \in Tasks \ {"unwind"}, NEW u, EnterRecovery(why, u) PROVE FoundInv'
  BY <1>1 DEF EnterRecovery, KeptInv, FoundInv, Goto, fileVars, RecoverySteps
<1>2. CASE \E u \in Updates : Activate(u)
  BY <1>1, <1>2 DEF Activate, Tasks
<1>3. CASE Recover
  BY <1>1, <1>3 DEF Recover, RecoverFirst, BootRecover, RecoverCli, Tasks
<1>4. CASE RecoveryStep
  BY <1>4, KeptRecovery
<1>5. CASE ActivationStep
  BY <1>5, KeptActivation
<1>6. CASE Environment \/ UNCHANGED vars
  <2>1. CASE Kill \/ PowerLoss
    BY <2>1 DEF Kill, PowerLoss, Leave, KeptInv, FoundInv, RecoverySteps
  <2>2. CASE StartNginx \/ StopNginx \/ Writeback \/ UNCHANGED vars
    <3>1. UNCHANGED <<file, journal, pc, task, target, snap, todo, faults>>
      BY <2>2 DEF StartNginx, StopNginx, Writeback, vars, fileVars, localVars, NoFault
    <3>2. ASSUME NEW q PROVE (RestoresNext(q)' <=> RestoresNext(q)) /\ (Earliest(q, todo)' <=> Earliest(q, todo))
      BY <3>1 DEF RestoresNext, Earliest
    <3> QED
      BY <3>1, <3>2 DEF KeptInv, FoundInv, Agrees
  <2> QED
    BY <1>6, <2>1, <2>2 DEF Environment
<1> QED
  BY <1>2, <1>3, <1>4, <1>5, <1>6 DEF Next

\* The failing step of an activation: what the next recovery establishes is
\* what the snapshot found, unless the second fsync of the commit fails.
LEMMA KeptStep ==
    KeptInv /\ [Next]_vars =>
      (outcome = "none" /\ outcome' = "failed" /\ pc # "commit_resync"
         => \A p \in DOMAIN snap : Visible'[p] = snap[p])
<1> SUFFICES ASSUME KeptInv, Next, outcome = "none", outcome' = "failed", pc # "commit_resync",
                    NEW p \in DOMAIN snap
             PROVE  Visible'[p] = snap[p]
  BY DEF vars
<1> USE DEF NoFault, Leave, Report
<1>1. \/ DropJournalSync \/ RecoveryRefused \/ RecoveryFault \/ ReloadRestoredTimeout
      \/ ActivationRaises \/ CommitResyncFails
  <2>1. ~ \E u \in Updates : Activate(u)
    BY DEF Activate
  <2>2. ~ Recover
    BY DEF Recover, RecoverFirst, BootRecover, RecoverCli
  <2>3. RecoveryStep =>
          DropJournalSync \/ RecoveryRefused \/ RecoveryFault \/ ReloadRestoredTimeout
    BY DEF RecoveryStep, RestoreOne, RestoreSync, RestoreNothing, TestRestored, ReloadRestored,
       DropJournal
  <2>4. ActivationStep => ActivationRaises \/ CommitResyncFails
    BY DEF ActivationStep, TakeSnapshot, NothingPending, WriteJournal, SyncJournal, ReplaceOne,
       Settle, Test, Reload, Commit, CommitSync, RemoveJournal, RemoveJournalSync,
       FirstReplaceFails, StepFails, CommandRefused, ReloadTimeout, CommitSyncFails,
       RemoveJournalFails, Unwind
  <2>5. ~ Environment
    BY DEF Environment, StartNginx, StopNginx, Kill, Writeback, PowerLoss
  <2> QED
    BY <2>1, <2>2, <2>3, <2>4, <2>5 DEF Next
<1>2. file' = file /\ journal' = journal
  BY <1>1 DEF DropJournalSync, RecoveryRefused, RecoveryFault, ReloadRestoredTimeout,
     ActivationRaises, CommitResyncFails, Flush, fileVars
<1>3. p \in Path
  BY SnapshotFacts DEF KeptInv, RoutesInv, TypeInv, TypeOK
<1>4. \/ pc \in RecoverySteps /\ task = "unwind"
      \/ pc \in {"write_journal", "sync_journal", "settle"}
  <2>1. snap # <<>>
    OBVIOUS
  <2>2. ~CommitResyncFails
    BY DEF CommitResyncFails
  <2>3. CASE DropJournalSync \/ RecoveryRefused \/ RecoveryFault \/ ReloadRestoredTimeout
    <3>1. pc \in RecoverySteps /\ task \in {"activate", "unwind"}
      BY <2>3 DEF DropJournalSync, RecoveryRefused, RecoveryFault, ReloadRestoredTimeout,
         RecoveryFails, RecoveryEnds, RecoverySteps
    <3> QED
      BY <2>1, <3>1 DEF KeptInv, FoundInv
  <2>4. CASE ActivationRaises
    BY <2>1, <2>4 DEF ActivationRaises, KeptInv, FoundInv
  <2> QED
    BY <1>1, <2>2, <2>3, <2>4
<1>5. \/ journal = [phase |-> "prepared", old |-> snap]
      \/ journal.phase # "prepared" /\ file[p] = snap[p]
  BY <1>4 DEF KeptInv, FoundInv, RoutesInv, TypeInv, ControlInv, TestedInv, RecoverySteps, Agrees
<1> QED
  BY <1>2, <1>3, <1>5 DEF Visible, Recovered, Overlay

\* FailureKeepsRuntime but for the one step that breaks it, with any number of
\* failing calls, kills and power losses: an activation that reports a failure
\* before its commit has left the files it found, or a journal that restores
\* them.
FailureKeepsRuntimeBeforeCommit ==
    [][outcome = "none" /\ outcome' = "failed" /\ pc # "commit_resync"
         => \A p \in DOMAIN snap : Visible'[p] = snap[p]]_vars

\* With any number of faults, only the second fsync of a commit reports a
\* failure over files that no recovery takes back.
THEOREM FailuresBeforeCommit == Spec => FailureKeepsRuntimeBeforeCommit
<1>1. Init => KeptInv
  BY KeptInit
<1>2. KeptInv /\ [Next]_vars => KeptInv'
  BY KeptNext
<1>3. KeptInv /\ [Next]_vars =>
        [outcome = "none" /\ outcome' = "failed" /\ pc # "commit_resync"
           => \A p \in DOMAIN snap : Visible'[p] = snap[p]]_vars
  BY KeptStep
<1> QED
  BY <1>1, <1>2, <1>3, PTL DEF Spec, FailureKeepsRuntimeBeforeCommit

\* The second fsync fails only after the first one did, so that with one failing
\* call no activation reports a failure over files no recovery takes back.
THEOREM FailuresAreTakenBack == ASSUME OneFault PROVE Spec => FailureKeepsRuntime
<1>1. Init => KeptInv
  BY KeptInit
<1>2. KeptInv /\ [Next]_vars => KeptInv'
  BY KeptNext
<1>3. ASSUME KeptInv, [Next]_vars
      PROVE  [outcome = "none" /\ outcome' = "failed"
                => \A p \in DOMAIN snap : Visible'[p] = snap[p]]_vars
  <2>1. CASE pc # "commit_resync"
    BY <1>3, <2>1, KeptStep
  <2>2. CASE pc = "commit_resync" /\ Next
    <3>1. faults >= MaxFaults
      BY <1>3, <2>2, OneFault, ActivationAssumption
      DEF OneFault, KeptInv, FoundInv, RoutesInv, TypeInv, TypeOK
    <3>2. ~CommitResyncFails
      BY <1>3, <3>1, ActivationAssumption
      DEF CommitResyncFails, Fault, KeptInv, RoutesInv, TypeInv, TypeOK
    <3>3. outcome # "none" \/ outcome' # "failed"
      <4> USE DEF Leave
      <4>1. \A u \in Updates : Activate(u) => outcome' = "none"
        BY DEF Activate
      <4>2. ActivationStep => outcome' = outcome
        BY <2>2, <3>2 DEF ActivationStep, TakeSnapshot, NothingPending, WriteJournal, SyncJournal,
           ReplaceOne, Settle, Test, Reload, Commit, CommitSync, RemoveJournal, RemoveJournalSync,
           ActivationRaises, FirstReplaceFails, StepFails, CommandRefused, ReloadTimeout,
           CommitSyncFails, RemoveJournalFails, Unwind
      <4>3. Recover \/ Environment => outcome' = outcome
        BY DEF Recover, RecoverFirst, BootRecover, RecoverCli, Environment, StartNginx, StopNginx,
           Kill, Writeback, PowerLoss
      <4>4. ~RecoveryStep
        BY <2>2 DEF RecoveryStep, RestoreOne, RestoreSync, RestoreNothing, TestRestored,
           ReloadRestored, DropJournal, DropJournalSync, RecoveryRefused, RecoveryFault,
           ReloadRestoredTimeout, RecoverySteps
      <4> QED
        BY <2>2, <4>1, <4>2, <4>3, <4>4 DEF Next
    <3> QED
      BY <3>3
  <2> QED
    BY <1>3, <2>1, <2>2
<1> QED
  BY <1>1, <1>2, <1>3, PTL DEF Spec, FailureKeepsRuntime

=============================================================================
