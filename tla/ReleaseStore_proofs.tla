------------------------- MODULE ReleaseStore_proofs -------------------------
(***************************************************************************)
(* CurrentIsIntact and FailureLeavesNothing of ReleaseStore, for any       *)
(* number of releases, any bound of troubles and any number of releases    *)
(* kept.                                                                   *)
(***************************************************************************)
EXTENDS ReleaseStore, TLAPS

\* What the programs see is among what a power loss may leave.
SeenIsPossible == \A d \in Directory : store[d] \in disk[d]

\* Nothing was ever made under an id that was not drawn.
UnusedIsBlank == \A r \in Release \ used, s \in Side : disk[<<s, r>>] = {"none"}

\* A directory of a returned release that is in place is in place on disk.
ReturnedIsOnDisk == \A r \in returned, s \in Side :
    store[<<s, r>>] = "released" => disk[<<s, r>>] = {"released"}

\* What prepare has put on disk of its release before each of its steps.
OnDisk(s, values) == disk[<<s, target>>] \subseteq values

Progress ==
    /\ step = "stage_private"   => OnDisk("private", {"none"}) /\ OnDisk("public", {"none"})
    /\ step = "stage_public"    => OnDisk("private", {"none", "staged"}) /\ OnDisk("public", {"none"})
    /\ step = "fill"            => OnDisk("private", {"none", "staged"}) /\ OnDisk("public", {"none", "staged"})
    /\ step = "publish_public"  => OnDisk("private", {"none", "ready"}) /\ OnDisk("public", {"none", "ready"})
    /\ step = "sync_public"     => /\ OnDisk("private", {"none", "ready"})
                                   /\ OnDisk("public", {"none", "ready", "released"})
                                   /\ store[<<"public", target>>] = "released"
    /\ step = "publish_private" => OnDisk("private", {"none", "ready"}) /\ OnDisk("public", {"released"})
    /\ step = "sync_private"    => /\ OnDisk("private", {"none", "ready", "released"})
                                   /\ OnDisk("public", {"released"})
                                   /\ store[<<"private", target>>] = "released"
    /\ step = "verify"          => OnDisk("private", {"released"}) /\ OnDisk("public", {"released"})

\* A running operation works on an id it drew; until prepare returns it, that
\* release is neither returned nor current.
OwnTarget ==
    /\ step # "idle" => target \in used
    /\ step \in Preparing => target \notin returned /\ target # current
    /\ returned \subseteq used
    /\ current \in used \cup {None} /\ restore \in used \cup {None, Nothing}

\* A recovery is pending only between operations and in a discard, which
\* then refuses its release.
RecoveredFirst ==
    /\ step \in Preparing \cup {"prepared", "prune", "removing"} => restore = Nothing
    /\ step = "discard" => restore = Nothing \/ current = target

\* Nothing that is to be removed is current.
DoomedIsNotCurrent ==
    \A i \in 1 .. Len(doomed) :
        step = "removing" => doomed[i][2] \in used /\ doomed[i][2] \notin {current} \cap returned

IInv == /\ TypeOK /\ SeenIsPossible /\ UnusedIsBlank /\ ReturnedIsOnDisk /\ Progress
        /\ OwnTarget /\ RecoveredFirst /\ DoomedIsNotCurrent /\ CurrentIsIntact

LEMMA InvInit == Init => IInv
  BY StoreAssumption DEF Init, IInv, TypeOK, SeenIsPossible, UnusedIsBlank,
      ReturnedIsOnDisk, Progress, OwnTarget, RecoveredFirst, DoomedIsNotCurrent,
      CurrentIsIntact, Directory, Value, Release, None, Nothing, Preparing, Side,
      OnDisk, Verifies

(* The one or two directories an operation sets out to remove.              *)
LEMMA ShortSequences ==
  ASSUME NEW S, NEW a \in S, NEW b \in S
  PROVE  /\ <<>> \in Seq(S) /\ <<a>> \in Seq(S) /\ <<a, b>> \in Seq(S)
         /\ \A i \in 1 .. Len(<<a>>) : <<a>>[i] = a
         /\ \A i \in 1 .. Len(<<a, b>>) : <<a, b>>[i] \in {a, b}
  OBVIOUS

(* Every step keeps the invariant; under each action, what it can disturb.  *)
LEMMA InvNext == IInv /\ [Next]_vars => IInv'
<1> SUFFICES ASSUME IInv, [Next]_vars PROVE IInv'
  OBVIOUS
<1> USE StoreAssumption
<1>0. TypeOK /\ SeenIsPossible /\ UnusedIsBlank /\ ReturnedIsOnDisk /\ Progress
      /\ OwnTarget /\ RecoveredFirst /\ DoomedIsNotCurrent /\ CurrentIsIntact
  BY DEF IInv
<1>1. ASSUME NEW r \in Release, Start(r) PROVE IInv'
  <2>1. TypeOK'
    BY <1>1, <1>0 DEF Start, TypeOK, OwnTarget, Nothing, history, None, files, marker,
        Directory, Value, Release, Preparing, Verifies, Side
  <2>2. UnusedIsBlank'
    BY <1>1, <1>0 DEF Start, TypeOK, UnusedIsBlank, OwnTarget, Nothing, history, None,
        files, marker, Directory, Value, Release, Preparing, Side, Verifies
  <2>3. Progress'
    BY <1>1, <1>0 DEF Start, TypeOK, UnusedIsBlank, Progress, OwnTarget, Nothing,
        history, None, files, marker, Directory, Value, Release, Preparing, Side,
        OnDisk, Verifies
  <2>4. OwnTarget'
    BY <1>1, <1>0 DEF Start, TypeOK, OwnTarget, Nothing, history, None, files, marker,
        Directory, Value, Release, Preparing, Verifies, Side
  <2>5. RecoveredFirst'
    BY <1>1, <1>0 DEF Start, TypeOK, RecoveredFirst, OwnTarget, Nothing, history, None,
        files, marker, Directory, Value, Release, Preparing, Verifies, Side
  <2>6. DoomedIsNotCurrent'
    BY <1>1, <1>0 DEF Start, TypeOK, OwnTarget, RecoveredFirst, DoomedIsNotCurrent,
        Nothing, history, None, files, marker, Directory, Value, Release, Preparing,
        Verifies, Side
  <2>7. SeenIsPossible' /\ ReturnedIsOnDisk' /\ CurrentIsIntact'
    BY <1>1, <1>0 DEF Start, SeenIsPossible, ReturnedIsOnDisk, CurrentIsIntact,
        Nothing, history, None, files, marker, Directory, Side, Verifies, Release
  <2> QED
    BY <2>1, <2>2, <2>3, <2>4, <2>5, <2>6, <2>7 DEF IInv
<1>2. ASSUME NEW r \in Release, Rollback(r) PROVE IInv'
  <2>1. TypeOK'
    BY <1>2, <1>0 DEF Rollback, TypeOK, OwnTarget, Nothing, None, Verifies, Calm,
        Trouble, files, task, ghosts, Directory, Value, Release, Preparing, Side
  <2>2. OwnTarget'
    BY <1>2, <1>0 DEF Rollback, TypeOK, OwnTarget, SeenIsPossible, UnusedIsBlank,
        Nothing, None, Verifies, Calm, Trouble, files, task, ghosts, Directory, Value,
        Release, Preparing, Side
  <2>3. RecoveredFirst'
    BY <1>2, <1>0 DEF Rollback, TypeOK, RecoveredFirst, OwnTarget, Nothing, None,
        Verifies, Calm, Trouble, files, task, ghosts, Directory, Value, Release,
        Preparing, Side
  <2>4. DoomedIsNotCurrent'
    BY <1>2, <1>0 DEF Rollback, TypeOK, OwnTarget, RecoveredFirst, DoomedIsNotCurrent,
        Nothing, None, Verifies, Calm, Trouble, files, task, ghosts, Directory, Value,
        Release, Preparing, Side
  <2>5. CurrentIsIntact'
    BY <1>2, <1>0 DEF Rollback, TypeOK, OwnTarget, ReturnedIsOnDisk, RecoveredFirst,
        CurrentIsIntact, Nothing, None, Verifies, Calm, Trouble, files, task, ghosts,
        Directory, Value, Release, Preparing, Side
  <2>6. /\ SeenIsPossible' /\ UnusedIsBlank' /\ ReturnedIsOnDisk'
       /\ Progress'
    BY <1>2, <1>0 DEF Rollback, SeenIsPossible, UnusedIsBlank, ReturnedIsOnDisk,
        Progress, Nothing, None, Verifies, Calm, Trouble, files, task, ghosts,
        Directory, Release, Side, OnDisk
  <2> QED
    BY <2>1, <2>2, <2>3, <2>4, <2>5, <2>6 DEF IInv
<1>3. CASE StagePrivate
  <2>1. TypeOK'
    BY <1>3, <1>0 DEF StagePrivate, TypeOK, OwnTarget, Stage, Directory, Value,
        Release, None, Nothing, Preparing, Becomes, Goto, Calm, marker, ghosts, Side
  <2>2. SeenIsPossible'
    BY <1>3, <1>0 DEF StagePrivate, TypeOK, SeenIsPossible, OwnTarget, Stage,
        Directory, Value, Release, None, Nothing, Preparing, Becomes, Goto, Calm,
        marker, ghosts, Side
  <2>3. UnusedIsBlank'
    BY <1>3, <1>0 DEF StagePrivate, TypeOK, UnusedIsBlank, OwnTarget, Stage, Directory,
        Value, Release, None, Nothing, Preparing, Side, Becomes, Goto, Calm, marker,
        ghosts
  <2>4. ReturnedIsOnDisk'
    BY <1>3, <1>0 DEF StagePrivate, TypeOK, SeenIsPossible, ReturnedIsOnDisk, Progress,
        OwnTarget, Stage, Directory, Value, Release, None, Nothing, Preparing, Side,
        OnDisk, Becomes, Goto, Calm, marker, ghosts
  <2>5. Progress'
    BY <1>3, <1>0 DEF StagePrivate, TypeOK, UnusedIsBlank, Progress, OwnTarget, Stage,
        Directory, Value, Release, None, Nothing, Preparing, Side, OnDisk, Becomes,
        Goto, Calm, marker, ghosts
  <2>6. OwnTarget'
    BY <1>3, <1>0 DEF StagePrivate, TypeOK, OwnTarget, Stage, Directory, Value,
        Release, None, Nothing, Preparing, Becomes, Goto, Calm, marker, ghosts, Side
  <2>7. RecoveredFirst'
    BY <1>3, <1>0 DEF StagePrivate, TypeOK, RecoveredFirst, OwnTarget, Stage,
        Directory, Value, Release, None, Nothing, Preparing, Becomes, Goto, Calm,
        marker, ghosts, Side
  <2>8. DoomedIsNotCurrent'
    BY <1>3, <1>0 DEF StagePrivate, TypeOK, OwnTarget, RecoveredFirst,
        DoomedIsNotCurrent, Stage, Directory, Value, Release, None, Nothing, Preparing,
        Becomes, Goto, Calm, marker, ghosts, Side
  <2>9. CurrentIsIntact'
    BY <1>3, <1>0 DEF StagePrivate, TypeOK, OwnTarget, ReturnedIsOnDisk,
        RecoveredFirst, CurrentIsIntact, Stage, Directory, Value, Release, None,
        Nothing, Preparing, Side, Verifies, Becomes, Goto, Calm, marker, ghosts
  <2> QED
    BY <2>1, <2>2, <2>3, <2>4, <2>5, <2>6, <2>7, <2>8, <2>9 DEF IInv
<1>4. CASE StagePublic
  <2>1. TypeOK'
    BY <1>4, <1>0 DEF StagePublic, TypeOK, OwnTarget, Stage, Directory, Value, Release,
        None, Nothing, Preparing, Becomes, Goto, Calm, marker, ghosts, Side
  <2>2. SeenIsPossible'
    BY <1>4, <1>0 DEF StagePublic, TypeOK, SeenIsPossible, OwnTarget, Stage, Directory,
        Value, Release, None, Nothing, Preparing, Becomes, Goto, Calm, marker, ghosts,
        Side
  <2>3. UnusedIsBlank'
    BY <1>4, <1>0 DEF StagePublic, TypeOK, UnusedIsBlank, OwnTarget, Stage, Directory,
        Value, Release, None, Nothing, Preparing, Side, Becomes, Goto, Calm, marker,
        ghosts
  <2>4. ReturnedIsOnDisk'
    BY <1>4, <1>0 DEF StagePublic, TypeOK, SeenIsPossible, ReturnedIsOnDisk, Progress,
        OwnTarget, Stage, Directory, Value, Release, None, Nothing, Preparing, Side,
        OnDisk, Becomes, Goto, Calm, marker, ghosts
  <2>5. Progress'
    BY <1>4, <1>0 DEF StagePublic, TypeOK, UnusedIsBlank, Progress, OwnTarget, Stage,
        Directory, Value, Release, None, Nothing, Preparing, Side, OnDisk, Becomes,
        Goto, Calm, marker, ghosts
  <2>6. OwnTarget'
    BY <1>4, <1>0 DEF StagePublic, TypeOK, OwnTarget, Stage, Directory, Value, Release,
        None, Nothing, Preparing, Becomes, Goto, Calm, marker, ghosts, Side
  <2>7. RecoveredFirst'
    BY <1>4, <1>0 DEF StagePublic, TypeOK, RecoveredFirst, OwnTarget, Stage, Directory,
        Value, Release, None, Nothing, Preparing, Becomes, Goto, Calm, marker, ghosts,
        Side
  <2>8. DoomedIsNotCurrent'
    BY <1>4, <1>0 DEF StagePublic, TypeOK, OwnTarget, RecoveredFirst,
        DoomedIsNotCurrent, Stage, Directory, Value, Release, None, Nothing, Preparing,
        Becomes, Goto, Calm, marker, ghosts, Side
  <2>9. CurrentIsIntact'
    BY <1>4, <1>0 DEF StagePublic, TypeOK, OwnTarget, ReturnedIsOnDisk, RecoveredFirst,
        CurrentIsIntact, Stage, Directory, Value, Release, None, Nothing, Preparing,
        Side, Verifies, Becomes, Goto, Calm, marker, ghosts
  <2> QED
    BY <2>1, <2>2, <2>3, <2>4, <2>5, <2>6, <2>7, <2>8, <2>9 DEF IInv
<1>5. CASE Fill
  <2>1. TypeOK'
    BY <1>5, <1>0 DEF Fill, TypeOK, OwnTarget, Directory, Complete, Goto, Calm, marker,
        ghosts, Value, Release, None, Nothing, Preparing, Side
  <2>2. SeenIsPossible'
    BY <1>5, <1>0 DEF Fill, TypeOK, SeenIsPossible, OwnTarget, Directory, Complete,
        Goto, Calm, marker, ghosts, Value, Release, None, Nothing, Preparing, Side
  <2>3. UnusedIsBlank'
    BY <1>5, <1>0 DEF Fill, TypeOK, UnusedIsBlank, OwnTarget, Directory, Complete,
        Goto, Calm, marker, ghosts, Value, Release, None, Nothing, Preparing, Side
  <2>4. ReturnedIsOnDisk'
    BY <1>5, <1>0 DEF Fill, TypeOK, SeenIsPossible, ReturnedIsOnDisk, Progress,
        OwnTarget, Directory, Complete, Goto, Calm, marker, ghosts, Value, Release,
        None, Nothing, Preparing, Side, OnDisk
  <2>5. Progress'
    BY <1>5, <1>0 DEF Fill, TypeOK, UnusedIsBlank, Progress, OwnTarget, Directory,
        Complete, Goto, Calm, marker, ghosts, Value, Release, None, Nothing, Preparing,
        Side, OnDisk
  <2>6. OwnTarget'
    BY <1>5, <1>0 DEF Fill, TypeOK, OwnTarget, Directory, Complete, Goto, Calm, marker,
        ghosts, Value, Release, None, Nothing, Preparing, Side
  <2>7. RecoveredFirst'
    BY <1>5, <1>0 DEF Fill, TypeOK, RecoveredFirst, OwnTarget, Directory, Complete,
        Goto, Calm, marker, ghosts, Value, Release, None, Nothing, Preparing, Side
  <2>8. DoomedIsNotCurrent'
    BY <1>5, <1>0 DEF Fill, TypeOK, OwnTarget, RecoveredFirst, DoomedIsNotCurrent,
        Directory, Complete, Goto, Calm, marker, ghosts, Value, Release, None, Nothing,
        Preparing, Side
  <2>9. CurrentIsIntact'
    BY <1>5, <1>0 DEF Fill, TypeOK, OwnTarget, ReturnedIsOnDisk, RecoveredFirst,
        CurrentIsIntact, Directory, Complete, Goto, Calm, marker, ghosts, Value,
        Release, None, Nothing, Preparing, Side, Verifies
  <2> QED
    BY <2>1, <2>2, <2>3, <2>4, <2>5, <2>6, <2>7, <2>8, <2>9 DEF IInv
<1>6. CASE PublishPublic
  <2>1. TypeOK'
    BY <1>6, <1>0 DEF PublishPublic, TypeOK, OwnTarget, Rename, Directory, Value,
        Release, None, Nothing, Preparing, Goto, Calm, marker, ghosts, Side
  <2>2. SeenIsPossible'
    BY <1>6, <1>0 DEF PublishPublic, TypeOK, SeenIsPossible, OwnTarget, Rename,
        Directory, Value, Release, None, Nothing, Preparing, Goto, Calm, marker,
        ghosts, Side
  <2>3. UnusedIsBlank'
    BY <1>6, <1>0 DEF PublishPublic, TypeOK, UnusedIsBlank, OwnTarget, Rename,
        Directory, Value, Release, None, Nothing, Preparing, Side, Goto, Calm, marker,
        ghosts
  <2>4. ReturnedIsOnDisk'
    <3>1. target \notin returned /\ returned' = returned
      BY <1>6, <1>0 DEF PublishPublic, Rename, OwnTarget, Preparing, ghosts
    <3>2. ASSUME NEW r \in returned, NEW s \in Side
          PROVE  store'[<<s, r>>] = store[<<s, r>>] /\ disk'[<<s, r>>] = disk[<<s, r>>]
      <4>1. <<s, r>> \in Directory /\ <<s, r>> # <<"public", target>>
        BY <3>1, <1>0 DEF TypeOK, Directory
      <4>2. store \in [Directory -> Value] /\ disk \in [Directory -> SUBSET Value]
        BY <1>0 DEF TypeOK
      <4> QED
        BY <1>6, <4>1, <4>2 DEF PublishPublic, Rename
    <3> QED
      BY <1>0, <3>1, <3>2 DEF ReturnedIsOnDisk
  <2>5. Progress'
    BY <1>6, <1>0 DEF PublishPublic, TypeOK, UnusedIsBlank, Progress, OwnTarget,
        Rename, Directory, Value, Release, None, Nothing, Preparing, Side, OnDisk,
        Goto, Calm, marker, ghosts
  <2>6. OwnTarget'
    BY <1>6, <1>0 DEF PublishPublic, TypeOK, OwnTarget, Rename, Directory, Value,
        Release, None, Nothing, Preparing, Goto, Calm, marker, ghosts, Side
  <2>7. RecoveredFirst'
    BY <1>6, <1>0 DEF PublishPublic, TypeOK, RecoveredFirst, OwnTarget, Rename,
        Directory, Value, Release, None, Nothing, Preparing, Goto, Calm, marker,
        ghosts, Side
  <2>8. DoomedIsNotCurrent'
    BY <1>6, <1>0 DEF PublishPublic, TypeOK, OwnTarget, RecoveredFirst,
        DoomedIsNotCurrent, Rename, Directory, Value, Release, None, Nothing,
        Preparing, Goto, Calm, marker, ghosts, Side
  <2>9. CurrentIsIntact'
    BY <1>6, <1>0 DEF PublishPublic, TypeOK, OwnTarget, ReturnedIsOnDisk,
        RecoveredFirst, CurrentIsIntact, Rename, Directory, Value, Release, None,
        Nothing, Preparing, Side, Verifies, Goto, Calm, marker, ghosts
  <2> QED
    BY <2>1, <2>2, <2>3, <2>4, <2>5, <2>6, <2>7, <2>8, <2>9 DEF IInv
<1>7. CASE SyncPublic
  <2>1. TypeOK'
    BY <1>7, <1>0 DEF SyncPublic, TypeOK, OwnTarget, Sync, Directory, Value, Release,
        None, Nothing, Preparing, Goto, Calm, marker, ghosts, Side
  <2>2. SeenIsPossible'
    BY <1>7, <1>0 DEF SyncPublic, TypeOK, SeenIsPossible, OwnTarget, Progress, Sync,
        Directory, Value, Release, None, Nothing, Preparing, OnDisk, Goto, Calm,
        marker, ghosts, Side
  <2>3. UnusedIsBlank'
    BY <1>7, <1>0 DEF SyncPublic, TypeOK, UnusedIsBlank, OwnTarget, Sync, Directory,
        Value, Release, None, Nothing, Preparing, Side, Goto, Calm, marker, ghosts
  <2>4. ReturnedIsOnDisk'
    BY <1>7, <1>0 DEF SyncPublic, TypeOK, SeenIsPossible, ReturnedIsOnDisk, Progress,
        OwnTarget, Sync, Directory, Value, Release, None, Nothing, Preparing, Side,
        OnDisk, Goto, Calm, marker, ghosts
  <2>5. Progress'
    BY <1>7, <1>0 DEF SyncPublic, TypeOK, UnusedIsBlank, Progress, OwnTarget, Sync,
        Directory, Value, Release, None, Nothing, Preparing, Side, OnDisk, Goto, Calm,
        marker, ghosts
  <2>6. OwnTarget'
    BY <1>7, <1>0 DEF SyncPublic, TypeOK, OwnTarget, Sync, Directory, Value, Release,
        None, Nothing, Preparing, Goto, Calm, marker, ghosts, Side
  <2>7. RecoveredFirst'
    BY <1>7, <1>0 DEF SyncPublic, TypeOK, RecoveredFirst, OwnTarget, Sync, Directory,
        Value, Release, None, Nothing, Preparing, Goto, Calm, marker, ghosts, Side
  <2>8. DoomedIsNotCurrent'
    BY <1>7, <1>0 DEF SyncPublic, TypeOK, OwnTarget, RecoveredFirst,
        DoomedIsNotCurrent, Sync, Directory, Value, Release, None, Nothing, Preparing,
        Goto, Calm, marker, ghosts, Side
  <2>9. CurrentIsIntact'
    BY <1>7, <1>0 DEF SyncPublic, CurrentIsIntact, Sync, Verifies, Goto, Calm, marker,
        ghosts
  <2> QED
    BY <2>1, <2>2, <2>3, <2>4, <2>5, <2>6, <2>7, <2>8, <2>9 DEF IInv
<1>8. CASE PublishPrivate
  <2>1. TypeOK'
    BY <1>8, <1>0 DEF PublishPrivate, TypeOK, OwnTarget, Rename, Directory, Value,
        Release, None, Nothing, Preparing, Goto, Calm, marker, ghosts, Side
  <2>2. SeenIsPossible'
    BY <1>8, <1>0 DEF PublishPrivate, TypeOK, SeenIsPossible, OwnTarget, Rename,
        Directory, Value, Release, None, Nothing, Preparing, Goto, Calm, marker,
        ghosts, Side
  <2>3. UnusedIsBlank'
    BY <1>8, <1>0 DEF PublishPrivate, TypeOK, UnusedIsBlank, OwnTarget, Rename,
        Directory, Value, Release, None, Nothing, Preparing, Side, Goto, Calm, marker,
        ghosts
  <2>4. ReturnedIsOnDisk'
    <3>1. target \notin returned /\ returned' = returned
      BY <1>8, <1>0 DEF PublishPrivate, Rename, OwnTarget, Preparing, ghosts
    <3>2. ASSUME NEW r \in returned, NEW s \in Side
          PROVE  store'[<<s, r>>] = store[<<s, r>>] /\ disk'[<<s, r>>] = disk[<<s, r>>]
      <4>1. <<s, r>> \in Directory /\ <<s, r>> # <<"private", target>>
        BY <3>1, <1>0 DEF TypeOK, Directory
      <4>2. store \in [Directory -> Value] /\ disk \in [Directory -> SUBSET Value]
        BY <1>0 DEF TypeOK
      <4> QED
        BY <1>8, <4>1, <4>2 DEF PublishPrivate, Rename
    <3> QED
      BY <1>0, <3>1, <3>2 DEF ReturnedIsOnDisk
  <2>5. Progress'
    BY <1>8, <1>0 DEF PublishPrivate, TypeOK, UnusedIsBlank, Progress, OwnTarget,
        Rename, Directory, Value, Release, None, Nothing, Preparing, Side, OnDisk,
        Goto, Calm, marker, ghosts
  <2>6. OwnTarget'
    BY <1>8, <1>0 DEF PublishPrivate, TypeOK, OwnTarget, Rename, Directory, Value,
        Release, None, Nothing, Preparing, Goto, Calm, marker, ghosts, Side
  <2>7. RecoveredFirst'
    BY <1>8, <1>0 DEF PublishPrivate, TypeOK, RecoveredFirst, OwnTarget, Rename,
        Directory, Value, Release, None, Nothing, Preparing, Goto, Calm, marker,
        ghosts, Side
  <2>8. DoomedIsNotCurrent'
    BY <1>8, <1>0 DEF PublishPrivate, TypeOK, OwnTarget, RecoveredFirst,
        DoomedIsNotCurrent, Rename, Directory, Value, Release, None, Nothing,
        Preparing, Goto, Calm, marker, ghosts, Side
  <2>9. CurrentIsIntact'
    BY <1>8, <1>0 DEF PublishPrivate, TypeOK, OwnTarget, ReturnedIsOnDisk,
        RecoveredFirst, CurrentIsIntact, Rename, Directory, Value, Release, None,
        Nothing, Preparing, Side, Verifies, Goto, Calm, marker, ghosts
  <2> QED
    BY <2>1, <2>2, <2>3, <2>4, <2>5, <2>6, <2>7, <2>8, <2>9 DEF IInv
<1>9. CASE SyncPrivate
  <2>1. TypeOK'
    BY <1>9, <1>0 DEF SyncPrivate, TypeOK, OwnTarget, Sync, Directory, Value, Release,
        None, Nothing, Preparing, Goto, Calm, marker, ghosts, Side
  <2>2. SeenIsPossible'
    BY <1>9, <1>0 DEF SyncPrivate, TypeOK, SeenIsPossible, OwnTarget, Progress, Sync,
        Directory, Value, Release, None, Nothing, Preparing, OnDisk, Goto, Calm,
        marker, ghosts, Side
  <2>3. UnusedIsBlank'
    BY <1>9, <1>0 DEF SyncPrivate, TypeOK, UnusedIsBlank, OwnTarget, Sync, Directory,
        Value, Release, None, Nothing, Preparing, Side, Goto, Calm, marker, ghosts
  <2>4. ReturnedIsOnDisk'
    BY <1>9, <1>0 DEF SyncPrivate, TypeOK, SeenIsPossible, ReturnedIsOnDisk, Progress,
        OwnTarget, Sync, Directory, Value, Release, None, Nothing, Preparing, Side,
        OnDisk, Goto, Calm, marker, ghosts
  <2>5. Progress'
    BY <1>9, <1>0 DEF SyncPrivate, TypeOK, UnusedIsBlank, Progress, OwnTarget, Sync,
        Directory, Value, Release, None, Nothing, Preparing, Side, OnDisk, Goto, Calm,
        marker, ghosts
  <2>6. OwnTarget'
    BY <1>9, <1>0 DEF SyncPrivate, TypeOK, OwnTarget, Sync, Directory, Value, Release,
        None, Nothing, Preparing, Goto, Calm, marker, ghosts, Side
  <2>7. RecoveredFirst'
    BY <1>9, <1>0 DEF SyncPrivate, TypeOK, RecoveredFirst, OwnTarget, Sync, Directory,
        Value, Release, None, Nothing, Preparing, Goto, Calm, marker, ghosts, Side
  <2>8. DoomedIsNotCurrent'
    BY <1>9, <1>0 DEF SyncPrivate, TypeOK, OwnTarget, RecoveredFirst,
        DoomedIsNotCurrent, Sync, Directory, Value, Release, None, Nothing, Preparing,
        Goto, Calm, marker, ghosts, Side
  <2>9. CurrentIsIntact'
    BY <1>9, <1>0 DEF SyncPrivate, CurrentIsIntact, Sync, Verifies, Goto, Calm, marker,
        ghosts
  <2> QED
    BY <2>1, <2>2, <2>3, <2>4, <2>5, <2>6, <2>7, <2>8, <2>9 DEF IInv
<1>10. CASE Return
  <2>1. TypeOK'
    BY <1>10, <1>0 DEF Return, TypeOK, OwnTarget, Verifies, Goto, Calm, files, marker,
        Directory, Value, Release, None, Nothing, Preparing, Side
  <2>2. ReturnedIsOnDisk'
    <3>1. ASSUME NEW s \in Side PROVE disk[<<s, target>>] \subseteq {"released"}
      BY <1>10, <1>0 DEF Return, Progress, OnDisk, Side
    <3>2. target \in Release
      BY <1>10, <1>0 DEF Return, OwnTarget, TypeOK
    <3>3. ASSUME NEW s \in Side PROVE store[<<s, target>>] \in disk[<<s, target>>]
      BY <3>2, <1>0 DEF SeenIsPossible, Directory
    <3> QED
      BY <1>10, <1>0, <3>1, <3>3 DEF Return, ReturnedIsOnDisk, files
  <2>3. Progress'
    BY <1>10, <1>0 DEF Return, TypeOK, UnusedIsBlank, Progress, OwnTarget, Verifies,
        Goto, Calm, files, marker, Directory, Value, Release, None, Nothing, Preparing,
        Side, OnDisk
  <2>4. OwnTarget'
    BY <1>10, <1>0 DEF Return, TypeOK, OwnTarget, Verifies, Goto, Calm, files, marker,
        Directory, Value, Release, None, Nothing, Preparing, Side
  <2>5. RecoveredFirst'
    BY <1>10, <1>0 DEF Return, TypeOK, RecoveredFirst, OwnTarget, Verifies, Goto, Calm,
        files, marker, Directory, Value, Release, None, Nothing, Preparing, Side
  <2>6. DoomedIsNotCurrent'
    BY <1>10, <1>0 DEF Return, TypeOK, OwnTarget, RecoveredFirst, DoomedIsNotCurrent,
        Verifies, Goto, Calm, files, marker, Directory, Value, Release, None, Nothing,
        Preparing, Side
  <2>7. CurrentIsIntact'
    BY <1>10, <1>0 DEF Return, TypeOK, OwnTarget, ReturnedIsOnDisk, RecoveredFirst,
        CurrentIsIntact, Verifies, Goto, Calm, files, marker, Directory, Value,
        Release, None, Nothing, Preparing, Side
  <2>8. SeenIsPossible' /\ UnusedIsBlank'
    BY <1>10, <1>0 DEF Return, SeenIsPossible, UnusedIsBlank, Verifies, Goto, Calm,
        files, marker, Directory, Release, Side
  <2> QED
    BY <2>1, <2>2, <2>3, <2>4, <2>5, <2>6, <2>7, <2>8 DEF IInv
<1>11. CASE PrepareFails
  <2>a. /\ target \in Release /\ target \in used
        /\ target \notin returned /\ target # current /\ restore = Nothing
    BY <1>11, <1>0 DEF PrepareFails, Preparing, OwnTarget, RecoveredFirst, TypeOK
  <2>b. ASSUME NEW s \in Side PROVE Own(s) \in Directory /\ Own(s)[2] = target
    BY <2>a DEF Own, Directory
  <2>c. doomed' \in Seq(Directory) /\ \A i \in 1 .. Len(doomed') : doomed'[i][2] = target
    <3>1. doomed' \in {Candidates, <<>>, <<Own("private")>>}
      BY <1>11 DEF PrepareFails
    <3>2. CASE doomed' = <<>>
      BY <3>2
    <3>3. CASE doomed' = <<Own("private")>>
      <4>1. doomed' \in Seq(Directory) /\ \A i \in 1 .. Len(doomed') : doomed'[i] = Own("private")
        BY <3>3, <2>b, ShortSequences DEF Side
      <4> QED
        BY <4>1, <2>b DEF Side
    <3>4. CASE doomed' = Candidates
      <4>1. /\ doomed' \in Seq(Directory)
            /\ \A i \in 1 .. Len(doomed') : doomed'[i] \in {Own("public"), Own("private")}
        <5>1. Own("public") \in Directory /\ Own("private") \in Directory
          BY <2>b DEF Side
        <5> QED
          BY <3>4, <5>1, ShortSequences DEF Candidates
      <4> QED
        BY <4>1, <2>b DEF Side
    <3> QED
      BY <3>1, <3>2, <3>3, <3>4
  <2>d. UNCHANGED files \/ \E s \in Side : Becomes(Own(s), "staged")
    BY <1>11 DEF PrepareFails, Side
  <2>e. /\ store' \in [Directory -> Value] /\ disk' \in [Directory -> SUBSET Value]
        /\ \A d \in Directory : store'[d] = store[d] \/ store'[d] = "staged"
        /\ \A d \in Directory : store'[d] \in disk'[d]
        /\ \A d \in Directory : d[2] # target => store'[d] = store[d] /\ disk'[d] = disk[d]
    <3>1. CASE UNCHANGED files
      BY <3>1, <1>0 DEF files, TypeOK, SeenIsPossible
    <3>2. ASSUME NEW s \in Side, Becomes(Own(s), "staged")
          PROVE  /\ store' \in [Directory -> Value] /\ disk' \in [Directory -> SUBSET Value]
                 /\ \A d \in Directory : store'[d] = store[d] \/ store'[d] = "staged"
                 /\ \A d \in Directory : store'[d] \in disk'[d]
                 /\ \A d \in Directory : d[2] # target => store'[d] = store[d] /\ disk'[d] = disk[d]
      BY <3>2, <2>b, <1>0 DEF Becomes, TypeOK, SeenIsPossible, Value
    <3> QED
      BY <3>1, <3>2, <2>d
  <2>1. TypeOK'
    BY <1>11, <2>a, <2>c, <2>e, <1>0 DEF PrepareFails, TypeOK, Trouble, marker
  <2>2. SeenIsPossible'
    BY <2>e DEF SeenIsPossible
  <2>3. UnusedIsBlank'
    BY <1>11, <2>a, <2>e, <1>0 DEF PrepareFails, UnusedIsBlank, Directory
  <2>4. ReturnedIsOnDisk'
    BY <1>11, <2>a, <2>e, <1>0 DEF PrepareFails, ReturnedIsOnDisk, Directory, TypeOK
  <2>5. Progress'
    BY <1>11, <1>0 DEF PrepareFails, TypeOK, UnusedIsBlank, Progress, OwnTarget,
        Preparing, Trouble, files, Candidates, Becomes, Own, marker, Directory, Value,
        Release, None, Nothing, Side, OnDisk
  <2>6. OwnTarget'
    BY <1>11, <1>0 DEF PrepareFails, TypeOK, OwnTarget, Preparing, Trouble, files,
        Candidates, Becomes, Own, marker, Directory, Value, Release, None, Nothing, Side
  <2>7. RecoveredFirst'
    BY <1>11, <1>0 DEF PrepareFails, TypeOK, RecoveredFirst, OwnTarget, Preparing,
        Trouble, files, Candidates, Becomes, Own, marker, Directory, Value, Release,
        None, Nothing, Side
  <2>8. DoomedIsNotCurrent'
    BY <1>11, <2>a, <2>c DEF PrepareFails, DoomedIsNotCurrent, marker
  <2>9. CurrentIsIntact'
    <3>1. Nothing \notin returned /\ returned \subseteq Release
      BY <1>0 DEF TypeOK, Nothing, Release
    <3>2. ASSUME NEW r \in {current, restore} \cap returned, NEW s \in Side
          PROVE  store'[<<s, r>>] = store[<<s, r>>]
      BY <2>a, <2>e, <3>1 DEF Directory
    <3> QED
      BY <1>11, <1>0, <3>2 DEF PrepareFails, CurrentIsIntact, Verifies, marker, Side
  <2> QED
    BY <2>1, <2>2, <2>3, <2>4, <2>5, <2>6, <2>7, <2>8, <2>9 DEF IInv
<1>12. CASE Activate
  <2>1. TypeOK'
    BY <1>12, <1>0 DEF Activate, TypeOK, OwnTarget, Verifies, Goto, Calm, files,
        ghosts, Directory, Value, Release, None, Nothing, Preparing, Side
  <2>2. Progress'
    BY <1>12, <1>0 DEF Activate, TypeOK, UnusedIsBlank, Progress, OwnTarget, Verifies,
        Goto, Calm, files, ghosts, Directory, Value, Release, None, Nothing, Preparing,
        Side, OnDisk
  <2>3. OwnTarget'
    BY <1>12, <1>0 DEF Activate, TypeOK, OwnTarget, Verifies, Goto, Calm, files,
        ghosts, Directory, Value, Release, None, Nothing, Preparing, Side
  <2>4. RecoveredFirst'
    BY <1>12, <1>0 DEF Activate, TypeOK, RecoveredFirst, OwnTarget, Verifies, Goto,
        Calm, files, ghosts, Directory, Value, Release, None, Nothing, Preparing, Side
  <2>5. DoomedIsNotCurrent'
    BY <1>12, <1>0 DEF Activate, TypeOK, OwnTarget, RecoveredFirst, DoomedIsNotCurrent,
        Verifies, Goto, Calm, files, ghosts, Directory, Value, Release, None, Nothing,
        Preparing, Side
  <2>6. CurrentIsIntact'
    BY <1>12, <1>0 DEF Activate, TypeOK, OwnTarget, ReturnedIsOnDisk, RecoveredFirst,
        CurrentIsIntact, Verifies, Goto, Calm, files, ghosts, Directory, Value,
        Release, None, Nothing, Preparing, Side
  <2>7. SeenIsPossible' /\ UnusedIsBlank' /\ ReturnedIsOnDisk'
    BY <1>12, <1>0 DEF Activate, SeenIsPossible, UnusedIsBlank, ReturnedIsOnDisk,
        Verifies, Goto, Calm, files, ghosts, Directory, Release, Side
  <2> QED
    BY <2>1, <2>2, <2>3, <2>4, <2>5, <2>6, <2>7 DEF IInv
<1>13. CASE ActivationFails
  <2>1. TypeOK'
    BY <1>13, <1>0 DEF ActivationFails, TypeOK, OwnTarget, Trouble, marker, Verifies,
        Goto, files, ghosts, Directory, Value, Release, None, Nothing, Preparing, Side
  <2>2. Progress'
    BY <1>13, <1>0 DEF ActivationFails, TypeOK, UnusedIsBlank, Progress, OwnTarget,
        Trouble, marker, Verifies, Goto, files, ghosts, Directory, Value, Release,
        None, Nothing, Preparing, Side, OnDisk
  <2>3. OwnTarget'
    BY <1>13, <1>0 DEF ActivationFails, TypeOK, OwnTarget, Trouble, marker, Verifies,
        Goto, files, ghosts, Directory, Value, Release, None, Nothing, Preparing, Side
  <2>4. RecoveredFirst'
    BY <1>13, <1>0 DEF ActivationFails, TypeOK, RecoveredFirst, OwnTarget, Trouble,
        marker, Verifies, Goto, files, ghosts, Directory, Value, Release, None,
        Nothing, Preparing, Side
  <2>5. DoomedIsNotCurrent'
    BY <1>13, <1>0 DEF ActivationFails, TypeOK, OwnTarget, RecoveredFirst,
        DoomedIsNotCurrent, Trouble, marker, Verifies, Goto, files, ghosts, Directory,
        Value, Release, None, Nothing, Preparing, Side
  <2>6. CurrentIsIntact'
    BY <1>13, <1>0 DEF ActivationFails, TypeOK, OwnTarget, ReturnedIsOnDisk,
        RecoveredFirst, CurrentIsIntact, Trouble, marker, Verifies, Goto, files,
        ghosts, Directory, Value, Release, None, Nothing, Preparing, Side
  <2>7. SeenIsPossible' /\ UnusedIsBlank' /\ ReturnedIsOnDisk'
    BY <1>13, <1>0 DEF ActivationFails, SeenIsPossible, UnusedIsBlank,
        ReturnedIsOnDisk, Trouble, marker, Verifies, Goto, files, ghosts, Directory,
        Release, Side
  <2> QED
    BY <2>1, <2>2, <2>3, <2>4, <2>5, <2>6, <2>7 DEF IInv
<1>14. CASE Recover
  <2>1. TypeOK'
    BY <1>14, <1>0 DEF Recover, TypeOK, OwnTarget, Nothing, Calm, files, task, ghosts,
        Directory, Value, Release, None, Preparing, Side
  <2>2. OwnTarget'
    BY <1>14, <1>0 DEF Recover, TypeOK, OwnTarget, Nothing, Calm, files, task, ghosts,
        Directory, Value, Release, None, Preparing, Side
  <2>3. RecoveredFirst'
    BY <1>14, <1>0 DEF Recover, TypeOK, RecoveredFirst, OwnTarget, Nothing, Calm,
        files, task, ghosts, Directory, Value, Release, None, Preparing, Side
  <2>4. DoomedIsNotCurrent'
    BY <1>14, <1>0 DEF Recover, TypeOK, OwnTarget, RecoveredFirst, DoomedIsNotCurrent,
        Nothing, Calm, files, task, ghosts, Directory, Value, Release, None, Preparing,
        Side
  <2>5. CurrentIsIntact'
    <3>1. Nothing \notin returned
      BY <1>0 DEF TypeOK, Nothing, Release
    <3> QED
      BY <1>14, <1>0, <3>1 DEF Recover, CurrentIsIntact, Verifies, files, ghosts
  <2>6. /\ SeenIsPossible' /\ UnusedIsBlank' /\ ReturnedIsOnDisk'
       /\ Progress'
    BY <1>14, <1>0 DEF Recover, SeenIsPossible, UnusedIsBlank, ReturnedIsOnDisk,
        Progress, Nothing, Calm, files, task, ghosts, Directory, Release, Side, OnDisk
  <2> QED
    BY <2>1, <2>2, <2>3, <2>4, <2>5, <2>6 DEF IInv
<1>15. CASE Discard
  <2>1. TypeOK'
    <3>1. Own("public") \in Directory /\ Own("private") \in Directory
      BY <1>15, <1>0 DEF Discard, OwnTarget, TypeOK, Own, Directory, Side
    <3>2. doomed' \in Seq(Directory)
      <4>1. <<Own("public"), Own("private")>> \in Seq(Directory)
        BY <3>1, ShortSequences
      <4> QED
        BY <1>15, <1>0, <4>1 DEF Discard, TypeOK
    <3> QED
      BY <1>15, <1>0, <3>2 DEF Discard, TypeOK, Calm, files, marker, ghosts
  <2>2. Progress'
    BY <1>15, <1>0 DEF Discard, TypeOK, UnusedIsBlank, Progress, OwnTarget, Verifies,
        Own, Calm, files, marker, ghosts, Directory, Value, Release, None, Nothing,
        Preparing, Side, OnDisk
  <2>3. OwnTarget'
    BY <1>15, <1>0 DEF Discard, TypeOK, OwnTarget, Verifies, Own, Calm, files, marker,
        ghosts, Directory, Value, Release, None, Nothing, Preparing, Side
  <2>4. RecoveredFirst'
    BY <1>15, <1>0 DEF Discard, TypeOK, RecoveredFirst, OwnTarget, Verifies, Own, Calm,
        files, marker, ghosts, Directory, Value, Release, None, Nothing, Preparing, Side
  <2>5. DoomedIsNotCurrent'
    BY <1>15, <1>0 DEF Discard, TypeOK, OwnTarget, RecoveredFirst, DoomedIsNotCurrent,
        Verifies, Own, Calm, files, marker, ghosts, Directory, Value, Release, None,
        Nothing, Preparing, Side
  <2>6. /\ SeenIsPossible' /\ UnusedIsBlank' /\ ReturnedIsOnDisk'
       /\ CurrentIsIntact'
    BY <1>15, <1>0 DEF Discard, SeenIsPossible, UnusedIsBlank, ReturnedIsOnDisk,
        CurrentIsIntact, Verifies, Own, Calm, files, marker, ghosts, Directory,
        Release, Side
  <2> QED
    BY <2>1, <2>2, <2>3, <2>4, <2>5, <2>6 DEF IInv
<1>16. CASE Prune
  <2>a. \A r \in history : r \in used
    BY <1>0 DEF history, Verifies, SeenIsPossible, UnusedIsBlank, Directory, Side
  <2>b. /\ doomed' \in Seq(Directory)
        /\ \A i \in 1 .. Len(doomed') :
              step' = "removing" => doomed'[i][2] \in used /\ doomed'[i][2] # current
    <3>1. CASE UNCHANGED doomed
      BY <3>1, <1>16, <1>0 DEF Prune, TypeOK
    <3>2. ASSUME NEW r \in Prunable, doomed' = << <<"private", r>>, <<"public", r>> >>
          PROVE  /\ doomed' \in Seq(Directory)
                 /\ \A i \in 1 .. Len(doomed') : doomed'[i][2] \in used /\ doomed'[i][2] # current
      <4>1. r \in Release /\ r \in used /\ r # current
        BY <2>a DEF Prunable, history
      <4>2. <<"private", r>> \in Directory /\ <<"public", r>> \in Directory
        BY <4>1 DEF Directory, Side
      <4> QED
        BY <3>2, <4>1, <4>2, ShortSequences
    <3> QED
      BY <1>16, <3>1, <3>2 DEF Prune
  <2>1. TypeOK'
    BY <1>16, <2>b, <1>0 DEF Prune, TypeOK, Calm, files, marker, ghosts
  <2>2. Progress'
    BY <1>16, <1>0 DEF Prune, TypeOK, UnusedIsBlank, Progress, OwnTarget, Prunable,
        Calm, files, marker, ghosts, Directory, Value, Release, None, Nothing,
        Preparing, Side, OnDisk, history, Verifies
  <2>3. OwnTarget'
    BY <1>16, <1>0 DEF Prune, TypeOK, OwnTarget, Prunable, Calm, files, marker, ghosts,
        Directory, Value, Release, None, Nothing, Preparing, history, Side, Verifies
  <2>4. RecoveredFirst'
    BY <1>16, <1>0 DEF Prune, TypeOK, RecoveredFirst, OwnTarget, Prunable, Calm, files,
        marker, ghosts, Directory, Value, Release, None, Nothing, Preparing, history,
        Side, Verifies
  <2>5. DoomedIsNotCurrent'
    BY <1>16, <2>b DEF Prune, DoomedIsNotCurrent, marker, ghosts
  <2>6. /\ SeenIsPossible' /\ UnusedIsBlank' /\ ReturnedIsOnDisk'
       /\ CurrentIsIntact'
    BY <1>16, <1>0 DEF Prune, SeenIsPossible, UnusedIsBlank, ReturnedIsOnDisk,
        CurrentIsIntact, Prunable, Calm, files, marker, ghosts, Directory, Release,
        Side, Verifies, history
  <2> QED
    BY <2>1, <2>2, <2>3, <2>4, <2>5, <2>6 DEF IInv
<1>17. CASE Tear
  <2>a. /\ doomed # <<>> /\ Head(doomed) \in Directory
        /\ Head(doomed)[2] \in used /\ Head(doomed)[2] \notin {current} \cap returned
    <3>1. /\ 1 \in 1 .. Len(doomed) /\ Head(doomed) = doomed[1]
          /\ Head(doomed) \in Directory
      BY <1>17, <1>0 DEF Tear, TypeOK
    <3> QED
      BY <3>1, <1>17, <1>0 DEF Tear, DoomedIsNotCurrent
  <2>b. ASSUME NEW d \in Directory, d # Head(doomed)
        PROVE  store'[d] = store[d] /\ disk'[d] = disk[d]
    BY <1>17, <2>b, <1>0 DEF Tear, Becomes, TypeOK
  <2>1. TypeOK'
    BY <1>17, <1>0 DEF Tear, TypeOK, OwnTarget, Becomes, Calm, marker, task, ghosts,
        Directory, Value, Release, None, Nothing, Preparing, Side
  <2>2. SeenIsPossible'
    BY <1>17, <1>0 DEF Tear, TypeOK, SeenIsPossible, OwnTarget, Becomes, Calm, marker,
        task, ghosts, Directory, Value, Release, None, Nothing, Preparing, Side
  <2>3. UnusedIsBlank'
    <3>1. ASSUME NEW r \in Release \ used, NEW s \in Side PROVE disk'[<<s, r>>] = {"none"}
      <4>1. <<s, r>> \in Directory /\ <<s, r>> # Head(doomed)
        BY <2>a DEF Directory
      <4> QED
        BY <4>1, <2>b, <1>0 DEF UnusedIsBlank
    <3> QED
      BY <1>17, <3>1 DEF Tear, UnusedIsBlank, ghosts
  <2>4. ReturnedIsOnDisk'
    <3>1. returned' = returned /\ store'[Head(doomed)] = "torn"
      BY <1>17, <2>a, <1>0 DEF Tear, Becomes, TypeOK, ghosts
    <3>2. \A r \in returned, s \in Side : <<s, r>> \in Directory
      BY <1>0 DEF TypeOK, Directory
    <3> QED
      BY <1>0, <2>b, <3>1, <3>2 DEF ReturnedIsOnDisk
  <2>5. Progress'
    BY <1>17, <1>0 DEF Tear, TypeOK, UnusedIsBlank, Progress, OwnTarget, Becomes, Calm,
        marker, task, ghosts, Directory, Value, Release, None, Nothing, Preparing,
        Side, OnDisk
  <2>6. CurrentIsIntact'
    <3>1. restore = Nothing /\ Nothing \notin returned /\ returned \subseteq Release
      BY <1>17, <1>0 DEF Tear, RecoveredFirst, TypeOK, Nothing, Release
    <3>2. ASSUME NEW r \in {current, restore} \cap returned, NEW s \in Side
          PROVE  store'[<<s, r>>] = store[<<s, r>>]
      <4>1. <<s, r>> \in Directory /\ <<s, r>> # Head(doomed)
        BY <2>a, <3>1 DEF Directory
      <4> QED
        BY <4>1, <2>b
    <3> QED
      BY <1>17, <1>0, <3>2 DEF Tear, CurrentIsIntact, Verifies, marker, ghosts, Side
  <2>7. OwnTarget' /\ RecoveredFirst' /\ DoomedIsNotCurrent'
    BY <1>17, <1>0 DEF Tear, OwnTarget, RecoveredFirst, DoomedIsNotCurrent, Becomes,
        Calm, marker, task, ghosts, Preparing, None, Nothing
  <2> QED
    BY <2>1, <2>2, <2>3, <2>4, <2>5, <2>6, <2>7 DEF IInv
<1>18. CASE Remove
  <2>a. /\ doomed # <<>> /\ Head(doomed) \in Directory
        /\ Head(doomed)[2] \in used /\ Head(doomed)[2] \notin {current} \cap returned
    <3>1. /\ 1 \in 1 .. Len(doomed) /\ Head(doomed) = doomed[1]
          /\ Head(doomed) \in Directory
      BY <1>18, <1>0 DEF Remove, TypeOK
    <3> QED
      BY <3>1, <1>18, <1>0 DEF Remove, DoomedIsNotCurrent
  <2>b. ASSUME NEW d \in Directory, d # Head(doomed)
        PROVE  store'[d] = store[d] /\ disk'[d] = disk[d]
    BY <1>18, <2>b, <1>0 DEF Remove, Becomes, TypeOK
  <2>1. TypeOK'
    BY <1>18, <1>0 DEF Remove, TypeOK, OwnTarget, Becomes, Calm, marker, ghosts,
        Directory, Value, Release, None, Nothing, Preparing, Side
  <2>2. SeenIsPossible'
    BY <1>18, <1>0 DEF Remove, TypeOK, SeenIsPossible, OwnTarget, Becomes, Calm,
        marker, ghosts, Directory, Value, Release, None, Nothing, Preparing, Side
  <2>3. UnusedIsBlank'
    <3>1. ASSUME NEW r \in Release \ used, NEW s \in Side PROVE disk'[<<s, r>>] = {"none"}
      <4>1. <<s, r>> \in Directory /\ <<s, r>> # Head(doomed)
        BY <2>a DEF Directory
      <4> QED
        BY <4>1, <2>b, <1>0 DEF UnusedIsBlank
    <3> QED
      BY <1>18, <3>1 DEF Remove, UnusedIsBlank, ghosts
  <2>4. ReturnedIsOnDisk'
    BY <1>18, <1>0 DEF Remove, TypeOK, SeenIsPossible, ReturnedIsOnDisk, Progress,
        OwnTarget, Becomes, Calm, marker, ghosts, Directory, Value, Release, None,
        Nothing, Preparing, Side, OnDisk
  <2>5. Progress'
    BY <1>18, <1>0 DEF Remove, TypeOK, UnusedIsBlank, Progress, OwnTarget, Becomes,
        Calm, marker, ghosts, Directory, Value, Release, None, Nothing, Preparing,
        Side, OnDisk
  <2>6. DoomedIsNotCurrent'
    BY <1>18, <1>0 DEF Remove, TypeOK, OwnTarget, RecoveredFirst, DoomedIsNotCurrent,
        Becomes, Calm, marker, ghosts, Directory, Value, Release, None, Nothing,
        Preparing, Side
  <2>7. CurrentIsIntact'
    <3>1. restore = Nothing /\ Nothing \notin returned /\ returned \subseteq Release
      BY <1>18, <1>0 DEF Remove, RecoveredFirst, TypeOK, Nothing, Release
    <3>2. ASSUME NEW r \in {current, restore} \cap returned, NEW s \in Side
          PROVE  store'[<<s, r>>] = store[<<s, r>>]
      <4>1. <<s, r>> \in Directory /\ <<s, r>> # Head(doomed)
        BY <2>a, <3>1 DEF Directory
      <4> QED
        BY <4>1, <2>b
    <3> QED
      BY <1>18, <1>0, <3>2 DEF Remove, CurrentIsIntact, Verifies, marker, ghosts, Side
  <2>8. OwnTarget' /\ RecoveredFirst'
    BY <1>18, <1>0 DEF Remove, OwnTarget, RecoveredFirst, Becomes, Calm, marker,
        ghosts, Preparing, None, Nothing
  <2> QED
    BY <2>1, <2>2, <2>3, <2>4, <2>5, <2>6, <2>7, <2>8 DEF IInv
<1>19. CASE Removed
  <2>1. TypeOK'
    BY <1>19, <1>0 DEF Removed, TypeOK, OwnTarget, Calm, files, marker, ghosts,
        Directory, Value, Release, None, Nothing, Preparing, Side
  <2>2. Progress'
    BY <1>19, <1>0 DEF Removed, TypeOK, UnusedIsBlank, Progress, OwnTarget, Calm,
        files, marker, ghosts, Directory, Value, Release, None, Nothing, Preparing,
        Side, OnDisk
  <2>3. OwnTarget'
    BY <1>19, <1>0 DEF Removed, TypeOK, OwnTarget, Calm, files, marker, ghosts,
        Directory, Value, Release, None, Nothing, Preparing, Side
  <2>4. RecoveredFirst'
    BY <1>19, <1>0 DEF Removed, TypeOK, RecoveredFirst, OwnTarget, Calm, files, marker,
        ghosts, Directory, Value, Release, None, Nothing, Preparing, Side
  <2>5. DoomedIsNotCurrent'
    BY <1>19, <1>0 DEF Removed, TypeOK, OwnTarget, RecoveredFirst, DoomedIsNotCurrent,
        Calm, files, marker, ghosts, Directory, Value, Release, None, Nothing,
        Preparing, Side
  <2>6. /\ SeenIsPossible' /\ UnusedIsBlank' /\ ReturnedIsOnDisk'
       /\ CurrentIsIntact'
    BY <1>19, <1>0 DEF Removed, SeenIsPossible, UnusedIsBlank, ReturnedIsOnDisk,
        CurrentIsIntact, Calm, files, marker, ghosts, Directory, Release, Side, Verifies
  <2> QED
    BY <2>1, <2>2, <2>3, <2>4, <2>5, <2>6 DEF IInv
<1>20. CASE RemovalFails
  <2>1. TypeOK'
    BY <1>20, <1>0 DEF RemovalFails, TypeOK, OwnTarget, Trouble, files, marker, ghosts,
        Directory, Value, Release, None, Nothing, Preparing, Side
  <2>2. Progress'
    BY <1>20, <1>0 DEF RemovalFails, TypeOK, UnusedIsBlank, Progress, OwnTarget,
        Trouble, files, marker, ghosts, Directory, Value, Release, None, Nothing,
        Preparing, Side, OnDisk
  <2>3. OwnTarget'
    BY <1>20, <1>0 DEF RemovalFails, TypeOK, OwnTarget, Trouble, files, marker, ghosts,
        Directory, Value, Release, None, Nothing, Preparing, Side
  <2>4. RecoveredFirst'
    BY <1>20, <1>0 DEF RemovalFails, TypeOK, RecoveredFirst, OwnTarget, Trouble, files,
        marker, ghosts, Directory, Value, Release, None, Nothing, Preparing, Side
  <2>5. DoomedIsNotCurrent'
    BY <1>20, <1>0 DEF RemovalFails, TypeOK, OwnTarget, RecoveredFirst,
        DoomedIsNotCurrent, Trouble, files, marker, ghosts, Directory, Value, Release,
        None, Nothing, Preparing, Side
  <2>6. /\ SeenIsPossible' /\ UnusedIsBlank' /\ ReturnedIsOnDisk'
       /\ CurrentIsIntact'
    BY <1>20, <1>0 DEF RemovalFails, SeenIsPossible, UnusedIsBlank, ReturnedIsOnDisk,
        CurrentIsIntact, Trouble, files, marker, ghosts, Directory, Release, Side,
        Verifies
  <2> QED
    BY <2>1, <2>2, <2>3, <2>4, <2>5, <2>6 DEF IInv
<1>21. CASE Kill
  <2>1. TypeOK'
    BY <1>21, <1>0 DEF Kill, TypeOK, OwnTarget, Dies, files, marker, ghosts, Directory,
        Value, Release, None, Nothing, Preparing, Trouble, Side
  <2>2. Progress'
    BY <1>21, <1>0 DEF Kill, TypeOK, UnusedIsBlank, Progress, OwnTarget, Dies, files,
        marker, ghosts, Directory, Value, Release, None, Nothing, Preparing, Side,
        OnDisk, Trouble
  <2>3. OwnTarget'
    BY <1>21, <1>0 DEF Kill, TypeOK, OwnTarget, Dies, files, marker, ghosts, Directory,
        Value, Release, None, Nothing, Preparing, Trouble, Side
  <2>4. RecoveredFirst'
    BY <1>21, <1>0 DEF Kill, TypeOK, RecoveredFirst, OwnTarget, Dies, files, marker,
        ghosts, Directory, Value, Release, None, Nothing, Preparing, Trouble, Side
  <2>5. DoomedIsNotCurrent'
    BY <1>21, <1>0 DEF Kill, TypeOK, OwnTarget, RecoveredFirst, DoomedIsNotCurrent,
        Dies, files, marker, ghosts, Directory, Value, Release, None, Nothing,
        Preparing, Trouble, Side
  <2>6. /\ SeenIsPossible' /\ UnusedIsBlank' /\ ReturnedIsOnDisk'
       /\ CurrentIsIntact'
    BY <1>21, <1>0 DEF Kill, SeenIsPossible, UnusedIsBlank, ReturnedIsOnDisk,
        CurrentIsIntact, Dies, files, marker, ghosts, Directory, Release, Side,
        Verifies, None, Trouble
  <2> QED
    BY <2>1, <2>2, <2>3, <2>4, <2>5, <2>6 DEF IInv
<1>22. CASE PowerLoss
  <2>a. PICK kept \in [Loose -> Value] :
          /\ \A d \in Loose : kept[d] \in disk[d]
          /\ store' = [d \in Directory |-> IF d \in Loose THEN kept[d] ELSE store[d]]
    BY <1>22 DEF PowerLoss
  <2>b. ASSUME NEW d \in Directory
        PROVE  /\ store'[d] \in Value /\ store'[d] \in disk[d]
               /\ disk'[d] = {store'[d]}
    BY <1>22, <2>a, <1>0 DEF PowerLoss, TypeOK, SeenIsPossible
  <2>1. TypeOK'
    BY <1>22, <1>0 DEF PowerLoss, TypeOK, OwnTarget, Dies, Loose, Value, Directory,
        marker, ghosts, Release, None, Nothing, Preparing, Trouble, Side
  <2>2. SeenIsPossible'
    BY <1>22, <1>0 DEF PowerLoss, TypeOK, SeenIsPossible, OwnTarget, Dies, Loose,
        Value, Directory, marker, ghosts, Release, None, Nothing, Preparing, Trouble,
        Side
  <2>3. UnusedIsBlank'
    <3>1. ASSUME NEW r \in Release \ used, NEW s \in Side PROVE disk'[<<s, r>>] = {"none"}
      BY <2>b, <1>0 DEF UnusedIsBlank, Directory
    <3> QED
      BY <1>22, <3>1 DEF PowerLoss, UnusedIsBlank, ghosts
  <2>4. ReturnedIsOnDisk'
    BY <1>22, <1>0 DEF PowerLoss, TypeOK, SeenIsPossible, ReturnedIsOnDisk, Progress,
        OwnTarget, Dies, Loose, Value, Directory, marker, ghosts, Release, None,
        Nothing, Preparing, Side, OnDisk, Trouble
  <2>5. Progress'
    BY <1>22, <1>0 DEF PowerLoss, TypeOK, UnusedIsBlank, Progress, OwnTarget, Dies,
        Loose, Value, Directory, marker, ghosts, Release, None, Nothing, Preparing,
        Side, OnDisk, Trouble
  <2>6. OwnTarget'
    BY <1>22, <1>0 DEF PowerLoss, TypeOK, OwnTarget, Dies, Loose, Value, Directory,
        marker, ghosts, Release, None, Nothing, Preparing, Trouble, Side
  <2>7. RecoveredFirst'
    BY <1>22, <1>0 DEF PowerLoss, TypeOK, RecoveredFirst, OwnTarget, Dies, Loose,
        Value, Directory, marker, ghosts, Release, None, Nothing, Preparing, Trouble,
        Side
  <2>8. DoomedIsNotCurrent'
    BY <1>22, <1>0 DEF PowerLoss, TypeOK, OwnTarget, RecoveredFirst,
        DoomedIsNotCurrent, Dies, Loose, Value, Directory, marker, ghosts, Release,
        None, Nothing, Preparing, Trouble, Side
  <2>9. CurrentIsIntact'
    <3>1. ASSUME NEW r \in returned, NEW s \in Side, store[<<s, r>>] = "released"
          PROVE  store'[<<s, r>>] = "released"
      BY <2>b, <3>1, <1>0 DEF ReturnedIsOnDisk, Directory, TypeOK
    <3> QED
      BY <1>22, <1>0, <3>1 DEF PowerLoss, CurrentIsIntact, Verifies, marker, ghosts, Side
  <2> QED
    BY <2>1, <2>2, <2>3, <2>4, <2>5, <2>6, <2>7, <2>8, <2>9 DEF IInv
<1>23. CASE UNCHANGED vars
  <2>1. /\ UNCHANGED store /\ UNCHANGED disk /\ UNCHANGED current /\ UNCHANGED restore
        /\ UNCHANGED step /\ UNCHANGED target /\ UNCHANGED doomed
        /\ UNCHANGED used /\ UNCHANGED returned /\ UNCHANGED failed /\ UNCHANGED troubles
    BY <1>23 DEF vars, files, marker, task, ghosts
  <2>2. TypeOK' /\ SeenIsPossible' /\ UnusedIsBlank' /\ ReturnedIsOnDisk'
    BY <2>1, <1>0 DEF TypeOK, SeenIsPossible, UnusedIsBlank, ReturnedIsOnDisk
  <2>3. Progress'
    BY <2>1, <1>0 DEF Progress, OnDisk
  <2>4. OwnTarget' /\ RecoveredFirst' /\ DoomedIsNotCurrent'
    BY <2>1, <1>0 DEF OwnTarget, RecoveredFirst, DoomedIsNotCurrent
  <2>5. CurrentIsIntact'
    BY <2>1, <1>0 DEF CurrentIsIntact, Verifies
  <2> QED
    BY <2>2, <2>3, <2>4, <2>5 DEF IInv
<1> QED
  BY <1>1, <1>2, <1>3, <1>4, <1>5, <1>6, <1>7, <1>8, <1>9, <1>10, <1>11, <1>12, <1>13,
      <1>14, <1>15, <1>16, <1>17, <1>18, <1>19, <1>20, <1>21, <1>22, <1>23 DEF Next, vars

(* The routes serve a release that is whole, or will once the pending      *)
(* recovery has run, whatever steps of prepare, activation, rollback,       *)
(* discard and prune fail, are killed or lose power.                        *)
THEOREM CurrentStaysIntact == Spec => []CurrentIsIntact
<1>1. IInv => CurrentIsIntact
  BY DEF IInv
<1> QED
  BY InvInit, InvNext, <1>1, PTL DEF Spec

-----------------------------------------------------------------------------
(* A prepare that fails leaves nothing *)

\* A directory that waits for its removal
Doomed(d) == step = "removing" /\ \E i \in 1 .. Len(doomed) : doomed[i] = d

\* The directories of failed releases that nginx could serve, or the history
\* would offer, are still to be removed.
LeftoversAreDoomed == \A r \in failed, side \in Side :
    store[<<side, r>>] \notin {"released", "torn"} \/ Doomed(<<side, r>>)

\* Nothing works on a failed release but its removal; while the failure is the
\* only trouble, the removal gets everything.
LeftoverInv ==
    /\ step \in Preparing \cup {"prepared", "discard"} => target \notin failed
    /\ failed \subseteq used
    /\ failed # {} => troubles > 0
    /\ troubles = 1 => LeftoversAreDoomed

(* A step outside a removal that keeps to its own directories               *)
LEMMA OtherDirectories ==
  ASSUME LeftoverInv, UNCHANGED <<failed, troubles>>,
         step # "removing" \/ doomed = <<>>,
         \A r \in failed, s \in Side : store'[<<s, r>>] = store[<<s, r>>]
  PROVE  troubles' = 1 => LeftoversAreDoomed'
<1>1. ASSUME troubles = 1, NEW r \in failed, NEW s \in Side
      PROVE  store'[<<s, r>>] \notin {"released", "torn"}
  <2>1. ~Doomed(<<s, r>>)
    BY DEF Doomed
  <2> QED
    BY <1>1, <2>1 DEF LeftoverInv, LeftoversAreDoomed
<1> QED
  BY <1>1 DEF LeftoversAreDoomed

(* A second trouble, or one that no failed prepare preceded                 *)
LEMMA OtherTroubles ==
  ASSUME TypeOK, LeftoverInv, Trouble, UNCHANGED failed
  PROVE  /\ failed' # {} => troubles' > 0
         /\ troubles' = 1 => LeftoversAreDoomed'
  BY DEF TypeOK, LeftoverInv, Trouble, LeftoversAreDoomed

LEMMA LeftoverInit == Init => LeftoverInv
  BY DEF Init, LeftoverInv, LeftoversAreDoomed, Preparing

(* The first trouble is a prepare that fails: what its release has of        *)
(* final names is among the candidates.                                     *)
LEMMA PrepareFailsLeftovers == IInv /\ LeftoverInv /\ PrepareFails => LeftoverInv'
<1> SUFFICES ASSUME IInv, LeftoverInv, PrepareFails PROVE LeftoverInv'
  OBVIOUS
<1>0. /\ TypeOK /\ SeenIsPossible /\ Progress /\ OwnTarget
      /\ step \in Preparing /\ step' = "removing" /\ failed' = failed \cup {target}
      /\ UNCHANGED <<used, target>> /\ troubles' = troubles + 1 /\ troubles \in Nat
  BY DEF IInv, PrepareFails, Trouble, TypeOK
<1>1. target \in used /\ target \in Release
  BY <1>0 DEF OwnTarget, TypeOK, Preparing
<1>2. ASSUME NEW s \in Side, store'[<<s, target>>] \in {"released", "torn"}, troubles' = 1
      PROVE  Doomed(<<s, target>>)'
  <2>1. <<s, target>> \in Directory
    BY <1>1 DEF Directory
  <2>2. CASE doomed' = Candidates
    <3>1. 1 \in 1 .. Len(Candidates) /\ 2 \in 1 .. Len(Candidates)
          /\ Candidates[1] = <<"public", target>> /\ Candidates[2] = <<"private", target>>
      BY DEF Candidates, Own
    <3> QED
      BY <2>2, <3>1, <1>0 DEF Doomed, Side
  <2>3. CASE step = "stage_private" /\ Becomes(Own("private"), "staged")
    <3>1. store[<<s, target>>] = "none"
      BY <1>0, <2>1, <2>3 DEF Progress, OnDisk, SeenIsPossible, Side
    <3>2. store'[<<s, target>>] \in {"none", "staged"}
      BY <1>0, <2>1, <2>3, <3>1 DEF Becomes, Own, TypeOK
    <3> QED
      BY <3>2, <1>2
  <2>4. CASE step = "stage_public" /\ Becomes(Own("public"), "staged")
    <3>1. store[<<s, target>>] \in {"none", "staged"}
      BY <1>0, <2>1, <2>4 DEF Progress, OnDisk, SeenIsPossible, Side
    <3>2. store'[<<s, target>>] \in {"none", "staged"}
      BY <1>0, <2>1, <2>4, <3>1 DEF Becomes, Own, TypeOK
    <3> QED
      BY <3>2, <1>2
  <2> QED
    BY <2>2, <2>3, <2>4 DEF PrepareFails
<1>3. troubles' = 1 => failed = {}
  BY <1>0 DEF LeftoverInv
<1>4. troubles' = 1 => LeftoversAreDoomed'
  BY <1>0, <1>2, <1>3 DEF LeftoversAreDoomed
<1>5. failed' \subseteq used' /\ (failed' # {} => troubles' > 0)
  BY <1>0, <1>1 DEF LeftoverInv
<1> QED
  BY <1>0, <1>4, <1>5 DEF LeftoverInv, Preparing

(* A removal takes its directories in order: the one it works on is doomed   *)
(* until it is gone, the others stay doomed.                                *)
LEMMA RemovalLeftovers == IInv /\ LeftoverInv /\ (Tear \/ Remove) => LeftoverInv'
<1> SUFFICES ASSUME IInv, LeftoverInv, Tear \/ Remove PROVE LeftoverInv'
  OBVIOUS
<1>0. /\ TypeOK /\ step = "removing" /\ step' = step /\ doomed # <<>> /\ doomed \in Seq(Directory)
      /\ UNCHANGED <<target, used, failed, troubles>>
  BY DEF IInv, TypeOK, Tear, Remove, Calm, ghosts, task
<1>1. /\ Head(doomed) \in Directory /\ Len(doomed) \in Nat /\ 1 \in 1 .. Len(doomed)
      /\ doomed[1] = Head(doomed)
  BY <1>0
<1>2. ASSUME NEW r \in failed, NEW s \in Side, troubles = 1,
             store'[<<s, r>>] \in {"released", "torn"}
      PROVE  Doomed(<<s, r>>)'
  <2>1. <<s, r>> \in Directory
    BY <1>0 DEF TypeOK, Directory
  <2>2. store[<<s, r>>] \notin {"released", "torn"} \/ Doomed(<<s, r>>)
    BY <1>2 DEF LeftoverInv, LeftoversAreDoomed
  <2>3. CASE Tear
    <3>1. doomed' = doomed
      BY <2>3 DEF Tear, task
    <3>2. CASE <<s, r>> = Head(doomed)
      BY <3>1, <3>2, <1>0, <1>1 DEF Doomed
    <3>3. CASE <<s, r>> # Head(doomed)
      <4>1. store'[<<s, r>>] = store[<<s, r>>]
        BY <2>1, <2>3, <3>3, <1>0, <1>1 DEF Tear, Becomes, TypeOK
      <4> QED
        BY <4>1, <2>2, <1>2, <3>1, <1>0 DEF Doomed
    <3> QED
      BY <3>2, <3>3
  <2>4. CASE Remove
    <3>1. doomed' = Tail(doomed)
      BY <2>4 DEF Remove
    <3>2. CASE <<s, r>> = Head(doomed)
      <4>1. store'[<<s, r>>] = "none"
        BY <2>1, <2>4, <3>2, <1>0 DEF Remove, Becomes, TypeOK
      <4> QED
        BY <4>1, <1>2
    <3>3. CASE <<s, r>> # Head(doomed)
      <4>1. store'[<<s, r>>] = store[<<s, r>>]
        BY <2>1, <2>4, <3>3, <1>0, <1>1 DEF Remove, Becomes, TypeOK
      <4>2. PICK i \in 1 .. Len(doomed) : doomed[i] = <<s, r>>
        BY <4>1, <2>2, <1>2 DEF Doomed
      <4>3. i # 1
        BY <4>2, <3>3, <1>1
      <4>4. i - 1 \in 1 .. Len(Tail(doomed)) /\ Tail(doomed)[i - 1] = doomed[i]
        BY <4>3, <1>0, <1>1
      <4> QED
        BY <4>2, <4>4, <3>1, <1>0 DEF Doomed
    <3> QED
      BY <3>2, <3>3
  <2> QED
    BY <2>3, <2>4
<1>3. troubles' = 1 => LeftoversAreDoomed'
  BY <1>0, <1>2 DEF LeftoversAreDoomed
<1> QED
  BY <1>0, <1>3 DEF LeftoverInv, Preparing

LEMMA LeftoverNext == IInv /\ LeftoverInv /\ [Next]_vars => LeftoverInv'
<1> SUFFICES ASSUME IInv, LeftoverInv, [Next]_vars PROVE LeftoverInv'
  OBVIOUS
<1>0. TypeOK /\ OwnTarget /\ failed \subseteq Release
  BY DEF IInv, TypeOK
<1>1. ASSUME NEW r \in Release, Start(r) PROVE LeftoverInv'
  <2>1. troubles' = 1 => LeftoversAreDoomed'
    BY <1>1, OtherDirectories DEF Start, files
  <2> QED
    BY <1>1, <2>1 DEF Start, LeftoverInv
<1>2. ASSUME NEW r \in Release, Rollback(r) PROVE LeftoverInv'
  <2>0. UNCHANGED <<store, step, target, used, failed>>
    BY <1>2 DEF Rollback, files, task, ghosts
  <2>1. CASE Calm
    <3>1. troubles' = 1 => LeftoversAreDoomed'
      BY <1>2, <2>0, <2>1, OtherDirectories DEF Rollback, Calm
    <3> QED
      BY <2>0, <2>1, <3>1 DEF LeftoverInv, Calm
  <2>2. CASE Trouble
    BY <1>0, <2>0, <2>2, OtherTroubles DEF LeftoverInv
  <2> QED
    BY <1>2, <2>1, <2>2 DEF Rollback
<1>3. ASSUME step \in Preparing, step' \in Preparing \cup {"prepared"},
             UNCHANGED <<target, used, failed, troubles>>,
             \A d \in Directory : d[2] # target => store'[d] = store[d]
      PROVE  LeftoverInv'
  <2>1. target \notin failed
    BY <1>3 DEF LeftoverInv
  <2>2. \A r \in failed, s \in Side : store'[<<s, r>>] = store[<<s, r>>]
    BY <1>0, <1>3, <2>1 DEF Directory
  <2>3. troubles' = 1 => LeftoversAreDoomed'
    BY <1>3, <2>2, OtherDirectories DEF Preparing
  <2> QED
    BY <1>3, <2>1, <2>3 DEF LeftoverInv
<1>4. ASSUME StagePrivate \/ StagePublic PROVE LeftoverInv'
  <2>1. UNCHANGED <<target, used, failed, troubles>>
    BY <1>4 DEF StagePrivate, StagePublic, Stage, Goto, Calm, ghosts
  <2>2. step \in Preparing /\ step' \in Preparing
    BY <1>4 DEF StagePrivate, StagePublic, Stage, Goto, Preparing
  <2>3. \A d \in Directory : d[2] # target => store'[d] = store[d]
    BY <1>4, <1>0 DEF StagePrivate, StagePublic, Stage, Becomes, TypeOK
  <2> QED
    BY <1>3, <2>1, <2>2, <2>3
<1>5. ASSUME Fill PROVE LeftoverInv'
  <2>1. UNCHANGED <<target, used, failed, troubles>> /\ step \in Preparing /\ step' \in Preparing
    BY <1>5 DEF Fill, Goto, Calm, ghosts, Preparing
  <2>2. \A d \in Directory : d[2] # target => store'[d] = store[d]
    BY <1>5 DEF Fill
  <2> QED
    BY <1>3, <2>1, <2>2
<1>6. ASSUME PublishPublic \/ PublishPrivate PROVE LeftoverInv'
  <2>1. UNCHANGED <<target, used, failed, troubles>>
    BY <1>6 DEF PublishPublic, PublishPrivate, Rename, Goto, Calm, ghosts
  <2>2. step \in Preparing /\ step' \in Preparing
    BY <1>6 DEF PublishPublic, PublishPrivate, Rename, Goto, Preparing
  <2>3. \A d \in Directory : d[2] # target => store'[d] = store[d]
    BY <1>6, <1>0 DEF PublishPublic, PublishPrivate, Rename, TypeOK
  <2> QED
    BY <1>3, <2>1, <2>2, <2>3
<1>7. ASSUME SyncPublic \/ SyncPrivate \/ Return PROVE LeftoverInv'
  <2>1. UNCHANGED <<store, target, used, failed, troubles>>
    BY <1>7 DEF SyncPublic, SyncPrivate, Return, Sync, Goto, Calm, ghosts, files
  <2>2. step \in Preparing /\ step' \in Preparing \cup {"prepared"}
    BY <1>7 DEF SyncPublic, SyncPrivate, Return, Sync, Goto, Preparing
  <2> QED
    BY <1>3, <2>1, <2>2
<1>8. ASSUME ActivationFails \/ RemovalFails \/ Kill \/ PowerLoss PROVE LeftoverInv'
  <2>1. Trouble /\ UNCHANGED <<used, failed>>
    BY <1>8 DEF ActivationFails, RemovalFails, Kill, PowerLoss, Dies, ghosts
  <2>2. step' \in Preparing \cup {"prepared", "discard"} => target' \notin failed'
    BY <1>8, <2>1 DEF ActivationFails, RemovalFails, Kill, PowerLoss, Dies, Goto, LeftoverInv, Preparing
  <2> QED
    BY <1>0, <2>1, <2>2, OtherTroubles DEF LeftoverInv
<1>9. ASSUME Activate \/ Recover \/ Discard \/ Prune \/ Removed PROVE LeftoverInv'
  <2>1. UNCHANGED <<store, target, used, failed, troubles>>
    BY <1>9 DEF Activate, Recover, Discard, Prune, Removed, Goto, Calm, files, ghosts, task
  <2>2. step # "removing" \/ doomed = <<>>
    BY <1>9 DEF Activate, Recover, Discard, Prune, Removed
  <2>3. step' \notin Preparing \cup {"prepared", "discard"}
    BY <1>9 DEF Activate, Recover, Discard, Prune, Removed, Goto, Preparing, task
  <2>4. troubles' = 1 => LeftoversAreDoomed'
    BY <2>1, <2>2, OtherDirectories
  <2> QED
    BY <2>1, <2>3, <2>4 DEF LeftoverInv
<1>10. CASE UNCHANGED vars
  <2>1. UNCHANGED store /\ UNCHANGED step /\ UNCHANGED target /\ UNCHANGED doomed
        /\ UNCHANGED used /\ UNCHANGED failed /\ UNCHANGED troubles
    BY <1>10 DEF vars, files, task, ghosts
  <2>2. LeftoversAreDoomed' = LeftoversAreDoomed
    BY <2>1 DEF LeftoversAreDoomed, Doomed
  <2> QED
    BY <2>1, <2>2 DEF LeftoverInv
<1> QED
  BY <1>1, <1>2, <1>4, <1>5, <1>6, <1>7, <1>8, <1>9, <1>10,
     PrepareFailsLeftovers, RemovalLeftovers DEF Next

(* When a prepare fails and nothing else ever does, no directory of its      *)
(* release keeps a final name once the operation is over, whatever other     *)
(* releases were prepared, activated, discarded or pruned before and after.  *)
THEOREM FailedPreparesLeaveNothing == Spec => []FailureLeavesNothing
<1>1. LeftoverInv => FailureLeavesNothing
  BY DEF LeftoverInv, LeftoversAreDoomed, Doomed, FailureLeavesNothing
<1> QED
  BY InvInit, InvNext, LeftoverInit, LeftoverNext, <1>1, PTL DEF Spec

=============================================================================
