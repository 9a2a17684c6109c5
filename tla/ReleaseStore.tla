---------------------------- MODULE ReleaseStore ----------------------------
(***************************************************************************)
(* release_store.ReleaseStore for one client: a release is a pair of       *)
(* directories, one private (with the manifest) and one that nginx serves, *)
(* staged, checked and renamed into place one after the other.  Every      *)
(* operation runs under the operation lock and one step at a time, may     *)
(* fail at each step, and may be killed between any two; a power loss      *)
(* keeps of each directory entry what was forced to disk or anything since.*)
(*                                                                         *)
(* The activation that makes a release current is RuntimeActivation's; here*)
(* it switches the marker, or does not, or leaves it switched until the    *)
(* next recovery switches it back.                                         *)
(***************************************************************************)
EXTENDS Integers, Sequences, FiniteSets

CONSTANTS MaxReleases,  \* bound: release ids, in the order of their timestamps
          Keep,         \* 5 in the code
          MaxTroubles   \* bound: failed steps, kills, power losses

ASSUME StoreAssumption == MaxReleases \in Nat /\ Keep \in Nat \ {0} /\ MaxTroubles \in Nat

Release == 1 .. MaxReleases
None    == 0
Nothing == -1           \* no recovery is pending

Side      == {"private", "public"}
Directory == Side \X Release

\* "staged" may be incomplete, "ready" is on disk, "released" has its final
\* name, "torn" has lost files to an unfinished removal (or to a power loss).
Value == {"none", "staged", "ready", "released", "torn"}

VARIABLES
    store,      \* directory -> what the programs see
    disk,       \* directory -> what a power loss may leave
    current,    \* the marker private/current/<client id>
    restore,    \* the marker a pending recovery brings back
    step,       \* where the running operation is
    target,     \* the release it works on
    doomed,     \* the directories it still has to remove, in order
    used,       \* ids drawn so far; a clock set back draws an earlier one
    returned,   \* releases that prepare returned
    failed,     \* releases whose prepare has failed and cleaned up
    troubles

files  == <<store, disk>>
marker == <<current, restore>>
task   == <<step, target, doomed>>
ghosts == <<used, returned, failed>>
vars   == <<files, marker, task, ghosts, troubles>>

Preparing == {"stage_private", "stage_public", "fill", "publish_public",
              "sync_public", "publish_private", "sync_private", "verify"}

TypeOK ==
    /\ store \in [Directory -> Value]
    /\ disk \in [Directory -> SUBSET Value]
    /\ current \in Release \cup {None}
    /\ restore \in Release \cup {None, Nothing}
    /\ step \in Preparing \cup {"idle", "prepared", "discard", "prune", "removing"}
    /\ target \in Release \cup {None}
    /\ doomed \in Seq(Directory)
    /\ used \subseteq Release /\ returned \subseteq Release /\ failed \subseteq Release
    /\ troubles \in Nat

Init ==
    /\ store = [d \in Directory |-> "none"]
    /\ disk = [d \in Directory |-> {"none"}]
    /\ current = None /\ restore = Nothing
    /\ step = "idle" /\ target = None /\ doomed = <<>>
    /\ used = {} /\ returned = {} /\ failed = {} /\ troubles = 0

----------------------------------------------------------------------------
Trouble == troubles < MaxTroubles /\ troubles' = troubles + 1

\* verify_release: both directories in place, complete, and as the manifest says.
Verifies(r) == store[<<"private", r>>] = "released" /\ store[<<"public", r>>] = "released"

history == {r \in Release : Verifies(r)}

Becomes(d, v) == /\ store' = [store EXCEPT ![d] = v]
                 /\ disk' = [disk EXCEPT ![d] = @ \cup {v}]

Goto(next) == step' = next /\ UNCHANGED <<target, doomed>>

Calm == UNCHANGED troubles

----------------------------------------------------------------------------
(* prepare.  Without a current release, or with one that verifies and holds *)
(* something else; anything else returns before a directory is made.        *)
Start(r) ==
    /\ step = "idle" /\ restore = Nothing
    /\ current \in history \cup {None}
    /\ r \notin used /\ used' = used \cup {r}
    /\ step' = "stage_private" /\ target' = r /\ doomed' = <<>>
    /\ UNCHANGED <<files, marker, returned, failed, troubles>>

Stage(side, here, next) ==
    /\ step = here /\ Becomes(<<side, target>>, "staged") /\ Goto(next)
    /\ Calm /\ UNCHANGED <<marker, ghosts>>

StagePrivate == Stage("private", "stage_private", "stage_public")
StagePublic  == Stage("public", "stage_public", "fill")

(* The files are written, read back against the manifest, given their modes *)
(* and forced to disk with their directories.                               *)
Complete(d, on) == (on[d] \ {"staged"}) \cup {"ready"}

FillUnsynced ==
    /\ step = "fill"
    /\ store' = [d \in Directory |-> IF d[2] = target THEN "ready" ELSE store[d]]
    /\ disk' = [d \in Directory |-> IF d[2] = target THEN disk[d] \cup {"ready"} ELSE disk[d]]
    /\ Goto("publish_public") /\ Calm /\ UNCHANGED <<marker, ghosts>>
Fill ==
    /\ step = "fill"
    /\ store' = [d \in Directory |-> IF d[2] = target THEN "ready" ELSE store[d]]
    /\ disk' = [d \in Directory |-> IF d[2] = target THEN Complete(d, disk) ELSE disk[d]]
    /\ Goto("publish_public") /\ Calm /\ UNCHANGED <<marker, ghosts>>

(* _publish_directory: a rename, then the fsync of both parents.  A renamed *)
(* directory whose files never reached the disk may lose them.              *)
Rename(side, here, next) ==
    LET d == <<side, target>>
        lossy == IF "staged" \in disk[d] THEN {"torn"} ELSE {}
    IN /\ step = here
       /\ store' = [store EXCEPT ![d] = "released"]
       /\ disk' = [disk EXCEPT ![d] = @ \cup {"released"} \cup lossy]
       /\ Goto(next) /\ Calm /\ UNCHANGED <<marker, ghosts>>

Sync(side, here, next) ==
    /\ step = here
    /\ disk' = [disk EXCEPT ![<<side, target>>] = @ \cap {"released", "torn"}]
    /\ UNCHANGED store
    /\ Goto(next) /\ Calm /\ UNCHANGED <<marker, ghosts>>

PublishPublic  == Rename("public", "publish_public", "sync_public")
SyncPublic     == Sync("public", "sync_public", "publish_private")
PublishPrivate == Rename("private", "publish_private", "sync_private")
SyncPrivate    == Sync("private", "sync_private", "verify")

Return ==
    /\ step = "verify" /\ Verifies(target)
    /\ returned' = returned \cup {target} /\ Goto("prepared")
    /\ Calm /\ UNCHANGED <<files, marker, used, failed>>

(* A step fails, and the candidates prepare knows of are removed, the       *)
(* public one first.  A renamed directory is known from its rename on; one  *)
(* whose making failed halfway is not.                                      *)
Own(side) == <<side, target>>

StagedOnly == IF store[Own("public")] = "released" THEN <<Own("private")>>
              ELSE <<Own("public"), Own("private")>>
Candidates == <<Own("public"), Own("private")>>

PrepareFails ==
    /\ step \in Preparing /\ Trouble
    /\ \/ UNCHANGED files /\ doomed' = Candidates
       \/ step = "stage_private" /\ Becomes(Own("private"), "staged") /\ doomed' = <<>>
       \/ step = "stage_public" /\ Becomes(Own("public"), "staged") /\ doomed' = <<Own("private")>>
    /\ step' = "removing" /\ failed' = failed \cup {target}
    /\ UNCHANGED <<marker, target, used, returned>>

----------------------------------------------------------------------------
(* What the service does with a prepared release: validate and activate it, *)
(* and then prune; or discard it.                                           *)
Activate ==
    /\ step = "prepared" /\ Verifies(target)
    /\ current' = target /\ Goto("prune")
    /\ Calm /\ UNCHANGED <<files, restore, ghosts>>

ActivationFails ==
    /\ step = "prepared" /\ Trouble
    /\ \/ UNCHANGED marker
       \/ Verifies(target) /\ current' = target /\ restore' = current
    /\ Goto("discard")
    /\ UNCHANGED <<files, ghosts>>

(* Every operation recovers first; an unfinished rollback is finished then.  *)
Recover ==
    /\ step = "idle" /\ restore # Nothing
    /\ current' = restore /\ restore' = Nothing
    /\ Calm /\ UNCHANGED <<files, task, ghosts>>

Rollback(r) ==
    /\ step = "idle" /\ restore = Nothing /\ current # None /\ Verifies(r)
    /\ \/ current' = r /\ UNCHANGED restore /\ Calm
       \/ current' = r /\ restore' = current /\ Trouble
    /\ UNCHANGED <<files, task, ghosts>>

(* discard_unreferenced refuses a release that is current or not whole.     *)
Discard ==
    /\ step = "discard"
    /\ IF current # target /\ Verifies(target)
       THEN /\ step' = "removing"
            /\ doomed' = <<Own("public"), Own("private")>>
       ELSE step' = "idle" /\ UNCHANGED doomed
    /\ Calm /\ UNCHANGED <<files, marker, target, ghosts>>

(* The oldest go first; the current one is passed over.                     *)
Prunable == IF Cardinality(history) > Keep THEN history \ {current} ELSE {}

Prune ==
    /\ step = "prune" /\ doomed = <<>>
    /\ \/ Prunable = {} /\ step' = "idle" /\ UNCHANGED doomed
       \/ \E oldest \in Prunable :
             /\ \A r \in Prunable : oldest <= r
             /\ step' = "removing"
             /\ doomed' = << <<"private", oldest>>, <<"public", oldest>> >>
    /\ Calm /\ UNCHANGED <<files, marker, target, ghosts>>

(* rmtree: files first, then the directory; nothing is forced to disk.  A   *)
(* directory that is not there is passed over.                              *)
Tear ==
    /\ step = "removing" /\ doomed # <<>> /\ store[Head(doomed)] \notin {"torn", "none"}
    /\ Becomes(Head(doomed), "torn")
    /\ Calm /\ UNCHANGED <<marker, task, ghosts>>

Remove ==
    /\ step = "removing" /\ doomed # <<>> /\ store[Head(doomed)] \in {"torn", "none"}
    /\ Becomes(Head(doomed), "none")
    /\ doomed' = Tail(doomed) /\ UNCHANGED <<step, target>>
    /\ Calm /\ UNCHANGED <<marker, ghosts>>

(* prune goes on while there is more than it keeps.                         *)
Removed ==
    /\ step = "removing" /\ doomed = <<>>
    /\ step' = IF target = current THEN "prune" ELSE "idle"
    /\ UNCHANGED <<target, doomed>>
    /\ Calm /\ UNCHANGED <<files, marker, ghosts>>

RemovalFails ==
    /\ step = "removing" /\ doomed # <<>> /\ Trouble
    /\ step' = "idle" /\ doomed' = <<>> /\ UNCHANGED target
    /\ UNCHANGED <<files, marker, ghosts>>

----------------------------------------------------------------------------
Dies == step' = "idle" /\ target' = None /\ doomed' = <<>> /\ Trouble

Kill == step # "idle" /\ Dies /\ UNCHANGED <<files, marker, ghosts>>

Loose == {d \in Directory : disk[d] # {store[d]}}

PowerLoss ==
    /\ Dies
    /\ \E kept \in [Loose -> Value] :
          /\ \A d \in Loose : kept[d] \in disk[d]
          /\ store' = [d \in Directory |-> IF d \in Loose THEN kept[d] ELSE store[d]]
    /\ disk' = [d \in Directory |-> {store'[d]}]
    /\ UNCHANGED <<marker, ghosts>>

Next ==
    \/ \E r \in Release : Start(r) \/ Rollback(r)
    \/ StagePrivate \/ StagePublic \/ Fill
    \/ PublishPublic \/ SyncPublic \/ PublishPrivate \/ SyncPrivate \/ Return
    \/ PrepareFails
    \/ Activate \/ ActivationFails \/ Recover
    \/ Discard \/ Prune \/ Tear \/ Remove \/ Removed \/ RemovalFails
    \/ Kill \/ PowerLoss

Spec == Init /\ [][Next]_vars

----------------------------------------------------------------------------
(* The release the routes serve (or will serve again, once a pending        *)
(* recovery has run) is whole, whatever was killed, failed or lost: both    *)
(* directories were on disk before prepare returned, and neither a discard  *)
(* nor a prune touches it.  prepare and every activation refuse to work on  *)
(* a damaged one (release_store.py:73), so a user whose current release is  *)
(* damaged is stuck.  A release that a kill left behind just before the     *)
(* last fsync is not covered: prepare never returned it.                    *)
CurrentIsIntact == \A r \in {current, restore} \cap returned : Verifies(r)

(* When prepare fails and nothing else does, no directory of its release    *)
(* keeps a final name (release_store.py:156): nginx could serve the one,    *)
(* the history would offer the two.                                         *)
FailureLeavesNothing ==
    troubles = 1 /\ step = "idle" =>
        \A r \in failed, side \in Side :
            store[<<side, r>>] \notin {"released", "torn"}
=============================================================================
