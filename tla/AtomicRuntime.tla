---------------------------- MODULE AtomicRuntime ----------------------------
(***************************************************************************)
(* What runtime activation promises its callers: the runtime, that is the  *)
(* whole of state.json, the routes and the release markers, moves from one *)
(* complete value to the next in a single step, and only on behalf of an   *)
(* activation that has not reported yet.  Neither a failed call nor a      *)
(* crash nor the recovery after it shows a mixture or moves the runtime; a *)
(* power loss falls back to the last runtime that reached the disk, which  *)
(* is a complete one too.                                                  *)
(***************************************************************************)
EXTENDS RuntimeArtifacts

VARIABLES
    runtime,    \* the runtime a recovery would establish now
    stable,     \* the runtime a recovery would establish after a power loss
    outcome     \* what the last activation reported

avars == <<runtime, stable, outcome>>

Init ==
    /\ runtime \in InitialFiles
    /\ stable = runtime
    /\ outcome = "none"

\* An activation starts: nothing is promised about it yet.
Request ==
    /\ outcome' = "none"
    /\ UNCHANGED <<runtime, stable>>

\* The whole update becomes visible at once.
Switch ==
    /\ outcome = "none"
    /\ \E u \in Update : runtime' = Overlay(runtime, u)
    /\ UNCHANGED <<stable, outcome>>

\* The visible runtime reaches the disk.
Harden ==
    /\ stable' = runtime
    /\ UNCHANGED <<runtime, outcome>>

\* The activation reports, possibly in the step that hardens the runtime.
Report ==
    /\ outcome' \in {"success", "failed"}
    /\ stable' \in {stable, runtime}
    /\ UNCHANGED runtime

PowerLoss ==
    /\ runtime' = stable
    /\ UNCHANGED <<stable, outcome>>

Next == Request \/ Switch \/ Harden \/ Report \/ PowerLoss

Spec == Init /\ [][Next]_avars

=============================================================================
