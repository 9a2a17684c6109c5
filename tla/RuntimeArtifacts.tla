-------------------------- MODULE RuntimeArtifacts --------------------------
(***************************************************************************)
(* The vocabulary of one runtime activation of clash_sub/nginx.py: the     *)
(* files an activation replaces, the contents they may hold, and what a    *)
(* recovery makes of a set of files and the journal found beside them.     *)
(*                                                                         *)
(* A path is state.json, the generated routes file, or one of the markers  *)
(* private/current/<client id>.  Contents are opaque: the activation only  *)
(* compares, copies and replaces them.                                     *)
(***************************************************************************)
EXTENDS Naturals

CONSTANTS
    Path,           \* the files an activation may replace
    State,          \* private/state.json
    Routes,         \* the routes file nginx includes
    Dir,            \* Dir[p]: the directory of p
    PrivateRoot,    \* the directory of the journal
    Rank,           \* Rank[p]: the position of p in the list of artifacts
    Content,        \* what a file may hold
    Absent,         \* the value of a file that does not exist
    ValidRoutes,    \* the contents of the routes file that `nginx -t` accepts
    MayBeMissing    \* the paths that need not exist before the first activation

ASSUME ArtifactsAssumption ==
    /\ {State, Routes} \subseteq Path
    /\ Dir[State] = PrivateRoot
    /\ Absent \notin Content
    /\ ValidRoutes \subseteq Content
    /\ MayBeMissing \subseteq Path \ {Routes}
    /\ Rank \in [Path -> Nat]
    /\ \A p, q \in Path : Rank[p] = Rank[q] => p = q

Value == Content \cup {Absent}

Files == [Path -> Value]

\* The files before the first activation.
InitialFiles == {f \in Files : \A p \in Path : f[p] = Absent => p \in MayBeMissing}

\* The sets of paths one activation touches: state.json and the routes always,
\* a marker for every candidate release.
Scope == {S \in SUBSET Path : {State, Routes} \subseteq S}

\* What an activation is asked to install, and the snapshot it takes first.
Update   == UNION {[S -> Content] : S \in Scope}
Snapshot == UNION {[S -> Value] : S \in Scope}

Journal ==
    [phase : {"prepared", "committed"}, old : Snapshot]
      \cup [phase : {"none"}, old : {<<>>}]

NoJournal == [phase |-> "none", old |-> <<>>]

\* f with the values of the partial function g written over it.
Overlay(f, g) == [p \in Path |-> IF p \in DOMAIN g THEN g[p] ELSE f[p]]

\* The files a recovery that runs to its end leaves behind: a prepared journal
\* restores the snapshot it holds, any other journal keeps the files.
Recovered(f, j) == IF j.phase = "prepared" THEN Overlay(f, j.old) ELSE f

=============================================================================
