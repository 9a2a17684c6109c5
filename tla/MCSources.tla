------------------------------ MODULE MCSources ------------------------------
(***************************************************************************)
(* Node lists for Sources.tla: equal settings under two names, equal names *)
(* of two settings, and a name that is itself a numbered one.  Addresses   *)
(* and links are only compared, so that they may be exchanged.             *)
(***************************************************************************)
EXTENDS Sources

Node(id, name) == [id |-> id, name |-> name]

MCFeeds == {<<Node("a", <<>>)>>, <<Node("a", <<2>>), Node("b", <<>>)>>}
MCImports == {<<Node("b", <<2>>), Node("c", <<>>)>>}
Symmetry == Permutations(Links) \cup Permutations(Urls)
=============================================================================
