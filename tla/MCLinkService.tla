--------------------------- MODULE MCLinkService ---------------------------
(***************************************************************************)
(* A small instance of LinkService: two clients of the panel, three emails *)
(* and two versions of what a bundle is rendered from.  The clients, the   *)
(* other emails and the versions are interchangeable.                      *)
(***************************************************************************)
EXTENDS LinkService, TLC

CONSTANTS c1, c2, boss, amy, bob, n1, n2

Symmetry ==
    Permutations({c1, c2}) \cup Permutations({amy, bob}) \cup Permutations({n1, n2})

=============================================================================
