------------------------- MODULE MCRuntimeActivation -------------------------
(***************************************************************************)
(* A small instance of RuntimeActivation: state.json, the routes and one   *)
(* release marker, two accepted routes files and one that nginx rejects.   *)
(***************************************************************************)
EXTENDS RuntimeActivation

CONSTANTS state, routes, marker, a, b, bad

MCPath == {state, routes, marker}

MCDir == [p \in MCPath |-> CASE p = state -> "private"
                             [] p = routes -> "nginx"
                             [] p = marker -> "current"]

MCRank == [p \in MCPath |-> CASE p = state -> 0 [] p = routes -> 1 [] p = marker -> 2]

Install(s, r) == [p \in {state, routes} |-> IF p = state THEN s ELSE r]

Release(s, r, m) ==
    [p \in MCPath |-> CASE p = state -> s [] p = routes -> r [] p = marker -> m]

\* A new release, a release whose routes nginx rejects, a change of state.json
\* alone, and a change of the routes alone.
MCUpdates == {Release(b, b, b), Release(b, bad, b), Install(b, a), Install(a, b)}

=============================================================================
