--------------------------- MODULE MCRefreshLane ---------------------------
EXTENDS RefreshLane, TLC
CONSTANTS r1, r2, r3, r4, c1, c2
MCRefreshes == {r1, r2, r3, r4}
MCConnections == {c1, c2}
\* A connection refreshed on both paths and a sibling refreshed under guard.
MCConnOf == (r1 :> c1 @@ r2 :> c1 @@ r3 :> c2 @@ r4 :> c2)
MCProactive == {r2}
Twins == Permutations({r3, r4})
=============================================================================
