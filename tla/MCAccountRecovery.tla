------------------------- MODULE MCAccountRecovery -------------------------
\* Three requests, two for one model and one for another, on one account.
EXTENDS AccountRecovery, TLC
CONSTANTS r1, r2, r3, opus, haiku
MCRequests == {r1, r2, r3}
MCModels == {opus, haiku}
MCModelOf == [r \in Requests |-> IF r = r3 THEN haiku ELSE opus]
MCCooldowns == {1, 2}
MCBefore == {1}
Twins == Permutations({r1, r2})
=============================================================================
