--------------------------- MODULE MCSelectionTurn ---------------------------
\* Four calls, one account for two requests in a window of 2 and one without a
\* limit, which may learn one.
EXTENDS SelectionTurn, TLC
CONSTANTS c1, c2, c3, c4, glm, kimi
MCCalls == {c1, c2, c3, c4}
MCAccounts == {glm, kimi}
MCLimit == glm :> 2 @@ kimi :> 0
Alike == Permutations(MCCalls)
=============================================================================
