---------------------------- MODULE MCChatRequest ----------------------------
\* Two accounts that are tried one after the other, each with three sends: the first,
\* the one after a token refresh or an executor's own retry, and one more in the stream.
EXTENDS ChatRequest, TLC
CONSTANTS a1, a2
MCAccounts == {a1, a2}
Alike == Permutations(MCAccounts)
=============================================================================
