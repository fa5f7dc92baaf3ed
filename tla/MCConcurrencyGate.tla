------------------------- MODULE MCConcurrencyGate -------------------------
\* Four callers over two keys: with a limit of one or two a queue of two forms
\* behind one key while the other is in use.
EXTENDS ConcurrencyGate
CONSTANTS c1, c2, c3, c4, global, provider
MCCallers == {c1, c2, c3, c4}
MCKeys == {global, provider}
=============================================================================
