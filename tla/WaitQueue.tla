----------------------------- MODULE WaitQueue -----------------------------
(***************************************************************************)
(* What the gates of open-sse/services/concurrencyGate.js and the ledger   *)
(* of open-sse/services/payloadAdmission.js have in common: callers that   *)
(* wait in FIFO queues, and that can take themselves out of the middle of  *)
(* one.                                                                    *)
(***************************************************************************)
EXTENDS Naturals, Sequences, SequencesExt, FiniteSets

CONSTANT Callers        \* the requests, one outstanding call each

ASSUME CallersAssumption == IsFiniteSet(Callers)

\* A timer or an abort listener removes its own entry: indexOf, then splice.
PlaceIn(queue, caller) == CHOOSE i \in 1..Len(queue) : queue[i] = caller

CutOut(queue, caller) == RemoveAt(queue, PlaceIn(queue, caller))

=============================================================================
