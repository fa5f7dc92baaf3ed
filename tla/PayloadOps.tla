----------------------------- MODULE PayloadOps -----------------------------
(***************************************************************************)
(* The shared ledger of open-sse/services/payloadAdmission.js: the bytes,  *)
(* streams and requests admitted, and the FIFO queue of requests waiting   *)
(* for room.  Operators only; PayloadAdmission and Admission use them.     *)
(***************************************************************************)
EXTENDS WaitQueue

CONSTANTS
  Bytes,           \* Bytes[c]: what estimatePayloadBytes measures for c
  IsStream,        \* IsStream[c]: whether c holds a stream
  MaxPayloadBytes, MaxSinglePayloadBytes, MaxHeldStreams, MaxQueueDepth

ASSUME PayloadAssumption ==
  /\ Bytes \in [Callers -> Nat]
  /\ IsStream \in [Callers -> BOOLEAN]
  /\ {MaxPayloadBytes, MaxSinglePayloadBytes, MaxHeldStreams} \subseteq Nat \ {0}
  /\ MaxQueueDepth \in Nat

Ledger == [bytes : Nat, streams : Nat, requests : Nat, queue : Seq(Callers)]

EmptyLedger == [bytes |-> 0, streams |-> 0, requests |-> 0, queue |-> <<>>]

\* The two 413 checks: such a request never reaches the queue.
TooLarge(c) == Bytes[c] > MaxSinglePayloadBytes \/ Bytes[c] > MaxPayloadBytes

\* Mutant: one stream too many.
FitsOneMoreStream(ledger, c) ==
  /\ ledger.bytes + Bytes[c] <= MaxPayloadBytes
  /\ IsStream[c] => ledger.streams <= MaxHeldStreams

Fits(ledger, c) ==
  /\ ledger.bytes + Bytes[c] <= MaxPayloadBytes
  /\ IsStream[c] => ledger.streams + 1 <= MaxHeldStreams

Allocate(ledger, c) ==
  [ledger EXCEPT !.bytes = @ + Bytes[c],
                 !.streams = IF IsStream[c] THEN @ + 1 ELSE @,
                 !.requests = @ + 1]

AtLeastZero(n, m) == IF n >= m THEN n - m ELSE 0

\* Mutant: every lease returns a stream.
DeallocateStreamToo(ledger, c) ==
  [ledger EXCEPT !.bytes = AtLeastZero(@, Bytes[c]), !.streams = @ - 1,
                 !.requests = AtLeastZero(@, 1)]

Deallocate(ledger, c) ==
  [ledger EXCEPT !.bytes = AtLeastZero(@, Bytes[c]),
                 !.streams = IF IsStream[c] THEN AtLeastZero(@, 1) ELSE @,
                 !.requests = AtLeastZero(@, 1)]

Without(ledger, c) == [ledger EXCEPT !.queue = CutOut(@, c)]

AdmitHead(ledger) ==
  Allocate([ledger EXCEPT !.queue = Tail(@)], Head(ledger.queue))

\* One turn of drainQueue's loop.
AdmitIfFits(ledger) ==
  IF ledger.queue # <<>> /\ Fits(ledger, Head(ledger.queue))
  THEN AdmitHead(ledger) ELSE ledger

\* drainQueue: admit the head while there is one and it fits; the loop ends at
\* the first that does not, so what follows it stays, however small.
Drain(ledger) ==
  LET after[n \in 0..Len(ledger.queue)] ==
        IF n = 0 THEN ledger ELSE AdmitIfFits(after[n - 1])
  IN after[Len(ledger.queue)]

\* The waiters that drainQueue resolves with a lease.
DrainGrants(ledger) ==
  ToSet(SubSeq(ledger.queue, 1, Len(ledger.queue) - Len(Drain(ledger).queue)))

=============================================================================
