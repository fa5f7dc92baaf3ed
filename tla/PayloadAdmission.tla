-------------------------- MODULE PayloadAdmission --------------------------
(***************************************************************************)
(* open-sse/services/payloadAdmission.js on its own: requests ask for the  *)
(* bytes and the held stream they need, wait in one FIFO queue, are timed  *)
(* out or aborted there, and release their lease once, either themselves   *)
(* or through the abort listener the lease carries.                        *)
(***************************************************************************)
EXTENDS PayloadOps

VARIABLES
  ledger,     \* admissionState
  phase       \* phase[c]: where request c is

vars == <<ledger, phase>>

Phases == {"idle", "waiting", "holding", "rejected"}

TypeOK ==
  /\ ledger \in Ledger
  /\ phase \in [Callers -> Phases]

Holders == {c \in Callers : phase[c] = "holding"}

Init ==
  /\ ledger = EmptyLedger
  /\ phase = [c \in Callers |-> "idle"]

-----------------------------------------------------------------------------
\* The ledger becomes `led` and its queue is drained; the waiters admitted by
\* the drain hold their lease, and `c` itself moves to phase p.
DrainInto(led, c, p) ==
  /\ ledger' = Drain(led)
  /\ \E granted \in {DrainGrants(led)} :
       phase' = [d \in Callers |-> IF d \in granted THEN "holding"
                                   ELSE IF d = c THEN p ELSE phase[d]]

Settle(c, p) == phase' = [phase EXCEPT ![c] = p]

\* acquirePayloadAdmission's two size checks.
RejectTooLarge(c) ==
  /\ phase[c] = "idle"
  /\ TooLarge(c)
  /\ Settle(c, "rejected")
  /\ UNCHANGED ledger

\* Mutant: a request that fits is admitted past the queue.
AdmitPastQueue(c) ==
  /\ phase[c] = "idle"
  /\ ~TooLarge(c)
  /\ Fits(ledger, c)
  /\ ledger' = Allocate(ledger, c)
  /\ Settle(c, "holding")

\* The fast path: nobody is queued and the request fits.
AdmitAtOnce(c) ==
  /\ phase[c] = "idle"
  /\ ~TooLarge(c)
  /\ ledger.queue = <<>>
  /\ Fits(ledger, c)
  /\ ledger' = Allocate(ledger, c)
  /\ Settle(c, "holding")

MustQueue(c) ==
  /\ phase[c] = "idle"
  /\ ~TooLarge(c)
  /\ ledger.queue # <<>> \/ ~Fits(ledger, c)

\* Pressure shedding.
Shed(c) ==
  /\ MustQueue(c)
  /\ Len(ledger.queue) >= MaxQueueDepth
  /\ Settle(c, "rejected")
  /\ UNCHANGED ledger

StartWaiting(c) ==
  /\ MustQueue(c)
  /\ Len(ledger.queue) < MaxQueueDepth
  /\ ledger' = [ledger EXCEPT !.queue = Append(@, c)]
  /\ Settle(c, "waiting")

\* Mutants: the queue is not drained after its head left; a waiter returns the
\* capacity that it never got.
GiveUpWithoutDrain(c) ==
  /\ phase[c] = "waiting"
  /\ ledger' = Without(ledger, c)
  /\ Settle(c, "rejected")

GiveUpAndDeallocate(c) ==
  /\ phase[c] = "waiting"
  /\ DrainInto(Deallocate(Without(ledger, c), c), c, "rejected")

\* The timer or the abort listener of a queued entry: it leaves the queue and
\* the rest of the queue is drained, since the head may just have changed.
GiveUp(c) ==
  /\ phase[c] = "waiting"
  /\ DrainInto(Without(ledger, c), c, "rejected")

\* Mutant: a release wakes nobody.
ReleaseWithoutDrain(c) ==
  /\ phase[c] = "holding"
  /\ ledger' = Deallocate(ledger, c)
  /\ Settle(c, "idle")

\* A lease is released by its owner or by the abort of its signal, whichever
\* comes first; the second call does nothing.
Release(c) ==
  /\ phase[c] = "holding"
  /\ DrainInto(Deallocate(ledger, c), c, "idle")

\* The client of a rejected request asks again.
AskAgain(c) ==
  /\ phase[c] = "rejected"
  /\ Settle(c, "idle")
  /\ UNCHANGED ledger

Next == \E c \in Callers :
  \/ RejectTooLarge(c) \/ AdmitAtOnce(c) \/ Shed(c) \/ StartWaiting(c)
  \/ GiveUp(c) \/ Release(c) \/ AskAgain(c)

\* A lease is always released in the end: by its request, or by its abort.
FairSpec == Init /\ [][Next]_vars /\ \A c \in Callers : WF_vars(Release(c))

-----------------------------------------------------------------------------
\* The three counters are what the outstanding leases add up to, whatever the
\* order of releases, aborts and drains; nothing is ever lost to the clamp at 0.
LedgerConserved ==
  /\ ledger.bytes = SumFunctionOnSet(Bytes, Holders)
  /\ ledger.streams = Cardinality({c \in Holders : IsStream[c]})
  /\ ledger.requests = Cardinality(Holders)

\* Neither budget is overdrawn, also not by a drain that admits several waiters.
WithinBudget ==
  /\ ledger.bytes <= MaxPayloadBytes
  /\ ledger.streams <= MaxHeldStreams

\* No room is left idle while somebody waits: every path that can change the
\* head or the room drains, so the head of a settled queue does not fit.
HeadIsBlocked ==
  ledger.queue # <<>> => /\ ~Fits(ledger, Head(ledger.queue))
                         /\ ledger.requests > 0

\* First come, first served: a request is admitted only together with, or after,
\* everyone queued before it, however small it is.
AdmitsInOrder ==
  \A c \in Callers : phase[c] # "holding" /\ phase'[c] = "holding" =>
    \A i \in 1..Len(ledger.queue) :
      (\A j \in 1..i : ledger.queue[j] # c) => phase'[ledger.queue[i]] # "waiting"
NoOvertaking == [][AdmitsInOrder]_vars

\* A waiter is admitted or gives up as long as leases are released: a large
\* request is not starved by small ones, and no wait needs its own timer to end.
WaitersServed == \A c \in Callers : phase[c] = "waiting" ~> phase[c] # "waiting"

=============================================================================
