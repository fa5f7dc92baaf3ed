------------------------- MODULE QuotaReservations -------------------------
(***************************************************************************)
(* The quota ledger of one provider connection                             *)
(* (src/lib/db/repos/quotaReservationsRepo.js): a request that is about to *)
(* be sent reserves one unit of every quota it needs, is marked dispatched, *)
(* and is committed or released; leases expire, and a reaper turns what a  *)
(* lost owner left behind into a debit or a release.  Around it, the       *)
(* lifecycle that calls it (src/shared/services/quotaSelection.js), the    *)
(* tracker that refreshes the snapshots the ledger counts from, and the    *)
(* provider's own count, which the ledger must never overstate.            *)
(***************************************************************************)
EXTENDS Integers, FiniteSets, FiniteSetsExt, Functions

CONSTANTS
  Requests,     \* the physical dispatches, each reserves once
  Resources,    \* quota identities: a session window, a weekly one, ...
  Plan,         \* Plan[r]: the alternatives of r, sets of Resources
  Limit,        \* requests the provider allows per window of a resource
  ResetAt,      \* ResetAt[q]: the instant at which q's window starts anew
  LeaseMs, FreshnessMs, RetentionMs,
  Skew,         \* how old a caller's now() may be when its transaction runs
  MaxTime       \* bound on the clock

Times == 0..(MaxTime + LeaseMs + FreshnessMs)
\* NULL: an instant that never comes.
Never == MaxTime + LeaseMs + FreshnessMs + 1
Instants == Times \cup {Never}

\* Of the times only one relation is assumed: a debit is retained for as long as
\* a snapshot may be fresh (terminalRetentionMs and QUOTA_MAX_FRESHNESS_MS are
\* both 24 hours).
ASSUME QuotaAssumption ==
  /\ IsFiniteSet(Requests) /\ IsFiniteSet(Resources)
  /\ Plan \in [Requests -> (SUBSET ((SUBSET Resources) \ {{}})) \ {{}}]
  /\ {Limit, LeaseMs, FreshnessMs, RetentionMs, MaxTime} \subseteq Nat \ {0}
  /\ FreshnessMs <= RetentionMs
  /\ Skew \in Nat
  /\ ResetAt \in [Resources -> Instants \ {0}]

VARIABLES
  clock,
  snapshot,     \* the stored providerQuotaSnapshots rows, one per resource
  fetch,        \* the tracker's quota request in flight, and what it has read
  row,          \* row[r]: the quotaReservations row of r, with its items
  pc,           \* pc[r]: where beginDispatch and the ticket of r are
  since,        \* since[r]: when r last took a step; its next now() reads no less
  charged,      \* charged[q]: requests the provider counts in q's window
  \* History: the debits pruned while a reading that needs them was in flight,
  \* those missing from the one that is and those missing from the stored one.
  dropped,
  misled        \* history: requests granted on a reading that misjudged what is left

vars == <<clock, snapshot, fetch, row, pc, since, charged, dropped, misled>>

\* "acquired" waits for the dispatch mark, "sent" is on its way, "counted" has
\* been counted by the provider, "orphan" was sent by a process that is gone.
PCs == {"idle", "acquired", "sent", "counted", "orphan", "untracked", "over"}
\* Those that read no more instants.
Ended == {"orphan", "untracked", "over"}
Terminal == {"committed", "released", "abandoned"}

Observation == [observedAt : 0..MaxTime, staleAt : [Resources -> Times],
                resetAt : [Resources -> Instants], remaining : [Resources -> 0..Limit]]
Row == [state : {"none", "active"} \cup Terminal, dispatched : BOOLEAN,
        expires : Times, terminalAt : Times, items : SUBSET Resources,
        basisObservedAt : Times, basisResetAt : [Resources -> Instants]]

\* Nothing observed, and no row, fetch or item.
NoObservation == [observedAt |-> 0, staleAt |-> [q \in Resources |-> 0],
                  resetAt |-> [q \in Resources |-> Never],
                  remaining |-> [q \in Resources |-> 0]]
NoRow == [state |-> "none", dispatched |-> FALSE, expires |-> 0, terminalAt |-> 0,
          items |-> {}, basisObservedAt |-> 0,
          basisResetAt |-> [q \in Resources |-> Never]]

TypeOK ==
  /\ clock \in 0..MaxTime
  /\ snapshot \in Observation
  /\ fetch \in [phase : {"none", "asked", "read"}, got : Observation]
  /\ row \in [Requests -> Row]
  /\ pc \in [Requests -> PCs]
  /\ since \in [Requests -> 0..MaxTime]
  /\ charged \in [Resources -> SUBSET Requests]
  /\ dropped \in [flight : SUBSET Requests, stored : SUBSET Requests]
  /\ misled \in SUBSET Requests

Init ==
  /\ clock = 0
  /\ snapshot = NoObservation
  /\ fetch = [phase |-> "none", got |-> NoObservation]
  /\ row = [r \in Requests |-> NoRow]
  /\ pc = [r \in Requests |-> "idle"]
  /\ since = [r \in Requests |-> 0]
  /\ charged = [q \in Resources |-> {}]
  /\ dropped = [flight |-> {}, stored |-> {}]
  /\ misled = {}

-----------------------------------------------------------------------------
\* What the queries see at the instant t they are given.

\* currentSnapshot: observed by then and not stale.
Fresh(q, t) == snapshot.observedAt <= t /\ t < snapshot.staleAt[q]

Live(rw, t) == rw.state = "active" /\ rw.expires > t

\* Mutants: a settled dispatch weighs on its own basis only, or not at all.
DebitsOwnBasis(rw, q, t) ==
  rw.basisObservedAt = snapshot.observedAt /\ rw.basisResetAt[q] > t
DebitsNothing(rw, q, t) == FALSE

\* A settled dispatch still weighs on a snapshot that it was reserved from, or
\* that was observed no later than its end and so may not have counted it.
StillDebits(rw, q, t) ==
  \/ rw.basisObservedAt = snapshot.observedAt /\ rw.basisResetAt[q] > t
  \/ snapshot.observedAt <= rw.terminalAt /\ snapshot.resetAt[q] > t

\* activeDebit, with one unit reserved per item.
Debit(rows, q, t) ==
  Cardinality({r \in Requests :
    /\ q \in rows[r].items
    /\ \/ Live(rows[r], t)
       \/ rows[r].state \in {"committed", "abandoned"} /\ StillDebits(rows[r], q, t)})

EffectiveRemaining(rows, q, t) == snapshot.remaining[q] - Debit(rows, q, t)

\* evaluateBundle: members without a fresh snapshot are left out, the others all
\* need a unit; a bundle with no fresh member cannot be tracked.
Tracked(bundle, t) == {q \in bundle : Fresh(q, t)}

Eligible(rows, bundle, t) ==
  /\ Tracked(bundle, t) # {}
  /\ \A q \in Tracked(bundle, t) : EffectiveRemaining(rows, q, t) >= 1

\* chooseBundle: the eligible alternative with the highest headroom.
Headroom(rows, bundle, t) ==
  Min({EffectiveRemaining(rows, q, t) : q \in Tracked(bundle, t)})

Best(rows, r, t) ==
  LET E == {b \in Plan[r] : Eligible(rows, b, t)} IN
  {b \in E : \A c \in E : Headroom(rows, c, t) <= Headroom(rows, b, t)}

-----------------------------------------------------------------------------
\* Rows, as the statements that a transaction begins with leave them.

\* reapExpiredSync
Reaped(rows, t) ==
  [r \in Requests |->
     IF rows[r].state = "active" /\ rows[r].expires <= t
     THEN [rows[r] EXCEPT !.state = IF rows[r].dispatched THEN "abandoned" ELSE "released",
                          !.terminalAt = t]
     ELSE rows[r]]

\* pruneTerminalSync: history past its retention, and debits that no snapshot
\* which is not stale needs any more.
Needed(rw, t) ==
  \E q \in rw.items : snapshot.staleAt[q] > t /\ StillDebits(rw, q, t)

Pruned(rows, t) ==
  [r \in Requests |->
     IF /\ rows[r].state \in Terminal
        /\ \/ rows[r].terminalAt < t - RetentionMs
           \/ rows[r].state # "released" /\ ~Needed(rows[r], t)
     THEN NoRow ELSE rows[r]]

\* The debits that a pruning takes from the reading in flight, which was observed
\* no later than their end.
TakenInFlight(rows, t) ==
  IF fetch.phase # "read" THEN {}
  ELSE {r \in Requests : /\ rows[r].state \in {"committed", "abandoned"}
                         /\ fetch.got.observedAt <= rows[r].terminalAt
                         /\ Pruned(rows, t)[r] = NoRow}

Prune(rows, t) ==
  dropped' = [dropped EXCEPT !.flight = @ \cup TakenInFlight(rows, t)]

\* What the stored reading says of q is not what is left: it is short of debits of
\* requests that count, or the writer lock was waited for beyond its freshness.
Misread(q) == charged[q] \cap dropped.stored # {} \/ ~Fresh(q, clock)

\* The instants that the now() of r's next call may have returned by the time
\* its transaction gets the writer lock.
Nows(r) == {t \in since[r]..clock : clock - Skew <= t}

\* mutateActiveSync and commitQuotaReservation: reap, then change r's row into
\* `new`, but only while it is active and its lease runs (such a row is not
\* reaped).
Change(r, t, new) ==
  row' = [Reaped(row, t) EXCEPT ![r] = IF Live(row[r], t) THEN new ELSE @]

Go(r, p) ==
  /\ pc' = [pc EXCEPT ![r] = p]
  /\ since' = [since EXCEPT ![r] = IF p \in Ended THEN 0 ELSE clock]
  /\ UNCHANGED <<clock, snapshot, fetch>>

NoGrant == UNCHANGED <<dropped, misled>>

-----------------------------------------------------------------------------
\* acquireQuotaReservation: one transaction that reaps, prunes, chooses a bundle
\* and inserts the row with an item for each tracked member.
NewRow(items, t) ==
  [NoRow EXCEPT !.state = "active", !.expires = t + LeaseMs, !.items = items,
                !.basisObservedAt = snapshot.observedAt,
                !.basisResetAt = snapshot.resetAt]

Acquire(r) ==
  /\ pc[r] = "idle"
  /\ \E t \in Nows(r) : \E rows \in {Pruned(Reaped(row, t), t)} :
       /\ Prune(Reaped(row, t), t)
       /\ \E b \in Best(rows, r, t) :
           /\ row' = [rows EXCEPT ![r] = NewRow(Tracked(b, t), t)]
           /\ misled' = misled \cup {s \in {r} : \E q \in Tracked(b, t) : Misread(q)}
  /\ Go(r, "acquired")
  /\ UNCHANGED charged

\* The same transaction without an eligible bundle: a plan that can no longer be
\* tracked fails open and is sent unrecorded, any other is refused.
NotAcquired(r) ==
  /\ pc[r] = "idle"
  /\ \E t \in Nows(r) : \E rows \in {Pruned(Reaped(row, t), t)} :
       /\ Prune(Reaped(row, t), t)
       /\ Best(rows, r, t) = {}
       /\ row' = rows
       /\ Go(r, IF \E b \in Plan[r] : Tracked(b, t) = {} THEN "untracked" ELSE "over")
  /\ UNCHANGED <<charged, misled>>

\* markQuotaReservationDispatched: the physical send happens only if the row was
\* still live, otherwise beginDispatch throws reservation_expired.
MarkDispatched(r) ==
  /\ pc[r] = "acquired"
  /\ \E t \in Nows(r) :
       /\ Change(r, t, [row[r] EXCEPT !.dispatched = TRUE])
       /\ Go(r, IF Live(row[r], t) THEN "sent" ELSE "over")
  /\ UNCHANGED charged /\ NoGrant

\* The mark throws: beginDispatch tries to release the row and does not send.
MarkFails(r) ==
  /\ pc[r] = "acquired"
  /\ \/ \E t \in Nows(r) :
          Change(r, t, [row[r] EXCEPT !.state = "released", !.terminalAt = t])
     \/ UNCHANGED row
  /\ Go(r, "over")
  /\ UNCHANGED charged /\ NoGrant

\* The provider counts the request.  The lease is longer than every provider
\* timeout, so a request that is counted at all is counted within it.
Count(r) ==
  /\ pc[r] \in {"sent", "orphan"}
  /\ clock < row[r].expires
  /\ charged' = [q \in Resources |-> IF q \in row[r].items THEN charged[q] \cup {r}
                                                           ELSE charged[q]]
  /\ Go(r, IF pc[r] = "sent" THEN "counted" ELSE "over")
  /\ UNCHANGED row /\ NoGrant

\* The instants that a beat of r may bring: the beats of a ticket land in order.
Beats(r) == {t \in 0..clock : clock - Skew <= t /\ row[r].expires <= t + LeaseMs}

\* Mutant: the lease is extended from its end.
HeartbeatFromEnd(r) ==
  /\ pc[r] \in {"sent", "counted", "over"} /\ row[r].dispatched
  /\ \E t \in {i \in 0..clock : clock - Skew <= i} :
       Change(r, t, [row[r] EXCEPT !.expires = @ + LeaseMs])
  /\ UNCHANGED <<clock, snapshot, fetch, pc, since, charged>> /\ NoGrant

\* Mutant: a heartbeat that does not look at the row's state and lease.
BeatRegardless(r) ==
  /\ pc[r] \in {"sent", "counted", "over"} /\ row[r].dispatched
  /\ \E t \in Beats(r) : row' = [row EXCEPT ![r].expires = t + LeaseMs]
  /\ UNCHANGED <<clock, snapshot, fetch, pc, since, charged>> /\ NoGrant

\* ticket.heartbeat, while upstream bytes arrive.  Nobody waits for it: its
\* transaction may run when the ticket is settled already, or its settlement has
\* read its own instant.
Heartbeat(r) ==
  /\ pc[r] \in {"sent", "counted", "over"} /\ row[r].dispatched
  /\ \E t \in Beats(r) : Change(r, t, [row[r] EXCEPT !.expires = t + LeaseMs])
  /\ UNCHANGED <<clock, snapshot, fetch, pc, since, charged>> /\ NoGrant

\* ticket.settle({success: true}): commitQuotaReservation.
Commit(r) ==
  /\ pc[r] = "counted"
  /\ \E t \in Nows(r) :
       Change(r, t, IF row[r].dispatched
                    THEN [row[r] EXCEPT !.state = "committed", !.terminalAt = t]
                    ELSE row[r])
  /\ Go(r, "over")
  /\ UNCHANGED charged /\ NoGrant

\* ticket.settle({success: false}): the request failed, was cancelled or is
\* retried.  What the provider makes of a failed request is its own affair: it
\* is no longer among those the ledger answers for.
Release(r) ==
  /\ pc[r] \in {"sent", "counted"}
  /\ \E t \in Nows(r) :
       Change(r, t, [row[r] EXCEPT !.state = "released", !.terminalAt = t])
  /\ charged' = [q \in Resources |-> charged[q] \ {r}]
  /\ Go(r, "over") /\ NoGrant

\* The process dies, or the settlement throws: nothing is written, and only the
\* lease ends the row.
Lose(r) ==
  /\ pc[r] \in {"acquired", "sent", "counted"}
  /\ Go(r, IF pc[r] = "sent" THEN "orphan" ELSE "over")
  /\ UNCHANGED <<row, charged>> /\ NoGrant

\* reapExpiredQuotaReservations
Reap ==
  /\ Prune(Reaped(row, clock), clock)
  /\ row' = Pruned(Reaped(row, clock), clock)
  /\ row' # row
  /\ UNCHANGED <<clock, snapshot, fetch, pc, since, charged, misled>>

-----------------------------------------------------------------------------
\* The tracker stamps an observation before it asks the provider.
FetchQuota ==
  /\ fetch.phase = "none"
  /\ clock > snapshot.observedAt
  /\ fetch' = [phase |-> "asked", got |-> [NoObservation EXCEPT !.observedAt = clock]]
  /\ UNCHANGED <<clock, snapshot, row, pc, since, charged>> /\ NoGrant

\* The provider answers with what it has counted, or less if others share the
\* quota; composeSnapshot bounds the freshness by the reset of the window.
ReadQuota ==
  /\ fetch.phase = "asked"
  /\ \E left \in [Resources -> 0..Limit] :
       /\ \A q \in Resources : left[q] + Cardinality(charged[q]) <= Limit
       /\ LET reset == [q \in Resources |-> IF clock < ResetAt[q] THEN ResetAt[q] ELSE Never]
          IN fetch' = [phase |-> "read",
                       got |-> [fetch.got EXCEPT
                         !.remaining = left,
                         !.resetAt = reset,
                         !.staleAt = [q \in Resources |->
                           Min({fetch.got.observedAt + FreshnessMs, reset[q]})]]]
  /\ UNCHANGED <<clock, snapshot, row, pc, since, charged>> /\ NoGrant

\* replaceProviderQuotaSnapshotsForSource, some time later, or never.
StoreQuota ==
  /\ fetch.phase = "read"
  /\ \/ snapshot' = fetch.got /\ dropped' = [flight |-> {}, stored |-> dropped.flight]
     \/ snapshot' = snapshot /\ dropped' = [dropped EXCEPT !.flight = {}]
  /\ fetch' = [phase |-> "none", got |-> NoObservation]
  /\ UNCHANGED <<clock, row, pc, since, charged, misled>>

\* Time passes; a window that ends is counted from zero.
Tick ==
  /\ clock < MaxTime
  /\ clock' = clock + 1
  /\ charged' = [q \in Resources |-> IF ResetAt[q] = clock' THEN {} ELSE charged[q]]
  /\ UNCHANGED <<snapshot, fetch, row, pc, since>> /\ NoGrant

Next ==
  \/ \E r \in Requests :
       Acquire(r) \/ NotAcquired(r) \/ MarkDispatched(r) \/ MarkFails(r) \/ Count(r)
       \/ Heartbeat(r) \/ Commit(r) \/ Release(r) \/ Lose(r)
  \/ Reap \/ FetchQuota \/ ReadQuota \/ StoreQuota \/ Tick

Spec == Init /\ [][Next]_vars

-----------------------------------------------------------------------------
\* The provider never counts more recorded requests in a window than it allows,
\* failed ones apart, over every race of leases, heartbeats, crashes, reaping,
\* pruning, window resets, quota readings that arrive late and instants read
\* before the writer lock - but for the reservations that were granted on a reading
\* short of pruned debits, or after the wait for the lock had outlived it.
WithinQuota == \A q \in Resources : Cardinality(charged[q] \ misled) <= Limit

Offered(q) == EffectiveRemaining(Pruned(Reaped(row, clock), clock), q, clock)

\* The reason: what the ledger would offer at this instant exceeds what the
\* provider still has by no more than the debits that were pruned while the stored
\* reading was on its way.
NeverOverstates == \A q \in Resources :
  Fresh(q, clock) => Offered(q) + Cardinality(charged[q] \ dropped.stored) <= Limit

\* What the pruning's comment promises, that a debit is dropped only when it is no
\* longer needed: what is offered never exceeds what the provider still has.
OffersOnlyWhatIsLeft == \A q \in Resources :
  Fresh(q, clock) => Offered(q) + Cardinality(charged[q]) <= Limit

\* A settled row is never settled again, extended or brought back by a late
\* heartbeat, mark or commit: it stays as it is until it is pruned.
SettledStays == \A r \in Requests : row[r].state \in Terminal =>
  /\ row'[r].state \in {row[r].state, "none"}
  /\ row'[r].terminalAt \in {row[r].terminalAt, 0}
  /\ row'[r].expires \in {row[r].expires, 0}
TerminalIsFinal == [][SettledStays]_vars

=============================================================================
