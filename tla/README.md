# A verification development for DurinDoor

DurinDoor is a self-hosted gateway in front of many AI providers: it accepts chat
requests in several API dialects, picks a provider account, translates, sends, streams
the answer back, and keeps the accounts healthy, within their quotas and refreshed.
This directory holds TLA+ models of the parts of it that decide *who may run, on which
account, and when*; TLC checks them on small instances and TLAPS proves the main safety
results for every instance.

Paths below are relative to the repository.

## 1. The system

### Components, their state and their operations

| Component | Source | State | Operations | Correct when |
|---|---|---|---|---|
| Concurrency gate | `open-sse/services/concurrencyGate.js` | per key: `current`, FIFO `queue` of promises | `acquireSlot`, `releaseSlot`, timers, abort listeners | each slot has one owner; waiters are exactly the queue; in order; nobody waits without a holder |
| Payload admission | `open-sse/services/payloadAdmission.js` | bytes, streams, requests admitted; FIFO queue | `acquirePayloadAdmission`, `drainQueue`, lease `release` | the counters are the sum of the leases; both budgets hold; no overtaking; no idle room |
| Request admission | `acquireMany` in the gate, called by `open-sse/handlers/chatCore.js` | the lease and the slots that one request has so far | take payload, global and provider tier; roll back; release | all or nothing at any await; a request upstream has everything, one that is over has nothing |
| Quota reservations | `src/lib/db/repos/quotaReservationsRepo.js`, `src/shared/services/quotaSelection.js` | `quotaReservations` rows with items, in SQLite or PostgreSQL | acquire, mark dispatched, heartbeat, commit, release, reap, prune | what is offered never exceeds what the provider has left |
| Quota tracker and snapshots | `src/shared/services/providerQuotaTracker.js`, `src/lib/db/repos/quotaSnapshotsRepo.js` | stored readings, source clocks | fetch, compose, replace a source's set | readings are stored in the order of their stamps |
| Recovery circuits | `src/lib/routing/connectionCircuitState.js`, `connectionRecovery.js` | per account and model: state, deadline, lease | evaluate, claim, settle | one probe per scope; account and model exclude each other; leases come back |
| Fallback state | `src/lib/db/repos/connectionsRepo.js` | per account and model: lock deadline and version | record a failure, clear on success, reactivate | a late answer does not undo a newer one |
| Account selection | `src/sse/services/auth.js`, `rpmLimiter.js`, `rpdLimiter.js` | selection turn per provider, hits per account | take a turn, filter, choose, record | one selection at a time; windows respected |
| OAuth refresh | `refreshSerializer.js`, `tokenRefresh/dedup.js`, `oauthCredentialManager.js`, `providerCredentials.js` | lanes per rotation group, caches of running refreshes | serialize, deduplicate, compare-and-swap | a one-time refresh token is used once |
| Chat handling | `src/sse/handlers/chat.js`, `chatCore.js` | the attempt under way | fallback loop over accounts and models | every exit settles quota, recovery and admission once |
| Stream lifecycle | `open-sse/utils/streamHandler.js`, `stream.js`, `streamTerminal.js` | one stream's terminal state | complete, fail, disconnect, stall | exactly one outcome |
| Combos | `open-sse/services/combo.js` | rotation counters | round robin, fallback | every member tried once |
| MCP gateway | `src/lib/mcp/gateway` | instances, running refreshes | aggregate, refresh | a failed refresh does not overwrite a success |
| Database layer | `src/lib/db` | the adapter, the cutover lock | migrate, cut over | no write is lost in a cutover |
| Others | translators, executors, compression, usage, UI, CLI, updater, tunnels, webhooks | | | formats and I/O |

### How they interact

A chat request selects an account (`getProviderCredentials` reads the connection row, its
locks and the circuits), passes `runWithConnectionRecovery` (which may claim a recovery
lease), reaches `handleChatCore`, is admitted by `acquireMany`, reserves quota just before
the physical send (`beginDispatch`), and streams. Its outcome is written back to the
connection row; its lease, slots, payload and reservation are settled by callbacks of the
stream, by abort listeners, by timers, or, for the database rows, by a reaper.
All of it runs in one JavaScript process, so a step lasts from one `await` to the
next; the reservation ledger is in addition shared by processes through the database,
where a transaction is one step.

### What is hard

Promises that resolve before their continuation runs (an abort may come in between);
several owners of one release; timers racing hand-offs; leases in a database against
clocks and crashes; readings that are taken early and stored late; rows read at selection
and used at dispatch; answers that arrive in any order. `PROJECT.json` lists each such
hazard at its line, with the properties that cover it or the reason why none does.

## 2. The modules

| Module | Models | Extends / instantiates |
|---|---|---|
| `WaitQueue` | the queue that gates and ledger have in common: FIFO, with removal from the middle | |
| `GateOps` | one gate as a value: take, enqueue, withdraw, hand off | `WaitQueue` |
| `ConcurrencyGate` | the gates alone, with callers, timers, aborts and changing limits | `GateOps` |
| `PayloadOps` | the payload ledger as a value: fit, allocate, deallocate, drain | `WaitQueue` |
| `PayloadAdmission` | the payload ledger alone, with requests | `PayloadOps` |
| `Admission` | `acquireMany` over both, as `handleChatCore` uses it | `GateOps`, `PayloadOps`; instantiates `BoundedService` |
| `BoundedService` | abstract: requests ask, run within the limits, and are answered | `PayloadOps` for its constants |
| `QuotaReservations` | the reservation ledger, the ticket, the tracker's timing and the provider's own count | |
| `CircuitOps` | one account's circuits as a value | |
| `AccountRecovery` | selection, dispatch, probes, failure and success records of one account | `CircuitOps` |
| `RefreshLane` | the OAuth refreshes of one rotation group: lane, locks, kept results, rows, provider | |
| `SelectionTurn` | the selections of one provider: the chain of promises and the request windows | |
| `ChatRequest` | one chat request: the loop over accounts, the attempt, its stream, slot and tickets | |
| `AdmissionLemmas`, `WaitQueueProofs`, `AdmissionProofs`, `QuotaReservationsProofs`, `AccountRecoveryProofs`, `RefreshLaneProofs`, `SelectionTurnProofs`, `ChatRequestProofs` | proofs | the modules above, TLAPS |
| `MC*` | finite instances for TLC | |

The operator modules exist so that a composite changes a gate, the ledger or a circuit in
the same way as the component's own specification does.

**ConcurrencyGate.** `gates[k]` is the entry of the `gates` map; an entry that was deleted
at count 0 is the empty gate. `AcquireAtOnce`/`WaitForSlot` are the two paths of
`acquireSlot`, `Bypass` its early return without a limit, `LeaveQueue` the timer or the abort
listener, `ReleaseSlot` is `releaseSlot`. `SetLimit` is a settings write: the code reads the
limit per call, does not wake waiters when it rises, and does not look at it when a slot
is handed over. The model keeps both. `ahead[c]` is history: the callers that were in the
queue when `c` came and that still are (`NoLongerAhead` takes out whoever has left).
`HandOffInOrder` compares a hand-off with it and not with the queue, so a newcomer at the
front or a withdrawal that shuffled the rest would show.

**PayloadAdmission.** `Drain` is the loop of `drainQueue`; `GiveUp` drains too, because
the timer and the abort listener do. The clamp of the counters at zero is modelled, so
that an over-release would show in `LedgerConserved` rather than vanish.

**Admission.** Each `await` of `acquireMany` is a program point: `"...Wait"` is a promise
in a queue, `"...Ready"` one that has resolved while its continuation has not run. A
client abort runs the listeners at once (a held lease is released, a queued entry leaves)
and the continuation later finds the signal aborted. `EnterProvider` is the continuation
in `handleChatCore`, with its check for a request that was finished in the meantime.
`Finish` is `finishProviderRequest`, and a request is *running* until then. On every path but
one that is when its upstream call has ended; a recovered thinking-signature retry gives
its lease and slots back before its answer has streamed (`chatCore.js:1580`), so what is said of
running requests here does not speak of the rest of that stream.

**QuotaReservations.** `row[r]` is the reservation of request `r` with its items, `pc[r]`
the place in `beginDispatch` and the ticket, `snapshot` the stored readings, `fetch` a
reading under way (stamped when it is asked for, read and stored later), `charged` what
the provider counts per window. One transaction is one action and starts, as in the code,
with reaping (and pruning, for `Acquire` and `Reap`). It is given an instant that was read
before it waited for the writer lock: `since[r]` is when `r` could first have read it, and it is at
most `Skew` old when the transaction runs (`Nows`). Nobody waits for a heartbeat, so it may land
when its ticket is settled already (`"over"`). Requests that failed are taken out
of `charged`: the code releases their reservation without a debit, and nothing in it says
which failures a provider charges for. Two variables are history. `dropped` holds the debits that
were pruned while the reading in flight, and while the stored one when it was in flight, did not
contain them; `misled` the requests whose reservation was granted on a misreading
(`Misread`): the reading lacked such a debit that the provider counts, or was stale by the time
that the transaction ran.

**AccountRecovery.** `lock` and `version` are the columns of the connection row, `circuit`
the process's circuits, `seen[r]` the locks of the row that request `r` was selected with. The
row outlives the process, so it may hold locks from `Before` when the process and its circuits
start.
`Dispatch` is the synchronous prefix of `runWithConnectionRecovery`; `Finish` its
`finish`; `Fail`/`Record` a provider failure, whose lease is returned before the failure
is written; `RecordEmpty` the empty stream, which is written first; `Clear`/`Confirm` a
success, written first and confirmed after. The three scopes of the code (account, bounded
model, model) are two here: the bounded model and the model are one name.

**RefreshLane.** A refresh `r` of connection `ConnOf[r]` is guarded
(`refreshAndUpdateCredentials`: the lane, then the lock of the connection inside it, then
a compare-and-swap of the row) or proactive (`checkAndRefreshToken`: the lock, then the
lane inside it, then a plain write). `lane` is the chain of `groupTail` promises, its head
the holder; `shared`, `lock` and `recent` are the maps `credentialRefreshInflight`,
`refreshLocks` and `refreshDedupCache`; `stored` and `pinned` are columns of the row.
`call[r]` says where `r` is and which token it read. A token is a login (`grant`) and a
number of rotations (`gen`); `accepted` is what the provider still takes: it spends a token
when it answers, and a spent token presented again revokes its whole grant, as the comments in
`refreshSerializer.js` describe. The model keeps JavaScript's order of callbacks:
whatever comes from outside (a call, an answer, a timer) waits for `Drained`, that is,
until the microtasks that are due have run. `spoiled` is history: a connection is spoiled
once an answer was lost, a kept result was forgotten while a refresh still needed it, or a
proactive refresh wrote its token over a row that had gone on meanwhile (`Astray`).

**SelectionTurn.** A call of `getProviderCredentials` makes a promise of its own and waits
for the one in `selectionMutexes`; promises are numbered as they are made, `before[c]` is
`currentMutex`, `own[c]` is `ownMutex`, `resolved` the ones that have resolved. `Abort` is
the abort listener of `waitForSelectionTurn`: the caller leaves, while its promise goes on
(`PassOn`) only after the one before it. `stamp[c]` is `selectionNow`, taken before the
wait; `hits` is the list of `rpmLimiter.js`, pruned from its front as if it were sorted.
`Choose` is the filter, which prunes every account that has a cap, `Grant` the record at the
end, with the rows, the strategy and the proxy read in between, during which `Cleanup` may
prune at the present time, a 429 may teach a cap (`Learn`) and a learned one may be
forgotten (`Forget`). `overtaken` is history: the calls whose account had its cap lowered
after they had settled on it. Locks, quotas and the strategy appear as the
free choice among the accounts under their limit.

**ChatRequest.** `handler` is the loop of `handleSingleModelChat`, `try[a]` the attempt of
`handleChatCore` on account `a`: where its code is (`at`), which send it is preparing
(`stage`: the first, after a token refresh, after leaving out refused thinking, again in
an empty stream), and the variables that its callbacks share: `finished` is
`providerRequestFinished`, `live` that the controller is not `disconnected`, `verdict`
the argument of the first `settleQuota`. `ticket[a][i]` is the ticket of the `i`-th
physical send. A ticket is opened before the send (`Reserved`), released when the send
breaks or its answer is discarded (`Discard`, awaited, then `Continue`), and whatever is
still active is settled at the verdict. A database call that fails leaves the ticket
`missed`: it is still in `activeTickets`, and its lease in the ledger runs out.
`Closed`/`ClosedTickets` are the three handlers of `createStreamController`, of
which the first wins. `ClientLeaves` may come at every step, since every step ends at an `await`.

Definitions marked `Mutant` in the modules are faulty variants of the definition that
follows them (a dropped check, a swapped order). No specification uses them; each shows
that one property notices the fault it is there for.

## 3. What TLC checks

| Run | Question | Instance |
|---|---|---|
| `MCConcurrencyGate` | slots conserved, queue = waiters, hand-off in the recorded order of arrival, growth below the limit, every waiter served | 4 callers, 2 keys, limits 0..2, changing |
| `MCPayloadAdmission` | ledger = leases, both budgets, head blocked, no overtaking, every waiter served | 6 requests of sizes 1, 1, 1, 2, 3 and one too large; budget 3, one stream, queue 3 |
| `MCAdmission` | slots and leases conserved across awaits and aborts, nothing left behind, nothing sent without full admission; the path implements `BoundedService`, with liveness | 4 requests, 2 providers (one unlimited), 4 bytes, one stream, queue 1 |
| `MCQuotaReservations` | the provider's quota holds but for grants on a misreading, the ledger overstates by the debits pruned in flight at most, settled rows stay settled | instants up to 1 old; 2 requests, 2 resources (one bundle of both, one choice), one unit each, times 0..4, a window reset at 3 |
| `MCQuotaLateReading` | the ledger offers only what the provider has left: violated, see 5 | the same, instants never old |
| `MCAccountRecovery` | leases of account and models exclude each other, probes side by side only after a newer cooldown or an outdated row, no orphan lease, cooldowns kept | 3 requests on 2 models, cooldowns 1 and 2, lease 3, times 1..5, a row that starts with expired locks |
| `MCRecoveryStaleRow` | one probe per scope with rows of any age: violated, see 5 | the same |
| `MCRefreshLane` | one request of a group at a time, tokens presented once and rotations kept unless spoiled, logins kept, only dead accounts pinned | 4 refreshes, 2 connections (one refreshed on both paths, one under guard), 2 logins each |
| `MCLaneEnds` | every refresh ends unless the group is blocked | the same, without a second login |
| `MCLaneBlocked` | every refresh ends: violated, see 5 | the same |
| `MCSelectionTurn` | one selection at a time, every turn has an owner, request windows kept by the time of asking | 4 calls, 2 accounts (limits 2 and none, caps of 1 learned and forgotten), window 2, times 0..2 |
| `MCChatRequest` | slots and tickets of one request: none left, none missing upstream, one ticket at a time, only the answer charged | 2 accounts, 3 sends each |

**Bounds.** The gate needs two holders and two waiters behind them for a hand-off to have
a second in line, and a second key to show independence. The payload instance has a
request that needs the whole budget (starvation), a medium one behind which small ones
could slip, and two streams for one place (the second budget). In the quota instance a
lease, the freshness of a reading and the retention all last 2 of 4 time units, so that
each may end before or after each other; one unit of quota makes every overdraft visible.
An instant that is 1 old may lie before the end of a lease, of a reading's freshness and of the window
while the transaction runs at or after it, which is all that its age can change; `Skew` is a bound
of the model, the proofs hold for each.
The recovery instance has two requests for one model, one for another, and a clock long
enough for a failure, its cooldown, a probe, and a second failure with a longer cooldown. The locks
that the row starts with (`Before`) are expired, so probes may begin at once and there is time
for two of them, one overtaken, to run side by side.
`MaxTime` and `MaxLimit` are bounds of the models, not of the code; the runs with a clock
switch the deadlock check off because nothing happens after the last instant. The
recovery runs are symmetric in the two requests for one model; only safety is checked
there, so the reduction is sound. The lane needs one connection with two refreshes of
different kinds, so that each may join the other's lock, and a sibling with two, so that one
may hold the lane while the other joins it; with 2 logins a refresh of the first
grant can meet the row of the second. `MaxLogins` is a bound of the model. The deadlock
check is off there because a run ends when all refreshes are done. `MCRefreshLane` is
symmetric in the sibling's two refreshes and checks safety only; the two runs with
fairness use no symmetry. The selection instance has a queue long enough for an aborted call
with one before and one behind it, and more calls than the window has places; times
reach the end of one window, so that stamps may be recorded out of order and expire in
between. The chat instance has the sends that one attempt can need (first, refreshed,
repeated) on an account and on its sibling. `MaxTime` in `SelectionTurn` and
`MaxSends` in `ChatRequest` are bounds of the models; calls and accounts are
interchangeable there, and only safety is checked. Both switch the deadlock check off,
because a run ends when its calls, or its request, are over.

**Restrictions.** `WithinQuota` and `NeverOverstates` restrict no schedule; they name what the code
does not guard against. A process reads `now()` and then waits for the writer lock. If the reading
it counts from went stale during that wait, however short it was, another process may have
pruned at the newer time the debits which that reading needs, and the first one grants what is gone.
And a debit may be pruned while a reading that lacks it is on its way (see 5). Reservations
granted in these two situations are `misled`, and `WithinQuota` counts the others: it says that
nothing else overruns the quota. `NeverOverstates` says how far the offer may be too high: by the
counted debits that were pruned while the stored reading was in flight. `MCQuotaLateReading` is the
same without that allowance.

`AccountProbesAlone` has two parts. Leases in force never run together, whatever the rows.
A *request* may go on probing after its lease was voided, by a newer cooldown (`Overtaken`) or by a
deadline older than the circuit knew (`outdated`); the second part says that a probe of the account
and one of a model run side by side for these reasons only, each within the time of its lease.

`RefreshLane` has one group and one egress route per connection, so a lock is
keyed by the connection and a result by the token; at most one request runs in a group
(`OnePost`), which is why the in-flight entry of `dedupRefresh` never has a second reader
there. The compare-and-swap and the step from the lane's release to the write are one
callback chain without I/O in between on SQLite; `Commit` is one action.
Other processes are left out: their lanes and maps are separate.

`SelectionTurn` lets a learned cap be forgotten at any time (the code forgets it after an
hour, or when an operator clears it) and leaves out daily windows and the 10,000 accounts
that are tracked at most. Its callers all have a signal. `WindowKept` speaks of accounts
with a configured limit, since a cap learned later may be below what was granted before it.
It counts a call at the time at which it asked, before it waited for its turn, as the code
records it, and not at the time of the grant;
and it does not count overtaken calls: `recordRequest` drops a record that has no room
under the new cap, so once that cap is forgotten the call is missing from the window.
`PinnedIsDead` speaks of connections refreshed under guard alone or not logged in again:
see 5 for the other ones.

`ChatRequest` has one attempt per account: the code may try one account again for a
replayed request buffer or a capacity sweep, as a new attempt with its own state. Every
account tracks quota. The recovery lease around the attempt is in `AccountRecovery`,
the tiers of admission in `Admission`, and the ledger behind a ticket in
`QuotaReservations`; here admission either comes or fails, and a ticket is what
`quotaSelection.js` knows of it. The cooldown of a failed account matters to this request
only as its exclusion. Only a live request's sends are held to `UpstreamIsCovered`:
once the controller has ended its signal is aborted first, and what the provider
still does is out of the process's hands.

**Fairness.** `ConcurrencyGate` and `PayloadAdmission` assume that every holder releases:
`finishProviderRequest` runs on completion, failure and disconnect, and upstream calls
have timeouts of their own. `Admission` assumes in addition that a resolved promise's
continuation runs, which the event loop provides. No fairness of timers, of aborts or of
new requests is assumed, so a wait that only its own timer would end counts as a failure.
`RefreshLane` assumes weak fairness of each refresh's own
steps: a callback that is due runs, the token endpoint answers or the connection breaks,
and the settle gap ends. Logins and the timers of entries are under no fairness.
Quota, recovery, selection and chat requests state safety only: their progress depends on
providers, on clocks and on requests being made. For the selection `TurnHasOwner` is the
part of its liveness that the code is responsible for: whoever waits, waits for a call
that comes before it and still runs, so a chain of continuations ends the wait.

## 4. What is proved

`WaitQueueProofs` proves the two users of the queue. Of `ConcurrencyGate`, for every finite
set of callers, every set of keys and every bound on limits: `GateInvariant`, and from it `GateTypes`, `GateConservesSlots`,
`GateQueueIsWaiters`, `GateWaiterHasHolder`, `GateGrowsBelowLimit` and
`GateHandsOffInOrder`. The inductive invariant is the conjunction of the four state
properties, and for the last theorem `InArrivalOrder`: whoever is ahead of a waiter by the record
of arrivals stands before it in its queue, which an append, a hand-off and a removal from
the middle each keep (`OrderWithNewcomer`, `OrderWithout`). Of the four, slot conservation alone is not inductive, since a hand-off keeps it only if
the head of the queue is a caller that waits on this very key, and only once. Counting
holders rests on the finiteness of `Callers` and the library's facts on cardinality;
`AdmissionLemmas` says what appending, taking the tail and cutting out an entry do to the
elements of a queue without duplicates.

Of `PayloadAdmission`, for all requests, sizes and limits: `PayloadInvariant`,
`PayloadTypes`, `PayloadConserved`, `PayloadWithinBudget`, `PayloadHeadIsBlocked` and
`PayloadInOrder`. The invariant adds that the queue is exactly the waiters and that none
of them is too large. The second fact is what makes a blocked head wait for something:
with no lease out, a request that passed the size checks would fit. Two parts of the
argument are inductions, over a set of leases that is summed and over the turns of
`Drain`. The prover cannot instantiate an induction principle over predicates, so
`AdmissionLemmas` takes a *set* of numbers that contains 0 and is closed under successor
(`SetInduction`, from the existence of a least element). With it: a sum over a finite set does not
depend on the order (`SumWithout`), the function that `Drain` defines exists
(`DrainUnfolds`), and after `n` turns the ledger accounts for the leases and the entries
taken so far, the rest of the queue is a suffix of what it was, and either `n` waiters were
admitted or the head is blocked (`Draining`, `DrainTurn`, `DrainFacts`).

`AdmissionProofs`, for all requests, providers and limits: `AdmissionInvariant`,
`AdmissionTypes`, `AdmissionSlotsConserved`, `AdmissionLeasesConserved`,
`AdmissionNothingLeftBehind`, `AdmissionRunsFullyAdmitted` and `AdmissionIsBounded`.
The invariant says for every place of a request what it has there (`PlaceInv`): at tier
`t` exactly the limited keys before `t`, its lease unless it was aborted, nothing before the
first and after the last. Without that a rollback could return a key twice, and the
count of a gate would not be the number of its owners, some of which have been handed a slot that
their continuation has not pushed yet. Every step that gives something back is one of two lemmas:
`ReleaseStep` (everything is returned, heads of gates and of the payload queue move on)
and `LeaveStep` (a queue is left and the lease returned, the slots stay). `AdmissionIsBounded` is the safety part of the refinement of `BoundedService`:
each step is one of the service, or invisible to it, and the requests upstream with the one that joins
them are within every limit, since their leases are a part of those the ledger sums
(`FewerBytes`) and their keys a part of those each gate counts.

`QuotaReservationsProofs`, for all requests, resources, plans, limits, leases, window resets
and times: `QuotaTypes`, `QuotaRows`, `QuotaTerminalIsFinal`, `QuotaLedger`,
`QuotaWithinQuota` and `QuotaNeverOverstates`. All hold for every `Skew` and with any pruning;
what the code does not guard against is in the properties, not in a hypothesis (see 3). Two state
properties are not
enough: that the ledger does not overstate *now* says nothing of the reading that is on its way.
The invariant therefore speaks of readings. For a usable one, stored or in flight, some
set of requests is in what it left (`Covers`), and every other request that the provider
counts is *on the books*: its row was sent and is active, or it ended no earlier than the
reading was taken (`OnBooks`), and the instants that its call may still bring are no older
than that (`Debited`). That is what makes late readings harmless: a row that
was sent stays on the books of every reading taken before it ends, since reaping, heartbeats
and a commit leave it active or end it no earlier than the reading, and pruning takes
nothing that the stored reading needs while it is fresh, because a reading is stale by the reset
of its window and before a debit's retention is over (`FreshDebitKept`); what it takes from
the reading in flight is recorded in `dropped`. When a request
is counted, its lease runs, so by `RowsSound` its row is active and marked. With the reading
covered, the debit of the other requests is at least what the reading misses, dropped ones apart
(`CountIsDebited`), so the unit that `Acquire` is granted is one that the provider still has, unless it
is granted on a misreading; and
`PromisesKept` adds those that were granted and are still on their way, of which no other
step makes more (`PromisesShrink`, `GrantWithinLimit`). An orphan whose lease has run
out is no longer promised, because nothing counts it later.

`AccountRecoveryProofs`, for all requests, models, cooldowns and lease timeouts:
`RecoveryInvariant`, `RecoveryTypes`, `RecoveryAccountProbesAlone`,
`RecoveryNoOrphanLease`, `RecoveryCooldownKept` and `RecoveryFreshRowsProbeAlone`. The
invariant adds two facts to the properties: a leased circuit is not closed (a claim on a
model sees the account's *state*, and a closed account with a lease would let it pass), and no attempt starts in the future
(a success clears locks that had expired when it started, which says something about now
only if it did not start later). The main lemma is that evaluating circuits only keeps or
voids leases; it reduces every action but the claim to two short arguments. For
`FreshRowsProbeAlone` and the running probes of `AccountProbesAlone` a second invariant says, of every circuit that was never told an
older deadline after a newer one, that it knows the newest deadline it was told (or
none, after a success), and that a probe whose lease has not run out either holds the
circuit's lease on that deadline or was claimed on an older one. So of two running probes of
the account and a model one has been overtaken, since both leases would be in force otherwise.

`RefreshLaneProofs`, for all refreshes, connections, proactive subsets and numbers of
logins: `LaneInvariant`, `LaneTypes`, `LaneOnePost`, `LoginInvariant`, `LaneLoginKept`,
`DeadInvariant`, `LanePinnedIsDead`, `KeptInvariant`, `LaneTokenPresentedOnce`,
`LaneRotationKept` and `LaneMarkHasCause`. `OnePost` needs one strengthening, that whoever is past its turn and not
yet released is at the head of the lane. `LoginKept` needs to know where an
answer may come from: a lock belongs to a refresh of its connection, who joined it is
of that connection too, and every answer and kept result of a guarded connection is of
the grant of the token it was bought with. Then a commit, which compares the row with
the token that was read, cannot lower the grant. `PinnedIsDead` rests on two more facts,
of which `DeadInv` is the second: every token anywhere is of a login that was made
(`GrantsKnown`), so a login that comes later is a new grant; and a "dead" answer, kept, at hand or
already acted on, stands for a grant of which the provider takes nothing any more, which
stays so because it issues tokens only for a grant it takes one of. `RotationInv` follows a rotation
from the answer to the row, for connections that are not spoiled: the provider takes
the token of the row, or a refresh that read this very token is about to write its
successor (`RowKept`); what a refresh has read is never ahead of the row, and if the row has gone
on, the result it needs is still kept (`CallKept`, `Backed`). A refresh that gets to post
has found no kept result, so its token is the row's, and is taken. `MarkHasCause` follows: a
"dead" answer needs a token that is not taken, and only a spoiled connection has a refresh
that presents one.

`SelectionTurnProofs`, for any number of calls and accounts, any limits, caps and times:
`SelectionChain`, `SelectionOneAtATime`, `SelectionTurnHasOwner`, `SelectionRecord`,
`SelectionTypes` and `SelectionWindowKept`. The invariant says
that promises are a chain: each was made by one call, waits for an earlier one, and
when it has resolved every promise it waited for has. So of two calls that select, the later
one waits for a promise that resolves only when the earlier one is over. `WindowKept` is
proved from what is on record. The list is not sorted, a selection that waited prunes at an old
time, the timer at the present one, and each removes a prefix. `AllOnRecord` says, for *every*
time from now on, that the record holds at least as many times of the window that
ends then as calls were given the account in it: a pruning at a time that has come takes only
times that no later window has (`PrunedKeepsLive`). The length of the record is bounded by the
limit (`CapsBound`), and `RoomKept` carries the room that the check has found to the record: no
other call records in between, by `OneSelection`, so only a lower cap can take it away,
and that makes the call overtaken.

`ChatRequestProofs`, for any accounts and number of sends: `ChatInvariant`,
`ChatNothingOutstanding`, `ChatUpstreamIsCovered`, `ChatOneTicketAtATime` and
`ChatCommitsAnswerOnly`. The properties are not inductive: they speak of a few places
of an attempt, and a callback may come at each of them. The strengthening says of every
attempt which of its variables go together (`Position`: what the place and the stage
imply; `Covered`: a live attempt at the provider has its slot and an open verdict;
`Counted`: how many sends there were and may follow; `TicketSound`: in which state each
ticket may be at which place), and that only the attempt of the chosen account is at the
places before an answer. Each action moves one attempt, so most steps reduce to the
soundness of the one record that changed.

Proofs assume only the named assumptions of the modules. `QuotaAssumption` relates two of the times: a debit is retained for as long as a
snapshot may be fresh, `FreshnessMs <= RetentionMs` (both are 24 hours:
`open-sse/config/quotaSelection.js:23`, `src/shared/constants/quota.js:41`).
What is model-checked only is liveness: `GateWaitersServed` and `WaitersServed`,
`EndsUnlessBlocked`, and of the refinement of `BoundedService` the fairness that it promises.
All of them rest on fairness and ENABLED, which the prover does not reason about.

## 5. Where the code and its texts differ

* `MCQuotaLateReading`: a debit is pruned once no stored reading of its quota is fresh
  (`quotaReservationsRepo.js:149`), but a reading stamped before the debit ended may be
  stored after that, and then counts a unit that is gone. A repository test
  (`tests/unit/quota-reservations.test.js:177`) expects the debit to survive for just this
  late reading, and it does as long as the previous reading has not gone stale.
* `MCRecoveryStaleRow`: `connectionRecovery.js:20` promises one recovery claim per scope.
  `evaluateState` takes any deadline other than the one it knows for a new one. A request
  selected before a newer cooldown was recorded, and dispatched after another was told of
  it, re-opens the circuit with its older deadline and probes beside the running probe.
* `MCLaneBlocked`: `refreshSerializer.js:147` says the queue keeps flowing, and
  `tests/unit/refresh-serializer.test.js:236` tests that a refresh may enter the lane
  again. But the two paths nest lane and lock in opposite orders. A sibling holds the
  lane, a guarded refresh of an account queues behind it, and a proactive refresh of the same
  account takes the lock and queues behind that. When the guarded one gets the lane it joins
  the lock's promise, which waits for the lane: the group stops for good. Its callers time
  out after their budget; the siblings queued behind it and the scheduler's tick do not
  return. `MCLaneEnds` shows that this is the only way to stop.

Also seen, without a run: the proactive path writes its token without comparing the row
(`tokenRefresh.js:216`), so a proactive refresh that ends after a login or a newer rotation puts an
older token back, and whoever reads it then presents a spent token, once the kept result
is gone (which is why `LoginKept` speaks of guarded connections, and a write that goes astray
spoils one); the scheduler reads all rows at the start of a tick and may present, after the ten
seconds that results are kept, a token that a guarded refresh has spent (the exception in
`TokenPresentedOnce`). A guarded refresh that read the token of a new login may join, inside
the lane, the lock entry of a proactive refresh that was answered "dead" for a token of the
old one (`oauthCredentialManager.js:264` joins by connection, not by token) and pins
the row, whose token is good (the exception in `PinnedIsDead`; larger instances than the
run's show it). `quotaSelection.js:229` says that retries release their discarded
ticket before acquiring another, but the retry without refused thinking (`chatCore.js:1540`) sends again while the
ticket of the first answer is open, and a success then commits both; the same path gives
its slot back before the recovered answer has been streamed (`chatCore.js:1580`), unlike
every other stream: the properties of `ChatRequest` except it by the stage `"stripped"`, and in
`Admission` the request is over with that release, so `RunsFullyAdmitted`, `ImplementsService` and
`AdmissionIsBounded` bound the requests that hold their slots and not all that still stream. A
reservation whose transaction waited for the writer lock while its reading went stale counts from
rows that another process may have pruned in the meantime, and may then be granted a unit that is
gone (`quotaSelection.js:267`, the exception `misled` of `WithinQuota`). A
selection that waited for its turn is counted with the time at which it
asked, and a cap that is learned between the check and the record drops the record. And:
`manager.reset` has no caller although its comment names manual
reactivation, so circuits stay half open until a probe succeeds.

## 6. Plan

1. Done: gate, payload, admission and its refinement; quota ledger; recovery; the first
   theorems.
2. Done: the refresh lane with both paths, and proofs of all its safety properties. Left: a second process
   with maps of its own on the same rows (`reconcileConcurrentRotation` was written for it),
   and several groups and proxy routes.
3. Done: the selection turn and its request windows, with proofs of both. Left: daily windows.
4. Done: the chat request with its stream, slot and tickets, with proofs. Left: its
   composition with the ledger of `QuotaReservations` by a refinement of the ticket.
5. Next: the MCP refresh, the ping claim, the source clock of the quota tracker, combos over
   several providers, the write guard of the cutover.
6. Done: proofs of the payload ledger, of the admission path with the safety of its
   refinement, and of the quota ledger with old instants and late heartbeats.

## 7. Not modelled

Translators, executors, compression and masking (pure functions on messages); usage and
request logs; the UI, the CLI, the website, tunnels, webhooks, the updater (I/O and
process management). Within modelled components: the routing floor and amounts above one
in the quota ledger, daily request windows, eviction of idle circuits,
diagnostics, and the scopes for web search and fetch.

## 8. Running

`tlc -config MCAdmission.cfg MCAdmission`, and likewise for each `.cfg`;
`tlapm M.tla` for the modules `AdmissionLemmas`, `WaitQueueProofs`,
`AdmissionProofs`, `QuotaReservationsProofs`, `AccountRecoveryProofs`, `RefreshLaneProofs`, `SelectionTurnProofs` and
`ChatRequestProofs`.
