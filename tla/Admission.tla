----------------------------- MODULE Admission -----------------------------
(***************************************************************************)
(* The admission path of one chat request: acquireMany of                  *)
(* open-sse/services/concurrencyGate.js takes a payload lease and then one *)
(* slot per tier ("__global__", then the provider), as chatCore.js calls   *)
(* it.  Every await is a pc of its own, because a client abort, a timer or *)
(* another request's release may run before the continuation does; the     *)
(* code between two awaits is one action.                                  *)
(***************************************************************************)
EXTENDS GateOps, PayloadOps

CONSTANTS
  Global,         \* the key "__global__"
  Providers,      \* the other keys
  ProviderOf,     \* ProviderOf[r]: the provider request r goes to
  Limit           \* Limit[k]: the concurrency limit of key k, 0 for none

ASSUME AdmissionAssumption ==
  /\ Global \notin Providers
  /\ ProviderOf \in [Callers -> Providers]
  /\ Limit \in [Providers \cup {Global} -> Nat]

Keys == Providers \cup {Global}
Tiers(r) == <<Global, ProviderOf[r]>>

VARIABLES
  gates,      \* the gate of each key
  ledger,     \* the payload ledger
  pc,         \* where each request is
  tier,       \* tier[r]: index of the tier r is at
  acquired,   \* acquired[r]: acquiredKeys of r's acquireMany
  lease,      \* lease[r]: r has a payload lease that is not released
  aborted     \* aborted[r]: r's signal has fired

vars == <<gates, ledger, pc, tier, acquired, lease, aborted>>

(* "Wait" is a promise in a queue, "Ready" one that resolved and whose        *)
(* continuation has not run; "entering" is the await of the dynamic import,   *)
(* "failed" a rejection not caught yet, "returned" acquireMany's own result.  *)
PCs == {"idle", "entering", "payloadWait", "payloadReady", "slotWait",
        "slotReady", "failed", "returned", "running", "done"}

TypeOK ==
  /\ gates \in [Keys -> [current : Nat, queue : Seq(Callers)]]
  /\ ledger \in Ledger
  /\ pc \in [Callers -> PCs]
  /\ tier \in [Callers -> 1..2]
  /\ acquired \in [Callers -> SUBSET Keys]
  /\ lease \in [Callers -> BOOLEAN]
  /\ aborted \in [Callers -> BOOLEAN]

Init ==
  /\ gates = [k \in Keys |-> EmptyGate]
  /\ ledger = EmptyLedger
  /\ pc = [r \in Callers |-> "idle"]
  /\ tier = [r \in Callers |-> 1]
  /\ acquired = [r \in Callers |-> {}]
  /\ lease = [r \in Callers |-> FALSE]
  /\ aborted = [r \in Callers |-> FALSE]

-----------------------------------------------------------------------------
KeyAt(r) == Tiers(r)[tier[r]]

\* r moves to p; the waiters in `leased` were drained out of the payload queue
\* and those in `slotted` were handed a slot.
Deliver(r, p, leased, slotted) ==
  pc' = [q \in Callers |-> CASE q \in leased  -> "payloadReady"
                             [] q \in slotted -> "slotReady"
                             [] q = r         -> p
                             [] OTHER         -> pc[q]]

\* r moves to p without a lease, the ledger becomes `led`, drained, and the
\* gates become `gts`, with the slots handed to `slotted`.
Free(r, p, led, gts, slotted) ==
  \E leased \in {DrainGrants(led)} :
    /\ ledger' = Drain(led)
    /\ gates' = gts
    /\ lease' = [q \in Callers |-> q \in leased \/ (q # r /\ lease[q])]
    /\ Deliver(r, p, leased, slotted)

\* Mutant: the lease is released again by whoever comes second.
ReturnedTwice(r) == Deallocate(ledger, r)

\* The ledger once r's lease, if it still has one, is released.
Returned(r) == IF lease[r] THEN Deallocate(ledger, r) ELSE ledger

\* The releaser of acquireMany, and its catch block: payload lease first, then
\* every key that was pushed.
ReleaseAll(r, keys) ==
  /\ Free(r, "done", Returned(r),
          [k \in Keys |-> IF k \in keys THEN FreeSlot(gates[k]) ELSE gates[k]],
          UNION {NextWaiters(gates[k]) : k \in keys})
  /\ acquired' = [acquired EXCEPT ![r] = {}]
  /\ UNCHANGED tier

\* The for loop over the tiers, from tier t on: unlimited tiers are skipped,
\* the next limited one is asked for a slot, and after the last acquireMany
\* returns.
Limited(r, t) == {i \in t..2 : Limit[Tiers(r)[i]] > 0}

AskNextTier(r, t) ==
  /\ IF Limited(r, t) = {}
     THEN /\ pc' = [pc EXCEPT ![r] = "returned"]
          /\ UNCHANGED <<gates, tier>>
     ELSE \E i \in Limited(r, t) :
            /\ \A j \in Limited(r, t) : i <= j
            /\ tier' = [tier EXCEPT ![r] = i]
            /\ \E k \in {Tiers(r)[i]} :
                 IF HasRoom(gates[k], Limit[k])
                 THEN /\ gates' = [gates EXCEPT ![k] = TakeSlot(@)]
                      /\ pc' = [pc EXCEPT ![r] = "slotReady"]
                 ELSE /\ gates' = [gates EXCEPT ![k] = Enqueue(@, r)]
                      /\ pc' = [pc EXCEPT ![r] = "slotWait"]
  /\ UNCHANGED <<ledger, lease, aborted>>

-----------------------------------------------------------------------------
\* chatCore reaches acquireMany, which first awaits the import of the payload
\* module.
Begin(r) ==
  /\ pc[r] = "idle"
  /\ pc' = [pc EXCEPT ![r] = "entering"]
  /\ UNCHANGED <<gates, ledger, tier, acquired, lease, aborted>>

MustQueue(r) == ledger.queue # <<>> \/ ~Fits(ledger, r)

\* acquirePayloadAdmission refuses r: its signal has fired, it is too large, or
\* the queue is full.
RefusePayload(r) ==
  /\ pc[r] = "entering"
  /\ \/ aborted[r]
     \/ TooLarge(r)
     \/ MustQueue(r) /\ Len(ledger.queue) >= MaxQueueDepth
  /\ pc' = [pc EXCEPT ![r] = "failed"]
  /\ UNCHANGED <<gates, ledger, tier, acquired, lease, aborted>>

\* Its fast path.
AdmitPayload(r) ==
  /\ pc[r] = "entering"
  /\ ~aborted[r] /\ ~TooLarge(r) /\ ~MustQueue(r)
  /\ ledger' = Allocate(ledger, r)
  /\ lease' = [lease EXCEPT ![r] = TRUE]
  /\ pc' = [pc EXCEPT ![r] = "payloadReady"]
  /\ UNCHANGED <<gates, tier, acquired, aborted>>

\* Its slow path.
QueuePayload(r) ==
  /\ pc[r] = "entering"
  /\ ~aborted[r] /\ ~TooLarge(r)
  /\ MustQueue(r) /\ Len(ledger.queue) < MaxQueueDepth
  /\ ledger' = [ledger EXCEPT !.queue = Append(@, r)]
  /\ pc' = [pc EXCEPT ![r] = "payloadWait"]
  /\ UNCHANGED <<gates, tier, acquired, lease, aborted>>

\* The timer of a queued payload entry.
PayloadTimeout(r) ==
  /\ pc[r] = "payloadWait"
  /\ Free(r, "failed", Without(ledger, r), gates, {})
  /\ UNCHANGED <<tier, acquired, aborted>>

\* The lease arrives.  The abort check that follows throws inside the try, so
\* the rollback belongs to the same step.
PayloadArrives(r) ==
  /\ pc[r] = "payloadReady"
  /\ IF aborted[r]
     THEN ReleaseAll(r, acquired[r]) /\ UNCHANGED aborted
     ELSE AskNextTier(r, 1) /\ UNCHANGED acquired

LeaveGate(r) == [gates EXCEPT ![KeyAt(r)] = Withdraw(@, r)]

\* The timer of a queued slot: the entry leaves the gate's queue.
SlotTimeout(r) ==
  /\ pc[r] = "slotWait"
  /\ gates' = LeaveGate(r)
  /\ pc' = [pc EXCEPT ![r] = "failed"]
  /\ UNCHANGED <<ledger, tier, acquired, lease, aborted>>

\* The slot arrives: its key is pushed before the abort check, so that the
\* rollback of an aborted wait returns this slot too.
PushKey(r) == acquired[r] \cup {KeyAt(r)}

\* Mutant: the key is pushed after the abort check.
SlotArrivesUnpushed(r) ==
  /\ pc[r] = "slotReady"
  /\ IF aborted[r]
     THEN ReleaseAll(r, acquired[r]) /\ UNCHANGED aborted
     ELSE /\ AskNextTier(r, tier[r] + 1)
          /\ acquired' = [acquired EXCEPT ![r] = PushKey(r)]

SlotArrives(r) ==
  /\ pc[r] = "slotReady"
  /\ IF aborted[r]
     THEN ReleaseAll(r, PushKey(r)) /\ UNCHANGED aborted
     ELSE /\ AskNextTier(r, tier[r] + 1)
          /\ acquired' = [acquired EXCEPT ![r] = PushKey(r)]

\* acquireMany's catch block after a rejected await; chatCore's catch then
\* finishes the request.
Rollback(r) ==
  /\ pc[r] = "failed"
  /\ ReleaseAll(r, acquired[r])
  /\ UNCHANGED aborted

\* Mutant: without the look at providerRequestFinished.
EnterProviderBlindly(r) ==
  /\ pc[r] = "returned"
  /\ pc' = [pc EXCEPT ![r] = "running"]
  /\ UNCHANGED <<gates, ledger, tier, acquired, lease, aborted>>

\* chatCore gets the releaser.  A disconnect that finished the request in the
\* meantime called a no-op, so the slots are released here.
EnterProvider(r) ==
  /\ pc[r] = "returned"
  /\ IF aborted[r]
     THEN ReleaseAll(r, acquired[r])
     ELSE /\ pc' = [pc EXCEPT ![r] = "running"]
          /\ UNCHANGED <<gates, ledger, tier, acquired, lease>>
  /\ UNCHANGED aborted

\* finishProviderRequest when the upstream call completes or fails.  A request is
\* running until then: a recovered thinking-signature retry, whose answer streams
\* on after the release (chatCore.js:1580), is no longer one here.
Finish(r) ==
  /\ pc[r] = "running"
  /\ ReleaseAll(r, acquired[r])
  /\ UNCHANGED aborted

\* Mutant: a lease does not listen to its signal.
AbortKeepingLease(r) ==
  /\ pc[r] = "payloadReady"
  /\ ~aborted[r]
  /\ aborted' = [aborted EXCEPT ![r] = TRUE]
  /\ UNCHANGED <<gates, ledger, pc, tier, acquired, lease>>

\* The client goes away.  handleDisconnect aborts the signal, whose listeners
\* run at once: a lease is released, a queued payload or slot entry leaves its
\* queue; then onDisconnect finishes a running request.
Abort(r) ==
  /\ pc[r] \notin {"idle", "done"}
  /\ ~aborted[r]
  /\ aborted' = [aborted EXCEPT ![r] = TRUE]
  /\ IF pc[r] = "running"
     THEN ReleaseAll(r, acquired[r])
     ELSE /\ CASE pc[r] = "payloadWait" ->
                    Free(r, "failed", Without(ledger, r), gates, {})
               [] pc[r] = "slotWait" ->
                    Free(r, "failed", Returned(r), LeaveGate(r), {})
               [] OTHER -> Free(r, pc[r], Returned(r), gates, {})
          /\ UNCHANGED <<tier, acquired>>

\* The request is over, and its client sends another one.
AskAgain(r) ==
  /\ pc[r] = "done"
  /\ pc' = [pc EXCEPT ![r] = "idle"]
  /\ tier' = [tier EXCEPT ![r] = 1]
  /\ aborted' = [aborted EXCEPT ![r] = FALSE]
  /\ UNCHANGED <<gates, ledger, acquired, lease>>

Next == \E r \in Callers :
  \/ Begin(r) \/ RefusePayload(r) \/ AdmitPayload(r) \/ QueuePayload(r)
  \/ PayloadTimeout(r) \/ PayloadArrives(r)
  \/ SlotTimeout(r) \/ SlotArrives(r)
  \/ Rollback(r) \/ EnterProvider(r) \/ Finish(r) \/ Abort(r) \/ AskAgain(r)

\* Continuations run, and an upstream call ends (it has its own timeouts).
\* Timers and aborts need not help.
FairSpec ==
  /\ Init /\ [][Next]_vars
  /\ \A r \in Callers :
       /\ WF_vars(RefusePayload(r) \/ AdmitPayload(r) \/ QueuePayload(r))
       /\ WF_vars(PayloadArrives(r) \/ SlotArrives(r) \/ Rollback(r))
       /\ WF_vars(EnterProvider(r))
       /\ WF_vars(Finish(r))

-----------------------------------------------------------------------------
\* The slots r owns: the keys pushed, and one that was handed to it but whose
\* continuation has not pushed it yet.
Owned(r) == IF pc[r] = "slotReady" THEN PushKey(r) ELSE acquired[r]

\* No slot is lost or returned twice: a gate's count is the number of requests
\* that own its slot, whatever aborts, timers and hand-offs do between the
\* resolution of a promise and its continuation.
SlotsConserved == \A k \in Keys :
  gates[k].current = Cardinality({r \in Callers : k \in Owned(r)})

\* The ledger is the sum of the leases that are not released.
LeasesConserved ==
  LET L == {r \in Callers : lease[r]} IN
  /\ ledger.bytes = SumFunctionOnSet(Bytes, L)
  /\ ledger.streams = Cardinality({r \in L : IsStream[r]})
  /\ ledger.requests = Cardinality(L)

\* A request that is over holds nothing, and one whose client has gone holds no
\* payload capacity from that moment on, wherever it was interrupted.
NothingLeftBehind == \A r \in Callers :
  /\ pc[r] \in {"idle", "done"} => acquired[r] = {} /\ ~lease[r]
  /\ aborted[r] => ~lease[r]

\* A request is sent upstream only with its lease and the slot of every limited
\* tier, and never after its client has gone.
RunsFullyAdmitted == \A r \in Callers : pc[r] = "running" =>
  /\ lease[r] /\ ~aborted[r]
  /\ acquired[r] = {k \in Keys : k \in ToSet(Tiers(r)) /\ Limit[k] > 0}

\* Admission refines the service it promises: to its clients a request has
\* asked, is running upstream, or is over.
StatusAt(p) == CASE p = "idle"    -> "none"
                 [] p = "running" -> "running"
                 [] p = "done"    -> "over"
                 [] OTHER         -> "asked"
Status == [r \in Callers |-> StatusAt(pc[r])]

Service == INSTANCE BoundedService WITH
  KeysOf <- [r \in Callers |-> {Global, ProviderOf[r]}],
  status <- Status
ImplementsService == Service!Spec

=============================================================================
