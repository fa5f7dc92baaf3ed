-------------------------- MODULE ConcurrencyGate --------------------------
(***************************************************************************)
(* The concurrency gates of open-sse/services/concurrencyGate.js on their  *)
(* own: callers acquire one slot of one key, wait behind a full gate, are  *)
(* timed out or aborted while they wait, and release.  The configured      *)
(* limit of a key may change at any time (a settings write); a waiter is   *)
(* not told, and a release does not look at the limit.                     *)
(***************************************************************************)
EXTENDS GateOps

CONSTANTS
  Keys,       \* gate keys: "__global__" and the providers
  MaxLimit    \* bound on the configured limit of a key

ASSUME LimitAssumption == MaxLimit \in Nat

VARIABLES
  gates,      \* gates[k]: slots handed out and the queue
  limit,      \* limit[k]: the configured limit, 0 for no limit
  place,      \* place[c]: where caller c is in its call
  key,        \* key[c]: the key of that call
  ahead       \* history, not of the code: ahead[c] is who was waiting for c's
              \* key when c came and has been neither served nor gone since

gateVars == <<gates, limit, place, key, ahead>>

Places == {"idle", "waiting", "holding", "bypassed"}

Gate == [current : Nat, queue : Seq(Callers)]

GateTypeOK ==
  /\ gates \in [Keys -> Gate]
  /\ limit \in [Keys -> 0..MaxLimit]
  /\ place \in [Callers -> Places]
  /\ key \in [Callers -> Keys]
  /\ ahead \in [Callers -> SUBSET Callers]

SlotHolders(k) == {c \in Callers : place[c] = "holding" /\ key[c] = k}
Waiters(k) == {c \in Callers : place[c] = "waiting" /\ key[c] = k}

GateInit ==
  /\ gates = [k \in Keys |-> EmptyGate]
  /\ limit \in [Keys -> 0..MaxLimit]
  /\ place = [c \in Callers |-> "idle"]
  /\ key \in [Callers -> Keys]
  /\ ahead = [c \in Callers |-> {}]

\* The history: whoever is served or gives up is ahead of nobody any more.
NoLongerAhead(gone) ==
  ahead' = [d \in Callers |-> IF d \in gone THEN {} ELSE ahead[d] \ gone]

-----------------------------------------------------------------------------
\* acquireSlot with no limit configured: resolves without touching a gate.
Bypass(c, k) ==
  /\ place[c] = "idle"
  /\ limit[k] = 0
  /\ place' = [place EXCEPT ![c] = "bypassed"]
  /\ key' = [key EXCEPT ![c] = k]
  /\ UNCHANGED <<gates, limit, ahead>>

\* acquireSlot's fast path.
AcquireAtOnce(c, k) ==
  /\ place[c] = "idle"
  /\ limit[k] > 0
  /\ HasRoom(gates[k], limit[k])
  /\ gates' = [gates EXCEPT ![k] = TakeSlot(@)]
  /\ place' = [place EXCEPT ![c] = "holding"]
  /\ key' = [key EXCEPT ![c] = k]
  /\ UNCHANGED <<limit, ahead>>

\* acquireSlot's slow path.
WaitForSlot(c, k) ==
  /\ place[c] = "idle"
  /\ limit[k] > 0
  /\ ~HasRoom(gates[k], limit[k])
  /\ gates' = [gates EXCEPT ![k] = Enqueue(@, c)]
  /\ place' = [place EXCEPT ![c] = "waiting"]
  /\ key' = [key EXCEPT ![c] = k]
  /\ ahead' = [ahead EXCEPT ![c] = Waiters(k)]
  /\ UNCHANGED limit

\* Mutants: a timed-out waiter is not removed; it returns a slot it never had.
StayInQueue(c) ==
  /\ place[c] = "waiting"
  /\ place' = [place EXCEPT ![c] = "idle"]
  /\ NoLongerAhead({c})
  /\ UNCHANGED <<gates, limit, key>>

LeaveAndFree(c) ==
  /\ place[c] = "waiting"
  /\ gates' = [gates EXCEPT ![key[c]] = FreeSlot(Withdraw(@, c))]
  /\ place' = [place EXCEPT ![c] = "idle"]
  /\ NoLongerAhead({c})
  /\ UNCHANGED <<limit, key>>

\* The wait's timer fires or its signal aborts: the entry leaves the queue and
\* the promise rejects.  Neither can run once the entry was shifted, because
\* releaseSlot disarms both before it resolves.
LeaveQueue(c) ==
  /\ place[c] = "waiting"
  /\ gates' = IF IsWaiting(gates[key[c]], c)
              THEN [gates EXCEPT ![key[c]] = Withdraw(@, c)]
              ELSE gates
  /\ place' = [place EXCEPT ![c] = "idle"]
  /\ NoLongerAhead({c})
  /\ UNCHANGED <<limit, key>>

\* releaseSlot by a holder.
ReleaseSlot(c) ==
  /\ place[c] = "holding"
  /\ gates' = [gates EXCEPT ![key[c]] = FreeSlot(@)]
  /\ place' = [d \in Callers |->
                 IF d = c THEN "idle"
                 ELSE IF d \in NextWaiters(gates[key[c]]) THEN "holding"
                 ELSE place[d]]
  /\ NoLongerAhead(NextWaiters(gates[key[c]]))
  /\ UNCHANGED <<limit, key>>

\* A caller that bypassed the gate has nothing to release.
FinishBypassed(c) ==
  /\ place[c] = "bypassed"
  /\ place' = [place EXCEPT ![c] = "idle"]
  /\ UNCHANGED <<gates, limit, key, ahead>>

\* A settings write changes what getConcurrencyLimit returns from now on.
SetLimit(k) ==
  /\ \E n \in 0..MaxLimit : limit' = [limit EXCEPT ![k] = n]
  /\ UNCHANGED <<gates, place, key, ahead>>

GateNext ==
  \/ \E c \in Callers, k \in Keys :
       Bypass(c, k) \/ AcquireAtOnce(c, k) \/ WaitForSlot(c, k)
  \/ \E c \in Callers : LeaveQueue(c) \/ ReleaseSlot(c) \/ FinishBypassed(c)
  \/ \E k \in Keys : SetLimit(k)

GateSpec == GateInit /\ [][GateNext]_gateVars

\* Every holder releases in the end: the request that owns the slot completes,
\* fails or is aborted.  No fairness of timers or of new calls is assumed.
FairGateSpec == GateSpec /\ \A c \in Callers : WF_gateVars(ReleaseSlot(c))

-----------------------------------------------------------------------------
\* releaseSlot "must be called exactly once for every successful acquireSlot":
\* the count of a gate is the number of callers that own one of its slots, over
\* every order of hand-offs, timeouts, aborts and limit changes.
SlotsConserved == \A k \in Keys : gates[k].current = Cardinality(SlotHolders(k))

\* The queue of a gate is exactly its waiters, each once: no caller waits in a
\* queue nobody shifts, and no settled caller is left behind to be handed a slot.
QueueIsWaiters ==
  \A k \in Keys :
    /\ ToSet(gates[k].queue) = Waiters(k)
    /\ IsInjective(gates[k].queue)

\* A waiter always has a holder in front of it, whose release will reach it;
\* in particular releaseSlot never deletes a gate that still has a queue.
WaiterHasHolder ==
  \A k \in Keys : gates[k].queue # <<>> => gates[k].current > 0

\* A gate hands out one more slot only while it is below the limit configured
\* at that moment, and a hand-off never adds one.
GrowsOnlyWithRoom ==
  \A k \in Keys : gates'[k].current > gates[k].current =>
                     gates'[k].current <= limit[k]
GrowsBelowLimit == [][GrowsOnlyWithRoom]_gateVars

\* Slots are handed over in arrival order, whatever leaves the queue from its
\* middle: when a waiter is served, of those who were waiting for its key when
\* it came each has been served before it or has given up.  The order is the
\* history's, not the queue's.
ServesTheFirst ==
  \A c \in Callers :
    place[c] = "waiting" /\ place'[c] = "holding" => ahead[c] = {}
HandOffInOrder == [][ServesTheFirst]_gateVars

\* A waiter is served, or gives up, as long as the holders release: no wait
\* depends on its own timer to end.
GateWaitersServed == \A c \in Callers : place[c] = "waiting" ~> place[c] # "waiting"

=============================================================================
