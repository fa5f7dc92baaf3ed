--------------------------- MODULE WaitQueueProofs ---------------------------
(***************************************************************************)
(* Proofs about the two users of WaitQueue on their own: ConcurrencyGate,  *)
(* for every finite set of callers, every set of keys and every bound on   *)
(* the configured limits, and PayloadAdmission, for any requests, sizes    *)
(* and limits.                                                             *)
(***************************************************************************)
EXTENDS ConcurrencyGate, PayloadAdmission, AdmissionLemmas

-----------------------------------------------------------------------------
(* ConcurrencyGate.                                                        *)

\* The inductive invariant: the count of a gate cannot be shown to survive a
\* hand-off without knowing that the first of the queue is a caller that waits
\* on this very key, once.
GateInv == GateTypeOK /\ SlotsConserved /\ QueueIsWaiters /\ WaiterHasHolder

\* The sets of holders are finite, so that their sizes can be counted.
LEMMA HoldersFinite ==
  ASSUME NEW S \in SUBSET Callers
  PROVE  IsFiniteSet(S) /\ Cardinality(S) \in Nat
BY CallersAssumption, FS_Subset, FS_CardinalityType

\* A waiter found in its queue by IsWaiting has a position, and withdrawing it
\* leaves the others in their order.
LEMMA WithdrawQueue ==
  ASSUME NEW g \in Gate, NEW c \in Callers, IsInjective(g.queue), IsWaiting(g, c)
  PROVE  /\ Withdraw(g, c) \in Gate
         /\ Withdraw(g, c).current = g.current
         /\ ToSet(Withdraw(g, c).queue) = ToSet(g.queue) \ {c}
         /\ IsInjective(Withdraw(g, c).queue)
         /\ g.queue # <<>>
<1>1. g.queue \in Seq(Callers) /\ g.current \in Nat
  BY DEF Gate
<1>2. c \in ToSet(g.queue) /\ g.queue # <<>>
  BY <1>1, LenProperties, EmptySeq DEF IsWaiting, ToSet
<1>3. /\ CutOut(g.queue, c) \in Seq(Callers)
      /\ ToSet(CutOut(g.queue, c)) = ToSet(g.queue) \ {c}
      /\ IsInjective(CutOut(g.queue, c))
  BY <1>1, <1>2, CutOutToSet
<1> QED BY <1>1, <1>2, <1>3 DEF Gate, Withdraw

LEMMA GateInitInvariant == GateInit => GateInv
<1> SUFFICES ASSUME GateInit PROVE GateInv
  OBVIOUS
<1>1. GateTypeOK
  BY DEF GateInit, GateTypeOK, EmptyGate, Gate, Places
<1>2. \A k \in Keys : SlotHolders(k) = {} /\ Waiters(k) = {}
  BY DEF GateInit, SlotHolders, Waiters
<1>3. SlotsConserved
  BY <1>2, FS_EmptySet DEF GateInit, SlotsConserved, EmptyGate
<1>4. ToSet(<<>>) = {} /\ IsInjective(<<>>)
  BY DEF ToSet, IsInjective
<1>5. QueueIsWaiters /\ WaiterHasHolder
  BY <1>2, <1>4 DEF GateInit, QueueIsWaiters, WaiterHasHolder, EmptyGate
<1> QED BY <1>1, <1>3, <1>5 DEF GateInv

LEMMA BypassInvariant ==
  ASSUME GateInv, NEW c \in Callers, NEW k \in Keys, Bypass(c, k) PROVE GateInv'
<1>1. GateTypeOK'
  BY DEF GateInv, GateTypeOK, Bypass, Places
<1>2. \A j \in Keys : SlotHolders(j)' = SlotHolders(j) /\ Waiters(j)' = Waiters(j)
  BY DEF GateInv, GateTypeOK, Bypass, SlotHolders, Waiters
<1> QED BY <1>1, <1>2 DEF GateInv, Bypass, SlotsConserved, QueueIsWaiters, WaiterHasHolder

LEMMA AcquireAtOnceInvariant ==
  ASSUME GateInv, NEW c \in Callers, NEW k \in Keys, AcquireAtOnce(c, k) PROVE GateInv'
<1>1. gates'[k] = [gates[k] EXCEPT !.current = @ + 1] /\ gates[k] \in Gate
  BY DEF GateInv, GateTypeOK, AcquireAtOnce, TakeSlot
<1>2. gates'[k].current = gates[k].current + 1 /\ gates'[k].queue = gates[k].queue
  BY <1>1 DEF Gate
<1>3. \A j \in Keys : j # k => gates'[j] = gates[j]
  BY DEF GateInv, GateTypeOK, AcquireAtOnce
<1>4. GateTypeOK'
  <2>1. gates'[k] \in Gate
    BY <1>1 DEF Gate
  <2> QED BY <1>3, <2>1 DEF GateInv, GateTypeOK, AcquireAtOnce, Places
<1>5. \A j \in Keys : Waiters(j)' = Waiters(j)
  BY DEF GateInv, GateTypeOK, AcquireAtOnce, Waiters
<1>6. \A j \in Keys : j # k => SlotHolders(j)' = SlotHolders(j)
  BY DEF GateInv, GateTypeOK, AcquireAtOnce, SlotHolders
<1>7. SlotHolders(k)' = SlotHolders(k) \cup {c} /\ c \notin SlotHolders(k)
  BY DEF GateInv, GateTypeOK, AcquireAtOnce, SlotHolders
<1>8. Cardinality(SlotHolders(k)') = Cardinality(SlotHolders(k)) + 1
  BY <1>7, HoldersFinite, FS_AddElement DEF SlotHolders
<1>9. SlotsConserved'
  BY <1>2, <1>3, <1>6, <1>8 DEF GateInv, SlotsConserved
<1>10. QueueIsWaiters' /\ WaiterHasHolder'
  BY <1>1, <1>2, <1>3, <1>5 DEF GateInv, QueueIsWaiters, WaiterHasHolder, Gate
<1> QED BY <1>4, <1>9, <1>10 DEF GateInv

LEMMA WaitForSlotInvariant ==
  ASSUME GateInv, NEW c \in Callers, NEW k \in Keys, WaitForSlot(c, k) PROVE GateInv'
<1>1. gates'[k] = [gates[k] EXCEPT !.queue = Append(@, c)] /\ gates[k] \in Gate
  BY DEF GateInv, GateTypeOK, WaitForSlot, Enqueue
<1>2. gates'[k].current = gates[k].current /\ gates'[k].queue = Append(gates[k].queue, c)
  BY <1>1 DEF Gate
<1>3. \A j \in Keys : j # k => gates'[j] = gates[j]
  BY DEF GateInv, GateTypeOK, WaitForSlot
<1>4. \A j \in Keys : SlotHolders(j)' = SlotHolders(j)
  BY DEF GateInv, GateTypeOK, WaitForSlot, SlotHolders
<1>5. \A j \in Keys : j # k => Waiters(j)' = Waiters(j)
  BY DEF GateInv, GateTypeOK, WaitForSlot, Waiters
<1>6. Waiters(k)' = Waiters(k) \cup {c} /\ c \notin Waiters(k)
  BY DEF GateInv, GateTypeOK, WaitForSlot, Waiters
<1>7. /\ gates[k].queue \in Seq(Callers)
      /\ IsInjective(gates[k].queue)
      /\ ToSet(gates[k].queue) = Waiters(k)
  BY <1>1 DEF GateInv, QueueIsWaiters, Gate
<1>8. /\ gates'[k].queue \in Seq(Callers)
      /\ ToSet(gates'[k].queue) = Waiters(k)'
      /\ IsInjective(gates'[k].queue)
  BY <1>2, <1>6, <1>7, AppendToSet
<1>9. gates'[k] \in Gate
  BY <1>1, <1>2, <1>8 DEF Gate
<1>10. GateTypeOK'
  BY <1>9 DEF GateInv, GateTypeOK, WaitForSlot, Waiters, Places
<1>11. SlotsConserved'
  BY <1>2, <1>3, <1>4 DEF GateInv, SlotsConserved
<1>12. QueueIsWaiters'
  BY <1>3, <1>5, <1>8 DEF GateInv, QueueIsWaiters
<1>13. gates[k].current > 0
  BY <1>1 DEF GateInv, GateTypeOK, WaitForSlot, HasRoom, Gate
<1>14. WaiterHasHolder'
  BY <1>2, <1>3, <1>13 DEF GateInv, WaiterHasHolder
<1> QED BY <1>10, <1>11, <1>12, <1>14 DEF GateInv

LEMMA LeaveQueueInvariant ==
  ASSUME GateInv, NEW c \in Callers, LeaveQueue(c), NEW k \in Keys, k = key[c] PROVE GateInv'
<1>1. k \in Keys /\ gates[k] \in Gate /\ IsInjective(gates[k].queue) /\ c \in Waiters(k)
  BY DEF GateInv, GateTypeOK, LeaveQueue, QueueIsWaiters, Waiters
<1>2. IsWaiting(gates[k], c)
  <2>1. c \in ToSet(gates[k].queue)
    BY <1>1 DEF GateInv, QueueIsWaiters
  <2>2. DOMAIN gates[k].queue = 1..Len(gates[k].queue)
    BY <1>1, LenProperties DEF Gate
  <2> QED BY <2>1, <2>2 DEF ToSet, IsWaiting
<1>3. gates'[k] = Withdraw(gates[k], c) /\ \A j \in Keys : j # k => gates'[j] = gates[j]
  BY <1>1, <1>2 DEF GateInv, GateTypeOK, LeaveQueue
<1>4. /\ gates'[k] \in Gate
      /\ gates'[k].current = gates[k].current
      /\ ToSet(gates'[k].queue) = ToSet(gates[k].queue) \ {c}
      /\ IsInjective(gates'[k].queue)
      /\ gates[k].queue # <<>>
  BY <1>1, <1>2, <1>3, WithdrawQueue
<1>5. \A j \in Keys : SlotHolders(j)' = SlotHolders(j)
  BY DEF GateInv, GateTypeOK, LeaveQueue, SlotHolders
<1>6. Waiters(k)' = Waiters(k) \ {c} /\ \A j \in Keys : j # k => Waiters(j)' = Waiters(j)
  BY DEF GateInv, GateTypeOK, LeaveQueue, Waiters
<1>7. GateTypeOK'
  <2>1. gates' \in [Keys -> Gate]
    BY <1>1, <1>2, <1>3, <1>4 DEF GateInv, GateTypeOK, LeaveQueue
  <2> QED BY <2>1 DEF GateInv, GateTypeOK, LeaveQueue, NoLongerAhead, Places
<1>8. SlotsConserved'
  BY <1>3, <1>4, <1>5 DEF GateInv, SlotsConserved
<1>9. QueueIsWaiters'
  BY <1>1, <1>3, <1>4, <1>6 DEF GateInv, QueueIsWaiters
<1>10. WaiterHasHolder'
  BY <1>3, <1>4 DEF GateInv, WaiterHasHolder
<1> QED BY <1>7, <1>8, <1>9, <1>10 DEF GateInv

LEMMA ReleaseSlotInvariant ==
  ASSUME GateInv, NEW c \in Callers, ReleaseSlot(c), NEW k \in Keys, k = key[c] PROVE GateInv'
<1> DEFINE g == gates[k]
<1>1. /\ k \in Keys /\ g \in Gate /\ g.queue \in Seq(Callers) /\ g.current \in Nat
      /\ IsInjective(g.queue) /\ c \in SlotHolders(k) /\ ToSet(g.queue) = Waiters(k)
      /\ g.current = Cardinality(SlotHolders(k))
  BY DEF GateInv, GateTypeOK, ReleaseSlot, QueueIsWaiters, SlotsConserved, SlotHolders, Gate
<1>2. gates'[k] = FreeSlot(g) /\ \A j \in Keys : j # k => gates'[j] = gates[j]
  BY <1>1 DEF GateInv, GateTypeOK, ReleaseSlot
<1>3. IsFiniteSet(SlotHolders(k)) /\ Cardinality(SlotHolders(k) \ {c}) = Cardinality(SlotHolders(k)) - 1
  BY <1>1, HoldersFinite, FS_RemoveElement DEF SlotHolders
<1>4. CASE g.queue = <<>>
  <2>1. /\ gates'[k] = [g EXCEPT !.current = IF @ > 0 THEN @ - 1 ELSE 0]
        /\ place' = [place EXCEPT ![c] = "idle"]
    BY <1>2, <1>4 DEF GateInv, GateTypeOK, ReleaseSlot, FreeSlot, NextWaiters
  <2>2. g.current > 0
    <3>1. Cardinality(SlotHolders(k) \ {c}) \in Nat
      BY HoldersFinite DEF SlotHolders
    <3> QED BY <1>1, <1>3, <3>1
  <2>3. gates'[k] \in Gate /\ gates'[k].current = g.current - 1 /\ gates'[k].queue = g.queue
    BY <1>1, <2>1, <2>2 DEF Gate
  <2>4. SlotHolders(k)' = SlotHolders(k) \ {c} /\ \A j \in Keys : j # k => SlotHolders(j)' = SlotHolders(j)
    BY <2>1 DEF GateInv, GateTypeOK, ReleaseSlot, SlotHolders
  <2>5. \A j \in Keys : Waiters(j)' = Waiters(j)
    BY <2>1 DEF GateInv, GateTypeOK, ReleaseSlot, Waiters
  <2>6. GateTypeOK'
    BY <1>2, <2>1, <2>3 DEF GateInv, GateTypeOK, ReleaseSlot, NoLongerAhead, Places
  <2>7. SlotsConserved'
    BY <1>1, <1>2, <1>3, <2>3, <2>4 DEF GateInv, SlotsConserved
  <2>8. QueueIsWaiters' /\ WaiterHasHolder'
    BY <1>2, <1>4, <2>3, <2>5 DEF GateInv, QueueIsWaiters, WaiterHasHolder
  <2> QED BY <2>6, <2>7, <2>8 DEF GateInv
<1>5. CASE g.queue # <<>>
  <2> DEFINE d == Head(g.queue)
  <2>1. /\ Tail(g.queue) \in Seq(Callers)
        /\ d \in Waiters(k)
        /\ ToSet(Tail(g.queue)) = Waiters(k) \ {d}
        /\ IsInjective(Tail(g.queue))
    BY <1>1, <1>5, TailToSet
  <2>2. d \in Callers /\ d # c /\ place[d] = "waiting" /\ key[d] = k /\ d \notin SlotHolders(k)
    BY <2>1, <1>1 DEF Waiters, SlotHolders
  <2> HIDE DEF d
  <2>3. /\ gates'[k] = [g EXCEPT !.queue = Tail(@)]
        /\ place' = [place EXCEPT ![c] = "idle", ![d] = "holding"]
    <3>1. gates'[k] = [g EXCEPT !.queue = Tail(@)]
      BY <1>2, <1>5 DEF FreeSlot
    <3>2. NextWaiters(g) = {d}
      BY <1>5 DEF NextWaiters, d
    <3>3. place' = [e \in Callers |-> IF e = c THEN "idle"
                                     ELSE IF e \in {d} THEN "holding" ELSE place[e]]
      BY <3>2 DEF ReleaseSlot
    <3> QED BY <2>2, <3>1, <3>3 DEF GateInv, GateTypeOK
  <2>4. gates'[k] \in Gate /\ gates'[k].current = g.current /\ gates'[k].queue = Tail(g.queue)
    BY <1>1, <2>1, <2>3 DEF Gate
  <2>5. /\ SlotHolders(k)' = (SlotHolders(k) \ {c}) \cup {d}
        /\ \A j \in Keys : j # k => SlotHolders(j)' = SlotHolders(j)
    BY <2>2, <2>3 DEF GateInv, GateTypeOK, ReleaseSlot, SlotHolders
  <2>6. Waiters(k)' = Waiters(k) \ {d} /\ \A j \in Keys : j # k => Waiters(j)' = Waiters(j)
    BY <2>2, <2>3 DEF GateInv, GateTypeOK, ReleaseSlot, Waiters
  <2>7. Cardinality(SlotHolders(k)') = Cardinality(SlotHolders(k))
    <3>1. IsFiniteSet(SlotHolders(k) \ {c}) /\ d \notin SlotHolders(k) \ {c}
      BY <2>2, HoldersFinite DEF SlotHolders
    <3>2. Cardinality((SlotHolders(k) \ {c}) \cup {d}) = Cardinality(SlotHolders(k) \ {c}) + 1
      BY <3>1, FS_AddElement
    <3> QED BY <1>1, <1>3, <2>5, <3>2
  <2>8. GateTypeOK'
    BY <1>2, <2>2, <2>3, <2>4 DEF GateInv, GateTypeOK, ReleaseSlot, NoLongerAhead, Places
  <2>9. SlotsConserved'
    BY <1>1, <1>2, <2>4, <2>5, <2>7 DEF GateInv, SlotsConserved
  <2>10. QueueIsWaiters'
    BY <1>2, <2>1, <2>4, <2>6 DEF GateInv, QueueIsWaiters
  <2>11. WaiterHasHolder'
    BY <1>2, <1>5, <2>4 DEF GateInv, WaiterHasHolder
  <2> QED BY <2>8, <2>9, <2>10, <2>11 DEF GateInv
<1> QED BY <1>4, <1>5

LEMMA QuietInvariant ==
  ASSUME GateInv,
         \/ \E c \in Callers : FinishBypassed(c)
         \/ \E k \in Keys : SetLimit(k)
         \/ UNCHANGED gateVars
  PROVE  GateInv'
<1>1. GateTypeOK'
  BY DEF GateInv, GateTypeOK, FinishBypassed, SetLimit, gateVars, Places
<1>2. gates' = gates /\ \A j \in Keys : SlotHolders(j)' = SlotHolders(j) /\ Waiters(j)' = Waiters(j)
  BY DEF GateInv, GateTypeOK, FinishBypassed, SetLimit, gateVars, SlotHolders, Waiters
<1> QED BY <1>1, <1>2 DEF GateInv, SlotsConserved, QueueIsWaiters, WaiterHasHolder

LEMMA GateNextInvariant == GateInv /\ [GateNext]_gateVars => GateInv'
<1> SUFFICES ASSUME GateInv, [GateNext]_gateVars PROVE GateInv'
  OBVIOUS
<1>1. ASSUME NEW c \in Callers, NEW k \in Keys, Bypass(c, k) PROVE GateInv'
  BY <1>1, BypassInvariant
<1>2. ASSUME NEW c \in Callers, NEW k \in Keys, AcquireAtOnce(c, k) PROVE GateInv'
  BY <1>2, AcquireAtOnceInvariant
<1>3. ASSUME NEW c \in Callers, NEW k \in Keys, WaitForSlot(c, k) PROVE GateInv'
  BY <1>3, WaitForSlotInvariant
<1>4. ASSUME NEW c \in Callers, LeaveQueue(c) PROVE GateInv'
  BY <1>4, LeaveQueueInvariant DEF GateInv, GateTypeOK
<1>5. ASSUME NEW c \in Callers, ReleaseSlot(c) PROVE GateInv'
  BY <1>5, ReleaseSlotInvariant DEF GateInv, GateTypeOK
<1>6. ASSUME NEW c \in Callers, FinishBypassed(c) PROVE GateInv'
  BY <1>6, QuietInvariant
<1>7. ASSUME NEW k \in Keys, SetLimit(k) PROVE GateInv'
  BY <1>7, QuietInvariant
<1>8. CASE UNCHANGED gateVars
  BY <1>8, QuietInvariant
<1> QED BY <1>1, <1>2, <1>3, <1>4, <1>5, <1>6, <1>7, <1>8 DEF GateNext

\* The inductive invariant holds in every reachable state of the gates.
THEOREM GateInvariant == GateSpec => []GateInv
BY GateInitInvariant, GateNextInvariant, PTL DEF GateSpec

\* Types: the gates, the settings and the callers keep their shape.
THEOREM GateTypes == GateSpec => []GateTypeOK
<1>1. GateInv => GateTypeOK
  BY DEF GateInv
<1> QED BY GateInvariant, <1>1, PTL

\* releaseSlot's contract: over any order of hand-offs, timeouts, aborts and
\* settings writes the count of a gate is the number of callers that own a slot.
THEOREM GateConservesSlots == GateSpec => []SlotsConserved
<1>1. GateInv => SlotsConserved
  BY DEF GateInv
<1> QED BY GateInvariant, <1>1, PTL

\* No caller is lost from, or left behind in, a queue.
THEOREM GateQueueIsWaiters == GateSpec => []QueueIsWaiters
<1>1. GateInv => QueueIsWaiters
  BY DEF GateInv
<1> QED BY GateInvariant, <1>1, PTL

\* A gate that still has waiters is never deleted from the map.
THEOREM GateWaiterHasHolder == GateSpec => []WaiterHasHolder
<1>1. GateInv => WaiterHasHolder
  BY DEF GateInv
<1> QED BY GateInvariant, <1>1, PTL

\* A gate hands out a further slot only below the limit configured then.
THEOREM GateGrowsBelowLimit == GateSpec => GrowsBelowLimit
<1>1. GateInv /\ [GateNext]_gateVars => [GrowsOnlyWithRoom]_gateVars
  <2> SUFFICES ASSUME GateInv, [GateNext]_gateVars PROVE GrowsOnlyWithRoom
    OBVIOUS
  <2>1. ASSUME gates' = gates PROVE GrowsOnlyWithRoom
    BY <2>1 DEF GrowsOnlyWithRoom, GateInv, GateTypeOK, Gate
  <2>2. ASSUME NEW c \in Callers, NEW k \in Keys, AcquireAtOnce(c, k)
        PROVE  GrowsOnlyWithRoom
    <3>1. /\ gates'[k].current = gates[k].current + 1 /\ gates[k].current < limit[k]
          /\ gates[k].current \in Nat /\ limit[k] \in Nat
      BY <2>2, LimitAssumption
      DEF AcquireAtOnce, TakeSlot, HasRoom, GateInv, GateTypeOK, Gate
    <3>2. \A j \in Keys : j # k => gates'[j] = gates[j] /\ gates[j].current \in Nat
      BY <2>2 DEF AcquireAtOnce, GateInv, GateTypeOK, Gate
    <3> QED BY <3>1, <3>2 DEF GrowsOnlyWithRoom
  <2>3. ASSUME NEW k \in Keys, NEW g \in Gate,
               gates' = [gates EXCEPT ![k] = g], g.current <= gates[k].current
        PROVE  GrowsOnlyWithRoom
    BY <2>3 DEF GrowsOnlyWithRoom, GateInv, GateTypeOK, Gate
  <2>4. ASSUME NEW c \in Callers, NEW k \in Keys, WaitForSlot(c, k)
        PROVE  GrowsOnlyWithRoom
    <3>1. GateInv'
      BY <2>4, WaitForSlotInvariant
    <3>2. gates'[k] \in Gate /\ gates'[k].current = gates[k].current
      BY <2>4, <3>1 DEF WaitForSlot, Enqueue, GateInv, GateTypeOK, Gate
    <3>3. gates[k].current \in Nat /\ gates' = [gates EXCEPT ![k] = gates'[k]]
      BY <2>4 DEF WaitForSlot, GateInv, GateTypeOK, Gate
    <3> QED BY <2>3, <3>2, <3>3
  <2>5. ASSUME NEW c \in Callers, LeaveQueue(c) PROVE GrowsOnlyWithRoom
    <3>1. CASE IsWaiting(gates[key[c]], c)
      <4>1. key[c] \in Keys /\ gates[key[c]] \in Gate /\ IsInjective(gates[key[c]].queue)
        BY DEF GateInv, GateTypeOK, QueueIsWaiters
      <4>2. /\ Withdraw(gates[key[c]], c) \in Gate
            /\ Withdraw(gates[key[c]], c).current = gates[key[c]].current
            /\ gates[key[c]].current \in Nat
        BY <3>1, <4>1, WithdrawQueue DEF Gate
      <4>3. gates' = [gates EXCEPT ![key[c]] = Withdraw(gates[key[c]], c)]
        BY <2>5, <3>1 DEF LeaveQueue
      <4>4. Withdraw(gates[key[c]], c).current <= gates[key[c]].current
        BY <4>2
      <4> QED BY <2>3, <4>1, <4>2, <4>3, <4>4
    <3>2. CASE ~IsWaiting(gates[key[c]], c)
      BY <2>1, <2>5, <3>2 DEF LeaveQueue
    <3> QED BY <3>1, <3>2
  <2>6. ASSUME NEW c \in Callers, ReleaseSlot(c) PROVE GrowsOnlyWithRoom
    <3> DEFINE g == gates[key[c]]
    <3>1. key[c] \in Keys /\ g \in Gate /\ g.current \in Nat /\ g.queue \in Seq(Callers)
      BY DEF GateInv, GateTypeOK, Gate
    <3>2. g.queue # <<>> => Tail(g.queue) \in Seq(Callers)
      BY <3>1, HeadTailProperties
    <3> HIDE DEF g
    <3>3. FreeSlot(g) \in Gate /\ FreeSlot(g).current <= g.current
      <4>1. CASE g.queue # <<>>
        BY <3>1, <3>2, <4>1 DEF FreeSlot, Gate
      <4>2. CASE g.queue = <<>>
        <5>1. FreeSlot(g) = [g EXCEPT !.current = IF g.current > 0 THEN g.current - 1 ELSE 0]
          BY <4>2 DEF FreeSlot
        <5> QED BY <3>1, <5>1 DEF Gate
      <4> QED BY <4>1, <4>2
    <3> QED BY <2>3, <2>6, <3>1, <3>3 DEF ReleaseSlot, g
  <2> QED
    BY <2>1, <2>2, <2>4, <2>5, <2>6
    DEF GateNext, Bypass, FinishBypassed, SetLimit, gateVars
<1> QED BY GateInvariant, <1>1, PTL DEF GateSpec, GrowsBelowLimit

\* Queue q stands in the order of arrival that history h recorded: whoever was
\* there before an entry and still waits stands before it.
InArrivalOrder(q, h) ==
  \A j \in 1..Len(q) : \A d \in h[q[j]] : \E i \in 1..(j - 1) : q[i] = d

ArrivalOrder == \A k \in Keys : InArrivalOrder(gates[k].queue, ahead)

\* A history that counts fewer ahead keeps the order; so does a newcomer at the
\* end, with everybody who waits counted ahead of it.
LEMMA OrderKept ==
  ASSUME NEW q, NEW h, NEW g, \A j \in 1..Len(q) : g[q[j]] \subseteq h[q[j]],
         InArrivalOrder(q, h)
  PROVE  InArrivalOrder(q, g)
BY DEF InArrivalOrder

LEMMA OrderWithNewcomer ==
  ASSUME NEW q \in Seq(Callers), NEW c \in Callers, NEW h, h[c] = ToSet(q),
         InArrivalOrder(q, h)
  PROVE  InArrivalOrder(Append(q, c), h)
<1> DEFINE r == Append(q, c)
<1>1. /\ Len(q) \in Nat /\ DOMAIN q = 1..Len(q) /\ Len(r) = Len(q) + 1
      /\ \A i \in 1..Len(q) : r[i] = q[i]
      /\ r[Len(q) + 1] = c
  BY AppendProperties, LenProperties
<1> HIDE DEF r
<1> SUFFICES ASSUME NEW j \in 1..Len(r), NEW d \in h[r[j]]
             PROVE  \E i \in 1..(j - 1) : r[i] = d
  BY DEF InArrivalOrder, r
<1>2. CASE j = Len(q) + 1
  <2>1. PICK i \in 1..Len(q) : q[i] = d
    BY <1>1, <1>2 DEF ToSet
  <2> QED BY <1>1, <1>2, <2>1
<1>3. CASE j \in 1..Len(q)
  <2>1. PICK i \in 1..(j - 1) : q[i] = d
    BY <1>1, <1>3 DEF InArrivalOrder
  <2>2. i \in 1..Len(q)
    BY <1>1, <1>3
  <2> QED BY <1>1, <2>1, <2>2
<1> QED BY <1>1, <1>2, <1>3

\* Taking out one entry, wherever it stands, keeps the order of the rest, once
\* the history counts it ahead of nobody.
LEMMA OrderWithout ==
  ASSUME NEW q \in Seq(Callers), NEW n \in 1..Len(q), NEW r \in Seq(Callers),
         Len(r) = Len(q) - 1,
         \A i \in 1..(Len(q) - 1) : r[i] = IF i < n THEN q[i] ELSE q[i + 1],
         NEW h, NEW g, \A x \in Callers : g[x] \subseteq h[x] \ {q[n]},
         InArrivalOrder(q, h)
  PROVE  InArrivalOrder(r, g)
<1>1. Len(q) \in Nat /\ n \in Nat /\ n <= Len(q) /\ n >= 1
  BY LenProperties
<1> SUFFICES ASSUME NEW j \in 1..Len(r), NEW d \in g[r[j]]
             PROVE  \E i \in 1..(j - 1) : r[i] = d
  BY DEF InArrivalOrder
<1>2. r[j] \in Callers
  BY ElementOfSeq
<1>3. d \in h[r[j]] /\ d # q[n]
  BY <1>2
<1>4. CASE j < n
  <2>1. r[j] = q[j] /\ j \in 1..Len(q)
    BY <1>1, <1>4
  <2>2. PICK i \in 1..(j - 1) : q[i] = d
    BY <1>3, <2>1 DEF InArrivalOrder
  <2>3. r[i] = q[i]
    BY <1>1, <1>4
  <2> QED BY <2>2, <2>3
<1>5. CASE j >= n
  <2>1. r[j] = q[j + 1] /\ j + 1 \in 1..Len(q)
    BY <1>1, <1>5
  <2>2. PICK i \in 1..((j + 1) - 1) : q[i] = d
    BY <1>3, <2>1 DEF InArrivalOrder
  <2>3. i # n
    BY <1>3, <2>2
  <2>4. CASE i < n
    <3>1. i \in 1..(j - 1) /\ r[i] = q[i]
      BY <1>1, <1>5, <2>4
    <3> QED BY <2>2, <3>1
  <2>5. CASE i > n
    <3>1. i - 1 \in 1..(j - 1) /\ r[i - 1] = q[i]
      BY <1>1, <2>5
    <3> QED BY <2>2, <3>1
  <2> QED BY <1>1, <2>3, <2>4, <2>5
<1> QED BY <1>1, <1>4, <1>5

\* The queues of a gate keep the order of arrival through newcomers, hand-offs,
\* timeouts and aborts.
LEMMA ArrivalOrderKept ==
  ASSUME GateInv, ArrivalOrder, [GateNext]_gateVars PROVE ArrivalOrder'
<1>0. /\ ahead \in [Callers -> SUBSET Callers]
      /\ \A k \in Keys : /\ gates[k] \in Gate /\ gates[k].queue \in Seq(Callers)
                         /\ Len(gates[k].queue) \in Nat
                         /\ DOMAIN gates[k].queue = 1..Len(gates[k].queue)
                         /\ ToSet(gates[k].queue) = Waiters(k)
  BY LenProperties DEF GateInv, GateTypeOK, QueueIsWaiters, Gate
<1>1. ASSUME UNCHANGED ahead,
             \A k \in Keys : gates'[k].queue = gates[k].queue
      PROVE  ArrivalOrder'
  BY <1>1 DEF ArrivalOrder, InArrivalOrder
<1>2. ASSUME NEW c \in Callers, NEW k \in Keys, AcquireAtOnce(c, k) PROVE ArrivalOrder'
  <2>1. \A j \in Keys : gates'[j].queue = gates[j].queue
    BY <1>0, <1>2 DEF GateInv, GateTypeOK, AcquireAtOnce, TakeSlot, Gate
  <2> QED BY <1>1, <1>2, <2>1 DEF AcquireAtOnce
<1>3. ASSUME NEW c \in Callers, NEW k \in Keys, WaitForSlot(c, k) PROVE ArrivalOrder'
  <2>1. /\ gates'[k].queue = Append(gates[k].queue, c)
        /\ \A j \in Keys : j # k => gates'[j].queue = gates[j].queue
        /\ ahead' = [ahead EXCEPT ![c] = Waiters(k)]
    BY <1>0, <1>3 DEF GateInv, GateTypeOK, WaitForSlot, Enqueue, Gate
  <2>2. \A j \in Keys : \A i \in 1..Len(gates[j].queue) :
          gates[j].queue[i] \in Callers \ {c} /\ ahead'[gates[j].queue[i]] = ahead[gates[j].queue[i]]
    <3>1. \A j \in Keys : c \notin Waiters(j)
      BY <1>3 DEF WaitForSlot, Waiters
    <3> QED BY <1>0, <2>1, <3>1, ElementOfSeq DEF ToSet
  <2>3. ASSUME NEW j \in Keys PROVE InArrivalOrder(gates[j].queue, ahead')
    <3>1. InArrivalOrder(gates[j].queue, ahead)
      BY DEF ArrivalOrder
    <3>2. \A i \in 1..Len(gates[j].queue) :
            ahead'[gates[j].queue[i]] \subseteq ahead[gates[j].queue[i]]
      BY <2>2
    <3> QED BY <3>1, <3>2, OrderKept
  <2>4. InArrivalOrder(Append(gates[k].queue, c), ahead')
    <3>1. ahead'[c] = ToSet(gates[k].queue)
      BY <1>0, <2>1
    <3> QED BY <1>0, <2>3, <3>1, OrderWithNewcomer
  <2> QED BY <2>1, <2>3, <2>4 DEF ArrivalOrder
<1>4. ASSUME NEW k \in Keys, NEW n \in 1..Len(gates[k].queue), NEW r \in Seq(Callers),
             Len(r) = Len(gates[k].queue) - 1,
             \A i \in 1..(Len(gates[k].queue) - 1) :
               r[i] = IF i < n THEN gates[k].queue[i] ELSE gates[k].queue[i + 1],
             gates'[k].queue = r,
             \A j \in Keys : j # k => gates'[j] = gates[j],
             NoLongerAhead({gates[k].queue[n]})
      PROVE  ArrivalOrder'
  <2>1. \A x \in Callers : ahead'[x] \subseteq ahead[x] \ {gates[k].queue[n]}
    BY <1>4 DEF NoLongerAhead
  <2>2. InArrivalOrder(r, ahead')
    <3> DEFINE q == gates[k].queue
    <3>1. InArrivalOrder(q, ahead) /\ q \in Seq(Callers) /\ n \in 1..Len(q)
      BY <1>0 DEF ArrivalOrder
    <3>2. /\ Len(r) = Len(q) - 1
          /\ \A i \in 1..(Len(q) - 1) : r[i] = IF i < n THEN q[i] ELSE q[i + 1]
      BY <1>4
    <3>3. \A x \in Callers : ahead'[x] \subseteq ahead[x] \ {q[n]}
      BY <2>1
    <3> HIDE DEF q
    <3>4. \A h, g : (\A x \in Callers : g[x] \subseteq h[x] \ {q[n]}) /\ InArrivalOrder(q, h)
                     => InArrivalOrder(r, g)
      BY <3>1, <3>2, OrderWithout
    <3> QED BY <3>1, <3>3, <3>4
  <2>3. ASSUME NEW j \in Keys PROVE InArrivalOrder(gates[j].queue, ahead')
    <3>1. InArrivalOrder(gates[j].queue, ahead)
      BY DEF ArrivalOrder
    <3>2. \A i \in 1..Len(gates[j].queue) :
            ahead'[gates[j].queue[i]] \subseteq ahead[gates[j].queue[i]]
      BY <1>0, <2>1, ElementOfSeq
    <3> QED BY <3>1, <3>2, OrderKept
  <2> QED BY <1>4, <2>2, <2>3 DEF ArrivalOrder
<1>5. ASSUME NEW c \in Callers, LeaveQueue(c) PROVE ArrivalOrder'
  <2> DEFINE k == key[c]
             q == gates[k].queue
             n == PlaceIn(q, c)
  <2>1. k \in Keys /\ c \in ToSet(q) /\ IsInjective(q) /\ q \in Seq(Callers)
    BY <1>0, <1>5 DEF GateInv, GateTypeOK, QueueIsWaiters, LeaveQueue, Waiters
  <2>2. IsWaiting(gates[k], c)
    BY <1>0, <2>1 DEF IsWaiting, ToSet
  <2>3. /\ gates'[k].queue = CutOut(q, c)
        /\ \A j \in Keys : j # k => gates'[j] = gates[j]
    BY <1>0, <1>5, <2>1, <2>2 DEF GateInv, GateTypeOK, LeaveQueue, Withdraw, Gate
  <2>4. /\ n \in 1..Len(q) /\ q[n] = c /\ CutOut(q, c) = RemoveAt(q, n)
        /\ NoLongerAhead({q[n]})
    BY <1>5, <2>1, CutOutToSet DEF LeaveQueue
  <2>5. /\ RemoveAt(q, n) \in Seq(Callers) /\ Len(RemoveAt(q, n)) = Len(q) - 1
        /\ \A i \in 1..(Len(q) - 1) : RemoveAt(q, n)[i] = IF i < n THEN q[i] ELSE q[i + 1]
    BY <2>1, <2>4, RemoveAtElements
  <2> HIDE DEF n, k
  <2> QED BY <1>4, <2>1, <2>3, <2>4, <2>5
<1>6. ASSUME NEW c \in Callers, ReleaseSlot(c) PROVE ArrivalOrder'
  <2> DEFINE k == key[c]
             q == gates[k].queue
  <2>1. k \in Keys /\ q \in Seq(Callers) /\ gates[k] \in Gate
        /\ gates' = [gates EXCEPT ![k] = FreeSlot(gates[k])]
    BY <1>0, <1>6 DEF GateInv, GateTypeOK, ReleaseSlot
  <2>2. CASE q = <<>>
    <3>1. \A j \in Keys : gates'[j].queue = gates[j].queue
      BY <2>1, <2>2 DEF GateInv, GateTypeOK, FreeSlot, Gate
    <3>2. ahead' = ahead
      BY <1>0, <1>6, <2>2 DEF ReleaseSlot, NoLongerAhead, NextWaiters
    <3> QED BY <1>1, <3>1, <3>2
  <2>3. CASE q # <<>>
    <3>1. /\ gates'[k].queue = Tail(q) /\ \A j \in Keys : j # k => gates'[j] = gates[j]
      BY <2>1, <2>3 DEF GateInv, GateTypeOK, FreeSlot, Gate
    <3>2. /\ Tail(q) \in Seq(Callers) /\ Len(Tail(q)) = Len(q) - 1 /\ Len(q) \in Nat \ {0}
          /\ Head(q) = q[1]
          /\ \A i \in 1..(Len(q) - 1) : Tail(q)[i] = q[i + 1]
      BY <2>1, <2>3, HeadTailProperties, LenProperties, EmptySeq
    <3>3. NoLongerAhead({q[1]})
      BY <1>6, <2>3, <3>2 DEF ReleaseSlot, NextWaiters
    <3>4. 1 \in 1..Len(q)
      BY <3>2
    <3>5. \A i \in 1..(Len(q) - 1) : Tail(q)[i] = IF i < 1 THEN q[i] ELSE q[i + 1]
      BY <3>2
    <3> HIDE DEF k
    <3> QED BY <1>4, <2>1, <3>1, <3>2, <3>3, <3>4, <3>5
  <2> QED BY <2>2, <2>3
<1> QED
  BY <1>1, <1>2, <1>3, <1>5, <1>6
  DEF GateNext, Bypass, FinishBypassed, SetLimit, gateVars

\* Slots are handed over in the order in which the waiters came, whoever leaves
\* from the middle of a queue.
THEOREM GateHandsOffInOrder == GateSpec => HandOffInOrder
<1>1. GateInit => ArrivalOrder
  BY DEF GateInit, ArrivalOrder, InArrivalOrder, EmptyGate
<1>2. GateInv /\ ArrivalOrder /\ [GateNext]_gateVars => ArrivalOrder'
  BY ArrivalOrderKept
<1>3. GateInv /\ ArrivalOrder /\ [GateNext]_gateVars => [ServesTheFirst]_gateVars
  <2> SUFFICES ASSUME GateInv, ArrivalOrder, [GateNext]_gateVars PROVE ServesTheFirst
    OBVIOUS
  <2>1. ASSUME NEW c \in Callers, ReleaseSlot(c) PROVE ServesTheFirst
    <3> SUFFICES ASSUME NEW d \in Callers, place[d] = "waiting", place'[d] = "holding"
                 PROVE  ahead[d] = {}
      BY DEF ServesTheFirst
    <3> DEFINE q == gates[key[c]].queue
    <3>1. d # c /\ d \in NextWaiters(gates[key[c]])
      BY <2>1 DEF ReleaseSlot
    <3>2. q # <<>> /\ d = Head(q)
      BY <3>1 DEF NextWaiters
    <3>3. key[c] \in Keys /\ q \in Seq(Callers)
      BY DEF GateInv, GateTypeOK, Gate
    <3>4. Len(q) \in Nat \ {0} /\ d = q[1]
      BY <3>2, <3>3, HeadTailProperties, LenProperties, EmptySeq
    <3>5. 1 \in 1..Len(q) /\ 1..(1 - 1) = {}
      BY <3>4
    <3>6. InArrivalOrder(q, ahead)
      BY <3>3 DEF ArrivalOrder
    <3> HIDE DEF q
    <3> QED BY <3>4, <3>5, <3>6 DEF InArrivalOrder
  <2> QED
    BY <2>1 DEF GateNext, Bypass, AcquireAtOnce, WaitForSlot, LeaveQueue, FinishBypassed,
                SetLimit, gateVars, ServesTheFirst, GateInv, GateTypeOK
<1> QED BY GateInvariant, <1>1, <1>2, <1>3, PTL DEF GateSpec, HandOffInOrder

-----------------------------------------------------------------------------
(* PayloadAdmission.                                                       *)

\* The inductive invariant.  The ledger cannot be known to be settled without
\* knowing whom its queue holds, and a blocked head implies a lease to wait for
\* only because a request that could never fit is refused before it queues.
Waiting == {c \in Callers : phase[c] = "waiting"}
QueueIsWaiting == IsInjective(ledger.queue) /\ ToSet(ledger.queue) = Waiting
WaitersCanFit == \A c \in Waiting : ~ TooLarge(c)

IInv ==
  /\ TypeOK
  /\ Accounts(ledger, Holders)
  /\ Budgeted(ledger)
  /\ Blocked(ledger)
  /\ QueueIsWaiting
  /\ WaitersCanFit

LEMMA InitPayload == Init => IInv
<1> SUFFICES ASSUME Init PROVE IInv
  OBVIOUS
<1>1. ledger = EmptyLedger /\ phase = [c \in Callers |-> "idle"]
  BY DEF Init
<1>2. Holders = {} /\ Waiting = {}
  BY <1>1 DEF Holders, Waiting
<1>3. TypeOK
  BY <1>1, EmptyLedgerFacts DEF TypeOK, Phases
<1> QED BY <1>1, <1>2, <1>3, EmptyLedgerFacts DEF IInv, QueueIsWaiting, WaitersCanFit

\* A request leaves the queue, or returns its lease, and the rest is drained.
LEMMA DrainStep ==
  ASSUME IInv, NEW led \in Ledger, NEW c \in Callers, NEW p \in {"idle", "rejected"},
         IsInjective(led.queue), ToSet(led.queue) = Waiting \ {c},
         Accounts(led, Holders \ {c}), Budgeted(led), DrainInto(led, c, p)
  PROVE  IInv'
<1> DEFINE G == DrainGrants(led)
           H == Holders \ {c}
<1>1. /\ ledger' = Drain(led)
      /\ phase' = [d \in Callers |-> IF d \in G THEN "holding"
                                     ELSE IF d = c THEN p ELSE phase[d]]
  BY DEF DrainInto
<1>2. phase \in [Callers -> Phases] /\ H \in SUBSET Callers
  BY DEF IInv, TypeOK, Holders
<1>3. H \cap ToSet(led.queue) = {}
  BY DEF Holders, Waiting
<1>4. /\ ledger' \in Ledger /\ IsInjective(ledger'.queue)
      /\ ToSet(ledger'.queue) \subseteq Waiting \ {c}
      /\ G = (Waiting \ {c}) \ ToSet(ledger'.queue)
      /\ Accounts(ledger', H \cup G) /\ Budgeted(ledger') /\ Blocked(ledger')
  BY <1>1, <1>2, <1>3, DrainFacts
<1> HIDE DEF G
<1>5. Holders' = H \cup G
  BY <1>1, <1>2, <1>4 DEF Holders, Waiting
<1>6. Waiting' = ToSet(ledger'.queue)
  BY <1>1, <1>2, <1>4 DEF Waiting
<1>7. TypeOK'
  BY <1>1, <1>2, <1>4 DEF TypeOK, Phases
<1>8. WaitersCanFit'
  <2>1. Waiting' \subseteq Waiting
    BY <1>4, <1>6
  <2> QED BY <2>1 DEF WaitersCanFit, IInv, TooLarge
<1> QED BY <1>4, <1>5, <1>6, <1>7, <1>8 DEF IInv, QueueIsWaiting, Accounts, Budgeted, Blocked, Fits

\* What a queued request leaves behind when it takes itself out.
LEMMA LeftQueue ==
  ASSUME IInv, NEW c \in Waiting
  PROVE  /\ Without(ledger, c) \in Ledger
         /\ Without(ledger, c).queue = CutOut(ledger.queue, c)
         /\ IsInjective(Without(ledger, c).queue)
         /\ ToSet(Without(ledger, c).queue) = Waiting \ {c}
         /\ Accounts(Without(ledger, c), Holders) /\ Budgeted(Without(ledger, c))
<1> DEFINE q == ledger.queue
<1>1. q \in Seq(Callers) /\ ledger \in Ledger /\ IsInjective(q) /\ ToSet(q) = Waiting
  BY DEF IInv, TypeOK, Ledger, QueueIsWaiting
<1>2. /\ CutOut(q, c) \in Seq(Callers) /\ IsInjective(CutOut(q, c))
      /\ ToSet(CutOut(q, c)) = Waiting \ {c}
  BY <1>1, CutOutToSet
<1>3. /\ Without(ledger, c) \in Ledger /\ Without(ledger, c).queue = CutOut(q, c)
      /\ Without(ledger, c).bytes = ledger.bytes
      /\ Without(ledger, c).streams = ledger.streams
      /\ Without(ledger, c).requests = ledger.requests
  BY <1>1, <1>2 DEF Ledger, Without
<1>4. Accounts(Without(ledger, c), Holders) /\ Budgeted(Without(ledger, c))
  BY <1>3 DEF IInv, Accounts, Budgeted
<1> QED BY <1>2, <1>3, <1>4

LEMMA StepPayload == IInv /\ [Next]_vars => IInv'
<1> SUFFICES ASSUME IInv, [Next]_vars PROVE IInv'
  OBVIOUS
<1>0. /\ ledger \in Ledger /\ phase \in [Callers -> Phases]
      /\ Holders \in SUBSET Callers /\ Waiting \in SUBSET Callers
      /\ Accounts(ledger, Holders) /\ Budgeted(ledger) /\ Blocked(ledger)
      /\ IsInjective(ledger.queue) /\ ToSet(ledger.queue) = Waiting
      /\ ledger.queue \in Seq(Callers)
  BY DEF IInv, TypeOK, Holders, Waiting, QueueIsWaiting, Ledger
<1> DEFINE Quiet == UNCHANGED <<ledger, Holders, Waiting>>
<1>1. ASSUME Quiet, phase' \in [Callers -> Phases] PROVE IInv'
  BY <1>0, <1>1 DEF IInv, TypeOK, QueueIsWaiting, WaitersCanFit, Accounts, Budgeted, Blocked, Fits, TooLarge
<1>2. ASSUME NEW c \in Callers, RejectTooLarge(c) \/ Shed(c) \/ AskAgain(c) PROVE IInv'
  <2>1. \E p \in {"idle", "rejected"} :
          /\ phase' = [phase EXCEPT ![c] = p] /\ phase[c] \in {"idle", "rejected"}
          /\ UNCHANGED ledger
    BY <1>2 DEF RejectTooLarge, Shed, AskAgain, MustQueue, Settle
  <2> QED BY <1>0, <1>1, <2>1 DEF Holders, Waiting, Phases
<1>3. ASSUME NEW c \in Callers, AdmitAtOnce(c) PROVE IInv'
  <2>1. /\ phase[c] = "idle" /\ Fits(ledger, c) /\ ledger.queue = <<>>
        /\ ledger' = Allocate(ledger, c) /\ phase' = [phase EXCEPT ![c] = "holding"]
    BY <1>3 DEF AdmitAtOnce, Settle
  <2>2. c \in Callers \ Holders /\ Holders' = Holders \cup {c} /\ Waiting' = Waiting
    BY <1>0, <2>1 DEF Holders, Waiting
  <2>3. /\ ledger' \in Ledger /\ ledger'.queue = ledger.queue
        /\ Accounts(ledger', Holders \cup {c}) /\ Budgeted(ledger')
    BY <1>0, <2>1, <2>2, AllocateAccounts
  <2>4. TypeOK'
    BY <1>0, <2>1, <2>3 DEF TypeOK, Phases
  <2> QED BY <1>0, <2>1, <2>2, <2>3, <2>4
          DEF IInv, QueueIsWaiting, WaitersCanFit, Accounts, Budgeted, Blocked, TooLarge
<1>4. ASSUME NEW c \in Callers, StartWaiting(c) PROVE IInv'
  <2>1. /\ phase[c] = "idle" /\ ~ TooLarge(c)
        /\ ledger.queue # <<>> \/ ~ Fits(ledger, c)
        /\ ledger' = [ledger EXCEPT !.queue = Append(ledger.queue, c)]
        /\ phase' = [phase EXCEPT ![c] = "waiting"]
    BY <1>4 DEF StartWaiting, MustQueue, Settle
  <2>2. c \notin Waiting /\ Waiting' = Waiting \cup {c} /\ Holders' = Holders
    BY <1>0, <2>1 DEF Holders, Waiting
  <2>3. /\ Append(ledger.queue, c) \in Seq(Callers)
        /\ ToSet(Append(ledger.queue, c)) = Waiting \cup {c}
        /\ IsInjective(Append(ledger.queue, c))
    BY <1>0, <2>2, AppendToSet
  <2>4. /\ ledger' \in Ledger /\ ledger'.queue = Append(ledger.queue, c)
        /\ ledger'.bytes = ledger.bytes /\ ledger'.streams = ledger.streams
        /\ ledger'.requests = ledger.requests
    BY <1>0, <2>1, <2>3 DEF Ledger
  <2>5. Blocked(ledger')
    <3>1. CASE ledger.queue = <<>>
      <4>1. Head(Append(ledger.queue, c)) = c
        BY <3>1
      <4> QED BY <2>1, <2>4, <3>1, <4>1 DEF Blocked, Fits
    <3>2. CASE ledger.queue # <<>>
      <4>1. Head(Append(ledger.queue, c)) = Head(ledger.queue)
        BY <1>0, <3>2
      <4> QED BY <1>0, <2>4, <3>2, <4>1 DEF Blocked, Fits
    <3> QED BY <3>1, <3>2
  <2>6. TypeOK'
    BY <1>0, <2>1, <2>4 DEF TypeOK, Phases
  <2> QED BY <1>0, <2>1, <2>2, <2>3, <2>4, <2>5, <2>6
          DEF IInv, QueueIsWaiting, WaitersCanFit, Accounts, Budgeted, Blocked, Fits, TooLarge
<1>5. ASSUME NEW c \in Callers, GiveUp(c) PROVE IInv'
  <2>1. c \in Waiting /\ DrainInto(Without(ledger, c), c, "rejected")
    BY <1>5 DEF GiveUp, Waiting
  <2>2. /\ Without(ledger, c) \in Ledger /\ IsInjective(Without(ledger, c).queue)
        /\ ToSet(Without(ledger, c).queue) = Waiting \ {c}
        /\ Accounts(Without(ledger, c), Holders) /\ Budgeted(Without(ledger, c))
    BY <2>1, LeftQueue
  <2>3. Holders \ {c} = Holders
    BY <2>1 DEF Waiting, Holders
  <2> QED BY <2>1, <2>2, <2>3, DrainStep
<1>6. ASSUME NEW c \in Callers, Release(c) PROVE IInv'
  <2>1. c \in Holders /\ DrainInto(Deallocate(ledger, c), c, "idle")
    BY <1>6 DEF Release, Holders
  <2>2. Waiting \ {c} = Waiting
    BY <2>1 DEF Waiting, Holders
  <2>3. /\ Deallocate(ledger, c) \in Ledger /\ Deallocate(ledger, c).queue = ledger.queue
        /\ Accounts(Deallocate(ledger, c), Holders \ {c}) /\ Budgeted(Deallocate(ledger, c))
    BY <1>0, <2>1, DeallocateAccounts
  <2> QED BY <1>0, <2>1, <2>2, <2>3, DrainStep
<1>7. CASE UNCHANGED vars
  BY <1>0, <1>1, <1>7 DEF vars, Holders, Waiting
<1> QED BY <1>2, <1>3, <1>4, <1>5, <1>6, <1>7 DEF Next

-----------------------------------------------------------------------------
\* Every reachable ledger adds up, keeps its budget and is settled.
THEOREM PayloadInvariant == FairSpec => []IInv
BY InitPayload, StepPayload, PTL DEF FairSpec

\* Types: the counters stay natural numbers, and queue and phases keep their shape.
THEOREM PayloadTypes == FairSpec => []TypeOK
<1>1. IInv => TypeOK
  BY DEF IInv
<1> QED BY PayloadInvariant, <1>1, PTL

\* For any requests and any limits: bytes, streams and requests counted are those
\* of the leases that are out, after any order of releases, aborts and drains.
THEOREM PayloadConserved == FairSpec => []LedgerConserved
<1>1. IInv => LedgerConserved
  BY DEF IInv, Accounts, Streams, LedgerConserved
<1> QED BY PayloadInvariant, <1>1, PTL

\* No drain, however many waiters it admits, overdraws the bytes or the streams.
THEOREM PayloadWithinBudget == FairSpec => []WithinBudget
<1>1. IInv => WithinBudget
  BY DEF IInv, Budgeted, WithinBudget
<1> QED BY PayloadInvariant, <1>1, PTL

\* A queue is never left with a head that fits, nor without a lease whose release
\* will drain it.
THEOREM PayloadHeadIsBlocked == FairSpec => []HeadIsBlocked
<1>1. IInv => HeadIsBlocked
  <2> SUFFICES ASSUME IInv, ledger.queue # <<>>
               PROVE  ~ Fits(ledger, Head(ledger.queue)) /\ ledger.requests > 0
    BY DEF HeadIsBlocked
  <2> DEFINE c == Head(ledger.queue)
  <2>1. /\ ledger \in Ledger /\ ledger.queue \in Seq(Callers) /\ Holders \in SUBSET Callers
        /\ ~ Fits(ledger, c) /\ Accounts(ledger, Holders)
    BY DEF IInv, TypeOK, Ledger, Holders, Blocked
  <2>2. c \in Callers /\ ~ TooLarge(c)
    BY <2>1, TailToSet DEF IInv, QueueIsWaiting, WaitersCanFit, Waiting
  <2> HIDE DEF c
  <2>3. Holders # {}
    <3> SUFFICES ASSUME Holders = {} PROVE FALSE
      OBVIOUS
    <3>1. Streams({}) = {}
      BY DEF Streams
    <3>2. ledger.bytes = 0 /\ ledger.streams = 0
      BY <2>1, <3>1, SumOfNone, FS_EmptySet DEF Accounts
    <3>3. /\ {MaxPayloadBytes, MaxSinglePayloadBytes, MaxHeldStreams} \subseteq Nat \ {0}
          /\ Bytes[c] \in Nat
      BY <2>2, PayloadAssumption
    <3> QED BY <2>1, <2>2, <3>2, <3>3 DEF Fits, TooLarge
  <2>4. ledger.requests \in Nat /\ ledger.requests # 0
    BY <2>1, <2>3, BytesFacts, FS_EmptySet DEF Accounts, Ledger
  <2> QED BY <2>1, <2>4 DEF c
<1> QED BY PayloadInvariant, <1>1, PTL

\* Of two entries of the queue, the later one is not let in by a drain that
\* leaves the earlier one waiting, also when a third has just left the queue.
LEMMA DrainInOrder ==
  ASSUME IInv, NEW led \in Ledger, NEW c \in Callers, NEW p,
         IsInjective(led.queue), ToSet(led.queue) = Waiting \ {c},
         Accounts(led, Holders \ {c}), Budgeted(led), DrainInto(led, c, p),
         p \in {"idle", "rejected"},
         \A i, k \in 1..Len(ledger.queue) :
           i < k /\ ledger.queue[i] # c /\ ledger.queue[k] # c =>
             \E a, b \in 1..Len(led.queue) :
               a < b /\ led.queue[a] = ledger.queue[i] /\ led.queue[b] = ledger.queue[k]
  PROVE  AdmitsInOrder
<1> DEFINE q == ledger.queue
           G == DrainGrants(led)
           rest == Drain(led).queue
<1>1. /\ phase \in [Callers -> Phases] /\ q \in Seq(Callers) /\ Holders \ {c} \in SUBSET Callers
      /\ ToSet(q) = Waiting /\ Len(q) \in Nat /\ DOMAIN q = 1..Len(q)
  BY LenProperties DEF IInv, TypeOK, Ledger, Holders, QueueIsWaiting
<1>2. phase' = [d \in Callers |-> IF d \in G THEN "holding" ELSE IF d = c THEN p ELSE phase[d]]
  BY DEF DrainInto
<1>3. (Holders \ {c}) \cap ToSet(led.queue) = {}
  BY DEF Holders, Waiting
<1>4. /\ G = ToSet(led.queue) \ ToSet(rest)
      /\ \A i, j \in 1..Len(led.queue) :
           i < j /\ led.queue[i] \in ToSet(rest) => led.queue[j] \in ToSet(rest)
  BY <1>1, <1>3, DrainFacts
<1> HIDE DEF G, rest
<1> SUFFICES ASSUME NEW d \in Callers, phase[d] # "holding", phase'[d] = "holding",
                    NEW i \in 1..Len(q), \A j \in 1..i : q[j] # d,
                    phase'[q[i]] = "waiting"
             PROVE  FALSE
  BY DEF AdmitsInOrder
<1>5. d \in G /\ d \in Waiting /\ d # c
  BY <1>1, <1>2, <1>4
<1>6. q[i] \in Waiting /\ q[i] \in Callers /\ q[i] # c /\ q[i] \notin G
  <2>1. q[i] \in Waiting /\ q[i] \in Callers
    BY <1>1 DEF ToSet, Waiting
  <2> QED BY <1>2, <2>1
<1>7. PICK k \in 1..Len(q) : q[k] = d
  BY <1>1, <1>5 DEF ToSet
<1>8. i < k
  BY <1>1, <1>7
<1>9. PICK a, b \in 1..Len(led.queue) :
        a < b /\ led.queue[a] = q[i] /\ led.queue[b] = d
  BY <1>5, <1>6, <1>7, <1>8
<1>10. q[i] \in ToSet(rest)
  BY <1>4, <1>6
<1>11. d \in ToSet(rest)
  BY <1>4, <1>9, <1>10
<1> QED BY <1>4, <1>5, <1>11

\* First come, first served, for any sizes: nobody is admitted while someone who
\* queued earlier is left waiting.
THEOREM PayloadInOrder == FairSpec => NoOvertaking
<1>1. IInv /\ [Next]_vars => [AdmitsInOrder]_vars
  <2> SUFFICES ASSUME IInv, Next PROVE AdmitsInOrder
    OBVIOUS
  <2>0. /\ ledger \in Ledger /\ phase \in [Callers -> Phases] /\ Holders \in SUBSET Callers
        /\ Accounts(ledger, Holders) /\ Budgeted(ledger)
        /\ IsInjective(ledger.queue) /\ ToSet(ledger.queue) = Waiting
        /\ ledger.queue \in Seq(Callers) /\ Len(ledger.queue) \in Nat
    BY LenProperties DEF IInv, TypeOK, Holders, QueueIsWaiting, Ledger
  <2>1. ASSUME NEW c \in Callers,
               RejectTooLarge(c) \/ Shed(c) \/ AskAgain(c) \/ StartWaiting(c)
        PROVE  AdmitsInOrder
    <3>1. \A d \in Callers : phase'[d] = "holding" => phase[d] = "holding"
      BY <2>0, <2>1 DEF RejectTooLarge, Shed, AskAgain, StartWaiting, MustQueue, Settle
    <3> QED BY <3>1 DEF AdmitsInOrder
  <2>2. ASSUME NEW c \in Callers, AdmitAtOnce(c) PROVE AdmitsInOrder
    <3>1. Len(ledger.queue) = 0
      BY <2>0, <2>2 DEF AdmitAtOnce
    <3> QED BY <3>1 DEF AdmitsInOrder
  <2>3. ASSUME NEW c \in Callers, GiveUp(c) PROVE AdmitsInOrder
    <3> DEFINE q == ledger.queue
               n == PlaceIn(q, c)
               r == Without(ledger, c).queue
    <3>1. c \in Waiting /\ DrainInto(Without(ledger, c), c, "rejected")
      BY <2>3 DEF GiveUp, Waiting
    <3>2. /\ Without(ledger, c) \in Ledger /\ IsInjective(r) /\ ToSet(r) = Waiting \ {c}
          /\ Accounts(Without(ledger, c), Holders) /\ Budgeted(Without(ledger, c))
          /\ n \in 1..Len(q) /\ q[n] = c /\ r = RemoveAt(q, n)
      <4>1. q \in Seq(Callers) /\ IsInjective(q) /\ c \in ToSet(q)
        BY <2>0, <3>1
      <4> HIDE DEF q
      <4> QED BY <3>1, <4>1, LeftQueue, CutOutToSet DEF q
    <3>3. Holders \ {c} = Holders
      BY <3>1 DEF Waiting, Holders
    <3>4. /\ Len(r) = Len(q) - 1
          /\ \A i \in 1..(Len(q) - 1) : r[i] = IF i < n THEN q[i] ELSE q[i + 1]
      <4>1. q \in Seq(Callers) /\ n \in 1..Len(q) /\ r = RemoveAt(q, n)
        BY <2>0, <3>2
      <4> HIDE DEF q, n, r
      <4> QED BY <4>1, RemoveAtElements
    <3> HIDE DEF n, r
    <3> DEFINE at(i) == IF i < n THEN i ELSE i - 1
    <3>5. ASSUME NEW i \in 1..Len(q), q[i] # c
          PROVE  at(i) \in 1..Len(r) /\ r[at(i)] = q[i]
      <4>1. i # n
        BY <3>2, <3>5
      <4>2. CASE i < n
        <5>1. i \in 1..(Len(q) - 1) /\ at(i) = i
          BY <2>0, <3>2, <4>2
        <5>2. r[i] = q[i]
          BY <3>4, <4>2, <5>1
        <5> QED BY <3>4, <5>1, <5>2
      <4>3. CASE i > n
        <5>1. /\ i - 1 \in 1..(Len(q) - 1) /\ ~ (i - 1 < n) /\ (i - 1) + 1 = i
              /\ at(i) = i - 1
          BY <2>0, <3>2, <4>3
        <5>2. r[i - 1] = q[i]
          BY <3>4, <5>1
        <5> QED BY <3>4, <5>1, <5>2
      <4>4. i < n \/ i > n
        BY <3>2, <4>1
      <4> QED BY <4>2, <4>3, <4>4
    <3>6. ASSUME NEW i \in 1..Len(q), NEW k \in 1..Len(q), i < k, q[i] # c, q[k] # c
          PROVE  \E a, b \in 1..Len(r) : a < b /\ r[a] = q[i] /\ r[b] = q[k]
      <4>1. at(i) < at(k)
        <5>1. i # n /\ k # n
          BY <3>2, <3>6
        <5> QED BY <2>0, <3>2, <3>6, <5>1
      <4> QED BY <3>5, <3>6, <4>1
    <3> QED BY <3>1, <3>2, <3>3, <3>6, DrainInOrder DEF r
  <2>4. ASSUME NEW c \in Callers, Release(c) PROVE AdmitsInOrder
    <3>1. c \in Holders /\ DrainInto(Deallocate(ledger, c), c, "idle")
      BY <2>4 DEF Release, Holders
    <3>2. Waiting \ {c} = Waiting
      BY <3>1 DEF Waiting, Holders
    <3>3. /\ Deallocate(ledger, c) \in Ledger /\ Deallocate(ledger, c).queue = ledger.queue
          /\ Accounts(Deallocate(ledger, c), Holders \ {c}) /\ Budgeted(Deallocate(ledger, c))
      BY <2>0, <3>1, DeallocateAccounts
    <3> QED BY <2>0, <3>1, <3>2, <3>3, DrainInOrder
  <2> QED BY <2>1, <2>2, <2>3, <2>4 DEF Next
<1> QED BY PayloadInvariant, <1>1, PTL DEF FairSpec, NoOvertaking

=============================================================================
