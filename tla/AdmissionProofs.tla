--------------------------- MODULE AdmissionProofs ---------------------------
(***************************************************************************)
(* Proofs about the admission path, for any requests, providers and limits *)
(* of positive or no size: slots and leases are conserved through every    *)
(* abort, timer and hand-off, a request that is over holds nothing, a      *)
(* request runs only with all it asked for, and the requests upstream are  *)
(* together within every limit.                                            *)
(***************************************************************************)
EXTENDS Admission, AdmissionLemmas

\* The inductive invariant.  A slot can only be followed through the gap between
\* the resolution of a promise and its continuation by tying where a request is
\* to what it owns there.
Leases == {r \in Callers : lease[r]}
PayloadWaiters == {r \in Callers : pc[r] = "payloadWait"}
SlotWaiters(k) == {r \in Callers : pc[r] = "slotWait" /\ KeyAt(r) = k}
Owners(k) == {r \in Callers : k \in Owned(r)}

\* The limited tiers of r before tier t.
LimitedBelow(r, t) == {Tiers(r)[i] : i \in {j \in 1..2 : j < t /\ Limit[Tiers(r)[j]] > 0}}

LedgerInv ==
  /\ Accounts(ledger, Leases)
  /\ Budgeted(ledger)
  /\ IsInjective(ledger.queue)
  /\ ToSet(ledger.queue) = PayloadWaiters

GateInv(k) ==
  /\ IsInjective(gates[k].queue)
  /\ ToSet(gates[k].queue) = SlotWaiters(k)
  /\ gates[k].current = Cardinality(Owners(k))
  /\ Limit[k] > 0 => gates[k].current <= Limit[k]

Admitted == {"payloadReady", "slotWait", "slotReady", "returned", "running"}

PlaceInv(r) ==
  /\ pc[r] \in {"idle", "entering", "payloadWait", "done"} => acquired[r] = {} /\ ~lease[r]
  /\ pc[r] = "payloadReady" => acquired[r] = {}
  /\ pc[r] \in {"slotWait", "slotReady"} =>
       Limit[KeyAt(r)] > 0 /\ acquired[r] = LimitedBelow(r, tier[r])
  /\ pc[r] \in {"returned", "running"} => acquired[r] = LimitedBelow(r, 3)
  /\ pc[r] \in Admitted /\ ~aborted[r] => lease[r]
  /\ pc[r] \in {"payloadWait", "running"} => ~aborted[r]
  /\ aborted[r] => ~lease[r]
  /\ pc[r] = "payloadWait" \/ lease[r] => ~TooLarge(r)

IInv ==
  /\ TypeOK
  /\ LedgerInv
  /\ \A k \in Keys : GateInv(k)
  /\ \A r \in Callers : PlaceInv(r)

Gate == [current : Nat, queue : Seq(Callers)]

\* r moves to p; another request moves only from one wait to the next.
Between == PCs \ {"idle", "running", "done"}
Moves(r, p) ==
  /\ pc'[r] = p
  /\ \A q \in Callers \ {r} : pc'[q] = pc[q] \/ {pc[q], pc'[q]} \subseteq Between

LEMMA TierFacts ==
  ASSUME NEW r \in Callers
  PROVE  /\ Tiers(r)[1] \in Keys /\ Tiers(r)[2] \in Keys /\ Tiers(r)[1] # Tiers(r)[2]
         /\ Tiers(r)[1] = Global /\ Tiers(r)[2] = ProviderOf[r]
         /\ \A k \in Keys : Limit[k] \in Nat
BY AdmissionAssumption DEF Tiers, Keys

LEMMA BelowFacts ==
  ASSUME NEW r \in Callers
  PROVE  /\ LimitedBelow(r, 1) = {}
         /\ LimitedBelow(r, 2) = {k \in {Tiers(r)[1]} : Limit[k] > 0}
         /\ LimitedBelow(r, 3) = {k \in {Tiers(r)[1], Tiers(r)[2]} : Limit[k] > 0}
<1>1. {j \in 1..2 : j < 1 /\ Limit[Tiers(r)[j]] > 0} = {}
  OBVIOUS
<1>2. {j \in 1..2 : j < 2 /\ Limit[Tiers(r)[j]] > 0} = {j \in {1} : Limit[Tiers(r)[j]] > 0}
  OBVIOUS
<1>3. {j \in 1..2 : j < 3 /\ Limit[Tiers(r)[j]] > 0} = {j \in {1, 2} : Limit[Tiers(r)[j]] > 0}
  OBVIOUS
<1> QED BY <1>1, <1>2, <1>3 DEF LimitedBelow

\* A request owns keys, and never the key it is waiting for.
LEMMA OwnedFacts ==
  ASSUME IInv, NEW r \in Callers
  PROVE  /\ KeyAt(r) \in Keys
         /\ Owned(r) \in SUBSET Keys
         /\ pc[r] \in {"slotWait", "slotReady"} => KeyAt(r) \notin acquired[r]
<1>1. tier[r] \in 1..2 /\ acquired[r] \in SUBSET Keys /\ PlaceInv(r)
  BY DEF IInv, TypeOK
<1>2. KeyAt(r) \in Keys
  BY <1>1, TierFacts DEF KeyAt
<1>3. ASSUME pc[r] \in {"slotWait", "slotReady"} PROVE KeyAt(r) \notin acquired[r]
  <2>1. CASE tier[r] = 1
    BY <1>1, <1>3, <2>1, BelowFacts DEF PlaceInv
  <2>2. CASE tier[r] = 2
    BY <1>1, <1>3, <2>2, BelowFacts, TierFacts DEF PlaceInv, KeyAt
  <2> QED BY <1>1, <2>1, <2>2
<1> QED BY <1>1, <1>2, <1>3 DEF Owned, PushKey

LEMMA OwnersFinite ==
  ASSUME NEW S \in SUBSET Callers
  PROVE  IsFiniteSet(S) /\ Cardinality(S) \in Nat
BY CallersAssumption, FS_Subset, FS_CardinalityType

LEMMA InitAdmission == Init => IInv
<1> SUFFICES ASSUME Init PROVE IInv
  OBVIOUS
<1>1. /\ gates = [k \in Keys |-> EmptyGate] /\ ledger = EmptyLedger
      /\ \A r \in Callers : /\ pc[r] = "idle" /\ tier[r] = 1 /\ acquired[r] = {}
                            /\ lease[r] = FALSE /\ aborted[r] = FALSE
  BY DEF Init
<1>2. Leases = {} /\ PayloadWaiters = {}
  BY <1>1 DEF Leases, PayloadWaiters
<1>3. /\ EmptyLedger \in Ledger /\ IsInjective(EmptyLedger.queue) /\ ToSet(EmptyLedger.queue) = {}
      /\ Accounts(EmptyLedger, {}) /\ Budgeted(EmptyLedger)
  BY EmptyLedgerFacts
<1>4. TypeOK
  <2>1. EmptyGate \in Gate
    BY DEF EmptyGate, Gate
  <2> QED BY <1>3, <2>1 DEF Init, TypeOK, PCs, Gate
<1>5. ASSUME NEW k \in Keys PROVE GateInv(k)
  <2>1. SlotWaiters(k) = {} /\ Owners(k) = {}
    BY <1>1 DEF SlotWaiters, Owners, Owned
  <2>2. /\ gates[k].queue = <<>> /\ gates[k].current = 0
    BY <1>1 DEF EmptyGate
  <2>3. IsInjective(<<>>) /\ ToSet(<<>>) = {}
    BY DEF IsInjective, ToSet
  <2>4. Limit[k] > 0 => 0 <= Limit[k]
    BY AdmissionAssumption DEF Keys
  <2> QED BY <2>1, <2>2, <2>3, <2>4, FS_EmptySet DEF GateInv
<1>6. ASSUME NEW r \in Callers PROVE PlaceInv(r)
  BY <1>1 DEF PlaceInv, Admitted
<1> QED BY <1>1, <1>2, <1>3, <1>4, <1>5, <1>6 DEF IInv, LedgerInv

-----------------------------------------------------------------------------
\* The ledger after r has left it, drained: those let in were waiting for it.
LEMMA FreeLedger ==
  ASSUME IInv, NEW r \in Callers, NEW p \in PCs \ {"payloadWait"}, NEW gts,
         NEW led \in Ledger, IsInjective(led.queue), ToSet(led.queue) = PayloadWaiters \ {r},
         Accounts(led, Leases \ {r}), Budgeted(led),
         NEW slotted \in SUBSET Callers, slotted \cap PayloadWaiters = {}, r \notin slotted,
         Free(r, p, led, gts, slotted)
  PROVE  \E leased \in SUBSET (PayloadWaiters \ {r}) :
           /\ ledger' \in Ledger /\ LedgerInv' /\ gates' = gts
           /\ pc' \in [Callers -> PCs] /\ lease' \in [Callers -> BOOLEAN]
           /\ \A q \in Callers :
                /\ pc'[q] = IF q \in leased THEN "payloadReady"
                            ELSE IF q \in slotted THEN "slotReady"
                            ELSE IF q = r THEN p ELSE pc[q]
                /\ lease'[q] = (q \in leased \/ (q # r /\ lease[q]))
<1> DEFINE G == DrainGrants(led)
           H == Leases \ {r}
<1>1. /\ pc \in [Callers -> PCs] /\ lease \in [Callers -> BOOLEAN]
      /\ Leases \in SUBSET Callers /\ H \in SUBSET Callers /\ PayloadWaiters \in SUBSET Callers
  BY DEF IInv, TypeOK, Leases, PayloadWaiters
<1>2. H \cap ToSet(led.queue) = {}
  BY DEF Leases, PayloadWaiters, IInv, PlaceInv
<1>3. /\ ledger' = Drain(led) /\ gates' = gts
      /\ lease' = [q \in Callers |-> q \in G \/ (q # r /\ lease[q])]
      /\ pc' = [q \in Callers |-> CASE q \in G       -> "payloadReady"
                                    [] q \in slotted -> "slotReady"
                                    [] q = r         -> p
                                    [] OTHER         -> pc[q]]
  BY DEF Free, Deliver
<1>4. /\ ledger' \in Ledger /\ IsInjective(ledger'.queue)
      /\ ToSet(ledger'.queue) \subseteq PayloadWaiters \ {r}
      /\ G = (PayloadWaiters \ {r}) \ ToSet(ledger'.queue)
      /\ Accounts(ledger', H \cup G) /\ Budgeted(ledger')
  BY <1>1, <1>2, <1>3, DrainFacts
<1> HIDE DEF G
<1>5. G \in SUBSET (PayloadWaiters \ {r}) /\ G \cap slotted = {}
  BY <1>4
<1>6. \A q \in Callers :
        /\ pc'[q] = IF q \in G THEN "payloadReady"
                    ELSE IF q \in slotted THEN "slotReady"
                    ELSE IF q = r THEN p ELSE pc[q]
        /\ lease'[q] = (q \in G \/ (q # r /\ lease[q]))
  BY <1>3, <1>5
<1>7. pc' \in [Callers -> PCs] /\ lease' \in [Callers -> BOOLEAN]
  <2>1. \A q \in Callers : pc'[q] \in PCs
    BY <1>1, <1>6 DEF PCs
  <2>2. \A q \in Callers : lease'[q] \in BOOLEAN
    BY <1>1, <1>6
  <2> QED BY <1>3, <2>1, <2>2
<1>8. Leases' = H \cup G
  BY <1>1, <1>4, <1>6 DEF Leases
<1>9. PayloadWaiters' = ToSet(ledger'.queue)
  BY <1>1, <1>4, <1>6 DEF PayloadWaiters
<1>10. LedgerInv'
  BY <1>4, <1>8, <1>9 DEF LedgerInv, Accounts, Budgeted
<1> QED BY <1>3, <1>4, <1>5, <1>6, <1>7, <1>10

\* The lease that r still has, if any, is returned.
LEMMA ReturnedLedger ==
  ASSUME IInv, NEW r \in Callers, r \notin PayloadWaiters
  PROVE  /\ Returned(r) \in Ledger /\ IsInjective(Returned(r).queue)
         /\ ToSet(Returned(r).queue) = PayloadWaiters \ {r}
         /\ Accounts(Returned(r), Leases \ {r}) /\ Budgeted(Returned(r))
<1>1. /\ ledger \in Ledger /\ Leases \in SUBSET Callers /\ Accounts(ledger, Leases)
      /\ Budgeted(ledger) /\ IsInjective(ledger.queue) /\ ToSet(ledger.queue) = PayloadWaiters
      /\ PayloadWaiters \ {r} = PayloadWaiters
  BY DEF IInv, TypeOK, LedgerInv, Leases
<1>2. CASE r \in Leases
  <2>1. Returned(r) = Deallocate(ledger, r)
    BY <1>2 DEF Leases, Returned
  <2> QED BY <1>1, <1>2, <2>1, DeallocateAccounts
<1>3. CASE r \notin Leases
  <2>1. Returned(r) = ledger /\ Leases \ {r} = Leases
    BY <1>3 DEF Leases, Returned
  <2> QED BY <1>1, <2>1
<1> QED BY <1>2, <1>3

LEMMA WithoutLedger ==
  ASSUME IInv, NEW r \in PayloadWaiters
  PROVE  /\ Without(ledger, r) \in Ledger /\ IsInjective(Without(ledger, r).queue)
         /\ ToSet(Without(ledger, r).queue) = PayloadWaiters \ {r}
         /\ Accounts(Without(ledger, r), Leases \ {r}) /\ Budgeted(Without(ledger, r))
<1> DEFINE q == ledger.queue
<1>1. /\ q \in Seq(Callers) /\ ledger \in Ledger /\ IsInjective(q) /\ ToSet(q) = PayloadWaiters
      /\ Accounts(ledger, Leases) /\ Budgeted(ledger)
  BY DEF IInv, TypeOK, Ledger, LedgerInv
<1>2. /\ CutOut(q, r) \in Seq(Callers) /\ IsInjective(CutOut(q, r))
      /\ ToSet(CutOut(q, r)) = PayloadWaiters \ {r}
  BY <1>1, CutOutToSet
<1>3. /\ Without(ledger, r) \in Ledger /\ Without(ledger, r).queue = CutOut(q, r)
      /\ Without(ledger, r).bytes = ledger.bytes
      /\ Without(ledger, r).streams = ledger.streams
      /\ Without(ledger, r).requests = ledger.requests
  BY <1>1, <1>2 DEF Ledger, Without
<1>4. Leases \ {r} = Leases
  BY DEF IInv, PlaceInv, Leases, PayloadWaiters
<1>5. Accounts(Without(ledger, r), Leases) /\ Budgeted(Without(ledger, r))
  BY <1>1, <1>3 DEF Accounts, Budgeted
<1> QED BY <1>2, <1>3, <1>4, <1>5

\* A gate that r frees: its first waiter, if any, owns the slot in r's place.
LEMMA GateFreed ==
  ASSUME IInv, NEW k \in Keys, NEW r \in Owners(k), gates'[k] = FreeSlot(gates[k]),
         SlotWaiters(k)' = SlotWaiters(k) \ NextWaiters(gates[k]),
         Owners(k)' = (Owners(k) \ {r}) \cup NextWaiters(gates[k])
  PROVE  gates'[k] \in Gate /\ GateInv(k)'
<1> DEFINE g == gates[k]
           O == Owners(k)
<1>1. /\ g \in Gate /\ g.queue \in Seq(Callers) /\ g.current \in Nat
      /\ IsInjective(g.queue) /\ ToSet(g.queue) = SlotWaiters(k) /\ g.current = Cardinality(O)
      /\ Limit[k] \in Nat /\ (Limit[k] > 0 => g.current <= Limit[k])
  BY AdmissionAssumption DEF IInv, TypeOK, Gate, GateInv, Keys
<1>2. O \in SUBSET Callers /\ IsFiniteSet(O) /\ SlotWaiters(k) \in SUBSET Callers
  BY OwnersFinite DEF Owners, SlotWaiters
<1>3. Cardinality(O \ {r}) = Cardinality(O) - 1 /\ IsFiniteSet(O \ {r}) /\ Cardinality(O) # 0
      /\ Cardinality(O) \in Nat
  BY <1>2, FS_RemoveElement, FS_EmptySet, FS_CardinalityType
<1>4. CASE g.queue = <<>>
  <2>1. NextWaiters(g) = {} /\ FreeSlot(g) = [g EXCEPT !.current = g.current - 1]
    BY <1>1, <1>3, <1>4 DEF NextWaiters, FreeSlot
  <2>2. FreeSlot(g).queue = g.queue /\ FreeSlot(g).current = g.current - 1 /\ FreeSlot(g) \in Gate
    BY <1>1, <1>3, <2>1 DEF Gate
  <2> HIDE DEF g, O
  <2> QED BY <1>1, <1>3, <2>1, <2>2 DEF GateInv, g, O
<1>5. CASE g.queue # <<>>
  <2> DEFINE w == Head(g.queue)
  <2>1. NextWaiters(g) = {w} /\ FreeSlot(g) = [g EXCEPT !.queue = Tail(g.queue)]
    BY <1>5 DEF NextWaiters, FreeSlot
  <2>2. /\ Tail(g.queue) \in Seq(Callers) /\ w \in SlotWaiters(k)
        /\ ToSet(Tail(g.queue)) = SlotWaiters(k) \ {w} /\ IsInjective(Tail(g.queue))
    BY <1>1, <1>5, TailToSet
  <2>3. /\ FreeSlot(g).queue = Tail(g.queue) /\ FreeSlot(g).current = g.current
        /\ FreeSlot(g) \in Gate
    BY <1>1, <2>1, <2>2 DEF Gate
  <2>4. w \notin O
    BY <2>2, OwnedFacts DEF SlotWaiters, Owners, Owned
  <2> HIDE DEF w
  <2>5. Cardinality((O \ {r}) \cup {w}) = Cardinality(O)
    <3> DEFINE P == O \ {r}
    <3>1. /\ IsFiniteSet(P) /\ w \notin P
          /\ Cardinality(P) = Cardinality(O) - 1 /\ Cardinality(O) \in Nat
      BY <1>3, <2>4
    <3> HIDE DEF P, O
    <3>2. Cardinality(P \cup {w}) = Cardinality(P) + 1
      BY <3>1, FS_AddElement
    <3> QED BY <3>1, <3>2 DEF P
  <2> QED BY <1>1, <2>1, <2>2, <2>3, <2>5 DEF GateInv
<1> QED BY <1>4, <1>5

\* What the step of r leaves true of another request: it may have been let in by
\* the drain, or handed a slot, and has not run since.
LEMMA OtherPlace ==
  ASSUME IInv, NEW q \in Callers, NEW leased \in SUBSET PayloadWaiters,
         tier'[q] = tier[q], acquired'[q] = acquired[q], aborted'[q] = aborted[q],
         lease'[q] = (q \in leased \/ lease[q]),
         \/ pc'[q] = pc[q] /\ q \notin leased
         \/ pc'[q] = "payloadReady" /\ q \in leased
         \/ pc'[q] = "slotReady" /\ pc[q] = "slotWait" /\ q \notin leased
  PROVE  PlaceInv(q)' /\ Owned(q)' = IF pc'[q] = pc[q] THEN Owned(q)
                                     ELSE IF q \in leased THEN acquired[q]
                                     ELSE acquired[q] \cup {KeyAt(q)}
<1>1. PlaceInv(q) /\ lease[q] \in BOOLEAN /\ KeyAt(q)' = KeyAt(q)
      /\ LimitedBelow(q, tier[q])' = LimitedBelow(q, tier[q])
  BY DEF IInv, TypeOK, KeyAt, LimitedBelow
<1>2. CASE pc'[q] = pc[q] /\ q \notin leased
  BY <1>1, <1>2 DEF PlaceInv, LimitedBelow, Owned, PushKey, Admitted, TooLarge
<1>3. CASE pc'[q] = "payloadReady" /\ q \in leased
  <2>1. pc[q] = "payloadWait"
    BY <1>3 DEF PayloadWaiters
  <2> QED BY <1>1, <1>3, <2>1 DEF PlaceInv, LimitedBelow, Owned, PushKey, Admitted, TooLarge
<1>4. CASE pc'[q] = "slotReady" /\ pc[q] = "slotWait" /\ q \notin leased
  BY <1>1, <1>4 DEF PlaceInv, LimitedBelow, Owned, PushKey, Admitted, TooLarge
<1> QED BY <1>2, <1>3, <1>4

\* acquireMany's releaser, or its catch block, gives back everything r owns.
LEMMA ReleaseStep ==
  ASSUME IInv, NEW r \in Callers,
         pc[r] \in {"payloadReady", "slotReady", "failed", "returned", "running"},
         ReleaseAll(r, Owned(r)), aborted' \in [Callers -> BOOLEAN],
         \A q \in Callers \ {r} : aborted'[q] = aborted[q]
  PROVE  IInv' /\ Moves(r, "done")
<1> DEFINE keys == Owned(r)
           gts == [k \in Keys |-> IF k \in keys THEN FreeSlot(gates[k]) ELSE gates[k]]
           slotted == UNION {NextWaiters(gates[k]) : k \in keys}
<1>1. /\ Free(r, "done", Returned(r), gts, slotted)
      /\ acquired' = [acquired EXCEPT ![r] = {}] /\ tier' = tier
  BY DEF ReleaseAll
<1>2. keys \in SUBSET Keys /\ r \notin PayloadWaiters /\ acquired \in [Callers -> SUBSET Keys]
      /\ pc \in [Callers -> PCs]
  BY OwnedFacts DEF PayloadWaiters, IInv, TypeOK
<1>3. ASSUME NEW k \in Keys PROVE NextWaiters(gates[k]) \subseteq SlotWaiters(k)
  <2>1. /\ gates[k].queue \in Seq(Callers) /\ IsInjective(gates[k].queue)
        /\ ToSet(gates[k].queue) = SlotWaiters(k)
    BY <1>3 DEF IInv, TypeOK, GateInv
  <2> QED BY <2>1, TailToSet DEF NextWaiters
<1>4. \A k, l \in Keys : k # l => SlotWaiters(k) \cap SlotWaiters(l) = {}
  BY DEF SlotWaiters
<1> HIDE DEF keys, gts
<1>5. /\ slotted \in SUBSET Callers /\ slotted \cap PayloadWaiters = {} /\ r \notin slotted
      /\ \A q \in slotted : pc[q] = "slotWait"
      /\ \A k \in Keys : \A q \in SlotWaiters(k) :
           q \in slotted <=> k \in keys /\ q \in NextWaiters(gates[k])
  <2>1. \A q \in slotted : \E k \in keys : q \in NextWaiters(gates[k])
    OBVIOUS
  <2>2. \A q \in slotted : q \in Callers /\ pc[q] = "slotWait"
    BY <1>2, <1>3, <2>1 DEF SlotWaiters
  <2>3. ASSUME NEW k \in Keys, NEW q \in SlotWaiters(k), q \in slotted
        PROVE  k \in keys /\ q \in NextWaiters(gates[k])
    BY <1>2, <1>3, <1>4, <2>1, <2>3
  <2>4. \A k \in keys : NextWaiters(gates[k]) \subseteq slotted
    OBVIOUS
  <2> HIDE DEF slotted
  <2> QED BY <2>2, <2>3, <2>4 DEF PayloadWaiters
<1> HIDE DEF slotted
<1>6. PICK leased \in SUBSET (PayloadWaiters \ {r}) :
        /\ ledger' \in Ledger /\ LedgerInv' /\ gates' = gts
        /\ pc' \in [Callers -> PCs] /\ lease' \in [Callers -> BOOLEAN]
        /\ \A q \in Callers :
             /\ pc'[q] = IF q \in leased THEN "payloadReady"
                         ELSE IF q \in slotted THEN "slotReady"
                         ELSE IF q = r THEN "done" ELSE pc[q]
             /\ lease'[q] = (q \in leased \/ (q # r /\ lease[q]))
  <2>1. "done" \in PCs \ {"payloadWait"}
    BY DEF PCs
  <2> QED BY <1>1, <1>2, <1>5, <2>1, ReturnedLedger, FreeLedger
<1>7. pc'[r] = "done" /\ acquired'[r] = {} /\ lease'[r] = FALSE
  BY <1>1, <1>2, <1>5, <1>6
<1>8. PlaceInv(r)' /\ Owned(r)' = {}
  BY <1>7 DEF PlaceInv, Owned, Admitted
<1>9. ASSUME NEW q \in Callers \ {r}
      PROVE  /\ PlaceInv(q)' /\ KeyAt(q)' = KeyAt(q)
             /\ Owned(q)' = IF q \in slotted THEN Owned(q) \cup {KeyAt(q)} ELSE Owned(q)
             /\ pc'[q] = pc[q] \/ {pc[q], pc'[q]} \subseteq Between
  <2>1. /\ tier'[q] = tier[q] /\ acquired'[q] = acquired[q] /\ aborted'[q] = aborted[q]
        /\ lease'[q] = (q \in leased \/ lease[q])
    BY <1>1, <1>2, <1>6
  <2>2. leased \in SUBSET PayloadWaiters /\ \A w \in leased : pc[w] = "payloadWait"
    BY <1>6 DEF PayloadWaiters
  <2>3. \/ pc'[q] = pc[q] /\ q \notin leased /\ q \notin slotted
        \/ pc'[q] = "payloadReady" /\ q \in leased /\ q \notin slotted /\ pc[q] = "payloadWait"
        \/ pc'[q] = "slotReady" /\ pc[q] = "slotWait" /\ q \notin leased /\ q \in slotted
    BY <1>5, <1>6, <2>2
  <2>4. PlaceInv(q)' /\ Owned(q)' = IF pc'[q] = pc[q] THEN Owned(q)
                                    ELSE IF q \in leased THEN acquired[q]
                                    ELSE acquired[q] \cup {KeyAt(q)}
    BY <2>1, <2>2, <2>3, OtherPlace
  <2>5. pc[q] # "slotReady" => Owned(q) = acquired[q]
    BY DEF Owned
  <2>6. KeyAt(q)' = KeyAt(q)
    BY <2>1 DEF KeyAt
  <2>7. pc'[q] = pc[q] \/ {pc[q], pc'[q]} \subseteq Between
    BY <2>3 DEF Between, PCs
  <2> QED BY <2>3, <2>4, <2>5, <2>6, <2>7
<1>10. ASSUME NEW k \in Keys PROVE gates'[k] \in Gate /\ GateInv(k)'
  <2>1. gates'[k] = IF k \in keys THEN FreeSlot(gates[k]) ELSE gates[k]
    BY <1>6 DEF gts
  <2>2. ASSUME NEW q \in Callers
        PROVE  q \in SlotWaiters(k)' <=> q \in SlotWaiters(k) /\ q \notin slotted
    <3>1. CASE q = r
      BY <1>7, <3>1 DEF SlotWaiters
    <3>2. CASE q # r
      <4>1. q \in leased => pc[q] = "payloadWait"
        BY DEF PayloadWaiters
      <4>2. KeyAt(q)' = KeyAt(q)
        BY <1>9, <3>2
      <4>3. pc'[q] = "slotWait" <=> pc[q] = "slotWait" /\ q \notin slotted
        BY <1>6, <3>2, <4>1
      <4> QED BY <4>2, <4>3 DEF SlotWaiters
    <3> QED BY <3>1, <3>2
  <2>3. ASSUME NEW q \in Callers \ {r}
        PROVE  q \in Owners(k)' <=> q \in Owners(k) \/ (q \in slotted /\ q \in SlotWaiters(k))
    <3>1. q \in Owners(k)' <=> k \in Owned(q)'
      BY DEF Owners
    <3>2. q \in slotted => (KeyAt(q) = k <=> q \in SlotWaiters(k))
      BY <1>5 DEF SlotWaiters
    <3> QED BY <1>9, <3>1, <3>2 DEF Owners
  <2>4. r \notin Owners(k)' /\ (r \in Owners(k) <=> k \in keys) /\ r \notin slotted
    BY <1>5, <1>8 DEF Owners, keys
  <2>5. SlotWaiters(k) \subseteq Callers /\ SlotWaiters(k)' \subseteq Callers
        /\ Owners(k) \subseteq Callers /\ Owners(k)' \subseteq Callers
    BY DEF SlotWaiters, Owners
  <2>6. CASE k \in keys
    <3>1. NextWaiters(gates[k]) \subseteq SlotWaiters(k)
      BY <1>3
    <3>2. SlotWaiters(k)' = SlotWaiters(k) \ NextWaiters(gates[k])
      BY <1>5, <2>2, <2>5, <2>6, <3>1
    <3>3. Owners(k)' = (Owners(k) \ {r}) \cup NextWaiters(gates[k])
      BY <1>5, <2>3, <2>4, <2>5, <2>6, <3>1
    <3>4. gates'[k] = FreeSlot(gates[k]) /\ r \in Owners(k)
      BY <2>1, <2>4, <2>6
    <3> QED BY <3>2, <3>3, <3>4, GateFreed
  <2>7. CASE k \notin keys
    <3>1. SlotWaiters(k)' = SlotWaiters(k)
      BY <1>5, <2>2, <2>5, <2>7
    <3>2. Owners(k)' = Owners(k)
      <4>1. \A q \in SlotWaiters(k) : q \notin slotted
        BY <1>5, <2>7
      <4>2. \A q \in Callers : q \in Owners(k)' <=> q \in Owners(k)
        BY <2>3, <2>4, <2>7, <4>1
      <4> QED BY <2>5, <4>2
    <3>3. gates'[k] = gates[k] /\ gates[k] \in Gate /\ GateInv(k)
      BY <2>1, <2>7 DEF IInv, TypeOK, Gate
    <3> QED BY <3>1, <3>2, <3>3 DEF GateInv
  <2> QED BY <2>6, <2>7
<1>11. TypeOK'
  <2>1. gates' \in [Keys -> Gate]
    BY <1>6, <1>10 DEF gts
  <2>2. acquired' \in [Callers -> SUBSET Keys] /\ tier' \in [Callers -> 1..2]
    BY <1>1 DEF IInv, TypeOK
  <2> QED BY <1>6, <2>1, <2>2 DEF TypeOK, Gate
<1>12. Moves(r, "done")
  BY <1>7, <1>9 DEF Moves
<1> QED BY <1>6, <1>8, <1>9, <1>10, <1>11, <1>12 DEF IInv

\* The same, when no slot is handed over.
LEMMA FreeNobody ==
  ASSUME IInv, NEW r \in Callers, NEW p \in PCs \ {"payloadWait"}, NEW gts,
         NEW led \in Ledger, IsInjective(led.queue), ToSet(led.queue) = PayloadWaiters \ {r},
         Accounts(led, Leases \ {r}), Budgeted(led), Free(r, p, led, gts, {})
  PROVE  \E leased \in SUBSET (PayloadWaiters \ {r}) :
           /\ ledger' \in Ledger /\ LedgerInv' /\ gates' = gts
           /\ pc' \in [Callers -> PCs] /\ lease' \in [Callers -> BOOLEAN]
           /\ \A q \in Callers :
                /\ pc'[q] = IF q \in leased THEN "payloadReady" ELSE IF q = r THEN p ELSE pc[q]
                /\ lease'[q] = (q \in leased \/ (q # r /\ lease[q]))
<1> DEFINE none == {}
<1>1. none \in SUBSET Callers /\ none \cap PayloadWaiters = {} /\ r \notin none
      /\ Free(r, p, led, gts, none)
  OBVIOUS
<1>2. \A q \in Callers : q \notin none
  OBVIOUS
<1> HIDE DEF none
<1>3. \E leased \in SUBSET (PayloadWaiters \ {r}) :
        /\ ledger' \in Ledger /\ LedgerInv' /\ gates' = gts
        /\ pc' \in [Callers -> PCs] /\ lease' \in [Callers -> BOOLEAN]
        /\ \A q \in Callers :
             /\ pc'[q] = IF q \in leased THEN "payloadReady"
                         ELSE IF q \in none THEN "slotReady"
                         ELSE IF q = r THEN p ELSE pc[q]
             /\ lease'[q] = (q \in leased \/ (q # r /\ lease[q]))
  BY <1>1, FreeLedger
<1> QED BY <1>2, <1>3

\* The gates once r is out of the queue it waits in, if any.
LeftGates(r) == IF pc[r] = "slotWait" THEN LeaveGate(r) ELSE gates

\* An abort, or a timer in the payload queue: r leaves the queue it is in and
\* returns its lease; its slots stay with it until its continuation runs.
LEMMA LeaveStep ==
  ASSUME IInv, NEW r \in Callers, NEW p \in PCs, NEW led \in Ledger,
         IsInjective(led.queue), ToSet(led.queue) = PayloadWaiters \ {r},
         Accounts(led, Leases \ {r}), Budgeted(led), Free(r, p, led, LeftGates(r), {}),
         \/ /\ pc[r] \in {"payloadWait", "slotWait"} /\ p = "failed"
         \/ /\ pc[r] \in {"entering", "payloadReady", "slotReady", "failed", "returned"}
            /\ p = pc[r] /\ aborted'[r] = TRUE,
         UNCHANGED <<tier, acquired>>, aborted' \in [Callers -> BOOLEAN],
         \A q \in Callers \ {r} : aborted'[q] = aborted[q]
  PROVE  IInv' /\ Moves(r, p)
<1>1. p # "payloadWait" /\ p \in PCs \ {"payloadWait"}
  OBVIOUS
<1>2. PICK leased \in SUBSET (PayloadWaiters \ {r}) :
        /\ ledger' \in Ledger /\ LedgerInv' /\ gates' = LeftGates(r)
        /\ pc' \in [Callers -> PCs] /\ lease' \in [Callers -> BOOLEAN]
        /\ \A q \in Callers :
             /\ pc'[q] = IF q \in leased THEN "payloadReady" ELSE IF q = r THEN p ELSE pc[q]
             /\ lease'[q] = (q \in leased \/ (q # r /\ lease[q]))
  BY <1>1, FreeNobody
<1>3. pc'[r] = p /\ lease'[r] = FALSE /\ acquired'[r] = acquired[r] /\ tier'[r] = tier[r]
  BY <1>2
<1>4. PlaceInv(r)' /\ Owned(r)' = Owned(r) /\ pc'[r] # "slotWait" /\ KeyAt(r)' = KeyAt(r)
  <2>1. PlaceInv(r) /\ KeyAt(r)' = KeyAt(r) /\ LimitedBelow(r, tier[r])' = LimitedBelow(r, tier[r])
    BY <1>3 DEF IInv, KeyAt, LimitedBelow
  <2>2. CASE pc[r] \in {"payloadWait", "slotWait"} /\ p = "failed"
    BY <1>3, <2>1, <2>2, Zenon DEF PlaceInv, Owned, PushKey, Admitted, TooLarge
  <2>3. CASE /\ pc[r] \in {"entering", "payloadReady", "slotReady", "failed", "returned"}
             /\ p = pc[r] /\ aborted'[r] = TRUE
    BY <1>3, <2>1, <2>3, Zenon DEF PlaceInv, LimitedBelow, Owned, PushKey, Admitted, TooLarge
  <2> QED BY <2>1, <2>2, <2>3
<1>5. ASSUME NEW q \in Callers \ {r}
      PROVE  /\ PlaceInv(q)' /\ KeyAt(q)' = KeyAt(q) /\ Owned(q)' = Owned(q)
             /\ (pc'[q] = "slotWait" <=> pc[q] = "slotWait")
             /\ pc'[q] = pc[q] \/ {pc[q], pc'[q]} \subseteq Between
  <2>1. /\ tier'[q] = tier[q] /\ acquired'[q] = acquired[q] /\ aborted'[q] = aborted[q]
        /\ lease'[q] = (q \in leased \/ lease[q])
    BY <1>2
  <2>2. leased \in SUBSET PayloadWaiters /\ \A w \in leased : pc[w] = "payloadWait"
    BY <1>2 DEF PayloadWaiters
  <2>3. \/ pc'[q] = pc[q] /\ q \notin leased
        \/ pc'[q] = "payloadReady" /\ q \in leased /\ pc[q] = "payloadWait"
    BY <1>2, <2>2
  <2>4. PlaceInv(q)' /\ Owned(q)' = IF pc'[q] = pc[q] THEN Owned(q)
                                    ELSE IF q \in leased THEN acquired[q]
                                    ELSE acquired[q] \cup {KeyAt(q)}
    BY <2>1, <2>2, <2>3, OtherPlace
  <2>5. pc[q] # "slotReady" => Owned(q) = acquired[q]
    BY DEF Owned
  <2>6. KeyAt(q)' = KeyAt(q)
    BY <2>1 DEF KeyAt
  <2>7. pc'[q] = pc[q] \/ {pc[q], pc'[q]} \subseteq Between
    BY <2>3 DEF Between, PCs
  <2> QED BY <2>3, <2>4, <2>5, <2>6, <2>7
<1>6. ASSUME NEW k \in Keys PROVE gates'[k] \in Gate /\ GateInv(k)'
  <2> DEFINE g == gates[k]
  <2>1. /\ g \in Gate /\ g.queue \in Seq(Callers) /\ IsInjective(g.queue)
        /\ ToSet(g.queue) = SlotWaiters(k) /\ GateInv(k)
        /\ gates \in [Keys -> Gate]
    BY DEF IInv, TypeOK, Gate, GateInv
  <2>2. Owners(k)' = Owners(k)
    BY <1>4, <1>5 DEF Owners
  <2>3. SlotWaiters(k)' = SlotWaiters(k) \ {r}
    BY <1>4, <1>5 DEF SlotWaiters
  <2>4. CASE r \in SlotWaiters(k)
    <3>1. k = KeyAt(r) /\ pc[r] = "slotWait"
      BY <2>4 DEF SlotWaiters
    <3>2. gates'[k] = [g EXCEPT !.queue = CutOut(g.queue, r)]
      BY <1>2, <2>1, <3>1 DEF LeftGates, LeaveGate, Withdraw
    <3>3. /\ CutOut(g.queue, r) \in Seq(Callers) /\ IsInjective(CutOut(g.queue, r))
          /\ ToSet(CutOut(g.queue, r)) = SlotWaiters(k) \ {r}
      BY <2>1, <2>4, CutOutToSet
    <3>4. gates'[k] \in Gate /\ gates'[k].queue = CutOut(g.queue, r) /\ gates'[k].current = g.current
      BY <2>1, <3>2, <3>3 DEF Gate
    <3> QED BY <2>1, <2>2, <2>3, <3>3, <3>4 DEF GateInv
  <2>5. CASE r \notin SlotWaiters(k)
    <3>1. gates'[k] = g
      <4>1. CASE pc[r] = "slotWait"
        <5>1. k # KeyAt(r)
          BY <2>5, <4>1 DEF SlotWaiters
        <5> QED BY <1>2, <2>1, <4>1, <5>1 DEF LeftGates, LeaveGate
      <4>2. CASE pc[r] # "slotWait"
        BY <1>2, <4>2 DEF LeftGates
      <4> QED BY <4>1, <4>2
    <3>2. SlotWaiters(k)' = SlotWaiters(k)
      BY <2>3, <2>5
    <3> QED BY <2>1, <2>2, <3>1, <3>2 DEF GateInv
  <2> QED BY <2>4, <2>5
<1>7. gates' \in [Keys -> Gate]
  <2>1. gates \in [Keys -> Gate]
    BY DEF IInv, TypeOK, Gate
  <2>2. DOMAIN gates' = Keys /\ gates' = [k \in Keys |-> gates'[k]]
    BY <1>2, <2>1 DEF LeftGates, LeaveGate
  <2> QED BY <1>6, <2>2
<1>8. TypeOK'
  BY <1>2, <1>7 DEF TypeOK, IInv, Gate
<1>9. Moves(r, p)
  BY <1>3, <1>5 DEF Moves
<1> QED BY <1>2, <1>4, <1>5, <1>6, <1>8, <1>9 DEF IInv

-----------------------------------------------------------------------------
LEMMA BelowExtends ==
  ASSUME NEW r \in Callers, NEW t \in 1..3, NEW i \in t..3, \A j \in Limited(r, t) : i <= j
  PROVE  LimitedBelow(r, i) = LimitedBelow(r, t)
<1>1. {j \in 1..2 : j < i /\ Limit[Tiers(r)[j]] > 0} = {j \in 1..2 : j < t /\ Limit[Tiers(r)[j]] > 0}
  BY DEF Limited
<1> QED BY <1>1 DEF LimitedBelow

\* A request that takes no part in a step of another stays as it is.
LEMMA Bystander ==
  ASSUME IInv, NEW q \in Callers, tier'[q] = tier[q], acquired'[q] = acquired[q],
         aborted'[q] = aborted[q], lease'[q] = lease[q], pc'[q] = pc[q]
  PROVE  PlaceInv(q)' /\ KeyAt(q)' = KeyAt(q) /\ Owned(q)' = Owned(q)
<1>1. PlaceInv(q) /\ KeyAt(q)' = KeyAt(q) /\ LimitedBelow(q, tier[q])' = LimitedBelow(q, tier[q])
  BY DEF IInv, KeyAt, LimitedBelow
<1> QED BY <1>1 DEF PlaceInv, LimitedBelow, Owned, PushKey, Admitted, TooLarge

\* The next limited tier is asked for a slot, or there is none left.
LEMMA AskStep ==
  ASSUME IInv, NEW r \in Callers, pc[r] \in {"payloadReady", "slotReady"}, ~ aborted[r],
         NEW t \in 1..3, Owned(r) = LimitedBelow(r, t), AskNextTier(r, t),
         acquired' = [acquired EXCEPT ![r] = LimitedBelow(r, t)]
  PROVE  IInv'
<1>0. /\ gates \in [Keys -> Gate] /\ ledger \in Ledger /\ pc \in [Callers -> PCs]
      /\ tier \in [Callers -> 1..2] /\ acquired \in [Callers -> SUBSET Keys]
      /\ lease \in [Callers -> BOOLEAN] /\ aborted \in [Callers -> BOOLEAN]
      /\ LedgerInv /\ PlaceInv(r) /\ \A k \in Keys : GateInv(k)
  BY DEF IInv, TypeOK, Gate
<1>1. /\ UNCHANGED <<ledger, lease, aborted>> /\ acquired'[r] = LimitedBelow(r, t)
      /\ LimitedBelow(r, t) \in SUBSET Keys
      /\ acquired' \in [Callers -> SUBSET Keys] /\ lease[r]
  BY <1>0, OwnedFacts DEF AskNextTier, PlaceInv, Admitted
<1> DEFINE Elsewhere == \A q \in Callers \ {r} :
                          tier'[q] = tier[q] /\ acquired'[q] = acquired[q] /\ pc'[q] = pc[q]
<1>2. ASSUME Elsewhere, NEW q \in Callers \ {r}
      PROVE  PlaceInv(q)' /\ KeyAt(q)' = KeyAt(q) /\ Owned(q)' = Owned(q) /\ pc'[q] = pc[q]
  BY <1>1, <1>2, Bystander
<1>3. ASSUME pc' = [pc EXCEPT ![r] = "returned"] \/ pc' = [pc EXCEPT ![r] = "slotReady"]
             \/ pc' = [pc EXCEPT ![r] = "slotWait"]
      PROVE  LedgerInv' /\ pc' \in [Callers -> PCs]
  <2>1. PayloadWaiters' = PayloadWaiters /\ Leases' = Leases
    BY <1>0, <1>1, <1>3 DEF PayloadWaiters, Leases
  <2>2. pc' \in [Callers -> PCs]
    BY <1>0, <1>3 DEF PCs
  <2> QED BY <1>0, <1>1, <2>1, <2>2 DEF LedgerInv, Accounts, Budgeted
<1>4. ASSUME NEW k \in Keys, Elsewhere, pc'[r] # "slotWait", gates'[k] = gates[k],
             k \in Owned(r)' <=> k \in Owned(r)
      PROVE  GateInv(k)'
  <2>1. SlotWaiters(k)' = SlotWaiters(k)
    BY <1>2, <1>4 DEF SlotWaiters
  <2>2. Owners(k)' = Owners(k)
    BY <1>2, <1>4 DEF Owners
  <2> QED BY <1>0, <1>4, <2>1, <2>2 DEF GateInv
<1>5. CASE Limited(r, t) = {}
  <2>1. pc' = [pc EXCEPT ![r] = "returned"] /\ UNCHANGED <<gates, tier>>
    BY <1>5 DEF AskNextTier
  <2>2. Elsewhere /\ pc'[r] = "returned"
    BY <1>0, <2>1
  <2>3. LimitedBelow(r, 3) = LimitedBelow(r, t)
    BY <1>5, BelowExtends
  <2>4. Owned(r)' = Owned(r)
    BY <1>1, <2>2 DEF Owned
  <2>5. PlaceInv(r)'
    BY <1>0, <1>1, <2>2, <2>3 DEF PlaceInv, LimitedBelow, Admitted, TooLarge
  <2>6. TypeOK'
    BY <1>0, <1>1, <1>3, <2>1 DEF TypeOK, Gate
  <2> QED BY <1>2, <1>3, <1>4, <2>1, <2>2, <2>4, <2>5, <2>6 DEF IInv
<1>6. CASE Limited(r, t) # {}
  <2>1. PICK i \in Limited(r, t) :
          /\ \A j \in Limited(r, t) : i <= j
          /\ tier' = [tier EXCEPT ![r] = i]
          /\ IF HasRoom(gates[Tiers(r)[i]], Limit[Tiers(r)[i]])
             THEN /\ gates' = [gates EXCEPT ![Tiers(r)[i]] = TakeSlot(gates[Tiers(r)[i]])]
                  /\ pc' = [pc EXCEPT ![r] = "slotReady"]
             ELSE /\ gates' = [gates EXCEPT ![Tiers(r)[i]] = Enqueue(gates[Tiers(r)[i]], r)]
                  /\ pc' = [pc EXCEPT ![r] = "slotWait"]
    BY <1>6 DEF AskNextTier
  <2> DEFINE k == Tiers(r)[i]
             g == gates[k]
  <2>2. i \in 1..2 /\ i \in t..3 /\ Limit[k] > 0 /\ k \in Keys /\ Limit[k] \in Nat
    BY TierFacts DEF Limited
  <2>3. LimitedBelow(r, i) = LimitedBelow(r, t) /\ k \notin LimitedBelow(r, i)
    <3>1. LimitedBelow(r, i) = LimitedBelow(r, t)
      BY <2>1, <2>2, BelowExtends
    <3>2. i = 1 \/ i = 2
      BY <2>2
    <3> QED BY <3>1, <3>2, BelowFacts, TierFacts
  <2>4. /\ Elsewhere /\ tier'[r] = i /\ KeyAt(r)' = k /\ tier' \in [Callers -> 1..2]
    BY <1>0, <2>1, <2>2 DEF KeyAt
  <2>5. /\ g \in Gate /\ g.queue \in Seq(Callers) /\ g.current \in Nat /\ GateInv(k)
        /\ r \notin SlotWaiters(k) /\ SlotWaiters(k) \in SUBSET Callers
        /\ Owners(k) \in SUBSET Callers /\ r \notin Owners(k)
    BY <1>0, <2>2, <2>3 DEF Gate, SlotWaiters, Owners
  <2> HIDE DEF k
  <2>6. CASE HasRoom(g, Limit[k])
    <3>1. gates' = [gates EXCEPT ![k] = TakeSlot(g)] /\ pc' = [pc EXCEPT ![r] = "slotReady"]
      BY <2>1, <2>6 DEF k
    <3>2. pc'[r] = "slotReady" /\ Owned(r)' = LimitedBelow(r, t) \cup {k}
      BY <1>0, <1>1, <2>4, <3>1 DEF Owned, PushKey
    <3>3. PlaceInv(r)'
      BY <1>0, <1>1, <2>2, <2>3, <2>4, <3>2 DEF PlaceInv, LimitedBelow, Admitted, TooLarge
    <3>4. TakeSlot(g) = [g EXCEPT !.current = g.current + 1]
      BY DEF TakeSlot
    <3>5. gates'[k] = TakeSlot(g) /\ TakeSlot(g) \in Gate /\ TakeSlot(g).queue = g.queue
          /\ TakeSlot(g).current = g.current + 1
      <4>1. gates'[k] = TakeSlot(g)
        BY <1>0, <2>2, <3>1
      <4> HIDE DEF g
      <4>2. [g EXCEPT !.current = g.current + 1] \in Gate
        BY <2>5 DEF Gate
      <4>3. /\ [g EXCEPT !.current = g.current + 1].queue = g.queue
            /\ [g EXCEPT !.current = g.current + 1].current = g.current + 1
        BY <2>5 DEF Gate
      <4> QED BY <3>4, <4>1, <4>2, <4>3
    <3>6. SlotWaiters(k)' = SlotWaiters(k)
      BY <1>2, <2>4, <2>5, <3>2 DEF SlotWaiters
    <3>7. Owners(k)' = Owners(k) \cup {r}
      BY <1>2, <2>4, <2>5, <3>2 DEF Owners
    <3>8. Cardinality(Owners(k) \cup {r}) = Cardinality(Owners(k)) + 1
      BY <2>5, OwnersFinite, FS_AddElement
    <3>9. GateInv(k)'
      BY <2>2, <2>5, <2>6, <3>5, <3>6, <3>7, <3>8 DEF GateInv, HasRoom
    <3>10. \A l \in Keys \ {k} : GateInv(l)'
      BY <1>1, <1>4, <2>3, <2>4, <3>1, <3>2
    <3>11. TypeOK'
      BY <1>0, <1>1, <1>3, <2>4, <3>1, <3>5 DEF TypeOK, Gate
    <3> QED BY <1>2, <1>3, <2>4, <3>1, <3>3, <3>9, <3>10, <3>11 DEF IInv
  <2>7. CASE ~ HasRoom(g, Limit[k])
    <3>1. gates' = [gates EXCEPT ![k] = Enqueue(g, r)] /\ pc' = [pc EXCEPT ![r] = "slotWait"]
      BY <2>1, <2>7 DEF k
    <3>2. pc'[r] = "slotWait" /\ Owned(r)' = LimitedBelow(r, t)
      BY <1>0, <1>1, <3>1 DEF Owned
    <3>3. PlaceInv(r)'
      BY <1>0, <1>1, <2>2, <2>3, <2>4, <3>2 DEF PlaceInv, LimitedBelow, Admitted, TooLarge
    <3>4. /\ Append(g.queue, r) \in Seq(Callers) /\ IsInjective(Append(g.queue, r))
          /\ ToSet(Append(g.queue, r)) = SlotWaiters(k) \cup {r}
      BY <2>5, AppendToSet DEF GateInv
    <3>5. Enqueue(g, r) = [g EXCEPT !.queue = Append(g.queue, r)]
      BY DEF Enqueue
    <3>6. gates'[k] = Enqueue(g, r) /\ Enqueue(g, r) \in Gate
          /\ Enqueue(g, r).queue = Append(g.queue, r) /\ Enqueue(g, r).current = g.current
      <4>1. gates'[k] = Enqueue(g, r)
        BY <1>0, <2>2, <3>1
      <4> HIDE DEF g
      <4>2. [g EXCEPT !.queue = Append(g.queue, r)] \in Gate
        BY <2>5, <3>4 DEF Gate
      <4>3. /\ [g EXCEPT !.queue = Append(g.queue, r)].queue = Append(g.queue, r)
            /\ [g EXCEPT !.queue = Append(g.queue, r)].current = g.current
        BY <2>5 DEF Gate
      <4> QED BY <3>5, <4>1, <4>2, <4>3
    <3>7. \A l \in Keys : SlotWaiters(l)' = IF l = k THEN SlotWaiters(l) \cup {r} ELSE SlotWaiters(l)
      <4>1. ASSUME NEW l \in Keys, NEW q \in Callers
            PROVE  q \in SlotWaiters(l)' <=> q \in SlotWaiters(l) \/ (q = r /\ l = k)
        BY <1>2, <2>4, <3>2 DEF SlotWaiters
      <4>2. \A l \in Keys : SlotWaiters(l)' \subseteq Callers /\ SlotWaiters(l) \subseteq Callers
        BY DEF SlotWaiters
      <4> QED BY <4>1, <4>2
    <3>8. \A l \in Keys : Owners(l)' = Owners(l)
      BY <1>2, <2>4, <3>2 DEF Owners
    <3>9. GateInv(k)'
      BY <2>2, <2>5, <3>4, <3>6, <3>7, <3>8 DEF GateInv
    <3>10. \A l \in Keys \ {k} : GateInv(l)'
      BY <1>0, <3>1, <3>7, <3>8 DEF GateInv
    <3>11. TypeOK'
      BY <1>0, <1>1, <1>3, <2>4, <3>1, <3>6 DEF TypeOK, Gate
    <3> QED BY <1>2, <1>3, <2>4, <3>1, <3>3, <3>9, <3>10, <3>11 DEF IInv
  <2> QED BY <2>6, <2>7
<1> QED BY <1>5, <1>6

-----------------------------------------------------------------------------
\* The ledger is untouched and nobody enters or leaves its queue.
LEMMA SameLedger ==
  ASSUME IInv, UNCHANGED <<ledger, lease>>, PayloadWaiters' = PayloadWaiters
  PROVE  LedgerInv'
<1>1. LedgerInv /\ Leases' = Leases
  BY DEF IInv, Leases
<1> QED BY <1>1 DEF LedgerInv, Accounts, Budgeted

\* A step of r that touches no gate and changes nothing that r owns.
LEMMA QuietStep ==
  ASSUME IInv, NEW r \in Callers, pc[r] # "slotWait", pc'[r] # "slotWait",
         TypeOK', LedgerInv', PlaceInv(r)', Owned(r)' = Owned(r), UNCHANGED gates,
         \A q \in Callers \ {r} :
           /\ tier'[q] = tier[q] /\ acquired'[q] = acquired[q] /\ aborted'[q] = aborted[q]
           /\ lease'[q] = lease[q] /\ pc'[q] = pc[q]
  PROVE  IInv'
<1>1. ASSUME NEW q \in Callers \ {r}
      PROVE  PlaceInv(q)' /\ KeyAt(q)' = KeyAt(q) /\ Owned(q)' = Owned(q) /\ pc'[q] = pc[q]
  BY Bystander
<1>2. ASSUME NEW k \in Keys PROVE GateInv(k)'
  <2>1. SlotWaiters(k)' = SlotWaiters(k)
    BY <1>1 DEF SlotWaiters
  <2>2. Owners(k)' = Owners(k)
    BY <1>1 DEF Owners
  <2>3. GateInv(k)
    BY DEF IInv
  <2> QED BY <2>1, <2>2, <2>3 DEF GateInv
<1> QED BY <1>1, <1>2 DEF IInv

\* The steps that touch neither a gate nor the ledger.
LEMMA IdleStep ==
  ASSUME IInv, NEW r \in Callers,
         \/ Begin(r) \/ RefusePayload(r) \/ AskAgain(r)
         \/ EnterProvider(r) /\ ~ aborted[r]
  PROVE  IInv'
<1>1. /\ pc \in [Callers -> PCs] /\ tier \in [Callers -> 1..2]
      /\ aborted \in [Callers -> BOOLEAN] /\ PlaceInv(r)
      /\ UNCHANGED <<gates, ledger, acquired, lease>>
  BY DEF IInv, TypeOK, Begin, RefusePayload, AskAgain, EnterProvider
<1>2. \/ pc[r] = "idle" /\ pc' = [pc EXCEPT ![r] = "entering"] /\ UNCHANGED <<tier, aborted>>
      \/ pc[r] = "entering" /\ pc' = [pc EXCEPT ![r] = "failed"] /\ UNCHANGED <<tier, aborted>>
      \/ /\ pc[r] = "done" /\ pc' = [pc EXCEPT ![r] = "idle"]
         /\ tier' = [tier EXCEPT ![r] = 1] /\ aborted' = [aborted EXCEPT ![r] = FALSE]
      \/ /\ pc[r] = "returned" /\ pc' = [pc EXCEPT ![r] = "running"] /\ ~ aborted[r]
         /\ UNCHANGED <<tier, aborted>>
  BY DEF Begin, RefusePayload, AskAgain, EnterProvider
<1>3. \A q \in Callers \ {r} : tier'[q] = tier[q] /\ aborted'[q] = aborted[q] /\ pc'[q] = pc[q]
  BY <1>1, <1>2
<1>4. /\ pc' \in [Callers -> PCs] /\ tier' \in [Callers -> 1..2]
      /\ aborted' \in [Callers -> BOOLEAN]
  <2>1. {"idle", "entering", "failed", "running"} \subseteq PCs /\ 1 \in 1..2
    BY DEF PCs
  <2>2. pc' \in [Callers -> PCs]
    BY <1>1, <1>2, <2>1
  <2>3. tier' \in [Callers -> 1..2]
    BY <1>1, <1>2, <2>1
  <2>4. aborted' \in [Callers -> BOOLEAN]
    BY <1>1, <1>2
  <2> QED BY <2>2, <2>3, <2>4
<1>5. /\ pc[r] \notin {"slotWait", "slotReady", "payloadWait"}
      /\ pc'[r] \notin {"slotWait", "slotReady", "payloadWait"}
      /\ Owned(r)' = Owned(r)
  BY <1>1, <1>2 DEF Owned
<1>6. PayloadWaiters' = PayloadWaiters
  BY <1>3, <1>5 DEF PayloadWaiters
<1>7. TypeOK'
  BY <1>1, <1>4 DEF IInv, TypeOK
<1>8. PlaceInv(r)'
  <2>1. LimitedBelow(r, 3)' = LimitedBelow(r, 3)
    BY DEF LimitedBelow
  <2>2. /\ acquired'[r] = acquired[r] /\ lease'[r] = lease[r]
        /\ \/ pc[r] = "idle" /\ pc'[r] = "entering" /\ aborted'[r] = aborted[r]
           \/ pc[r] = "entering" /\ pc'[r] = "failed" /\ aborted'[r] = aborted[r]
           \/ pc[r] = "done" /\ pc'[r] = "idle" /\ aborted'[r] = FALSE
           \/ pc[r] = "returned" /\ pc'[r] = "running" /\ ~ aborted[r] /\ aborted'[r] = aborted[r]
    BY <1>1, <1>2
  <2> QED BY <1>1, <2>1, <2>2 DEF PlaceInv, Admitted, TooLarge
<1> QED BY <1>1, <1>3, <1>5, <1>6, <1>7, <1>8, SameLedger, QuietStep

LEMMA AdmitStep ==
  ASSUME IInv, NEW r \in Callers, AdmitPayload(r)
  PROVE  IInv'
<1>1. /\ pc \in [Callers -> PCs] /\ lease \in [Callers -> BOOLEAN] /\ PlaceInv(r)
      /\ ledger \in Ledger /\ LedgerInv /\ Leases \in SUBSET Callers
  BY DEF IInv, TypeOK, Leases
<1>2. /\ pc[r] = "entering" /\ ~ aborted[r] /\ ~ TooLarge(r) /\ Fits(ledger, r)
      /\ ledger' = Allocate(ledger, r) /\ lease' = [lease EXCEPT ![r] = TRUE]
      /\ pc' = [pc EXCEPT ![r] = "payloadReady"]
      /\ UNCHANGED <<gates, tier, acquired, aborted>>
  BY DEF AdmitPayload, MustQueue
<1>3. r \in Callers \ Leases
  BY <1>1, <1>2 DEF PlaceInv, Leases
<1>4. /\ ledger' \in Ledger /\ ledger'.queue = ledger.queue
      /\ Accounts(ledger', Leases \cup {r}) /\ Budgeted(ledger')
  BY <1>1, <1>2, <1>3, AllocateAccounts DEF LedgerInv
<1>5. Leases' = Leases \cup {r} /\ PayloadWaiters' = PayloadWaiters
  BY <1>1, <1>2 DEF Leases, PayloadWaiters
<1>6. LedgerInv'
  BY <1>1, <1>4, <1>5 DEF LedgerInv, Accounts, Budgeted
<1>7. TypeOK'
  BY <1>1, <1>2, <1>4 DEF IInv, TypeOK, PCs
<1>8. PlaceInv(r)' /\ Owned(r)' = Owned(r) /\ pc'[r] = "payloadReady"
  BY <1>1, <1>2 DEF PlaceInv, Admitted, TooLarge, Owned
<1> QED BY <1>1, <1>2, <1>6, <1>7, <1>8, QuietStep

LEMMA QueueStep ==
  ASSUME IInv, NEW r \in Callers, QueuePayload(r)
  PROVE  IInv'
<1>1. /\ pc \in [Callers -> PCs] /\ PlaceInv(r) /\ ledger \in Ledger /\ LedgerInv
      /\ ledger.queue \in Seq(Callers)
  BY DEF IInv, TypeOK, Ledger
<1>2. /\ pc[r] = "entering" /\ ~ aborted[r] /\ ~ TooLarge(r)
      /\ ledger' = [ledger EXCEPT !.queue = Append(ledger.queue, r)]
      /\ pc' = [pc EXCEPT ![r] = "payloadWait"]
      /\ UNCHANGED <<gates, tier, acquired, lease, aborted>>
  BY DEF QueuePayload
<1>3. r \notin ToSet(ledger.queue)
  BY <1>1, <1>2 DEF LedgerInv, PayloadWaiters
<1>4. /\ Append(ledger.queue, r) \in Seq(Callers) /\ IsInjective(Append(ledger.queue, r))
      /\ ToSet(Append(ledger.queue, r)) = PayloadWaiters \cup {r}
  BY <1>1, <1>3, AppendToSet DEF LedgerInv
<1>5. /\ ledger' \in Ledger /\ ledger'.queue = Append(ledger.queue, r)
      /\ ledger'.bytes = ledger.bytes /\ ledger'.streams = ledger.streams
      /\ ledger'.requests = ledger.requests
  BY <1>1, <1>2, <1>4 DEF Ledger
<1>6. Leases' = Leases /\ PayloadWaiters' = PayloadWaiters \cup {r}
  BY <1>1, <1>2 DEF Leases, PayloadWaiters
<1>7. LedgerInv'
  BY <1>1, <1>4, <1>5, <1>6 DEF LedgerInv, Accounts, Budgeted
<1>8. TypeOK'
  BY <1>1, <1>2, <1>5 DEF IInv, TypeOK, PCs
<1>9. PlaceInv(r)' /\ Owned(r)' = Owned(r) /\ pc'[r] = "payloadWait"
  BY <1>1, <1>2 DEF PlaceInv, Admitted, TooLarge, Owned
<1> QED BY <1>1, <1>2, <1>7, <1>8, <1>9, QuietStep

\* The timer of a queued slot: the lease and the slots it has stay with it.
LEMMA SlotTimeoutStep ==
  ASSUME IInv, NEW r \in Callers, SlotTimeout(r)
  PROVE  IInv'
<1>1. /\ gates \in [Keys -> Gate] /\ pc \in [Callers -> PCs] /\ PlaceInv(r)
      /\ pc[r] = "slotWait" /\ gates' = LeaveGate(r) /\ pc' = [pc EXCEPT ![r] = "failed"]
      /\ UNCHANGED <<ledger, tier, acquired, lease, aborted>>
  BY DEF IInv, TypeOK, SlotTimeout, Gate
<1>2. PlaceInv(r)' /\ Owned(r)' = Owned(r) /\ pc'[r] = "failed"
  BY <1>1 DEF PlaceInv, Admitted, TooLarge, Owned
<1>3. ASSUME NEW q \in Callers \ {r}
      PROVE  PlaceInv(q)' /\ KeyAt(q)' = KeyAt(q) /\ Owned(q)' = Owned(q) /\ pc'[q] = pc[q]
  BY <1>1, Bystander
<1>4. PayloadWaiters' = PayloadWaiters
  BY <1>1 DEF PayloadWaiters
<1>5. ASSUME NEW k \in Keys PROVE gates'[k] \in Gate /\ GateInv(k)'
  <2>1. GateInv(k) /\ gates[k] \in Gate /\ gates[k].queue \in Seq(Callers)
    BY <1>1 DEF IInv, Gate
  <2>2. Owners(k)' = Owners(k)
    BY <1>2, <1>3 DEF Owners
  <2>3. SlotWaiters(k)' = SlotWaiters(k) \ {r}
    BY <1>2, <1>3 DEF SlotWaiters
  <2>4. CASE k = KeyAt(r)
    <3>1. gates'[k] = [gates[k] EXCEPT !.queue = CutOut(gates[k].queue, r)]
      BY <1>1, <2>4 DEF LeaveGate, Withdraw
    <3>2. r \in SlotWaiters(k)
      BY <1>1, <2>4 DEF SlotWaiters
    <3>3. /\ CutOut(gates[k].queue, r) \in Seq(Callers)
          /\ IsInjective(CutOut(gates[k].queue, r))
          /\ ToSet(CutOut(gates[k].queue, r)) = SlotWaiters(k) \ {r}
      BY <2>1, <3>2, CutOutToSet DEF GateInv
    <3>4. /\ gates'[k] \in Gate /\ gates'[k].queue = CutOut(gates[k].queue, r)
          /\ gates'[k].current = gates[k].current
      BY <2>1, <3>1, <3>3 DEF Gate
    <3> QED BY <2>1, <2>2, <2>3, <3>3, <3>4 DEF GateInv
  <2>5. CASE k # KeyAt(r)
    <3>1. gates'[k] = gates[k] /\ r \notin SlotWaiters(k)
      BY <1>1, <2>5 DEF LeaveGate, SlotWaiters
    <3>2. SlotWaiters(k)' = SlotWaiters(k)
      BY <2>3, <3>1
    <3> QED BY <2>1, <2>2, <3>1, <3>2 DEF GateInv
  <2> QED BY <2>4, <2>5
<1>6. TypeOK'
  <2>1. DOMAIN gates' = Keys /\ gates' = [k \in Keys |-> gates'[k]]
    BY <1>1 DEF LeaveGate
  <2>2. gates' \in [Keys -> Gate]
    BY <1>5, <2>1
  <2> QED BY <1>1, <2>2 DEF IInv, TypeOK, PCs, Gate
<1> QED BY <1>1, <1>2, <1>3, <1>4, <1>5, <1>6, SameLedger DEF IInv

-----------------------------------------------------------------------------
\* An abort, or a timer in the payload queue, while r is not upstream: it leaves the
\* queue it is in, and its clients cannot tell.
LEMMA LeaveMoves ==
  ASSUME IInv, NEW r \in Callers, PayloadTimeout(r) \/ Abort(r), pc[r] # "running"
  PROVE  IInv' /\ \E p \in PCs : StatusAt(p) = StatusAt(pc[r]) /\ Moves(r, p)
<1> DEFINE p == IF pc[r] \in {"payloadWait", "slotWait"} THEN "failed" ELSE pc[r]
           led == IF pc[r] = "payloadWait" THEN Without(ledger, r) ELSE Returned(r)
<1>1. /\ pc[r] \in PCs \ {"idle", "done", "running"} /\ p \in PCs
      /\ StatusAt(p) = StatusAt(pc[r])
  BY DEF IInv, TypeOK, PayloadTimeout, Abort, PCs, StatusAt
<1>2. /\ aborted' \in [Callers -> BOOLEAN]
      /\ \A q \in Callers \ {r} : aborted'[q] = aborted[q]
      /\ aborted'[r] = TRUE \/ pc[r] = "payloadWait"
  BY DEF IInv, TypeOK, PayloadTimeout, Abort
<1>3. Free(r, p, led, LeftGates(r), {}) /\ UNCHANGED <<tier, acquired>>
  <2>1. CASE pc[r] = "payloadWait"
    BY <2>1 DEF PayloadTimeout, Abort, LeftGates
  <2>2. CASE pc[r] = "slotWait"
    BY <2>2 DEF PayloadTimeout, Abort, LeftGates
  <2>3. CASE pc[r] \notin {"payloadWait", "slotWait"}
    <3>1. Free(r, pc[r], Returned(r), LeftGates(r), {}) /\ UNCHANGED <<tier, acquired>>
      BY <2>3 DEF PayloadTimeout, Abort, LeftGates
    <3>2. p = pc[r] /\ led = Returned(r)
      BY <2>3
    <3> HIDE DEF p, led
    <3> QED BY <3>1, <3>2
  <2> QED BY <2>1, <2>2, <2>3
<1>4. /\ led \in Ledger /\ IsInjective(led.queue) /\ ToSet(led.queue) = PayloadWaiters \ {r}
      /\ Accounts(led, Leases \ {r}) /\ Budgeted(led)
  <2>1. CASE pc[r] = "payloadWait"
    <3>1. r \in PayloadWaiters
      BY <2>1 DEF PayloadWaiters
    <3> QED BY <2>1, <3>1, WithoutLedger
  <2>2. CASE pc[r] # "payloadWait"
    <3>1. r \notin PayloadWaiters
      BY <2>2 DEF PayloadWaiters
    <3> QED BY <2>2, <3>1, ReturnedLedger
  <2> QED BY <2>1, <2>2
<1>5. \/ /\ pc[r] \in {"payloadWait", "slotWait"} /\ p = "failed"
      \/ /\ pc[r] \in {"entering", "payloadReady", "slotReady", "failed", "returned"}
         /\ p = pc[r] /\ aborted'[r] = TRUE
  BY <1>1, <1>2 DEF PCs
<1> HIDE DEF p, led
<1>6. IInv' /\ Moves(r, p)
  BY <1>1, <1>2, <1>3, <1>4, <1>5, LeaveStep
<1> QED BY <1>1, <1>6

LEMMA AbortStep ==
  ASSUME IInv, NEW r \in Callers, PayloadTimeout(r) \/ Abort(r)
  PROVE  IInv'
<1>1. CASE pc[r] = "running"
  <2>1. /\ ReleaseAll(r, Owned(r)) /\ aborted' \in [Callers -> BOOLEAN]
        /\ \A q \in Callers \ {r} : aborted'[q] = aborted[q]
    BY <1>1 DEF IInv, TypeOK, PayloadTimeout, Abort, Owned
  <2> QED BY <1>1, <2>1, ReleaseStep
<1>2. CASE pc[r] # "running"
  BY <1>2, LeaveMoves
<1> QED BY <1>1, <1>2

LEMMA PayloadArrivesStep ==
  ASSUME IInv, NEW r \in Callers, PayloadArrives(r)
  PROVE  IInv'
<1>1. /\ pc[r] = "payloadReady" /\ acquired[r] = {} /\ Owned(r) = acquired[r]
      /\ acquired \in [Callers -> SUBSET Keys] /\ aborted \in [Callers -> BOOLEAN]
  BY DEF IInv, TypeOK, PlaceInv, PayloadArrives, Owned
<1>2. CASE aborted[r]
  <2>1. ReleaseAll(r, Owned(r)) /\ aborted' = aborted
    BY <1>1, <1>2 DEF PayloadArrives
  <2> QED BY <1>1, <2>1, ReleaseStep
<1>3. CASE ~ aborted[r]
  <2>1. AskNextTier(r, 1) /\ acquired' = acquired
    BY <1>3 DEF PayloadArrives
  <2>2. Owned(r) = LimitedBelow(r, 1)
    BY <1>1, BelowFacts
  <2>3. acquired' = [acquired EXCEPT ![r] = LimitedBelow(r, 1)]
    BY <1>1, <2>1, <2>2
  <2> DEFINE t == 1
  <2>4. /\ t \in 1..3 /\ Owned(r) = LimitedBelow(r, t) /\ AskNextTier(r, t)
        /\ acquired' = [acquired EXCEPT ![r] = LimitedBelow(r, t)]
    <3>1. AskNextTier(r, 1)
      BY <2>1
    <3>2. t \in 1..3 /\ Owned(r) = LimitedBelow(r, t)
      BY <2>2
    <3>3. acquired' = [acquired EXCEPT ![r] = LimitedBelow(r, t)]
      BY <2>3
    <3>4. t = 1
      OBVIOUS
    <3> QED BY <3>1, <3>2, <3>3, <3>4
  <2> HIDE DEF t
  <2> QED BY <1>1, <1>3, <2>4, AskStep
<1> QED BY <1>2, <1>3

LEMMA SlotArrivesStep ==
  ASSUME IInv, NEW r \in Callers, SlotArrives(r)
  PROVE  IInv'
<1>1. /\ pc[r] = "slotReady" /\ Owned(r) = PushKey(r) /\ tier[r] \in 1..2
      /\ acquired[r] = LimitedBelow(r, tier[r]) /\ Limit[KeyAt(r)] > 0
      /\ acquired \in [Callers -> SUBSET Keys] /\ aborted \in [Callers -> BOOLEAN]
  BY DEF IInv, TypeOK, PlaceInv, SlotArrives, Owned
<1>2. CASE aborted[r]
  <2>1. ReleaseAll(r, Owned(r)) /\ aborted' = aborted
    BY <1>1, <1>2 DEF SlotArrives
  <2> QED BY <1>1, <2>1, ReleaseStep
<1>3. CASE ~ aborted[r]
  <2>1. AskNextTier(r, tier[r] + 1) /\ acquired' = [acquired EXCEPT ![r] = PushKey(r)]
    BY <1>1, <1>3 DEF SlotArrives
  <2>2. PushKey(r) = LimitedBelow(r, tier[r] + 1) /\ tier[r] + 1 \in 1..3
    <3>1. CASE tier[r] = 1
      BY <1>1, <3>1, BelowFacts DEF PushKey, KeyAt
    <3>2. CASE tier[r] = 2
      BY <1>1, <3>2, BelowFacts DEF PushKey, KeyAt
    <3> QED BY <1>1, <3>1, <3>2
  <2> DEFINE t == tier[r] + 1
  <2>3. /\ t \in 1..3 /\ Owned(r) = LimitedBelow(r, t) /\ AskNextTier(r, t)
        /\ acquired' = [acquired EXCEPT ![r] = LimitedBelow(r, t)]
    BY <1>1, <2>1, <2>2
  <2> HIDE DEF t
  <2> QED BY <1>1, <1>3, <2>3, AskStep
<1> QED BY <1>2, <1>3

LEMMA StepAdmission == IInv /\ [Next]_vars => IInv'
<1> SUFFICES ASSUME IInv, [Next]_vars PROVE IInv'
  OBVIOUS
<1>1. CASE UNCHANGED vars
  <2>1. UNCHANGED <<gates, ledger, pc, tier, acquired, lease, aborted>>
    BY <1>1 DEF vars
  <2>2. \A k \in Keys : SlotWaiters(k)' = SlotWaiters(k) /\ Owners(k)' = Owners(k)
    BY <2>1 DEF SlotWaiters, Owners, Owned, PushKey, KeyAt
  <2>3. PayloadWaiters' = PayloadWaiters
    BY <2>1 DEF PayloadWaiters
  <2>4. LedgerInv'
    BY <2>1, <2>3, SameLedger
  <2>5. \A k \in Keys : GateInv(k)'
    BY <2>1, <2>2 DEF IInv, GateInv
  <2>6. \A r \in Callers : PlaceInv(r)'
    BY <2>1, Bystander
  <2>7. TypeOK'
    BY <2>1 DEF IInv, TypeOK
  <2> QED BY <2>4, <2>5, <2>6, <2>7 DEF IInv
<1>2. ASSUME NEW r \in Callers, Rollback(r) \/ Finish(r) \/ (EnterProvider(r) /\ aborted[r])
      PROVE  IInv'
  <2>1. /\ pc[r] \in {"failed", "returned", "running"} /\ ReleaseAll(r, Owned(r))
        /\ aborted' = aborted
    BY <1>2 DEF Rollback, Finish, EnterProvider, Owned
  <2>2. aborted' \in [Callers -> BOOLEAN]
    BY <2>1 DEF IInv, TypeOK
  <2> QED BY <2>1, <2>2, ReleaseStep
<1> QED BY <1>1, <1>2, IdleStep, AdmitStep, QueueStep, SlotTimeoutStep, AbortStep,
           PayloadArrivesStep, SlotArrivesStep DEF Next

-----------------------------------------------------------------------------
\* Every reachable state of the admission path keeps the inductive invariant.
THEOREM AdmissionInvariant == FairSpec => []IInv
BY InitAdmission, StepAdmission, PTL DEF FairSpec

\* Types: every variable keeps its shape, the queues hold requests only.
THEOREM AdmissionTypes == FairSpec => []TypeOK
<1>1. IInv => TypeOK
  BY DEF IInv
<1> QED BY AdmissionInvariant, <1>1, PTL

\* No slot is lost or returned twice, for any requests, providers and limits, through
\* any interleaving of hand-offs, timers, aborts and continuations.
THEOREM AdmissionSlotsConserved == FairSpec => []SlotsConserved
<1>1. IInv => SlotsConserved
  BY DEF IInv, GateInv, Owners, SlotsConserved
<1> QED BY AdmissionInvariant, <1>1, PTL

\* The shared ledger is the sum of the leases that are out, though a lease can be
\* returned by an abort, by a rollback or by the releaser.
THEOREM AdmissionLeasesConserved == FairSpec => []LeasesConserved
<1>1. IInv => LeasesConserved
  BY DEF IInv, LedgerInv, Accounts, Streams, Leases, LeasesConserved
<1> QED BY AdmissionInvariant, <1>1, PTL

\* Whatever interrupted it, a request that is over holds neither slot nor lease.
THEOREM AdmissionNothingLeftBehind == FairSpec => []NothingLeftBehind
<1>1. IInv => NothingLeftBehind
  BY DEF IInv, PlaceInv, NothingLeftBehind
<1> QED BY AdmissionInvariant, <1>1, PTL

\* A request that reaches its provider owns its lease and the slot of every limited
\* tier, and its client is still there.
THEOREM AdmissionRunsFullyAdmitted == FairSpec => []RunsFullyAdmitted
<1>1. IInv => RunsFullyAdmitted
  <2> SUFFICES ASSUME IInv, NEW r \in Callers, pc[r] = "running"
               PROVE  /\ lease[r] /\ ~ aborted[r]
                      /\ acquired[r] = {k \in Keys : k \in ToSet(Tiers(r)) /\ Limit[k] > 0}
    BY DEF RunsFullyAdmitted
  <2>1. lease[r] /\ ~ aborted[r] /\ acquired[r] = LimitedBelow(r, 3)
    BY DEF IInv, PlaceInv, Admitted
  <2>2. ToSet(Tiers(r)) = {Tiers(r)[1], Tiers(r)[2]}
    BY DEF ToSet, Tiers
  <2> QED BY <2>1, <2>2, BelowFacts, TierFacts
<1> QED BY AdmissionInvariant, <1>1, PTL

-----------------------------------------------------------------------------
\* An instance counts and sums as its user does.
LEMMA SameCounting ==
  ASSUME NEW S
  PROVE  /\ Service!Cardinality(S) = Cardinality(S)
         /\ Service!SumFunctionOnSet(Bytes, S) = SumFunctionOnSet(Bytes, S)
<1>1. Service!Cardinality(S) = Cardinality(S)
  BY Zenon DEF Service!Cardinality, Cardinality
<1>2. Service!SumFunctionOnSet(Bytes, S) = SumFunctionOnSet(Bytes, S)
  BY Zenon DEF Service!SumFunctionOnSet, SumFunctionOnSet, Service!FoldFunctionOnSet,
     FoldFunctionOnSet, Service!MapThenFoldSet, MapThenFoldSet
<1> QED BY <1>1, <1>2

\* With the inductive invariant, the requests upstream and one that is about to join
\* them are within the limits that BoundedService states.
LEMMA RoomToRun ==
  ASSUME IInv, NEW r \in Callers, pc[r] = "returned", ~ aborted[r]
  PROVE  Service!WithinLimits(Service!Running \cup {r})
<1> DEFINE R == Service!Running \cup {r}
<1>1. /\ R \in SUBSET Callers
      /\ \A q \in R : pc[q] \in {"returned", "running"} /\ ~ aborted[q]
  <2>1. \A q \in Service!Running : q \in Callers /\ pc[q] = "running"
    BY DEF Service!Running, Status, StatusAt
  <2>2. \A q \in Callers : pc[q] = "running" => ~ aborted[q]
    BY DEF IInv, PlaceInv
  <2> QED BY <2>1, <2>2
<1> HIDE DEF R
<1>2. ASSUME NEW q \in R
      PROVE  lease[q] /\ ~ TooLarge(q) /\ Owned(q) = LimitedBelow(q, 3)
  <2>1. PlaceInv(q) /\ pc[q] \in {"returned", "running"} /\ ~ aborted[q]
    BY <1>1 DEF IInv
  <2> QED BY <2>1 DEF PlaceInv, Admitted, Owned
<1>3. Leases \in SUBSET Callers /\ R \in SUBSET Leases
  BY <1>1, <1>2 DEF Leases
<1>4. /\ SumFunctionOnSet(Bytes, Leases) <= MaxPayloadBytes
      /\ Cardinality(Streams(Leases)) <= MaxHeldStreams
  BY DEF IInv, LedgerInv, Accounts, Budgeted
<1>5. MaxPayloadBytes \in Nat /\ MaxSinglePayloadBytes \in Nat /\ MaxHeldStreams \in Nat
  BY PayloadAssumption
<1>6. SumFunctionOnSet(Bytes, R) <= MaxPayloadBytes
  <2>1. /\ SumFunctionOnSet(Bytes, R) \in Nat /\ SumFunctionOnSet(Bytes, Leases) \in Nat
        /\ SumFunctionOnSet(Bytes, R) <= SumFunctionOnSet(Bytes, Leases)
    BY <1>1, <1>3, FewerBytes, BytesFacts
  <2> QED BY <1>4, <1>5, <2>1
<1>7. Cardinality({q \in R : IsStream[q]}) <= MaxHeldStreams
  <2> DEFINE A == {q \in R : IsStream[q]}
             B == Streams(Leases)
  <2>1. A \subseteq B /\ IsFiniteSet(B)
    BY <1>3, BytesFacts DEF Streams
  <2> HIDE DEF A, B
  <2>2. Cardinality(A) \in Nat /\ Cardinality(B) \in Nat /\ Cardinality(A) <= Cardinality(B)
    BY <2>1, FS_Subset, FS_CardinalityType
  <2>3. Cardinality(B) <= MaxHeldStreams
    BY <1>4 DEF B
  <2>4. Cardinality(A) <= MaxHeldStreams
    BY <1>5, <2>2, <2>3
  <2> QED BY <2>4 DEF A
<1>8. \A q \in R : Bytes[q] <= MaxSinglePayloadBytes
  BY <1>1, <1>2, PayloadAssumption DEF TooLarge
<1>9. ASSUME NEW k \in Keys, Limit[k] > 0
      PROVE  Cardinality({q \in R : k \in [c \in Callers |-> {Global, ProviderOf[c]}][q]}) <= Limit[k]
  <2> DEFINE A == {q \in R : k \in [c \in Callers |-> {Global, ProviderOf[c]}][q]}
             B == Owners(k)
  <2>1. ASSUME NEW q \in A PROVE q \in B
    <3>1. q \in Callers /\ k \in {Tiers(q)[1], Tiers(q)[2]} /\ Owned(q) = LimitedBelow(q, 3)
      BY <1>1, <1>2, TierFacts
    <3>2. k \in Owned(q)
      BY <1>9, <3>1, BelowFacts
    <3> QED BY <3>1, <3>2 DEF Owners
  <2>2. IsFiniteSet(B)
    BY OwnersFinite DEF Owners
  <2>3. Cardinality(B) <= Limit[k] /\ Limit[k] \in Nat
    BY <1>9, AdmissionAssumption DEF IInv, GateInv, Keys
  <2> HIDE DEF A, B
  <2>4. Cardinality(A) \in Nat /\ Cardinality(B) \in Nat /\ Cardinality(A) <= Cardinality(B)
    BY <2>1, <2>2, FS_Subset, FS_CardinalityType
  <2>5. Cardinality(A) <= Limit[k]
    BY <2>3, <2>4
  <2> QED BY <2>5 DEF A
<1> QED BY <1>6, <1>7, <1>8, <1>9, SameCounting DEF Service!WithinLimits, R

\* To its clients, a request that moves to p has only moved to StatusAt(p).
LEMMA StatusMoves ==
  ASSUME NEW r \in Callers, NEW p \in PCs, Moves(r, p)
  PROVE  Status' = [Status EXCEPT ![r] = StatusAt(p)]
<1>1. \A q \in Callers \ {r} : StatusAt(pc'[q]) = StatusAt(pc[q])
  BY DEF Moves, Between, StatusAt
<1> QED BY <1>1 DEF Moves, Status

\* A move that its clients see, or cannot see.
LEMMA ServiceMove ==
  ASSUME IInv, NEW r \in Callers, NEW p \in PCs, Moves(r, p),
         \/ StatusAt(p) = StatusAt(pc[r])
         \/ pc[r] = "idle" /\ p = "entering"
         \/ pc[r] \in Between /\ p = "done"
         \/ pc[r] = "returned" /\ p = "running" /\ ~ aborted[r]
         \/ pc[r] = "running" /\ p = "done"
         \/ pc[r] = "done" /\ p = "idle"
  PROVE  [Service!Next]_Status
<1>1. Status' = [Status EXCEPT ![r] = StatusAt(p)] /\ Status[r] = StatusAt(pc[r])
  BY StatusMoves DEF Status
<1>2. CASE StatusAt(p) = StatusAt(pc[r])
  <2>1. Status' = Status
    BY <1>1, <1>2 DEF Status
  <2> QED BY <2>1
<1>3. CASE pc[r] = "idle" /\ p = "entering"
  BY <1>1, <1>3 DEF Service!Next, Service!Ask, Service!Move, StatusAt
<1>4. CASE pc[r] \in Between /\ p = "done"
  BY <1>1, <1>4 DEF Service!Next, Service!Refuse, Service!Move, StatusAt, Between
<1>5. CASE pc[r] = "returned" /\ p = "running" /\ ~ aborted[r]
  <2>1. Service!WithinLimits(Service!Running \cup {r})
    BY <1>5, RoomToRun
  <2>2. Service!Move(r, "asked", "running")
    BY <1>1, <1>5 DEF Service!Move, StatusAt
  <2> QED BY <2>1, <2>2 DEF Service!Next, Service!Run
<1>6. CASE pc[r] = "running" /\ p = "done"
  BY <1>1, <1>6 DEF Service!Next, Service!Finish, Service!Move, StatusAt
<1>7. CASE pc[r] = "done" /\ p = "idle"
  BY <1>1, <1>7 DEF Service!Next, Service!Forget, Service!Move, StatusAt
<1> QED BY <1>2, <1>3, <1>4, <1>5, <1>6, <1>7

LEMMA ServiceStep == IInv /\ [Next]_vars => [Service!Next]_Status
<1> SUFFICES ASSUME IInv, [Next]_vars PROVE [Service!Next]_Status
  OBVIOUS
<1>0. pc \in [Callers -> PCs] /\ aborted \in [Callers -> BOOLEAN]
  BY DEF IInv, TypeOK
<1>1. CASE UNCHANGED vars
  BY <1>1 DEF vars, Status
<1>2. ASSUME NEW r \in Callers, NEW p \in PCs, pc' = [pc EXCEPT ![r] = p]
      PROVE  Moves(r, p)
  BY <1>0, <1>2 DEF Moves
<1>3. ASSUME NEW r \in Callers, Begin(r) \/ AskAgain(r) \/ (EnterProvider(r) /\ ~ aborted[r])
      PROVE  [Service!Next]_Status
  <2>1. \/ pc[r] = "idle" /\ pc' = [pc EXCEPT ![r] = "entering"]
        \/ pc[r] = "done" /\ pc' = [pc EXCEPT ![r] = "idle"]
        \/ pc[r] = "returned" /\ ~ aborted[r] /\ pc' = [pc EXCEPT ![r] = "running"]
    BY <1>3 DEF Begin, AskAgain, EnterProvider
  <2>2. PICK p \in {"entering", "idle", "running"} :
          /\ pc' = [pc EXCEPT ![r] = p]
          /\ \/ pc[r] = "idle" /\ p = "entering"
             \/ pc[r] = "done" /\ p = "idle"
             \/ pc[r] = "returned" /\ p = "running" /\ ~ aborted[r]
    BY <2>1
  <2>3. p \in PCs
    BY DEF PCs
  <2> QED BY <1>2, <2>2, <2>3, ServiceMove
<1>4. ASSUME NEW r \in Callers,
             RefusePayload(r) \/ AdmitPayload(r) \/ QueuePayload(r) \/ SlotTimeout(r)
      PROVE  [Service!Next]_Status
  <2>1. PICK p \in {"failed", "payloadReady", "payloadWait"} :
          /\ pc' = [pc EXCEPT ![r] = p]
          /\ pc[r] \in {"entering", "slotWait"}
    BY <1>4 DEF RefusePayload, AdmitPayload, QueuePayload, SlotTimeout
  <2>2. p \in PCs /\ StatusAt(p) = StatusAt(pc[r])
    BY <2>1 DEF PCs, StatusAt
  <2> QED BY <1>2, <2>1, <2>2, ServiceMove
<1>5. ASSUME NEW r \in Callers, NEW t, AskNextTier(r, t), pc[r] \in {"payloadReady", "slotReady"}
      PROVE  [Service!Next]_Status
  <2>1. PICK p \in {"returned", "slotReady", "slotWait"} : pc' = [pc EXCEPT ![r] = p]
    BY <1>5 DEF AskNextTier
  <2>2. p \in PCs /\ StatusAt(p) = StatusAt(pc[r])
    BY <1>5, <2>1 DEF PCs, StatusAt
  <2> QED BY <1>2, <2>1, <2>2, ServiceMove
<1>6. ASSUME NEW r \in Callers, ReleaseAll(r, Owned(r)), aborted' \in [Callers -> BOOLEAN],
             pc[r] \in {"payloadReady", "slotReady", "failed", "returned", "running"},
             \A q \in Callers \ {r} : aborted'[q] = aborted[q]
      PROVE  [Service!Next]_Status
  <2>1. Moves(r, "done")
    BY <1>6, ReleaseStep
  <2>2. "done" \in PCs /\ (pc[r] \in Between \/ pc[r] = "running")
    BY <1>6 DEF PCs, Between
  <2> QED BY <2>1, <2>2, ServiceMove
<1>7. ASSUME NEW r \in Callers, PayloadArrives(r) \/ SlotArrives(r)
      PROVE  [Service!Next]_Status
  <2>1. pc[r] \in {"payloadReady", "slotReady"}
    BY <1>7 DEF PayloadArrives, SlotArrives
  <2>2. CASE aborted[r]
    <3>1. ReleaseAll(r, Owned(r)) /\ aborted' = aborted
      BY <1>7, <2>2 DEF PayloadArrives, SlotArrives, Owned
    <3> QED BY <1>0, <1>6, <2>1, <3>1
  <2>3. CASE ~ aborted[r]
    <3>1. AskNextTier(r, 1) \/ AskNextTier(r, tier[r] + 1)
      BY <1>7, <2>3 DEF PayloadArrives, SlotArrives
    <3> QED BY <1>5, <2>1, <3>1
  <2> QED BY <2>2, <2>3
<1>8. ASSUME NEW r \in Callers, Rollback(r) \/ Finish(r) \/ (EnterProvider(r) /\ aborted[r])
      PROVE  [Service!Next]_Status
  <2>1. /\ pc[r] \in {"failed", "returned", "running"} /\ ReleaseAll(r, Owned(r))
        /\ aborted' = aborted
    BY <1>8 DEF Rollback, Finish, EnterProvider, Owned
  <2> QED BY <1>0, <1>6, <2>1
<1>9. ASSUME NEW r \in Callers, PayloadTimeout(r) \/ Abort(r)
      PROVE  [Service!Next]_Status
  <2>1. CASE pc[r] = "running"
    <3>1. ReleaseAll(r, Owned(r)) /\ aborted' = [aborted EXCEPT ![r] = TRUE]
      BY <1>9, <2>1 DEF PayloadTimeout, Abort, Owned
    <3> QED BY <1>0, <1>6, <2>1, <3>1
  <2>2. CASE pc[r] # "running"
    <3>1. PICK p \in PCs : StatusAt(p) = StatusAt(pc[r]) /\ Moves(r, p)
      BY <1>9, <2>2, LeaveMoves
    <3> QED BY <3>1, ServiceMove
  <2> QED BY <2>1, <2>2
<1> QED BY <1>1, <1>3, <1>4, <1>7, <1>8, <1>9 DEF Next

\* Admission keeps every promise of the service that can be broken in finitely many
\* steps: at any time the requests upstream are within all the limits together.
THEOREM AdmissionIsBounded == FairSpec => Service!Init /\ [][Service!Next]_Status
<1>1. Init => Service!Init
  BY DEF Init, Service!Init, Status, StatusAt
<1> QED BY AdmissionInvariant, ServiceStep, <1>1, PTL DEF FairSpec

=============================================================================
