----------------------- MODULE AccountRecoveryProofs -----------------------
(***************************************************************************)
(* Proofs about AccountRecovery for every set of requests and models, and  *)
(* every choice of cooldowns, lease timeout and bound on the clock.        *)
(***************************************************************************)
EXTENDS AccountRecovery, TLAPS

Active == {"running", "succeeded", "ending"}

\* A probe has seen its scope half open, and only its end closes the circuit.
LeasedIsNotClosed == \A s \in Scopes : HasLease(circuit[s]) => circuit[s].state # "CLOSED"

\* No attempt starts in the future.
AttemptsStarted == \A r \in Requests : started[r] <= clock

\* The inductive invariant.  That account and models never hold leases together
\* needs LeasedIsNotClosed: a claim on a model looks at the state of the account
\* and not at its lease alone.
IInv ==
  /\ TypeOK
  /\ AttemptsStarted
  /\ NoOrphanLease
  /\ LeasedIsNotClosed
  /\ AccountLeasesAlone

\* What evaluating circuits may do to leases: each is kept as it is or voided,
\* and a circuit that keeps one is not closed by it.
Softened(cs, ds) == \A s \in Scopes :
  \/ ds[s].lease = NoOne
  \/ /\ ds[s].lease = cs[s].lease /\ ds[s].expires = cs[s].expires
     /\ ds[s].state = "CLOSED" => cs[s].state = "CLOSED"

-----------------------------------------------------------------------------
LEMMA ScopesFacts ==
  /\ ALL \in Scopes /\ NoOne \notin Scopes /\ NoOne \notin Requests
  /\ \A r \in Requests : ModelOf[r] \in Models /\ ModelOf[r] \in Scopes /\ ModelOf[r] # ALL
BY RecoveryAssumption DEF Scopes

\* _evaluateCircuit keeps or voids the lease of a circuit.
LEMMA AtSoftens ==
  ASSUME NEW c \in Circuit, NEW now \in Nat
  PROVE  /\ At(c, now) \in Circuit
         /\ \/ At(c, now).lease = NoOne
            \/ /\ At(c, now).lease = c.lease /\ At(c, now).expires = c.expires
               /\ At(c, now).state = "CLOSED" => c.state = "CLOSED"
BY DEF At, Unleased, Circuit, None

LEMMA ToldSoftens ==
  ASSUME NEW c \in Circuit, NEW deadline \in Nat
  PROVE  Told(c, deadline) \in Circuit /\ (Told(c, deadline) = c \/ Told(c, deadline).lease = NoOne)
BY DEF Told, Closed, Circuit, None

LEMMA ConsultSoftens ==
  ASSUME NEW cs \in [Scopes -> Circuit], NEW locks \in [Scopes -> Nat], NEW s \in Scopes,
         clock \in Nat
  PROVE  Consult(cs, locks, s) \in [Scopes -> Circuit] /\ Softened(cs, Consult(cs, locks, s))
<1> DEFINE c == At(Told(cs[s], locks[s]), clock)
<1>1. Softened(cs, cs)
  BY DEF Softened
<1>2. c \in Circuit /\ (c.lease = NoOne \/ (c.lease = cs[s].lease /\ c.expires = cs[s].expires
                                            /\ (c.state = "CLOSED" => cs[s].state = "CLOSED")))
  <2>1. cs[s] \in Circuit /\ locks[s] \in Nat
    OBVIOUS
  <2>2. Told(cs[s], locks[s]) \in Circuit
    BY <2>1, ToldSoftens
  <2>3. Told(cs[s], locks[s]) = cs[s] \/ Told(cs[s], locks[s]).lease = NoOne
    BY <2>1, ToldSoftens
  <2> QED BY <2>2, <2>3, AtSoftens
<1>3. Consult(cs, locks, s) = cs \/ Consult(cs, locks, s) = [cs EXCEPT ![s] = c]
  BY DEF Consult, Evaluated
<1> HIDE DEF c
<1>4. [cs EXCEPT ![s] = c] \in [Scopes -> Circuit] /\ Softened(cs, [cs EXCEPT ![s] = c])
  BY <1>2 DEF Softened
<1> QED BY <1>1, <1>3, <1>4

LEMMA SoftenedTwice ==
  ASSUME NEW cs \in [Scopes -> Circuit], NEW ds \in [Scopes -> Circuit],
         NEW es \in [Scopes -> Circuit], Softened(cs, ds), Softened(ds, es)
  PROVE  Softened(cs, es)
BY DEF Softened

\* The two consultations of a request, account first.
LEMMA BothSoften ==
  ASSUME TypeOK, NEW locks \in [Scopes -> Nat], NEW m \in Scopes
  PROVE  LET account == Consult(circuit, locks, ALL)
             both == Consult(account, locks, m)
         IN /\ account \in [Scopes -> Circuit] /\ Softened(circuit, account)
            /\ both \in [Scopes -> Circuit] /\ Softened(circuit, both)
<1> DEFINE account == Consult(circuit, locks, ALL)
           both == Consult(account, locks, m)
<1>1. clock \in Nat /\ circuit \in [Scopes -> Circuit] /\ ALL \in Scopes
  BY ScopesFacts, RecoveryAssumption DEF TypeOK
<1>2. account \in [Scopes -> Circuit] /\ Softened(circuit, account)
  BY <1>1, ConsultSoftens
<1> HIDE DEF account
<1>3. both \in [Scopes -> Circuit] /\ Softened(account, both)
  BY <1>1, <1>2, ConsultSoftens
<1> QED BY <1>1, <1>2, <1>3, SoftenedTwice DEF account

-----------------------------------------------------------------------------
\* A step that only evaluates circuits, and lets time pass, keeps what is said
\* about leases in force.
LEMMA QuietLeases ==
  ASSUME IInv, TypeOK', Softened(circuit, circuit'), clock' >= clock
  PROVE  LeasedIsNotClosed' /\ AccountLeasesAlone'
<1>1. \A s \in Scopes : HasLease(circuit'[s]) =>
         /\ HasLease(circuit[s]) /\ circuit'[s].lease = circuit[s].lease
         /\ circuit'[s].expires = circuit[s].expires
         /\ circuit'[s].state = "CLOSED" => circuit[s].state = "CLOSED"
  BY DEF Softened, HasLease
<1>2. LeasedIsNotClosed'
  BY <1>1 DEF IInv, LeasedIsNotClosed, HasLease
<1>3. \A s \in Scopes : InForce(s)' => InForce(s)
  BY <1>1, RecoveryAssumption DEF InForce, HasLease, IInv, TypeOK, Circuit
<1>4. AccountLeasesAlone'
  BY <1>3, ScopesFacts DEF AccountLeasesAlone, IInv, Scopes
<1> QED BY <1>2, <1>4

\* A lease that survives such a step still has its holder, if those who hold one
\* stay where they were.
LEMMA QuietHolders ==
  ASSUME IInv, Softened(circuit, circuit'),
         \A r \in Requests : pc[r] \in Active => pc'[r] \in Active /\ probe'[r] = probe[r]
  PROVE  NoOrphanLease'
BY DEF IInv, NoOrphanLease, Softened, HasLease, Active, TypeOK, Circuit

\* finish takes the one lease away that its request can hold.
LEMMA FinishSoftens ==
  ASSUME IInv, NEW r \in Requests, NEW success \in BOOLEAN, Finish(r, success)
  PROVE  /\ circuit' \in [Scopes -> Circuit] /\ Softened(circuit, circuit')
         /\ probe' = [probe EXCEPT ![r] = NoProbe]
         /\ \A s \in Scopes : circuit'[s].lease # r
<1> DEFINE s == probe[r].scope
<1>1. s \in Scopes \cup {NoOne} /\ circuit \in [Scopes -> Circuit]
  BY DEF IInv, TypeOK
<1>2. \A t \in Scopes : t # s => circuit[t].lease # r
  BY ScopesFacts DEF IInv, NoOrphanLease, HasLease
<1>3. CASE s = NoOne
  <2>1. circuit' = circuit
    BY <1>3 DEF Finish
  <2> QED BY <1>1, <1>2, <1>3, <2>1, ScopesFacts DEF Softened, Finish
<1>4. CASE s \in Scopes
  <2>1. circuit' = Settled(circuit, s, r, success, clock)
    BY <1>4, ScopesFacts DEF Finish
  <2>2. CASE circuit[s].lease # r
    <3>1. circuit' = circuit
      BY <2>1, <2>2 DEF Settled
    <3> QED BY <1>1, <1>2, <1>4, <2>2, <3>1 DEF Softened, Finish
  <2>3. CASE circuit[s].lease = r
    <3>1. PICK c \in Circuit : c.lease = NoOne /\ circuit' = [circuit EXCEPT ![s] = c]
      <4>1. Closed \in Circuit /\ Closed.lease = NoOne
        BY DEF Closed, Circuit, None
      <4>2. Unleased(circuit[s]) \in Circuit /\ Unleased(circuit[s]).lease = NoOne
        BY <1>1, <1>4 DEF Unleased, Circuit
      <4> QED BY <1>1, <1>4, <2>1, <2>3, <4>1, <4>2 DEF Settled
    <3> QED BY <1>1, <1>2, <1>4, <3>1, ScopesFacts DEF Softened, Finish
  <2> QED BY <2>2, <2>3
<1> QED BY <1>1, <1>3, <1>4

\* What is remembered of the circuits, or nothing new.
LEMMA HistoryTypes ==
  ASSUME TypeOK, circuit' \in [Scopes -> Circuit], Remember \/ UNCHANGED history
  PROVE  newest' \in [Scopes -> Nat] /\ outdated' \subseteq Scopes
<1>1. newest \in [Scopes -> Nat] /\ outdated \subseteq Scopes
  BY DEF TypeOK
<1>2. \A s \in Scopes : circuit'[s].cooldown \in Nat
  BY DEF Circuit
<1>3. CASE Remember
  BY <1>1, <1>2, <1>3 DEF Remember, Later
<1>4. CASE UNCHANGED history
  BY <1>1, <1>4 DEF history
<1> QED BY <1>3, <1>4

-----------------------------------------------------------------------------
LEMMA InitInvariant == Init => IInv
<1> SUFFICES ASSUME Init PROVE IInv
  OBVIOUS
<1>1. TypeOK
  <2>1. Closed \in Circuit /\ NoLocks \in [Scopes -> Nat]
    BY DEF Closed, Circuit, NoLocks, None
  <2>2. NoProbe \in [scope : Scopes \cup {NoOne}, basis : Nat, until : Nat]
    BY DEF NoProbe
  <2>3. 1 \in 1..MaxTime /\ 0 \in 0..MaxTime
    BY RecoveryAssumption
  <2>4. lock \in [Scopes -> Nat]
    BY RecoveryAssumption DEF Init
  <2> QED BY <2>1, <2>2, <2>3, <2>4 DEF Init, TypeOK
<1>2. AttemptsStarted
  BY DEF Init, AttemptsStarted
<1>3. NoOrphanLease /\ LeasedIsNotClosed /\ AccountLeasesAlone
  BY ScopesFacts DEF Init, NoOrphanLease, LeasedIsNotClosed, AccountLeasesAlone, InForce,
                     HasLease, Closed
<1> QED BY <1>1, <1>2, <1>3 DEF IInv

LEMMA SelectInvariant ==
  ASSUME IInv, NEW r \in Requests, Select(r) PROVE IInv'
<1>1. lock \in [Scopes -> Nat] /\ ModelOf[r] \in Scopes
  BY ScopesFacts DEF IInv, TypeOK
<1>2. circuit' \in [Scopes -> Circuit] /\ Softened(circuit, circuit')
  BY <1>1, BothSoften DEF Select, IInv
<1>3. /\ clock' = clock /\ lock' = lock /\ version' = version /\ started' = started
      /\ probe' = probe
      /\ \/ pc' = pc /\ seen' = seen
         \/ pc' = [pc EXCEPT ![r] = "selected"]
            /\ seen' = [seen EXCEPT ![r] = Concerning(r, lock)]
  BY DEF Select, Move
<1>4. Concerning(r, lock) \in [Scopes -> Nat]
  BY <1>1 DEF Concerning, None
<1>9. newest' \in [Scopes -> Nat] /\ outdated' \subseteq Scopes
  BY <1>2, HistoryTypes DEF Select, IInv
<1>5. TypeOK'
  BY <1>2, <1>3, <1>4, <1>9 DEF IInv, TypeOK
<1>6. AttemptsStarted'
  BY <1>3 DEF IInv, AttemptsStarted
<1>7. clock' >= clock
  BY <1>3, RecoveryAssumption DEF IInv, TypeOK
<1>8. \A q \in Requests : pc[q] \in Active => pc'[q] \in Active /\ probe'[q] = probe[q]
  BY <1>3 DEF Select, Active, IInv, TypeOK
<1> QED BY <1>2, <1>5, <1>6, <1>7, <1>8, QuietLeases, QuietHolders DEF IInv

\* A claim on evaluated circuits leaves at most one kind of probe in force.
LEMMA ClaimInvariant ==
  ASSUME IInv, NEW r \in Requests, pc[r] = "selected", NEW s \in Scopes,
         NEW cs \in [Scopes -> Circuit], Softened(circuit, cs), Claim(r, cs, s),
         Remember, UNCHANGED <<lock, version>>
  PROVE  IInv'
<1>1. /\ clock \in 1..MaxTime /\ clock < MaxTime /\ clock' = clock + 1 /\ MaxTime \in Nat
      /\ started' = [started EXCEPT ![r] = clock']
      /\ seen' = [seen EXCEPT ![r] = NoLocks]
      /\ pc' = [pc EXCEPT ![r] = "running"]
  BY RecoveryAssumption DEF Claim, Start, Move, IInv, TypeOK
<1>2. /\ circuit' = [cs EXCEPT ![s].lease = r, ![s].expires = clock + LeaseMs]
      /\ probe' = [probe EXCEPT ![r] =
                     [scope |-> s, basis |-> cs[s].cooldown, until |-> clock + LeaseMs]]
      /\ CanProbe(cs, s, clock) /\ LeaseMs \in Nat
  BY RecoveryAssumption DEF Claim, Leased
<1>3. /\ \A t \in Scopes : t # s => circuit'[t] = cs[t]
      /\ circuit'[s].lease = r /\ circuit'[s].state = cs[s].state
      /\ circuit' \in [Scopes -> Circuit]
  <2> DEFINE c == [cs[s] EXCEPT !.lease = r, !.expires = clock + LeaseMs]
  <2>1. c \in Circuit /\ c.lease = r /\ c.state = cs[s].state
    <3>1. cs[s] \in Circuit /\ clock + LeaseMs \in Nat
      BY <1>1, <1>2
    <3> QED BY <3>1 DEF Circuit
  <2>2. circuit' = [cs EXCEPT ![s] = c]
    BY <1>2
  <2> HIDE DEF c
  <2> QED BY <2>1, <2>2
<1>4. TypeOK'
  <2>1. NoLocks \in [Scopes -> Nat]
    BY DEF NoLocks, None
  <2>2. cs[s].cooldown \in Nat
    BY DEF Circuit
  <2>3. newest' \in [Scopes -> Nat] /\ outdated' \subseteq Scopes
    BY <1>3, HistoryTypes DEF IInv
  <2> QED BY <1>1, <1>2, <1>3, <2>1, <2>2, <2>3 DEF IInv, TypeOK
<1>5. AttemptsStarted'
  BY <1>1 DEF IInv, TypeOK, AttemptsStarted
<1>6. \A t \in Scopes : HasLease(cs[t]) =>
         /\ HasLease(circuit[t]) /\ cs[t].lease = circuit[t].lease
         /\ cs[t].expires = circuit[t].expires
         /\ cs[t].state # "CLOSED" /\ cs[t].lease # r
         /\ pc[cs[t].lease] \in Active /\ probe[cs[t].lease].scope = t
         /\ cs[t].lease \in Requests
  BY DEF Softened, HasLease, IInv, LeasedIsNotClosed, NoOrphanLease, Active, TypeOK, Circuit
<1>7. NoOrphanLease'
  BY <1>1, <1>2, <1>3, <1>6 DEF NoOrphanLease, HasLease, Active, IInv, TypeOK
<1>8. LeasedIsNotClosed'
  <2>1. cs[s].state # "CLOSED"
    BY <1>2 DEF CanProbe, StateOf, At, Unleased
  <2> QED BY <1>3, <1>6, <2>1 DEF LeasedIsNotClosed, HasLease
<1>9. AccountLeasesAlone'
  <2>1. \A t \in Scopes : t # s /\ InForce(t)' => HasLease(cs[t]) /\ cs[t].expires > clock
    BY <1>1, <1>3 DEF InForce, HasLease, Circuit
  <2>2. CASE s = ALL
    <3>1. \A n \in Models : cs[n].lease = NoOne \/ cs[n].expires <= clock
      BY <1>2, <2>2 DEF CanProbe
    <3>2. \A n \in Models : n \in Scopes /\ n # s /\ cs[n].expires \in Nat
      BY <2>2, RecoveryAssumption DEF Scopes, Circuit
    <3>3. \A n \in Models : ~InForce(n)'
      BY <1>1, <2>1, <3>1, <3>2 DEF HasLease
    <3> QED BY <3>3 DEF AccountLeasesAlone
  <2>3. CASE s # ALL
    <3>1. ~(HasLease(cs[ALL]) /\ cs[ALL].expires > clock)
      <4> SUFFICES ASSUME HasLease(cs[ALL]), cs[ALL].expires > clock PROVE FALSE
        OBVIOUS
      <4>1. cs[ALL].state # "CLOSED" /\ cs[ALL] \in Circuit
        BY <1>6, ScopesFacts
      <4>2. GovernedByAccount(cs, s, clock)
        BY <1>1, <2>3, <4>1 DEF GovernedByAccount, At, Unleased, HasLease, Circuit, None
      <4> QED BY <1>2, <4>2 DEF CanProbe, StateOf
    <3> QED BY <2>1, <2>3, <3>1, ScopesFacts DEF AccountLeasesAlone
  <2> QED BY <2>2, <2>3
<1> QED BY <1>4, <1>5, <1>7, <1>8, <1>9 DEF IInv

LEMMA DispatchInvariant ==
  ASSUME IInv, NEW r \in Requests, Dispatch(r) PROVE IInv'
<1> DEFINE m == ModelOf[r]
           account == Consult(circuit, seen[r], ALL)
           both == Consult(account, seen[r], m)
<1>1. seen[r] \in [Scopes -> Nat] /\ m \in Scopes /\ ALL \in Scopes
  BY ScopesFacts DEF IInv, TypeOK
<1>2. /\ account \in [Scopes -> Circuit] /\ Softened(circuit, account)
      /\ both \in [Scopes -> Circuit] /\ Softened(circuit, both)
  BY <1>1, BothSoften DEF IInv
<1>3. /\ pc[r] = "selected" /\ Remember /\ UNCHANGED <<lock, version>>
      /\ \/ Claim(r, account, ALL) \/ TurnAway(r, account)
         \/ Claim(r, both, m) \/ TurnAway(r, both)
         \/ circuit' = both /\ UNCHANGED probe /\ Start(r)
  BY DEF Dispatch
<1> HIDE DEF m, account, both
<1>4. NoLocks \in [Scopes -> Nat]
  BY DEF NoLocks, None
<1>5. CASE Claim(r, account, ALL) \/ Claim(r, both, m)
  BY <1>1, <1>2, <1>3, <1>5, ClaimInvariant
<1>6. CASE TurnAway(r, account) \/ TurnAway(r, both)
  <2>1. /\ circuit' \in [Scopes -> Circuit] /\ Softened(circuit, circuit')
        /\ pc' = [pc EXCEPT ![r] = "idle"] /\ seen' = [seen EXCEPT ![r] = NoLocks]
        /\ started' = [started EXCEPT ![r] = 0] /\ clock' = clock /\ probe' = probe
    BY <1>2, <1>6 DEF TurnAway, Leave, Move
  <2>2. TypeOK' /\ clock' >= clock
    BY <1>3, <1>4, <2>1, HistoryTypes, RecoveryAssumption DEF IInv, TypeOK
  <2>3. AttemptsStarted'
    BY <2>1 DEF IInv, TypeOK, AttemptsStarted
  <2>4. \A q \in Requests : pc[q] \in Active => pc'[q] \in Active /\ probe'[q] = probe[q]
    BY <1>3, <2>1 DEF Active, IInv, TypeOK
  <2> QED BY <2>1, <2>2, <2>3, <2>4, QuietLeases, QuietHolders DEF IInv
<1>7. CASE circuit' = both /\ UNCHANGED probe /\ Start(r)
  <2>1. /\ clock' = clock + 1 /\ clock < MaxTime /\ started' = [started EXCEPT ![r] = clock']
        /\ seen' = [seen EXCEPT ![r] = NoLocks] /\ pc' = [pc EXCEPT ![r] = "running"]
        /\ probe' = probe
    BY <1>7 DEF Start, Move
  <2>2. TypeOK' /\ clock' >= clock
    <3>1. clock' \in 1..MaxTime /\ clock' >= clock
      <4>1. clock \in 1..MaxTime /\ MaxTime \in Nat
        BY RecoveryAssumption DEF IInv, TypeOK
      <4> QED BY <2>1, <4>1
    <3>2. started' \in [Requests -> 0..MaxTime] /\ seen' \in [Requests -> [Scopes -> Nat]]
      BY <1>4, <2>1, <3>1 DEF IInv, TypeOK
    <3>3. newest' \in [Scopes -> Nat] /\ outdated' \subseteq Scopes
      BY <1>2, <1>3, <1>7, HistoryTypes DEF IInv
    <3> QED BY <1>2, <1>3, <1>7, <2>1, <3>1, <3>2, <3>3 DEF IInv, TypeOK
  <2>3. AttemptsStarted'
    BY <2>1 DEF IInv, TypeOK, AttemptsStarted
  <2>4. \A q \in Requests : pc[q] \in Active => pc'[q] \in Active /\ probe'[q] = probe[q]
    BY <1>3, <2>1 DEF Active, IInv, TypeOK
  <2> QED BY <1>2, <1>7, <2>2, <2>3, <2>4, QuietLeases, QuietHolders DEF IInv
<1> QED BY <1>3, <1>5, <1>6, <1>7

\* Every way out that settles the lease: the request has none afterwards.
LEMMA FinishInvariant ==
  ASSUME IInv, NEW r \in Requests, NEW success \in BOOLEAN, Finish(r, success),
         NEW p \in {"idle", "failed"}, Move(r, p), UNCHANGED <<clock, lock, version, history>>,
         \/ UNCHANGED <<seen, started>>
         \/ seen' = [seen EXCEPT ![r] = NoLocks] /\ started' = [started EXCEPT ![r] = 0]
  PROVE  IInv'
<1>1. /\ circuit' \in [Scopes -> Circuit] /\ Softened(circuit, circuit')
      /\ probe' = [probe EXCEPT ![r] = NoProbe]
      /\ \A s \in Scopes : circuit'[s].lease # r
  BY FinishSoftens
<1>2. pc' = [pc EXCEPT ![r] = p]
  BY DEF Move
<1>3. NoLocks \in [Scopes -> Nat] /\ NoProbe \in [scope : Scopes \cup {NoOne}, basis : Nat, until : Nat]
  BY DEF NoLocks, None, NoProbe
<1>4. TypeOK' /\ clock' >= clock
  <2>1. /\ seen' \in [Requests -> [Scopes -> Nat]] /\ started' \in [Requests -> 0..MaxTime]
        /\ clock' = clock /\ clock \in Nat
    <3>1. /\ seen \in [Requests -> [Scopes -> Nat]] /\ started \in [Requests -> 0..MaxTime]
          /\ clock \in 1..MaxTime /\ MaxTime \in Nat
      BY RecoveryAssumption DEF IInv, TypeOK
    <3>2. [seen EXCEPT ![r] = NoLocks] \in [Requests -> [Scopes -> Nat]]
      BY <1>3, <3>1
    <3>3. [started EXCEPT ![r] = 0] \in [Requests -> 0..MaxTime]
      BY <3>1
    <3>4. clock' = clock /\ clock \in Nat
      BY <3>1
    <3>5. CASE UNCHANGED <<seen, started>>
      BY <3>1, <3>4, <3>5
    <3>6. CASE seen' = [seen EXCEPT ![r] = NoLocks] /\ started' = [started EXCEPT ![r] = 0]
      BY <3>2, <3>3, <3>4, <3>6
    <3> QED BY <3>5, <3>6
  <2>2. probe' \in [Requests -> [scope : Scopes \cup {NoOne}, basis : Nat, until : Nat]]
    BY <1>1, <1>3 DEF IInv, TypeOK
  <2>3. newest' \in [Scopes -> Nat] /\ outdated' \subseteq Scopes
    BY <1>1, HistoryTypes DEF IInv
  <2> QED BY <1>1, <1>2, <2>1, <2>2, <2>3 DEF IInv, TypeOK
<1>5. AttemptsStarted'
  <2>1. started \in [Requests -> 0..MaxTime] /\ clock \in 1..MaxTime /\ clock' = clock
    BY DEF IInv, TypeOK
  <2>2. \A q \in Requests : started[q] <= clock /\ (started'[q] = started[q] \/ started'[q] = 0)
    BY <2>1 DEF IInv, AttemptsStarted
  <2> QED BY <2>1, <2>2, RecoveryAssumption DEF AttemptsStarted
<1>6. NoOrphanLease'
  BY <1>1, <1>2 DEF IInv, NoOrphanLease, Softened, HasLease, TypeOK, Circuit
<1> QED BY <1>1, <1>4, <1>5, <1>6, QuietLeases DEF IInv

LEMMA RecordTypes ==
  ASSUME IInv, NEW r \in Requests, RecordFailure(r)
  PROVE  /\ lock' \in [Scopes -> Nat] /\ version' \in [Scopes -> 0..MaxTime]
         /\ \A s \in Scopes : lock'[s] >= lock[s]
<1>1. PICK s \in {ALL, ModelOf[r]}, d \in Cooldowns :
        \/ /\ lock' = [lock EXCEPT ![s] = Later(@, started[r] + d)]
           /\ version' = [version EXCEPT ![s] = started[r]]
        \/ UNCHANGED <<lock, version>>
  BY DEF RecordFailure
<1>2. /\ s \in Scopes /\ d \in Nat /\ started[r] \in Nat /\ started[r] \in 0..MaxTime
      /\ lock \in [Scopes -> Nat] /\ version \in [Scopes -> 0..MaxTime] /\ MaxTime \in Nat
  BY ScopesFacts, RecoveryAssumption DEF IInv, TypeOK
<1> QED BY <1>1, <1>2 DEF Later

\* A write to the row: the circuits and the probes are not touched.
LEMMA RowInvariant ==
  ASSUME IInv, NEW r \in Requests,
         lock' \in [Scopes -> Nat], version' \in [Scopes -> 0..MaxTime],
         NEW p \in {"idle", "ending", "succeeded"}, Leave(r, p),
         pc[r] \in Active => p \in Active,
         UNCHANGED <<clock, circuit, probe, history>>
  PROVE  IInv'
<1>1. /\ pc' = [pc EXCEPT ![r] = p] /\ seen' = [seen EXCEPT ![r] = NoLocks]
      /\ started' = [started EXCEPT ![r] = 0] /\ NoLocks \in [Scopes -> Nat]
  BY DEF Leave, Move, NoLocks, None
<1>2. TypeOK' /\ clock' >= clock
  BY <1>1, RecoveryAssumption DEF IInv, TypeOK, history
<1>3. AttemptsStarted'
  BY <1>1 DEF IInv, TypeOK, AttemptsStarted
<1>4. Softened(circuit, circuit')
  BY DEF Softened
<1>5. \A q \in Requests : pc[q] \in Active => pc'[q] \in Active /\ probe'[q] = probe[q]
  BY <1>1 DEF IInv, TypeOK
<1> QED BY <1>2, <1>3, <1>4, <1>5, QuietLeases, QuietHolders DEF IInv

LEMMA ClearTypes ==
  ASSUME IInv, NEW r \in Requests, Clear(r)
  PROVE  lock' \in [Scopes -> Nat] /\ version' \in [Scopes -> 0..MaxTime]
<1>1. /\ lock \in [Scopes -> Nat] /\ version \in [Scopes -> 0..MaxTime]
      /\ started[r] \in 0..MaxTime
  BY DEF IInv, TypeOK
<1>2. CASE ModelOf[r] \in Accepted(r)
  BY <1>1, <1>2 DEF Clear, None
<1>3. CASE ModelOf[r] \notin Accepted(r)
  BY <1>1, <1>3 DEF Clear
<1> QED BY <1>2, <1>3

LEMMA StepInvariant == IInv /\ [Next]_vars => IInv'
<1> SUFFICES ASSUME IInv, [Next]_vars PROVE IInv'
  OBVIOUS
<1>1. ASSUME NEW r \in Requests, Select(r) PROVE IInv'
  BY <1>1, SelectInvariant
<1>2. ASSUME NEW r \in Requests, Dispatch(r) PROVE IInv'
  BY <1>2, DispatchInvariant
<1>3. ASSUME NEW r \in Requests, Abandon(r) PROVE IInv'
  BY <1>3, FinishInvariant DEF Abandon, Leave
<1>4. ASSUME NEW r \in Requests, Fail(r) PROVE IInv'
  BY <1>4, FinishInvariant DEF Fail
<1>5. ASSUME NEW r \in Requests, Record(r) PROVE IInv'
  BY <1>5, RecordTypes, RowInvariant DEF Record, Active
<1>6. ASSUME NEW r \in Requests, RecordEmpty(r) PROVE IInv'
  BY <1>6, RecordTypes, RowInvariant DEF RecordEmpty, Active
<1>7. ASSUME NEW r \in Requests, Clear(r) PROVE IInv'
  BY <1>7, ClearTypes, RowInvariant DEF Clear, Active
<1>8. ASSUME NEW r \in Requests, Confirm(r) PROVE IInv'
  BY <1>8, FinishInvariant DEF Confirm, Leave
<1>9. CASE Reactivate \/ Tick \/ UNCHANGED vars
  <2>1. /\ UNCHANGED <<version, circuit, pc, seen, started, probe, history>>
        /\ lock' \in [Scopes -> Nat] /\ clock' \in 1..MaxTime /\ clock' >= clock
    <3>1. lock \in [Scopes -> Nat] /\ NoLocks \in [Scopes -> Nat]
      BY DEF NoLocks, None, IInv, TypeOK
    <3>2. clock \in 1..MaxTime /\ MaxTime \in Nat
      BY RecoveryAssumption DEF IInv, TypeOK
    <3>3. clock' = clock \/ (clock < MaxTime /\ clock' = clock + 1)
      BY <1>9 DEF Reactivate, Tick, vars
    <3>4. lock' = lock \/ lock' = NoLocks
      BY <1>9 DEF Reactivate, Tick, vars
    <3>5. UNCHANGED <<version, circuit, pc, seen, started, probe, history>>
      BY <1>9 DEF Reactivate, Tick, vars
    <3> QED BY <3>1, <3>2, <3>3, <3>4, <3>5
  <2>2. TypeOK' /\ Softened(circuit, circuit')
    BY <2>1 DEF IInv, TypeOK, Softened, history
  <2>3. AttemptsStarted'
    BY <2>1, RecoveryAssumption DEF IInv, TypeOK, AttemptsStarted
  <2> QED BY <2>1, <2>2, <2>3, QuietLeases, QuietHolders DEF IInv
<1> QED BY <1>1, <1>2, <1>3, <1>4, <1>5, <1>6, <1>7, <1>8, <1>9 DEF Next

-----------------------------------------------------------------------------
\* The invariant holds throughout, for requests that work on rows of any age.
THEOREM RecoveryInvariant == Spec => []IInv
BY InitInvariant, StepInvariant, PTL DEF Spec

\* The variables keep their types.
THEOREM RecoveryTypes == Spec => []TypeOK
BY RecoveryInvariant, PTL DEF IInv

\* No way out of runWithConnectionRecovery leaves a lease behind.
THEOREM RecoveryNoOrphanLease == Spec => []NoOrphanLease
BY RecoveryInvariant, PTL DEF IInv

\* A late answer neither lifts nor shortens a cooldown that a newer attempt set:
\* the version fence of the two fallback writers.
THEOREM RecoveryCooldownKept == Spec => CooldownKept
<1>1. ASSUME IInv, [Next]_vars PROVE [OutlivesOldAnswers]_vars
  <2> SUFFICES ASSUME Next PROVE OutlivesOldAnswers
    BY <1>1
  <2>1. ASSUME NEW r \in Requests, Record(r) \/ RecordEmpty(r) PROVE OutlivesOldAnswers
    <3>1. RecordFailure(r)
      BY <2>1 DEF Record, RecordEmpty
    <3> QED BY <1>1, <3>1, RecordTypes DEF OutlivesOldAnswers, IInv, TypeOK
  <2>2. ASSUME NEW r \in Requests, Clear(r) PROVE OutlivesOldAnswers
    <3> SUFFICES ASSUME NEW s \in Scopes, lock[s] > clock, lock'[s] < lock[s]
                 PROVE  pc[r] = "running" /\ pc'[r] = "succeeded" /\ started[r] > version[s]
      BY DEF OutlivesOldAnswers
    <3>1. pc[r] = "running" /\ pc'[r] = "succeeded"
      BY <1>1, <2>2 DEF Clear, Leave, Move, IInv, TypeOK
    <3>2. lock \in [Scopes -> Nat] /\ started[r] <= clock /\ started[r] \in Nat /\ clock \in Nat
      BY <1>1, RecoveryAssumption DEF IInv, TypeOK, AttemptsStarted
    <3>3. s \in Accepted(r)
      BY <2>2, <3>2 DEF Clear
    <3> QED BY <3>1, <3>3 DEF Accepted
  <2>3. CASE Reactivate
    BY <2>3 DEF Reactivate, OutlivesOldAnswers
  <2>4. ASSUME lock' = lock PROVE OutlivesOldAnswers
    BY <1>1, <2>4 DEF OutlivesOldAnswers, IInv, TypeOK
  <2> QED BY <2>1, <2>2, <2>3, <2>4
          DEF Next, Select, Dispatch, Abandon, Fail, Confirm, Tick
<1> QED BY RecoveryInvariant, <1>1, PTL DEF Spec, CooldownKept

-----------------------------------------------------------------------------
(***************************************************************************)
(* One probe per scope, as long as no circuit is told an older deadline    *)
(* after a newer one.                                                      *)
(***************************************************************************)

\* A circuit that is not closed has a deadline.
OpenHasDeadline(cs) == \A s \in Scopes : cs[s].state # "CLOSED" => cs[s].cooldown # None

\* Only a cooldown that is over is probed.
LeaseIsRipe(cs) == \A s \in Scopes : HasLease(cs[s]) => cs[s].cooldown <= clock

\* A circuit knows its newest deadline, or none since a success closed it.
KnowsNewest(cs, latest, old) ==
  \A s \in Scopes \ old : cs[s].cooldown = None \/ cs[s].cooldown = latest[s]

\* A probe whose lease has not run out still holds it, or was overtaken by a newer
\* deadline.
Accounted(cs, latest, old) == \A r \in Requests, s \in Scopes \ old :
  probe[r].scope = s /\ probe[r].until > clock =>
    \/ probe[r].basis < latest[s]
    \/ probe[r].basis = latest[s] /\ cs[s].lease = r /\ cs[s].expires = probe[r].until

ProbesEnd == \A r \in Requests : probe[r].until <= clock + LeaseMs

FreshInv ==
  /\ IInv
  /\ OpenHasDeadline(circuit) /\ LeaseIsRipe(circuit)
  /\ KnowsNewest(circuit, newest, outdated)
  /\ Accounted(circuit, newest, outdated)
  /\ ProbesEnd
  /\ FreshRowsProbeAlone

\* What consulting makes of one circuit: a lease goes only with its time, with a
\* cooldown that runs, or with a deadline that is news.
Evolved(c, d) ==
  /\ (c.state # "CLOSED" => c.cooldown # None) => (d.state # "CLOSED" => d.cooldown # None)
  /\ \/ /\ d.cooldown = c.cooldown
        /\ \/ d.lease = c.lease /\ d.expires = c.expires
           \/ d.lease = NoOne /\ (c.lease = NoOne \/ c.expires <= clock \/ c.cooldown > clock)
     \/ d.cooldown # None /\ d.cooldown # c.cooldown /\ d.lease = NoOne

LEMMA BoundsFacts == LeaseMs \in Nat /\ MaxTime \in Nat
BY RecoveryAssumption

LEMMA ConsultEvolves ==
  ASSUME NEW cs \in [Scopes -> Circuit], NEW locks \in [Scopes -> Nat], NEW s \in Scopes,
         clock \in Nat
  PROVE  LET ds == Consult(cs, locks, s)
         IN Evolved(cs[s], ds[s]) /\ \A t \in Scopes : t # s => ds[t] = cs[t]
<1> DEFINE c == cs[s]
           told == Told(c, locks[s])
           d == At(told, clock)
<1>1. c \in Circuit /\ locks[s] \in Nat
  OBVIOUS
<1>2. told \in Circuit
  BY <1>1, ToldSoftens
<1>3. told = c \/ (told.cooldown = locks[s] /\ locks[s] # None /\ locks[s] # c.cooldown
                   /\ told.lease = NoOne /\ told.expires = 0)
  BY DEF Told, Closed
<1> HIDE DEF c, told
<1>4. /\ d.cooldown = told.cooldown
      /\ \/ d.lease = told.lease /\ d.expires = told.expires
         \/ d.lease = NoOne /\ (told.expires <= clock \/ told.cooldown > clock)
      /\ (told.state # "CLOSED" => told.cooldown # None)
           => (d.state # "CLOSED" => d.cooldown # None)
  BY <1>2 DEF At, Unleased, Circuit, None
<1> HIDE DEF d
<1>5. Evolved(c, d)
  <2>1. CASE told = c
    BY <1>4, <2>1 DEF Evolved
  <2>2. CASE told # c
    BY <1>3, <1>4, <2>2 DEF Evolved
  <2> QED BY <2>1, <2>2
<1>6. Evolved(c, c)
  BY DEF Evolved
<1>7. Consult(cs, locks, s) = cs \/ Consult(cs, locks, s) = [cs EXCEPT ![s] = d]
  BY DEF Consult, Evaluated, c, told, d
<1> QED BY <1>5, <1>6, <1>7 DEF c

\* The account's circuit is told by the first consultation, the model's by the
\* second.
LEMMA BothEvolve ==
  ASSUME TypeOK, NEW locks \in [Scopes -> Nat], NEW m \in Models
  PROVE  LET account == Consult(circuit, locks, ALL)
             both == Consult(account, locks, m)
         IN \A s \in Scopes : Evolved(circuit[s], account[s]) /\ Evolved(circuit[s], both[s])
<1> DEFINE account == Consult(circuit, locks, ALL)
           both == Consult(account, locks, m)
<1>1. /\ clock \in Nat /\ circuit \in [Scopes -> Circuit] /\ ALL \in Scopes
      /\ m \in Scopes /\ m # ALL
  BY ScopesFacts, RecoveryAssumption DEF TypeOK, Scopes
<1>2. account \in [Scopes -> Circuit]
  BY <1>1, ConsultSoftens
<1>3. Evolved(circuit[ALL], account[ALL]) /\ \A t \in Scopes : t # ALL => account[t] = circuit[t]
  BY <1>1, ConsultEvolves
<1> HIDE DEF account
<1>4. Evolved(account[m], both[m]) /\ \A t \in Scopes : t # m => both[t] = account[t]
  BY <1>1, <1>2, ConsultEvolves
<1>5. \A s \in Scopes : Evolved(circuit[s], circuit[s])
  BY DEF Evolved
<1> QED BY <1>1, <1>3, <1>4, <1>5 DEF account

\* Consulted circuits account for the probes as the ones before did, by what is
\* remembered of them.
LEMMA EvolvedAccounts ==
  ASSUME FreshInv, NEW ds \in [Scopes -> Circuit],
         \A s \in Scopes : Evolved(circuit[s], ds[s]),
         \A s \in Scopes : circuit'[s].cooldown = ds[s].cooldown,
         Remember
  PROVE  /\ OpenHasDeadline(ds) /\ LeaseIsRipe(ds)
         /\ KnowsNewest(ds, newest', outdated')
         /\ Accounted(ds, newest', outdated')
         /\ outdated \subseteq outdated'
<1>1. /\ circuit \in [Scopes -> Circuit] /\ newest \in [Scopes -> Nat] /\ clock \in Nat
      /\ outdated \subseteq Scopes
      /\ \A r \in Requests : probe[r].basis \in Nat /\ probe[r].until \in Nat
  BY RecoveryAssumption DEF FreshInv, IInv, TypeOK
<1>2. \A s \in Scopes : /\ circuit[s].cooldown \in Nat /\ ds[s].cooldown \in Nat
                        /\ circuit[s].expires \in Nat /\ ds[s].expires \in Nat
  BY <1>1 DEF Circuit
<1>3. \A s \in Scopes : newest'[s] = Later(newest[s], ds[s].cooldown) /\ newest'[s] \in Nat
  BY <1>1, <1>2 DEF Remember, Later
<1>4. /\ outdated \subseteq outdated'
      /\ \A s \in Scopes \ outdated' : ds[s].cooldown = None \/ ds[s].cooldown >= newest[s]
  BY <1>1, <1>2 DEF Remember
<1>5. OpenHasDeadline(ds)
  BY DEF FreshInv, OpenHasDeadline, Evolved
<1>6. LeaseIsRipe(ds)
  BY DEF FreshInv, LeaseIsRipe, Evolved, HasLease
<1>7. KnowsNewest(ds, newest', outdated')
  <2> SUFFICES ASSUME NEW s \in Scopes \ outdated', ds[s].cooldown # None
               PROVE  ds[s].cooldown = newest'[s]
    BY DEF KnowsNewest
  <2>1. ds[s].cooldown >= newest[s]
    BY <1>4
  <2>2. newest[s] \in Nat /\ ds[s].cooldown \in Nat
    BY <1>1, <1>2
  <2> QED BY <1>3, <2>1, <2>2 DEF Later
<1>8. Accounted(ds, newest', outdated')
  <2> SUFFICES ASSUME NEW r \in Requests, NEW s \in Scopes \ outdated',
                      probe[r].scope = s, probe[r].until > clock
               PROVE  \/ probe[r].basis < newest'[s]
                      \/ /\ probe[r].basis = newest'[s]
                         /\ ds[s].lease = r /\ ds[s].expires = probe[r].until
    BY DEF Accounted
  <2>1. s \in Scopes \ outdated /\ newest'[s] >= newest[s]
    BY <1>1, <1>2, <1>3, <1>4 DEF Later
  <2>2. CASE probe[r].basis < newest[s]
    BY <1>1, <1>3, <2>1, <2>2
  <2>3. CASE /\ probe[r].basis = newest[s] /\ circuit[s].lease = r
             /\ circuit[s].expires = probe[r].until
    <3>1. HasLease(circuit[s]) /\ r # NoOne
      BY <2>3, ScopesFacts DEF HasLease
    <3>2. circuit[s].cooldown = newest[s] /\ circuit[s].cooldown # None /\ circuit[s].cooldown <= clock
      BY <2>1, <3>1 DEF FreshInv, IInv, LeasedIsNotClosed, OpenHasDeadline, LeaseIsRipe,
                        KnowsNewest
    <3>3. CASE ds[s].cooldown = circuit[s].cooldown
      <4>1. newest'[s] = newest[s]
        BY <1>1, <1>2, <1>3, <3>2, <3>3 DEF Later
      <4>2. ds[s].lease = r /\ ds[s].expires = circuit[s].expires
        BY <1>1, <1>2, <2>3, <3>1, <3>2, <3>3 DEF Evolved
      <4> QED BY <2>3, <4>1, <4>2
    <3>4. CASE ds[s].cooldown # circuit[s].cooldown
      <4>1. ds[s].cooldown # None
        BY <3>4 DEF Evolved
      <4>2. ds[s].cooldown >= newest[s]
        BY <1>4, <4>1
      <4>3. newest[s] \in Nat /\ ds[s].cooldown \in Nat
        BY <1>1, <1>2
      <4>4. ds[s].cooldown > newest[s]
        BY <3>2, <3>4, <4>2, <4>3
      <4> QED BY <1>3, <2>3, <4>3, <4>4 DEF Later
    <3> QED BY <3>3, <3>4
  <2> QED BY <2>1, <2>2, <2>3 DEF FreshInv, Accounted
<1> QED BY <1>4, <1>5, <1>6, <1>7, <1>8

\* A step that at most consults circuits.
LEMMA QuietFresh ==
  ASSUME FreshInv, IInv', \A s \in Scopes : Evolved(circuit[s], circuit'[s]),
         Remember, clock' = clock \/ clock' = clock + 1, UNCHANGED probe
  PROVE  FreshInv'
<1>1. /\ circuit' \in [Scopes -> Circuit] /\ clock \in Nat /\ clock' \in Nat
      /\ \A r \in Requests : probe[r].basis \in Nat /\ probe[r].until \in Nat
  BY RecoveryAssumption DEF FreshInv, IInv, TypeOK
<1>2. \A s \in Scopes : circuit'[s].cooldown \in Nat
  BY <1>1 DEF Circuit
<1>3. /\ OpenHasDeadline(circuit') /\ LeaseIsRipe(circuit')
      /\ KnowsNewest(circuit', newest', outdated')
      /\ Accounted(circuit', newest', outdated')
      /\ outdated \subseteq outdated'
  BY <1>1, EvolvedAccounts
<1>4. LeaseIsRipe(circuit)'
  BY <1>1, <1>2, <1>3 DEF LeaseIsRipe, HasLease
<1>5. OpenHasDeadline(circuit)' /\ KnowsNewest(circuit, newest, outdated)'
  BY <1>3 DEF OpenHasDeadline, KnowsNewest
<1>6. Accounted(circuit, newest, outdated)'
  <2>1. \A r \in Requests : probe'[r] = probe[r] /\ (probe[r].until > clock' => probe[r].until > clock)
    BY <1>1
  <2> QED BY <1>3, <2>1 DEF Accounted
<1>7. ProbesEnd'
  BY <1>1, BoundsFacts DEF FreshInv, ProbesEnd
<1>8. FreshRowsProbeAlone'
  BY <1>1, <1>3 DEF FreshInv, FreshRowsProbeAlone, ProbeTogether
<1> QED BY <1>4, <1>5, <1>6, <1>7, <1>8 DEF FreshInv

\* A step that leaves circuits and probes alone.
LEMMA RowFresh ==
  ASSUME FreshInv, IInv', UNCHANGED <<circuit, probe, history>>,
         clock' = clock \/ clock' = clock + 1
  PROVE  FreshInv'
<1>1. /\ circuit \in [Scopes -> Circuit] /\ clock \in Nat /\ clock' \in Nat /\ clock' >= clock
      /\ newest' = newest /\ outdated' = outdated
      /\ \A r \in Requests : probe[r].basis \in Nat /\ probe[r].until \in Nat
  BY RecoveryAssumption DEF FreshInv, IInv, TypeOK, history
<1>2. \A s \in Scopes : circuit[s].cooldown \in Nat
  BY <1>1 DEF Circuit
<1>3. OpenHasDeadline(circuit)' /\ KnowsNewest(circuit, newest, outdated)'
  BY <1>1 DEF FreshInv, OpenHasDeadline, KnowsNewest
<1>4. LeaseIsRipe(circuit)'
  BY <1>1, <1>2 DEF FreshInv, LeaseIsRipe, HasLease
<1>5. Accounted(circuit, newest, outdated)'
  BY <1>1 DEF FreshInv, Accounted
<1>6. ProbesEnd'
  BY <1>1, BoundsFacts DEF FreshInv, ProbesEnd
<1>7. FreshRowsProbeAlone'
  BY <1>1 DEF FreshInv, FreshRowsProbeAlone, ProbeTogether
<1> QED BY <1>3, <1>4, <1>5, <1>6, <1>7 DEF FreshInv

\* A claim on consulted circuits: whoever probed the scope before has lost its
\* lease, to its time or to a newer deadline.
LEMMA ClaimFresh ==
  ASSUME FreshInv, IInv', NEW r \in Requests, NEW s \in Scopes, NEW ds \in [Scopes -> Circuit],
         \A t \in Scopes : Evolved(circuit[t], ds[t]), Claim(r, ds, s), Remember
  PROVE  FreshInv'
<1>1. /\ circuit' = [ds EXCEPT ![s].lease = r, ![s].expires = clock + LeaseMs]
      /\ probe' = [probe EXCEPT ![r] =
                     [scope |-> s, basis |-> ds[s].cooldown, until |-> clock + LeaseMs]]
      /\ CanProbe(ds, s, clock) /\ clock' = clock + 1
  BY DEF Claim, Leased, Start
<1>2. /\ clock \in Nat /\ LeaseMs \in Nat \ {0} /\ probe \in [Requests -> [scope : Scopes \cup {NoOne}, basis : Nat, until : Nat]]
      /\ circuit \in [Scopes -> Circuit]
      /\ \A q \in Requests : probe[q].basis \in Nat /\ probe[q].until \in Nat
  BY RecoveryAssumption DEF FreshInv, IInv, TypeOK
<1>3. \A t \in Scopes : /\ circuit'[t].cooldown = ds[t].cooldown
                        /\ circuit'[t].state = ds[t].state
                        /\ t # s => circuit'[t] = ds[t]
                        /\ ds[t].cooldown \in Nat /\ ds[t].expires \in Nat
  BY <1>1 DEF Circuit
<1>4. circuit'[s].lease = r /\ circuit'[s].expires = clock + LeaseMs
  <2>1. ds[s] \in Circuit
    OBVIOUS
  <2> QED BY <1>1, <2>1 DEF Circuit
<1>5. /\ OpenHasDeadline(ds) /\ LeaseIsRipe(ds)
      /\ KnowsNewest(ds, newest', outdated')
      /\ Accounted(ds, newest', outdated')
      /\ outdated \subseteq outdated'
  BY <1>3, EvolvedAccounts
<1>6. ds[s].state # "CLOSED" /\ ds[s].cooldown <= clock /\ ~(HasLease(ds[s]) /\ ds[s].expires > clock)
  <2>1. At(ds[s], clock).state = "HALF_OPEN" /\ ~HasLease(At(ds[s], clock))
    BY <1>1 DEF CanProbe, StateOf
  <2>2. ds[s] \in Circuit
    OBVIOUS
  <2> QED BY <1>2, <1>3, <2>1, <2>2 DEF At, Unleased, HasLease, Circuit, None
<1>7. /\ probe'[r] = [scope |-> s, basis |-> ds[s].cooldown, until |-> clock + LeaseMs]
      /\ \A q \in Requests : q # r => probe'[q] = probe[q]
  BY <1>1, <1>2
<1>8. s \notin outdated' => ds[s].cooldown = newest'[s]
  BY <1>5, <1>6 DEF OpenHasDeadline, KnowsNewest
<1>9. \A q \in Requests : q # r /\ s \notin outdated' /\ probe[q].scope = s /\ probe[q].until > clock
        => probe[q].basis < newest'[s]
  BY <1>5, <1>6, ScopesFacts DEF Accounted, HasLease
<1>10. OpenHasDeadline(circuit)' /\ KnowsNewest(circuit, newest, outdated)'
  BY <1>3, <1>5 DEF OpenHasDeadline, KnowsNewest
<1>11. LeaseIsRipe(circuit)'
  BY <1>1, <1>2, <1>3, <1>5, <1>6 DEF LeaseIsRipe, HasLease
<1>12. Accounted(circuit, newest, outdated)'
  <2> SUFFICES ASSUME NEW q \in Requests, NEW t \in Scopes \ outdated',
                      probe'[q].scope = t, probe'[q].until > clock'
               PROVE  \/ probe'[q].basis < newest'[t]
                      \/ /\ probe'[q].basis = newest'[t]
                         /\ circuit'[t].lease = q /\ circuit'[t].expires = probe'[q].until
    BY DEF Accounted
  <2>1. CASE q = r
    BY <1>4, <1>7, <1>8, <2>1
  <2>2. CASE q # r /\ t = s
    BY <1>1, <1>2, <1>7, <1>9, <2>2
  <2>3. CASE q # r /\ t # s
    BY <1>1, <1>2, <1>3, <1>5, <1>7, <2>3 DEF Accounted
  <2> QED BY <2>1, <2>2, <2>3
<1>13. ProbesEnd'
  BY <1>1, <1>2, <1>7 DEF FreshInv, ProbesEnd
<1>14. FreshRowsProbeAlone'
  <2> SUFFICES ASSUME NEW p \in Requests, NEW q \in Requests,
                      ProbeTogether(p, q)', probe'[p].scope \notin outdated'
               PROVE  probe'[p].basis < probe'[q].basis
    BY DEF FreshRowsProbeAlone
  <2>1. CASE p = r
    BY <1>1, <1>2, <1>7, <2>1 DEF ProbeTogether, FreshInv, ProbesEnd
  <2>2. CASE q = r
    BY <1>1, <1>2, <1>7, <1>8, <1>9, <2>2 DEF ProbeTogether
  <2>3. CASE p # r /\ q # r
    BY <1>1, <1>2, <1>5, <1>7, <2>3 DEF ProbeTogether, FreshInv, FreshRowsProbeAlone
  <2> QED BY <2>1, <2>2, <2>3
<1> QED BY <1>10, <1>11, <1>12, <1>13, <1>14 DEF FreshInv

\* finish takes back the request's own lease and nothing else.
LEMMA FinishFresh ==
  ASSUME FreshInv, IInv', NEW r \in Requests, NEW success \in BOOLEAN, Finish(r, success),
         UNCHANGED <<clock, history>>
  PROVE  FreshInv'
<1> DEFINE s == probe[r].scope
<1>1. /\ circuit \in [Scopes -> Circuit] /\ clock \in Nat /\ clock' = clock
      /\ newest' = newest /\ outdated' = outdated
      /\ probe \in [Requests -> [scope : Scopes \cup {NoOne}, basis : Nat, until : Nat]]
      /\ \A q \in Requests : probe[q].basis \in Nat /\ probe[q].until \in Nat
  BY RecoveryAssumption DEF FreshInv, IInv, TypeOK, history
<1>2. /\ probe'[r] = NoProbe
      /\ \A q \in Requests : q # r => probe'[q] = probe[q]
  BY <1>1 DEF Finish
<1>3. \A t \in Scopes : \/ circuit'[t] = circuit[t]
                        \/ /\ circuit[t].lease = r /\ circuit'[t].lease = NoOne
                           /\ \/ circuit'[t].state = "CLOSED" /\ circuit'[t].cooldown = None
                              \/ /\ circuit'[t].state = circuit[t].state
                                 /\ circuit'[t].cooldown = circuit[t].cooldown
  <2>1. CASE s = NoOne
    BY <2>1 DEF Finish
  <2>2. CASE s # NoOne /\ circuit[s].lease # r
    BY <2>2 DEF Finish, Settled
  <2>3. CASE s # NoOne /\ circuit[s].lease = r
    <3>1. s \in Scopes /\ circuit[s] \in Circuit
      BY <1>1, <2>3
    <3>2. PICK c \in {Closed, Unleased(circuit[s])} : circuit' = [circuit EXCEPT ![s] = c]
      BY <2>3 DEF Finish, Settled
    <3>3. /\ c.lease = NoOne
          /\ \/ c.state = "CLOSED" /\ c.cooldown = None
             \/ c.state = circuit[s].state /\ c.cooldown = circuit[s].cooldown
      <4>1. Closed.lease = NoOne /\ Closed.state = "CLOSED" /\ Closed.cooldown = None
        BY DEF Closed
      <4>2. ASSUME NEW d \in Circuit
            PROVE  /\ Unleased(d).lease = NoOne /\ Unleased(d).state = d.state
                   /\ Unleased(d).cooldown = d.cooldown
        BY DEF Unleased, Circuit
      <4> HIDE DEF s
      <4> QED BY <3>1, <3>2, <4>1, <4>2
    <3>4. circuit'[s] = c /\ \A t \in Scopes : t # s => circuit'[t] = circuit[t]
      BY <1>1, <3>1, <3>2
    <3> QED BY <2>3, <3>3, <3>4
  <2> QED BY <2>1, <2>2, <2>3
<1>4. OpenHasDeadline(circuit)' /\ KnowsNewest(circuit, newest, outdated)'
  BY <1>1, <1>3 DEF FreshInv, OpenHasDeadline, KnowsNewest
<1>5. LeaseIsRipe(circuit)'
  BY <1>1, <1>3 DEF FreshInv, LeaseIsRipe, HasLease
<1>6. Accounted(circuit, newest, outdated)'
  <2> SUFFICES ASSUME NEW q \in Requests, NEW t \in Scopes \ outdated,
                      probe'[q].scope = t, probe'[q].until > clock
               PROVE  \/ probe'[q].basis < newest[t]
                      \/ /\ probe'[q].basis = newest[t]
                         /\ circuit'[t].lease = q /\ circuit'[t].expires = probe'[q].until
    BY <1>1 DEF Accounted
  <2>1. q # r /\ probe'[q] = probe[q]
    BY <1>2, ScopesFacts DEF NoProbe
  <2> QED BY <1>3, <2>1 DEF FreshInv, Accounted
<1>7. ProbesEnd'
  <2>1. ProbesEnd /\ LeaseMs \in Nat /\ clock' = clock /\ clock \in Nat
    BY <1>1, BoundsFacts DEF FreshInv
  <2>2. probe'[r].until = 0
    BY <1>2 DEF NoProbe
  <2> HIDE DEF s
  <2> QED BY <1>2, <2>1, <2>2 DEF ProbesEnd
<1>8. FreshRowsProbeAlone'
  BY <1>1, <1>2, ScopesFacts DEF FreshInv, FreshRowsProbeAlone, ProbeTogether, NoProbe
<1> QED BY <1>4, <1>5, <1>6, <1>7, <1>8 DEF FreshInv

LEMMA FreshInit == Init => FreshInv
<1> SUFFICES ASSUME Init PROVE FreshInv
  OBVIOUS
<1>1. IInv
  BY InitInvariant
<1>2. \A s \in Scopes : circuit[s] = Closed /\ newest[s] = None
  BY DEF Init, NoLocks
<1>3. \A r \in Requests : probe[r] = NoProbe
  BY DEF Init
<1>4. OpenHasDeadline(circuit) /\ LeaseIsRipe(circuit) /\ KnowsNewest(circuit, newest, outdated)
  BY <1>2 DEF OpenHasDeadline, LeaseIsRipe, KnowsNewest, HasLease, Closed
<1>5. Accounted(circuit, newest, outdated) /\ FreshRowsProbeAlone
  BY <1>3, ScopesFacts DEF Accounted, FreshRowsProbeAlone, ProbeTogether, NoProbe
<1>6. ProbesEnd
  <2>1. \A r \in Requests : probe[r].until = 0
    BY <1>3 DEF NoProbe
  <2>2. clock + LeaseMs \in Nat
    BY <1>1, BoundsFacts DEF IInv, TypeOK
  <2> QED BY <2>1, <2>2 DEF ProbesEnd
<1> QED BY <1>1, <1>4, <1>5, <1>6 DEF FreshInv

LEMMA FreshStep == FreshInv /\ [Next]_vars => FreshInv'
<1> SUFFICES ASSUME FreshInv, [Next]_vars PROVE FreshInv'
  OBVIOUS
<1>1. IInv'
  BY StepInvariant DEF FreshInv
<1>2. TypeOK /\ ALL \in Scopes /\ clock \in Nat
  BY ScopesFacts, RecoveryAssumption DEF FreshInv, IInv, TypeOK
<1>3. \A s \in Scopes : Evolved(circuit[s], circuit[s])
  BY DEF Evolved
<1>4. ASSUME NEW r \in Requests, Select(r) PROVE FreshInv'
  <2>1. lock \in [Scopes -> Nat] /\ ModelOf[r] \in Models
    BY <1>2, ScopesFacts DEF TypeOK
  <2>2. \A s \in Scopes : Evolved(circuit[s], circuit'[s])
    BY <1>2, <1>4, <2>1, BothEvolve DEF Select
  <2> QED BY <1>1, <1>4, <2>2, QuietFresh DEF Select
<1>5. ASSUME NEW r \in Requests, Dispatch(r) PROVE FreshInv'
  <2> DEFINE m == ModelOf[r]
             account == Consult(circuit, seen[r], ALL)
             both == Consult(account, seen[r], m)
  <2>1. seen[r] \in [Scopes -> Nat] /\ m \in Models /\ m \in Scopes
    BY <1>2, ScopesFacts DEF TypeOK
  <2>2. /\ \A s \in Scopes : Evolved(circuit[s], account[s])
        /\ \A s \in Scopes : Evolved(circuit[s], both[s])
    BY <1>2, <2>1, BothEvolve
  <2>3. account \in [Scopes -> Circuit] /\ both \in [Scopes -> Circuit]
    BY <1>2, <2>1, BothSoften
  <2>4. /\ Remember
        /\ \/ Claim(r, account, ALL) \/ TurnAway(r, account)
           \/ Claim(r, both, m) \/ TurnAway(r, both)
           \/ circuit' = both /\ UNCHANGED probe /\ Start(r)
    BY <1>5 DEF Dispatch
  <2> HIDE DEF m, account, both
  <2>5. CASE Claim(r, account, ALL) \/ Claim(r, both, m)
    BY <1>1, <1>2, <2>1, <2>2, <2>3, <2>4, <2>5, ClaimFresh
  <2>6. CASE TurnAway(r, account) \/ TurnAway(r, both)
    BY <1>1, <2>2, <2>4, <2>6, QuietFresh DEF TurnAway
  <2>7. CASE circuit' = both /\ UNCHANGED probe /\ Start(r)
    BY <1>1, <2>2, <2>4, <2>7, QuietFresh DEF Start
  <2> QED BY <2>4, <2>5, <2>6, <2>7
<1>6. ASSUME NEW r \in Requests, Abandon(r) \/ Fail(r) \/ Confirm(r) PROVE FreshInv'
  BY <1>1, <1>6, FinishFresh DEF Abandon, Fail, Confirm
<1>7. ASSUME NEW r \in Requests, Record(r) \/ RecordEmpty(r) \/ Clear(r) PROVE FreshInv'
  BY <1>1, <1>7, RowFresh DEF Record, RecordEmpty, Clear
<1>8. CASE Reactivate \/ Tick \/ UNCHANGED vars
  BY <1>1, <1>8, RowFresh DEF Reactivate, Tick, vars
<1> QED BY <1>4, <1>5, <1>6, <1>7, <1>8 DEF Next

\* One probe per scope unless a circuit was told an outdated deadline: the one
\* thing evaluateState takes for a new cooldown although it is not.
THEOREM RecoveryFreshRowsProbeAlone == Spec => []FreshRowsProbeAlone
<1>1. FreshInv => FreshRowsProbeAlone
  BY DEF FreshInv
<1> QED BY <1>1, FreshInit, FreshStep, PTL DEF Spec

\* acquireRecoveryLease looks at the siblings and evaluateState at the account, so
\* leases of both are never in force together, however old the rows; and a probe
\* of either that runs on beside the other has had its lease voided, by a newer
\* cooldown or by a row that is out of date.
THEOREM RecoveryAccountProbesAlone == Spec => []AccountProbesAlone
<1>1. FreshInv => AccountProbesAlone
  <2> SUFFICES ASSUME FreshInv PROVE AccountProbesAlone
    OBVIOUS
  <2>1. AccountLeasesAlone
    BY DEF FreshInv, IInv
  <2>2. ASSUME NEW r \in Requests, NEW q \in Requests, NEW m \in Models,
               Probes(r, ALL), Probes(q, m), {ALL, m} \cap outdated = {},
               ~ Overtaken(r), ~ Overtaken(q)
        PROVE  FALSE
    <3>1. /\ ALL \in Scopes \ outdated /\ m \in Scopes \ outdated
          /\ NoOne \notin Requests
      BY <2>2, ScopesFacts DEF Scopes
    <3>2. ASSUME NEW p \in Requests, NEW s \in Scopes \ outdated, Probes(p, s), ~ Overtaken(p)
          PROVE  InForce(s)
      <4>1. circuit[s].lease = p /\ circuit[s].expires = probe[p].until
        BY <3>2 DEF FreshInv, Accounted, Probes, Overtaken
      <4> QED BY <3>1, <3>2, <4>1 DEF InForce, HasLease, Probes
    <3> QED BY <2>1, <2>2, <3>1, <3>2 DEF AccountLeasesAlone
  <2> QED BY <2>1, <2>2 DEF AccountProbesAlone
<1> QED BY <1>1, FreshInit, FreshStep, PTL DEF Spec

=============================================================================
