---------------------- MODULE QuotaReservationsProofs ----------------------
(***************************************************************************)
(* The quota ledger of QuotaReservations for any finite sets of requests   *)
(* and resources, any plans, limits, leases and window resets.             *)
(***************************************************************************)
EXTENDS QuotaReservations, FiniteSetTheorems, TLAPS

-----------------------------------------------------------------------------
(* Types.                                                                  *)

LEMMA TimesTypes ==
  /\ Limit \in Nat /\ LeaseMs \in Nat /\ FreshnessMs \in Nat /\ RetentionMs \in Nat
  /\ MaxTime \in Nat /\ Skew \in Nat /\ Never \in Nat /\ FreshnessMs <= RetentionMs
  /\ 0..MaxTime \subseteq Times /\ Times \subseteq Nat /\ Instants \subseteq Nat
  /\ Times \subseteq Instants /\ Never \in Instants /\ 0 \in Times /\ 0 \in 0..MaxTime
  /\ \A t \in 0..MaxTime : t + LeaseMs \in Times /\ t + FreshnessMs \in Times
  /\ \A n \in Nat, t \in Times : n <= t => n \in Times
  /\ \A t \in 0..MaxTime : t \in Nat
BY QuotaAssumption DEF Times, Never, Instants

LEMMA LesserOf ==
  ASSUME NEW a \in Nat, NEW b \in Nat
  PROVE  Min({a, b}) \in {a, b} /\ Min({a, b}) <= a /\ Min({a, b}) <= b
<1>1. \E x \in {a, b} : \A y \in {a, b} : x <= y
  OBVIOUS
<1>2. Min({a, b}) \in {a, b} /\ \A y \in {a, b} : Min({a, b}) <= y
  BY <1>1 DEF Min
<1> QED BY <1>2

LEMMA EmptyTypes == NoObservation \in Observation /\ NoRow \in Row
BY TimesTypes DEF NoObservation, NoRow, Observation, Row

\* What the reaper makes of one row.
LEMMA ReapedRow ==
  ASSUME NEW rows \in [Requests -> Row], NEW t \in Times, NEW r \in Requests
  PROVE  LET old == rows[r]  new == Reaped(rows, t)[r] IN
         /\ new \in Row
         /\ new.items = old.items /\ new.expires = old.expires
         /\ IF old.state = "active" /\ old.expires <= t
            THEN new.state = (IF old.dispatched THEN "abandoned" ELSE "released")
                 /\ new.terminalAt = t
            ELSE new = old
<1>1. rows[r] \in Row
  OBVIOUS
<1>2. CASE rows[r].state = "active" /\ rows[r].expires <= t
  <2>1. Reaped(rows, t)[r] =
          [rows[r] EXCEPT !.state = IF rows[r].dispatched THEN "abandoned" ELSE "released",
                          !.terminalAt = t]
    BY <1>2 DEF Reaped
  <2> QED BY <1>1, <1>2, <2>1 DEF Row, Terminal
<1>3. CASE ~(rows[r].state = "active" /\ rows[r].expires <= t)
  <2>1. Reaped(rows, t)[r] = rows[r]
    BY <1>3 DEF Reaped
  <2> QED BY <1>1, <1>3, <2>1
<1> QED BY <1>2, <1>3

LEMMA ReapedTypes ==
  ASSUME NEW rows \in [Requests -> Row], NEW t \in Times
  PROVE  Reaped(rows, t) \in [Requests -> Row]
<1>1. \A r \in Requests : Reaped(rows, t)[r] \in Row
  BY ReapedRow
<1> QED BY <1>1 DEF Reaped

LEMMA PrunedTypes ==
  ASSUME NEW rows \in [Requests -> Row], NEW t \in Times
  PROVE  Pruned(rows, t) \in [Requests -> Row]
BY EmptyTypes DEF Pruned

\* A row that is changed while its lease runs, and the others, reaped.
LEMMA ChangedRows ==
  ASSUME row \in [Requests -> Row], NEW r \in Requests, NEW t \in Times,
         NEW new, Live(row[r], t) => new \in Row, Change(r, t, new)
  PROVE  /\ row' \in [Requests -> Row]
         /\ \A s \in Requests : s # r => row'[s] = Reaped(row, t)[s]
         /\ row'[r] = IF Live(row[r], t) THEN new ELSE Reaped(row, t)[r]
BY ReapedTypes DEF Change

\* Instants that have passed.
LEMMA PastTypes ==
  ASSUME TypeOK, NEW t \in 0..clock
  PROVE  t \in 0..MaxTime /\ t \in Times /\ t \in Nat /\ t <= clock
<1>1. clock \in 0..MaxTime /\ MaxTime \in Nat
  BY TimesTypes DEF TypeOK
<1>2. t \in 0..MaxTime /\ t <= clock
  BY <1>1
<1> QED BY <1>2, TimesTypes

LEMMA NowsTypes ==
  ASSUME TypeOK, NEW r \in Requests, NEW t \in Nows(r)
  PROVE  t \in 0..clock /\ since[r] <= t
<1>1. since[r] \in 0..MaxTime /\ clock \in 0..MaxTime /\ MaxTime \in Nat
  BY TimesTypes DEF TypeOK
<1> QED BY <1>1 DEF Nows

\* A row with some fields changed is a row.
LEMMA EditedRow ==
  ASSUME NEW rw \in Row, NEW t \in Times
  PROVE  /\ [rw EXCEPT !.dispatched = TRUE] \in Row
         /\ [rw EXCEPT !.expires = t] \in Row
         /\ [rw EXCEPT !.state = "committed", !.terminalAt = t] \in Row
         /\ [rw EXCEPT !.state = "released", !.terminalAt = t] \in Row
BY DEF Row, Terminal

\* The steps of the call r.
Call(r) ==
  \/ Acquire(r) \/ NotAcquired(r) \/ MarkDispatched(r) \/ MarkFails(r) \/ Count(r)
  \/ Heartbeat(r) \/ Commit(r) \/ Release(r) \/ Lose(r)

\* A call moves itself only, and touches neither the clock nor the readings.
LEMMA CallFrame ==
  ASSUME TypeOK, NEW r \in Requests, Call(r)
  PROVE  /\ UNCHANGED <<clock, snapshot, fetch>>
         /\ \E p \in PCs, i \in 0..MaxTime :
              pc' = [pc EXCEPT ![r] = p] /\ since' = [since EXCEPT ![r] = i]
<1>1. clock \in 0..MaxTime /\ 0 \in 0..MaxTime /\ since[r] \in 0..MaxTime /\ pc[r] \in PCs
  BY TimesTypes DEF TypeOK
<1>2. ASSUME NEW p \in PCs, Go(r, p)
      PROVE  /\ UNCHANGED <<clock, snapshot, fetch>>
             /\ \E i \in 0..MaxTime :
                  pc' = [pc EXCEPT ![r] = p] /\ since' = [since EXCEPT ![r] = i]
  BY <1>1, <1>2 DEF Go
<1>3. CASE \E p \in PCs : Go(r, p)
  BY <1>2, <1>3
<1>4. CASE Heartbeat(r)
  <2>1. UNCHANGED <<clock, snapshot, fetch, pc, since>>
    BY <1>4 DEF Heartbeat
  <2>2. pc' = [pc EXCEPT ![r] = pc[r]] /\ since' = [since EXCEPT ![r] = since[r]]
    BY <2>1 DEF TypeOK
  <2> QED BY <1>1, <2>1, <2>2
<1>5. CASE Acquire(r) \/ NotAcquired(r) \/ MarkDispatched(r) \/ MarkFails(r)
  BY <1>3, <1>5 DEF Acquire, NotAcquired, MarkDispatched, MarkFails, PCs
<1>6. CASE Count(r) \/ Commit(r) \/ Release(r) \/ Lose(r)
  BY <1>3, <1>6 DEF Count, Commit, Release, Lose, PCs
<1> QED BY <1>4, <1>5, <1>6 DEF Call

\* But for the rows, a call keeps the types.
LEMMA FrameTypes ==
  ASSUME TypeOK, NEW r \in Requests, Call(r)
  PROVE  /\ clock' \in 0..MaxTime /\ snapshot' \in Observation
         /\ fetch' \in [phase : {"none", "asked", "read"}, got : Observation]
         /\ pc' \in [Requests -> PCs] /\ since' \in [Requests -> 0..MaxTime]
BY CallFrame DEF TypeOK

\* What pruning takes from a reading in flight.
LEMMA PruneTypes ==
  ASSUME TypeOK, NEW rows, NEW t, Prune(rows, t)
  PROVE  /\ dropped' \in [flight : SUBSET Requests, stored : SUBSET Requests]
         /\ dropped'.stored = dropped.stored
         /\ dropped'.flight = dropped.flight \cup TakenInFlight(rows, t)
<1>1. TakenInFlight(rows, t) \in SUBSET Requests
  BY DEF TakenInFlight
<1> QED BY <1>1 DEF TypeOK, Prune

LEMMA NewRowTypes ==
  ASSUME TypeOK, NEW r \in Requests, NEW t \in 0..MaxTime, NEW rows, NEW b \in Best(rows, r, t)
  PROVE  NewRow(Tracked(b, t), t) \in Row
<1>1. b \in Plan[r]
  BY DEF Best
<1>2. b \in SUBSET Resources
  BY <1>1, QuotaAssumption
<1>3. Tracked(b, t) \in SUBSET Resources
  BY <1>2 DEF Tracked
<1>4. snapshot.observedAt \in Times /\ snapshot.resetAt \in [Resources -> Instants]
  BY TimesTypes DEF TypeOK, Observation
<1>5. t + LeaseMs \in Times
  BY TimesTypes
<1> QED BY <1>3, <1>4, <1>5, EmptyTypes DEF NewRow, Row

LEMMA AcquireTypes ==
  ASSUME TypeOK, NEW r \in Requests, Acquire(r) \/ NotAcquired(r)
  PROVE  TypeOK'
<1>1. PICK t \in Nows(r) : \E rows \in {Pruned(Reaped(row, t), t)} :
        /\ Prune(Reaped(row, t), t)
        /\ \/ \E b \in Best(rows, r, t) : row' = [rows EXCEPT ![r] = NewRow(Tracked(b, t), t)]
           \/ row' = rows
  BY DEF Acquire, NotAcquired
<1>2. t \in 0..MaxTime /\ t \in Times
  BY NowsTypes, PastTypes
<1>3. Pruned(Reaped(row, t), t) \in [Requests -> Row]
  BY <1>2, ReapedTypes, PrunedTypes DEF TypeOK
<1>4. row' \in [Requests -> Row]
  BY <1>1, <1>2, <1>3, NewRowTypes
<1>5. dropped' \in [flight : SUBSET Requests, stored : SUBSET Requests]
  BY <1>1, PruneTypes
<1>6. charged' = charged /\ misled' \in SUBSET Requests
  BY DEF TypeOK, Acquire, NotAcquired
<1>7. Call(r)
  BY DEF Call
<1> QED BY <1>4, <1>5, <1>6, <1>7, FrameTypes DEF TypeOK

LEMMA ChangeTypes ==
  ASSUME TypeOK, NEW r \in Requests,
         MarkDispatched(r) \/ MarkFails(r) \/ Heartbeat(r) \/ Commit(r) \/ Release(r)
  PROVE  TypeOK'
<1>1. ASSUME NEW t \in 0..clock PROVE
        /\ [row[r] EXCEPT !.dispatched = TRUE] \in Row
        /\ [row[r] EXCEPT !.expires = t + LeaseMs] \in Row
        /\ [row[r] EXCEPT !.state = "committed", !.terminalAt = t] \in Row
        /\ [row[r] EXCEPT !.state = "released", !.terminalAt = t] \in Row
        /\ row[r] \in Row /\ t \in Times
  <2>1. t \in Times /\ t + LeaseMs \in Times /\ row[r] \in Row
    BY PastTypes, TimesTypes DEF TypeOK
  <2> QED BY <2>1, EditedRow
<1>2. Nows(r) \subseteq 0..clock /\ Beats(r) \subseteq 0..clock
  BY NowsTypes DEF Beats
<1>3. row' = row \/ \E t \in 0..clock, new \in Row : Change(r, t, new)
  <2>1. CASE MarkDispatched(r) \/ MarkFails(r)
    BY <1>1, <1>2, <2>1 DEF MarkDispatched, MarkFails
  <2>2. CASE Heartbeat(r)
    BY <1>1, <1>2, <2>2 DEF Heartbeat
  <2>3. CASE Commit(r) \/ Release(r)
    BY <1>1, <1>2, <2>3 DEF Commit, Release
  <2> QED BY <2>1, <2>2, <2>3
<1>4. row' \in [Requests -> Row]
  BY <1>1, <1>3, ChangedRows DEF TypeOK
<1>5. charged' \in [Resources -> SUBSET Requests]
  <2>1. CASE Release(r)
    BY <2>1 DEF TypeOK, Release
  <2>2. CASE ~Release(r)
    BY <2>2 DEF TypeOK, MarkDispatched, MarkFails, Heartbeat, Commit
  <2> QED BY <2>1, <2>2
<1>6. Call(r)
  BY DEF Call
<1>7. dropped' = dropped /\ misled' = misled
  BY DEF MarkDispatched, MarkFails, Heartbeat, Commit, Release, NoGrant
<1> QED BY <1>4, <1>5, <1>6, <1>7, FrameTypes DEF TypeOK

LEMMA OtherCallTypes ==
  ASSUME TypeOK, NEW r \in Requests, Count(r) \/ Lose(r)
  PROVE  TypeOK'
<1>1. Call(r)
  BY DEF Call
<1>2. row' = row /\ dropped' = dropped /\ misled' = misled
  BY DEF Count, Lose, NoGrant
<1>3. charged' \in [Resources -> SUBSET Requests]
  BY DEF TypeOK, Count, Lose
<1> QED BY <1>1, <1>2, <1>3, FrameTypes DEF TypeOK

LEMMA QuotaReadTypes ==
  ASSUME TypeOK, FetchQuota \/ ReadQuota \/ StoreQuota
  PROVE  TypeOK'
<1>1. CASE FetchQuota
  <2>1. clock \in 0..MaxTime
    BY DEF TypeOK
  <2>2. [NoObservation EXCEPT !.observedAt = clock] \in Observation
    BY <2>1, EmptyTypes DEF Observation
  <2> QED BY <1>1, <2>2 DEF TypeOK, FetchQuota, NoGrant
<1>2. CASE ReadQuota
  <2>1. fetch.got \in Observation /\ fetch.got.observedAt \in 0..MaxTime
    BY DEF TypeOK, Observation
  <2>2. PICK left \in [Resources -> 0..Limit] :
          LET reset == [q \in Resources |-> IF clock < ResetAt[q] THEN ResetAt[q] ELSE Never]
          IN fetch' = [phase |-> "read",
                       got |-> [fetch.got EXCEPT
                         !.remaining = left,
                         !.resetAt = reset,
                         !.staleAt = [q \in Resources |->
                           Min({fetch.got.observedAt + FreshnessMs, reset[q]})]]]
    BY <1>2 DEF ReadQuota
  <2> DEFINE reset == [q \in Resources |-> IF clock < ResetAt[q] THEN ResetAt[q] ELSE Never]
  <2> DEFINE stale == [q \in Resources |-> Min({fetch.got.observedAt + FreshnessMs, reset[q]})]
  <2>3. reset \in [Resources -> Instants]
    BY QuotaAssumption, TimesTypes
  <2>4. stale \in [Resources -> Times]
    <3> SUFFICES ASSUME NEW q \in Resources
                 PROVE  Min({fetch.got.observedAt + FreshnessMs, reset[q]}) \in Times
      OBVIOUS
    <3>1. fetch.got.observedAt + FreshnessMs \in Times
      BY <2>1, TimesTypes
    <3>2. reset[q] \in Nat /\ fetch.got.observedAt + FreshnessMs \in Nat
      BY <2>3, <3>1, TimesTypes
    <3>3. /\ Min({fetch.got.observedAt + FreshnessMs, reset[q]}) \in Nat
          /\ Min({fetch.got.observedAt + FreshnessMs, reset[q]}) <= fetch.got.observedAt + FreshnessMs
      BY <3>2, LesserOf
    <3> QED BY <3>1, <3>3, TimesTypes
  <2> QED BY <1>2, <2>1, <2>2, <2>3, <2>4 DEF TypeOK, ReadQuota, Observation, NoGrant
<1>3. CASE StoreQuota
  <2>1. dropped' \in [flight : SUBSET Requests, stored : SUBSET Requests]
    BY <1>3 DEF TypeOK, StoreQuota
  <2>2. snapshot' \in Observation
    BY <1>3 DEF TypeOK, StoreQuota
  <2>3. fetch' \in [phase : {"none", "asked", "read"}, got : Observation]
    BY <1>3, EmptyTypes DEF StoreQuota
  <2> QED BY <1>3, <2>1, <2>2, <2>3 DEF TypeOK, StoreQuota
<1> QED BY <1>1, <1>2, <1>3

LEMMA TickTypes ==
  ASSUME TypeOK, Tick
  PROVE  TypeOK'
<1>1. clock' \in 0..MaxTime
  BY TimesTypes DEF TypeOK, Tick
<1>2. charged' \in [Resources -> SUBSET Requests]
  BY DEF TypeOK, Tick
<1> QED BY <1>1, <1>2 DEF TypeOK, Tick, NoGrant

LEMMA InitTypes == Init => TypeOK
BY EmptyTypes, TimesTypes DEF Init, TypeOK, PCs

LEMMA StepTypes == TypeOK /\ [Next]_vars => TypeOK'
<1> SUFFICES ASSUME TypeOK, [Next]_vars PROVE TypeOK'
  OBVIOUS
<1>1. CASE Reap
  <2>1. clock \in Times
    BY TimesTypes DEF TypeOK
  <2>2. Pruned(Reaped(row, clock), clock) \in [Requests -> Row]
    BY <2>1, ReapedTypes, PrunedTypes DEF TypeOK
  <2>3. dropped' \in [flight : SUBSET Requests, stored : SUBSET Requests]
    BY <1>1, PruneTypes DEF Reap
  <2> QED BY <1>1, <2>2, <2>3 DEF TypeOK, Reap
<1>2. CASE UNCHANGED vars
  BY <1>2 DEF TypeOK, vars
<1> QED BY <1>1, <1>2, AcquireTypes, ChangeTypes, OtherCallTypes, QuotaReadTypes, TickTypes DEF Next

\* Types are kept for any requests, resources, plans, leases and window resets.
THEOREM QuotaTypes == Spec => []TypeOK
<1> QED BY InitTypes, StepTypes, PTL DEF Spec

-----------------------------------------------------------------------------
(* Rows and calls.                                                         *)

\* A call that has not begun has no row; what the provider has counted was sent;
\* a request on its way was marked, and if its row has ended its lease has too.
RowsSound == \A r \in Requests :
  /\ pc[r] = "idle" => row[r] = NoRow
  /\ \A q \in Resources : r \in charged[q] => pc[r] \in {"counted", "over"}
  /\ pc[r] \in {"sent", "orphan"} =>
       IF row[r].state = "active" THEN row[r].dispatched ELSE row[r].expires <= clock

RowsInv == TypeOK /\ RowsSound

\* What reaping and pruning make of the row of a call that did not do it.
Aged(old, new, now) ==
  \/ new = old
  \/ /\ old.state = "active" /\ old.expires <= now
     /\ new.state \in {"abandoned", "released"} /\ new.expires = old.expires
  \/ new = NoRow /\ (old.state \in Terminal \/ (old.state = "active" /\ old.expires <= now))

LEMMA ReapedAged ==
  ASSUME TypeOK, NEW t \in Times, t <= clock, NEW r \in Requests
  PROVE  Aged(row[r], Reaped(row, t)[r], clock)
<1>1. row \in [Requests -> Row] /\ row[r].expires \in Nat /\ t \in Nat /\ clock \in Nat
  BY TimesTypes DEF TypeOK, Row
<1>2. row[r].state = "active" /\ row[r].expires <= t =>
        Reaped(row, t)[r].state \in {"abandoned", "released"}
  BY <1>1, ReapedRow
<1> QED BY <1>1, <1>2, ReapedRow DEF Aged

LEMMA PrunedAged ==
  ASSUME TypeOK, NEW t \in Times, t <= clock, NEW r \in Requests
  PROVE  Aged(row[r], Pruned(Reaped(row, t), t)[r], clock)
<1> DEFINE rows == Reaped(row, t)
<1>1. Aged(row[r], rows[r], clock)
  BY ReapedAged
<1>2. Pruned(rows, t)[r] = rows[r] \/ (Pruned(rows, t)[r] = NoRow /\ rows[r].state \in Terminal)
  BY DEF Pruned
<1>3. rows[r].state \in Terminal =>
        row[r].state \in Terminal \/ (row[r].state = "active" /\ row[r].expires <= clock)
  BY <1>1 DEF Aged, NoRow, Terminal
<1> QED BY <1>1, <1>2, <1>3 DEF Aged

\* Every call leaves the rows of the others as they are, but for aging.
OthersAge(r) == \A s \in Requests : s # r => Aged(row[s], row'[s], clock)

\* What calls do to rows: they change their own, or prune as they acquire.
LEMMA CallForms ==
  ASSUME TypeOK, NEW r \in Requests, Call(r)
  PROVE  \/ row' = row
         \/ \E t \in 0..clock : \E new : Change(r, t, new)
         \/ Acquire(r) \/ NotAcquired(r)
<1>0. Nows(r) \subseteq 0..clock /\ Beats(r) \subseteq 0..clock
  BY NowsTypes DEF Beats
<1>1. CASE MarkDispatched(r)
  BY <1>0, <1>1 DEF MarkDispatched
<1>2. CASE MarkFails(r)
  BY <1>0, <1>2 DEF MarkFails
<1>3. CASE Heartbeat(r)
  BY <1>0, <1>3 DEF Heartbeat
<1>4. CASE Commit(r)
  BY <1>0, <1>4 DEF Commit
<1>5. CASE Release(r)
  BY <1>0, <1>5 DEF Release
<1>6. CASE Count(r) \/ Lose(r)
  BY <1>6 DEF Count, Lose
<1> QED BY <1>1, <1>2, <1>3, <1>4, <1>5, <1>6 DEF Call

LEMMA CallsAge ==
  ASSUME TypeOK, NEW r \in Requests, Call(r)
  PROVE  OthersAge(r)
<1>1. CASE row' = row
  BY <1>1 DEF OthersAge, Aged
<1>2. CASE \E t \in 0..clock : \E new : Change(r, t, new)
  <2>1. PICK t \in 0..clock : \E new : Change(r, t, new)
    BY <1>2
  <2>2. \A s \in Requests : s # r => row'[s] = Reaped(row, t)[s]
    BY <2>1, PastTypes, ReapedTypes DEF Change, TypeOK
  <2> QED BY <2>2, PastTypes, ReapedAged DEF OthersAge
<1>3. CASE Acquire(r) \/ NotAcquired(r)
  <2>1. PICK t \in Nows(r) : \A s \in Requests : s # r => row'[s] = Pruned(Reaped(row, t), t)[s]
    <3>1. \A t \in Nows(r) : Pruned(Reaped(row, t), t) \in [Requests -> Row]
      BY NowsTypes, PastTypes, ReapedTypes, PrunedTypes DEF TypeOK
    <3> QED BY <1>3, <3>1 DEF Acquire, NotAcquired
  <2> QED BY <2>1, NowsTypes, PastTypes, PrunedAged DEF OthersAge
<1> QED BY <1>1, <1>2, <1>3, CallForms

\* RowsSound, of one request.
RowSound(r) ==
  /\ pc[r] = "idle" => row[r] = NoRow
  /\ \A q \in Resources : r \in charged[q] => pc[r] \in {"counted", "over"}
  /\ pc[r] \in {"sent", "orphan"} =>
       IF row[r].state = "active" THEN row[r].dispatched ELSE row[r].expires <= clock

LEMMA AgedIsSound ==
  ASSUME RowsInv, NEW s \in Requests, Aged(row[s], row'[s], clock), pc'[s] = pc[s],
         clock' \in Nat, clock <= clock',
         \A q \in Resources : s \in charged'[q] => s \in charged[q]
  PROVE  RowSound(s)'
<1>1. RowSound(s) /\ clock \in Nat /\ row[s].expires \in Nat
  BY TimesTypes DEF RowsInv, RowsSound, RowSound, TypeOK, Row
<1>2. CASE row'[s] = row[s]
  BY <1>1, <1>2 DEF RowSound
<1>3. CASE row'[s] # row[s]
  <2>1. row[s].state \in Terminal \/ (row[s].state = "active" /\ row[s].expires <= clock)
    BY <1>3 DEF Aged
  <2>2. pc[s] # "idle"
    BY <1>1, <2>1 DEF RowSound, NoRow, Terminal
  <2>3. row'[s].state # "active" /\ (row'[s].expires = row[s].expires \/ row'[s].expires = 0)
    BY <1>3 DEF Aged, NoRow
  <2>4. pc[s] \in {"sent", "orphan"} => row[s].expires <= clock
    BY <1>1, <2>1 DEF RowSound, Terminal
  <2> QED BY <1>1, <2>2, <2>3, <2>4 DEF RowSound
<1> QED BY <1>2, <1>3

\* The call that acts is sound as well.
LEMMA ActorIsSound ==
  ASSUME RowsInv, NEW r \in Requests, Call(r)
  PROVE  RowSound(r)'
<1>0. TypeOK /\ RowSound(r)
  BY DEF RowsInv, RowsSound, RowSound
<1>1. CASE Acquire(r) \/ NotAcquired(r) \/ MarkFails(r) \/ Commit(r) \/ Release(r)
  <2>1. pc'[r] \in {"acquired", "untracked", "over"}
    BY <1>0, <1>1 DEF TypeOK, Acquire, NotAcquired, MarkFails, Commit, Release, Go
  <2>2. CASE Acquire(r) \/ NotAcquired(r) \/ MarkFails(r)
    <3>1. charged' = charged /\ pc[r] \in {"idle", "acquired"}
      BY <2>2 DEF Acquire, NotAcquired, MarkFails
    <3>2. \A q \in Resources : r \notin charged[q]
      BY <1>0, <3>1 DEF RowSound
    <3> QED BY <2>1, <3>1, <3>2 DEF RowSound
  <2>3. CASE Commit(r) \/ Release(r)
    <3>1. pc'[r] = "over"
      BY <1>0, <2>3 DEF TypeOK, Commit, Release, Go
    <3> QED BY <3>1 DEF RowSound
  <2> QED BY <1>1, <2>2, <2>3
<1>2. CASE MarkDispatched(r)
  <2>1. PICK t \in Nows(r) : /\ Change(r, t, [row[r] EXCEPT !.dispatched = TRUE])
                             /\ Go(r, IF Live(row[r], t) THEN "sent" ELSE "over")
    BY <1>2 DEF MarkDispatched
  <2>2. pc'[r] = IF Live(row[r], t) THEN "sent" ELSE "over"
    BY <1>0, <2>1 DEF TypeOK, Go
  <2>3. Live(row[r], t) => row'[r] = [row[r] EXCEPT !.dispatched = TRUE] /\ row[r] \in Row
    BY <1>0, <2>1, NowsTypes, PastTypes, EditedRow, ChangedRows DEF TypeOK
  <2>4. Live(row[r], t) => row'[r].dispatched
    BY <2>3 DEF Row
  <2>5. Live(row[r], t) => row'[r].state = "active"
    BY <2>3 DEF Row, Live
  <2>6. charged' = charged /\ \A q \in Resources : r \notin charged[q]
    BY <1>0, <1>2 DEF MarkDispatched, RowSound
  <2> QED BY <2>2, <2>4, <2>5, <2>6 DEF RowSound
<1>3. CASE Count(r) \/ Lose(r)
  <2>1. row' = row /\ clock' = clock
    BY <1>3 DEF Count, Lose, Go
  <2>2. pc'[r] \in {"counted", "over"} \/ (pc[r] = "sent" /\ pc'[r] = "orphan" /\ charged' = charged)
    BY <1>0, <1>3 DEF TypeOK, Count, Lose, Go
  <2>3. pc[r] = "sent" => \A q \in Resources : r \notin charged[q]
    BY <1>0 DEF RowSound
  <2> QED BY <1>0, <2>1, <2>2, <2>3 DEF RowSound
<1>4. CASE Heartbeat(r)
  <2>1. PICK t \in 0..clock : Change(r, t, [row[r] EXCEPT !.expires = t + LeaseMs])
    BY <1>4 DEF Heartbeat, Beats
  <2>2. t \in Times /\ t <= clock /\ t + LeaseMs \in Times
    BY <1>0, PastTypes, TimesTypes
  <2>3. pc'[r] = pc[r] /\ pc[r] # "idle" /\ charged' = charged /\ clock' = clock
    BY <1>4 DEF Heartbeat
  <2>4. row[r] \in Row /\ [row[r] EXCEPT !.expires = t + LeaseMs] \in Row
    BY <1>0, <2>2, EditedRow DEF TypeOK
  <2>5. row'[r] = IF Live(row[r], t) THEN [row[r] EXCEPT !.expires = t + LeaseMs]
                                     ELSE Reaped(row, t)[r]
    BY <1>0, <2>1, <2>2, <2>4, ChangedRows DEF TypeOK
  <2>6. CASE Live(row[r], t)
    <3>1. row'[r].state = row[r].state /\ row'[r].dispatched = row[r].dispatched
      BY <2>4, <2>5, <2>6 DEF Row
    <3> QED BY <1>0, <2>3, <2>6, <3>1 DEF RowSound, Live
  <2>7. CASE ~Live(row[r], t)
    <3>1. Aged(row[r], row'[r], clock)
      BY <1>0, <2>2, <2>5, <2>7, ReapedAged
    <3>2. clock \in Nat
      BY <1>0, TimesTypes DEF TypeOK
    <3> QED BY <2>3, <3>1, <3>2, AgedIsSound
  <2> QED BY <2>6, <2>7
<1> QED BY <1>1, <1>2, <1>3, <1>4 DEF Call

\* Only counting and releasing change what the provider counts.
LEMMA ChargedForms ==
  ASSUME NEW r \in Requests, NEW q \in Resources, Call(r)
  PROVE  \/ charged' = charged
         \/ Count(r) /\ charged'[q] \in {charged[q], charged[q] \cup {r}}
         \/ Release(r) /\ charged'[q] = charged[q] \ {r}
<1>1. CASE Count(r)
  BY <1>1 DEF Count
<1>2. CASE Release(r)
  BY <1>2 DEF Release
<1>3. CASE ~Count(r) /\ ~Release(r)
  BY <1>3 DEF Call, Acquire, NotAcquired, MarkDispatched, MarkFails, Heartbeat, Commit, Lose
<1> QED BY <1>1, <1>2, <1>3

LEMMA InitRows == Init => RowsInv
BY InitTypes DEF Init, RowsInv, RowsSound

LEMMA StepRows == RowsInv /\ [Next]_vars => RowsInv'
<1> SUFFICES ASSUME RowsInv, [Next]_vars PROVE RowsSound'
  BY StepTypes DEF RowsInv
<1> USE DEF RowsInv
<1>0. clock \in Nat /\ clock' \in Nat /\ clock <= clock
  BY StepTypes, TimesTypes DEF TypeOK
<1>1. SUFFICES ASSUME NEW s \in Requests PROVE RowSound(s)'
  BY DEF RowsSound, RowSound
<1>2. ASSUME NEW r \in Requests, Call(r) PROVE RowSound(s)'
  <2>1. CASE s = r
    BY <1>2, <2>1, ActorIsSound
  <2>2. CASE s # r
    <3>1. Aged(row[s], row'[s], clock)
      BY <1>2, <2>2, CallsAge DEF OthersAge
    <3>2. pc'[s] = pc[s] /\ clock' = clock
      BY <1>2, <2>2, CallFrame DEF TypeOK
    <3>3. \A q \in Resources : s \in charged'[q] => s \in charged[q]
      BY <1>2, <2>2, ChargedForms
    <3> QED BY <1>0, <3>1, <3>2, <3>3, AgedIsSound
  <2> QED BY <2>1, <2>2
<1>3. CASE Reap
  <2>1. clock \in Times
    BY TimesTypes DEF TypeOK
  <2>2. Aged(row[s], row'[s], clock)
    BY <1>0, <1>3, <2>1, PrunedAged DEF Reap
  <2> QED BY <1>0, <1>3, <2>2, AgedIsSound DEF Reap
<1>4. CASE FetchQuota \/ ReadQuota \/ StoreQuota \/ UNCHANGED vars
  <2>1. UNCHANGED <<clock, row, pc, charged>>
    BY <1>4 DEF FetchQuota, ReadQuota, StoreQuota, vars
  <2> QED BY <2>1 DEF RowsSound, RowSound
<1>5. CASE Tick
  <2>1. Aged(row[s], row'[s], clock) /\ pc'[s] = pc[s] /\ clock' = clock + 1
    BY <1>5 DEF Tick, Aged
  <2>2. \A q \in Resources : s \in charged'[q] => s \in charged[q]
    BY <1>5 DEF Tick
  <2> QED BY <1>0, <2>1, <2>2, AgedIsSound
<1> QED BY <1>2, <1>3, <1>4, <1>5 DEF Next, Call

\* What is known of rows and calls, whatever the age of the instants that calls use.
THEOREM QuotaRows == Spec => []RowsInv
<1> QED BY InitRows, StepRows, PTL DEF Spec

\* A settled row stays settled: no late heartbeat, mark or commit revives it or
\* turns its debit around, for any age of the instants that they carry.
THEOREM QuotaTerminalIsFinal == Spec => TerminalIsFinal
<1>1. ASSUME RowsInv, [Next]_vars PROVE [SettledStays]_vars
  <2> SUFFICES ASSUME NEW s \in Requests, row[s].state \in Terminal
               PROVE  /\ row'[s].state \in {row[s].state, "none"}
                      /\ row'[s].terminalAt \in {row[s].terminalAt, 0}
                      /\ row'[s].expires \in {row[s].expires, 0}
    BY DEF SettledStays
  <2>0. TypeOK /\ pc[s] # "idle"
    BY <1>1 DEF RowsInv, RowsSound, NoRow, Terminal
  <2>1. CASE Aged(row[s], row'[s], clock)
    BY <2>1 DEF Aged, NoRow, Terminal
  <2>2. ASSUME NEW t \in 0..clock, NEW new, Change(s, t, new) PROVE Aged(row[s], row'[s], clock)
    <3>1. ~Live(row[s], t)
      BY DEF Live, Terminal
    <3>2. row'[s] = Reaped(row, t)[s]
      BY <2>0, <2>2, <3>1, PastTypes, ReapedTypes DEF Change, TypeOK
    <3> QED BY <2>0, <3>2, PastTypes, ReapedAged
  <2>3. ASSUME NEW r \in Requests, Call(r)
        PROVE  Aged(row[s], row'[s], clock)
    <3>1. CASE s # r
      BY <2>0, <2>3, <3>1, CallsAge DEF OthersAge
    <3>2. CASE s = r
      <4>1. CASE row' = row
        BY <4>1 DEF Aged
      <4>2. ~Acquire(s) /\ ~NotAcquired(s)
        BY <2>0 DEF Acquire, NotAcquired
      <4> QED BY <2>0, <2>2, <2>3, <3>2, <4>1, <4>2, CallForms
    <3> QED BY <3>1, <3>2
  <2>4. CASE Reap
    <3>1. clock \in Times /\ clock <= clock
      BY <2>0, TimesTypes DEF TypeOK
    <3> QED BY <2>0, <2>1, <2>4, <3>1, PrunedAged DEF Reap
  <2>5. CASE row' = row
    BY <2>1, <2>5 DEF Aged
  <2> QED BY <1>1, <2>1, <2>3, <2>4, <2>5 DEF Next, Call, vars, FetchQuota, ReadQuota, StoreQuota, Tick
<1> QED BY <1>1, QuotaRows, PTL DEF Spec, TerminalIsFinal

-----------------------------------------------------------------------------
(* What the ledger has on its books.                                       *)

\* The row holds a debit of q for whoever reads at instant o, now and after every
\* step but a pruning: it was sent and its lease ends later, or it ended then or
\* later.
OnBooks(rw, q, o) ==
  /\ q \in rw.items
  /\ \/ rw.state = "active" /\ rw.dispatched /\ o < rw.expires
     \/ rw.state \in {"committed", "abandoned"} /\ o <= rw.terminalAt

\* And so it is with the instants that the call may still bring.
Debited(r, q, o) == OnBooks(row[r], q, o) /\ (pc[r] = "counted" => o <= since[r])

\* A reading covers the provider's count of q: some requests may be in what it
\* left, some were dropped while it was in flight, the others are all on the books.
Covers(S, D, q) ==
  \E C \in SUBSET Requests :
    /\ S.remaining[q] + Cardinality(C) <= Limit
    /\ \A r \in charged[q] : r \in C \/ r \in D \/ Debited(r, q, S.observedAt)

Timed(S) ==
  \A q \in Resources : /\ S.staleAt[q] <= S.observedAt + FreshnessMs
                       /\ S.staleAt[q] <= S.resetAt[q]

\* A reading that is of use: taken by now, with the bounds on its freshness, and
\* covering the count of every resource for which it is not stale.
Sound(S, D) ==
  /\ S.observedAt <= clock
  /\ Timed(S)
  /\ \A q \in Resources : clock < S.staleAt[q] => Covers(S, D, q)

\* The stored reading is sound, and the one in flight is when it has its answer.
ReadingsCover ==
  /\ Sound(snapshot, dropped.stored)
  /\ fetch.phase # "none" => fetch.got.observedAt <= clock
  /\ fetch.phase = "read" => Sound(fetch.got, dropped.flight)

\* The requests that the provider has counted against q, or may still count.
Promised(q) == {r \in Requests :
  \/ r \in charged[q]
  \/ /\ pc[r] \in {"acquired", "sent", "orphan"}
     /\ q \in row[r].items /\ row[r].state = "active"}

PromisesKept == \A q \in Resources : Cardinality(Promised(q) \ misled) <= Limit

LedgerInv == RowsInv /\ ReadingsCover /\ PromisesKept

\* The readings that the ledger counts from or will count from, with what was
\* dropped before and is dropped after a step.
Reading(S, D, E) ==
  \/ S = snapshot /\ D = dropped.stored /\ E = dropped'.stored
  \/ fetch.phase = "read" /\ S = fetch.got /\ D = dropped.flight /\ E = dropped'.flight

LEMMA ReadingIsSound ==
  ASSUME TypeOK, ReadingsCover, NEW S, NEW D, NEW E, Reading(S, D, E)
  PROVE  S \in Observation /\ Sound(S, D)
BY DEF TypeOK, ReadingsCover, Reading

LEMMA ReadingTypes ==
  ASSUME NEW S \in Observation, NEW q \in Resources
  PROVE  /\ S.observedAt \in Nat /\ S.staleAt[q] \in Nat /\ S.resetAt[q] \in Nat
         /\ S.remaining[q] \in Nat
<1>1. S.observedAt \in 0..MaxTime /\ S.staleAt[q] \in Times /\ S.resetAt[q] \in Instants
      /\ S.remaining[q] \in 0..Limit
  BY DEF Observation
<1>2. S.observedAt \in Nat /\ S.staleAt[q] \in Nat /\ S.resetAt[q] \in Nat
  BY <1>1, TimesTypes
<1>3. Limit \in Nat
  BY TimesTypes
<1> QED BY <1>1, <1>2, <1>3

\* The reaper settles a row that was sent when its lease has ended, however old the
\* instant that it is given.
LEMMA ReapedOnBooks ==
  ASSUME NEW rows \in [Requests -> Row], NEW t \in Times, NEW r \in Requests,
         NEW q \in Resources, NEW o \in Nat, OnBooks(rows[r], q, o)
  PROVE  OnBooks(Reaped(rows, t)[r], q, o)
<1>1. CASE rows[r].state = "active" /\ rows[r].expires <= t
  <2>1. rows[r].expires \in Nat /\ t \in Nat
    BY TimesTypes DEF Row
  <2> QED BY <1>1, <2>1, ReapedRow DEF OnBooks
<1>2. CASE ~(rows[r].state = "active" /\ rows[r].expires <= t)
  BY <1>2, ReapedRow DEF OnBooks
<1> QED BY <1>1, <1>2

\* A debit that a fresh snapshot needs weighs on it and is not pruned: the snapshot
\* is stale by the end of its window, and before debits pass their retention.
LEMMA FreshDebitKept ==
  ASSUME TypeOK, Timed(snapshot), NEW rows \in [Requests -> Row], NEW r \in Requests,
         NEW q \in Resources, NEW t \in 0..clock, clock < snapshot.staleAt[q],
         OnBooks(rows[r], q, snapshot.observedAt)
  PROVE  /\ Pruned(rows, t)[r] = rows[r]
         /\ rows[r].state \in {"committed", "abandoned"} => StillDebits(rows[r], q, t)
<1>1. /\ clock \in Nat /\ snapshot.observedAt \in Nat /\ snapshot.staleAt[q] \in Nat
      /\ snapshot.resetAt[q] \in Nat /\ RetentionMs \in Nat /\ FreshnessMs \in Nat
      /\ FreshnessMs <= RetentionMs
  BY ReadingTypes, TimesTypes DEF TypeOK
<1>2. /\ snapshot.staleAt[q] <= snapshot.observedAt + FreshnessMs
      /\ snapshot.staleAt[q] <= snapshot.resetAt[q]
  BY DEF Timed
<1>5. t \in Nat /\ t <= clock /\ t < snapshot.staleAt[q]
  BY <1>1, PastTypes
<1>3. CASE rows[r].state = "active"
  BY <1>3 DEF Pruned, Terminal
<1>4. CASE rows[r].state \in {"committed", "abandoned"}
  <2>1. rows[r].terminalAt \in Nat
    BY TimesTypes DEF Row
  <2>2. snapshot.observedAt <= rows[r].terminalAt /\ q \in rows[r].items
    BY <1>4 DEF OnBooks
  <2>3. StillDebits(rows[r], q, t)
    BY <1>1, <1>2, <1>5, <2>1, <2>2 DEF StillDebits
  <2>4. Needed(rows[r], t)
    BY <2>2, <2>3, <1>1, <1>5 DEF Needed
  <2>5. ~(rows[r].terminalAt < t - RetentionMs)
    BY <1>1, <1>2, <1>5, <2>1, <2>2
  <2> QED BY <2>3, <2>4, <2>5 DEF Pruned
<1> QED BY <1>3, <1>4 DEF OnBooks

\* Nor is a debit that a reading in flight will need pruned unnoticed.
LEMMA PrunedOnBooks ==
  ASSUME TypeOK, ReadingsCover, NEW S, NEW D, NEW E, Reading(S, D, E),
         NEW rows \in [Requests -> Row], NEW t \in 0..clock, Prune(rows, t),
         NEW r \in Requests, NEW q \in Resources, clock < S.staleAt[q],
         OnBooks(rows[r], q, S.observedAt)
  PROVE  Pruned(rows, t)[r] = rows[r] \/ r \in E
<1>1. CASE S = snapshot
  <2>1. Timed(snapshot)
    BY DEF ReadingsCover, Sound
  <2> QED BY <1>1, <2>1, FreshDebitKept
<1>2. CASE fetch.phase = "read" /\ S = fetch.got /\ E = dropped'.flight
  <2>1. CASE Pruned(rows, t)[r] # rows[r]
    <3>1. Pruned(rows, t)[r] = NoRow /\ rows[r].state \in {"committed", "abandoned"}
      BY <2>1 DEF Pruned, OnBooks, Terminal
    <3>2. fetch.got.observedAt <= rows[r].terminalAt
      BY <1>2, <3>1 DEF OnBooks
    <3>3. r \in TakenInFlight(rows, t)
      BY <1>2, <3>1, <3>2 DEF TakenInFlight
    <3> QED BY <1>2, <3>3, PruneTypes
  <2> QED BY <2>1
<1> QED BY <1>1, <1>2 DEF Reading

-----------------------------------------------------------------------------
(* Steps keep what is on the books.                                        *)

\* What was missing from a reading stays missing, and only pruning adds to it.
LEMMA DroppedGrow ==
  ASSUME TypeOK, NEW r \in Requests, Call(r) \/ Reap,
         NEW S, NEW D, NEW E, Reading(S, D, E)
  PROVE  D \subseteq E
<1>1. CASE Acquire(r) \/ NotAcquired(r) \/ Reap
  <2>1. \E rows, t : Prune(rows, t)
    BY <1>1 DEF Acquire, NotAcquired, Reap
  <2> QED BY <2>1, PruneTypes DEF Reading
<1>2. CASE dropped' = dropped
  BY <1>2 DEF Reading
<1>3. CASE MarkDispatched(r) \/ MarkFails(r) \/ Count(r) \/ Heartbeat(r) \/ Commit(r)
           \/ Release(r) \/ Lose(r)
  BY <1>2, <1>3 DEF MarkDispatched, MarkFails, Count, Heartbeat, Commit, Release, Lose, NoGrant
<1> QED BY <1>1, <1>3 DEF Call

\* The rows of the other calls, and those that a reaping leaves.
LEMMA OthersKept ==
  ASSUME LedgerInv, NEW r \in Requests, Call(r) \/ Reap, NEW s \in Requests, s # r \/ Reap,
         NEW S, NEW D, NEW E, Reading(S, D, E), NEW q \in Resources, clock < S.staleAt[q],
         Debited(s, q, S.observedAt)
  PROVE  Debited(s, q, S.observedAt)' \/ s \in E
<1> DEFINE o == S.observedAt
<1>1. TypeOK /\ ReadingsCover /\ row \in [Requests -> Row] /\ o \in Nat
  BY ReadingIsSound, ReadingTypes DEF LedgerInv, RowsInv, TypeOK
<1>2. OnBooks(row[s], q, o) /\ S' = S /\ o' = o
  BY DEF Debited
<1> HIDE DEF o
<1>3. \A t \in 0..clock : Reaped(row, t) \in [Requests -> Row] /\ OnBooks(Reaped(row, t)[s], q, o)
  BY <1>1, <1>2, PastTypes, ReapedTypes, ReapedOnBooks
<1>4. \A t \in 0..clock : Prune(Reaped(row, t), t) =>
        Pruned(Reaped(row, t), t)[s] = Reaped(row, t)[s] \/ s \in E
  BY <1>1, <1>3, PrunedOnBooks DEF o
<1>5. pc'[s] = pc[s] /\ since'[s] = since[s]
  <2>1. CASE Reap
    BY <2>1 DEF Reap
  <2>2. CASE s # r /\ Call(r)
    BY <1>1, <2>2, CallFrame DEF TypeOK
  <2> QED BY <2>1, <2>2
<1>6. OnBooks(row'[s], q, o) \/ s \in E
  <2>1. CASE row' = row
    BY <1>2, <2>1
  <2>2. CASE Reap
    <3>1. clock \in 0..clock
      <4>1. clock \in Nat BY <1>1, TimesTypes DEF TypeOK
      <4> QED BY <4>1
    <3> QED BY <1>3, <1>4, <2>2, <3>1 DEF Reap
  <2>3. CASE s # r /\ \E t \in 0..clock : \E new : Change(r, t, new)
    <3>1. PICK t \in 0..clock : \E new : Change(r, t, new)
      BY <2>3
    <3>2. row'[s] = Reaped(row, t)[s]
      BY <1>3, <2>3, <3>1 DEF Change
    <3> QED BY <1>3, <3>2
  <2>4. CASE s # r /\ (Acquire(r) \/ NotAcquired(r))
    <3>1. \A t \in 0..clock : Pruned(Reaped(row, t), t) \in [Requests -> Row]
      BY <1>1, <1>3, PastTypes, PrunedTypes
    <3>2. PICK t \in Nows(r) : \E rows \in {Pruned(Reaped(row, t), t)} :
            /\ Prune(Reaped(row, t), t)
            /\ \/ \E b \in Best(rows, r, t) : row' = [rows EXCEPT ![r] = NewRow(Tracked(b, t), t)]
               \/ row' = rows
      BY <2>4 DEF Acquire, NotAcquired
    <3>3. t \in 0..clock
      BY <1>1, NowsTypes
    <3>4. row'[s] = Pruned(Reaped(row, t), t)[s]
      BY <2>4, <3>1, <3>2, <3>3
    <3> QED BY <1>3, <1>4, <3>2, <3>3, <3>4
  <2> QED BY <1>1, <2>1, <2>2, <2>3, <2>4, CallForms
<1> QED BY <1>5, <1>6 DEF Debited, o

\* The row of the call itself, while the provider counts it.
LEMMA OwnKept ==
  ASSUME LedgerInv, NEW r \in Requests, Call(r), NEW q \in Resources,
         NEW o \in Nat, r \in charged[q], r \in charged'[q], Debited(r, q, o)
  PROVE  Debited(r, q, o)'
<1>1. /\ TypeOK /\ row \in [Requests -> Row] /\ row[r] \in Row
      /\ pc[r] \in {"counted", "over"} /\ OnBooks(row[r], q, o)
  BY DEF LedgerInv, RowsInv, RowsSound, TypeOK, Debited
<1>2. \A t \in 0..clock : t \in Times /\ t \in Nat /\ OnBooks(Reaped(row, t)[r], q, o)
  BY <1>1, PastTypes, ReapedOnBooks
<1>3. CASE Lose(r)
  <2>1. row' = row /\ pc' = [pc EXCEPT ![r] = IF pc[r] = "sent" THEN "orphan" ELSE "over"]
    BY <1>3 DEF Lose, Go
  <2>2. pc'[r] = "over"
    BY <1>1, <2>1 DEF TypeOK
  <2> QED BY <1>1, <2>1, <2>2 DEF Debited
<1>4. CASE Heartbeat(r)
  <2>1. PICK t \in Beats(r) : Change(r, t, [row[r] EXCEPT !.expires = t + LeaseMs])
    BY <1>4 DEF Heartbeat
  <2>2. t \in 0..clock /\ row[r].expires <= t + LeaseMs
    BY DEF Beats
  <2>3. [row[r] EXCEPT !.expires = t + LeaseMs] \in Row /\ LeaseMs \in Nat /\ row[r].expires \in Nat
    <3>1. t + LeaseMs \in Times
      BY <1>1, <2>2, PastTypes, TimesTypes
    <3> QED BY <1>1, <3>1, EditedRow, TimesTypes DEF Row
  <2>4. row'[r] = IF Live(row[r], t) THEN [row[r] EXCEPT !.expires = t + LeaseMs]
                                     ELSE Reaped(row, t)[r]
    BY <1>1, <1>2, <2>1, <2>2, <2>3, ChangedRows
  <2>5. OnBooks(row'[r], q, o)
    <3>1. CASE Live(row[r], t)
      <4>1. /\ row'[r].items = row[r].items /\ row'[r].state = row[r].state
            /\ row'[r].dispatched = row[r].dispatched /\ row[r].state = "active"
            /\ row'[r].expires = t + LeaseMs
        BY <1>1, <2>4, <3>1 DEF Live, Row
      <4>2. o < row[r].expires
        BY <1>1, <4>1 DEF OnBooks
      <4>3. o < t + LeaseMs
        BY <1>2, <2>2, <2>3, <4>2
      <4> QED BY <1>1, <4>1, <4>3 DEF OnBooks
    <3> QED BY <1>2, <2>2, <2>4, <3>1
  <2>6. pc' = pc /\ since' = since
    BY <1>4 DEF Heartbeat
  <2> QED BY <2>5, <2>6 DEF Debited
<1>5. CASE Commit(r)
  <2>1. PICK t \in Nows(r) :
          Change(r, t, IF row[r].dispatched
                       THEN [row[r] EXCEPT !.state = "committed", !.terminalAt = t]
                       ELSE row[r])
    BY <1>5 DEF Commit
  <2> DEFINE new == IF row[r].dispatched
                    THEN [row[r] EXCEPT !.state = "committed", !.terminalAt = t]
                    ELSE row[r]
  <2>2. t \in 0..clock /\ since[r] <= t /\ since[r] \in Nat /\ pc[r] = "counted"
    <3>1. since[r] \in 0..MaxTime
      BY <1>1 DEF TypeOK
    <3> QED BY <1>1, <1>5, <3>1, NowsTypes, TimesTypes DEF Commit
  <2>3. o <= t
    <3>1. o <= since[r]
      BY <2>2 DEF Debited
    <3> QED BY <1>2, <2>2, <3>1
  <2>4. new \in Row
    <3>1. [row[r] EXCEPT !.state = "committed", !.terminalAt = t] \in Row
      BY <1>1, <1>2, <2>2, EditedRow
    <3> QED BY <1>1, <3>1
  <2>5. Change(r, t, new)
    BY <2>1
  <2> HIDE DEF new
  <2>6. row'[r] = IF Live(row[r], t) THEN new ELSE Reaped(row, t)[r]
    BY <1>1, <1>2, <2>2, <2>4, <2>5, ChangedRows
  <2>7. OnBooks(row'[r], q, o)
    <3>1. CASE Live(row[r], t)
      <4>1. row[r].dispatched
        BY <1>1, <3>1 DEF OnBooks, Live
      <4>2. /\ row'[r].items = row[r].items /\ row'[r].state = "committed"
            /\ row'[r].terminalAt = t
        BY <1>1, <2>6, <3>1, <4>1 DEF Row, new
      <4> QED BY <1>1, <2>3, <4>2 DEF OnBooks
    <3> QED BY <1>2, <2>2, <2>6, <3>1
  <2>8. pc'[r] = "over"
    BY <1>1, <1>5 DEF TypeOK, Commit, Go
  <2> QED BY <2>7, <2>8 DEF Debited
<1>6. CASE Release(r)
  <2>1. charged'[q] = charged[q] \ {r}
    BY <1>6 DEF Release
  <2> QED BY <2>1
<1>7. CASE Acquire(r) \/ NotAcquired(r) \/ MarkDispatched(r) \/ MarkFails(r) \/ Count(r)
  BY <1>1, <1>7 DEF Acquire, NotAcquired, MarkDispatched, MarkFails, Count
<1> QED BY <1>3, <1>4, <1>5, <1>6, <1>7 DEF Call

\* A request that the provider counts is on the books when it is: it was marked,
\* and its lease runs.
LEMMA CountedOnBooks ==
  ASSUME RowsInv, NEW r \in Requests, Count(r), NEW q \in Resources,
         r \in charged'[q], r \notin charged[q]
  PROVE  /\ \A o \in Nat : o <= clock => Debited(r, q, o)'
         /\ q \in row[r].items /\ row[r].state = "active" /\ pc[r] \in {"sent", "orphan"}
<1>1. TypeOK /\ row[r] \in Row /\ row[r].expires \in Nat /\ clock \in Nat
  BY TimesTypes DEF RowsInv, TypeOK, Row
<1>2. clock < row[r].expires /\ row' = row /\ pc[r] \in {"sent", "orphan"}
  BY DEF Count
<1>3. q \in row[r].items
  BY DEF Count
<1>4. row[r].state = "active" /\ row[r].dispatched
  BY <1>1, <1>2 DEF RowsInv, RowsSound
<1>5. pc'[r] = "counted" => since'[r] = clock
  BY <1>1 DEF Count, Go, TypeOK, Ended
<1>6. \A o \in Nat : o <= clock => OnBooks(row'[r], q, o)
  BY <1>1, <1>2, <1>3, <1>4 DEF OnBooks
<1> QED BY <1>2, <1>3, <1>4, <1>5, <1>6 DEF Debited

\* So a reading covers the count after every step of a call as it did before.
LEMMA CallsCover ==
  ASSUME LedgerInv, NEW r \in Requests, Call(r),
         NEW S, NEW D, NEW E, Reading(S, D, E), NEW q \in Resources, clock < S.staleAt[q]
  PROVE  Covers(S, E, q)'
<1>1. /\ Covers(S, D, q) /\ S.observedAt \in Nat /\ S.observedAt <= clock /\ TypeOK
      /\ TypeOK' /\ D \subseteq E
  BY ReadingIsSound, ReadingTypes, StepTypes, DroppedGrow DEF LedgerInv, RowsInv, Sound, Next, Call
<1>2. PICK C \in SUBSET Requests :
        /\ S.remaining[q] + Cardinality(C) <= Limit
        /\ \A s \in charged[q] : s \in C \/ s \in D \/ Debited(s, q, S.observedAt)
  BY <1>1 DEF Covers
<1>3. ASSUME NEW s \in charged'[q]
      PROVE  s \in C \/ s \in E \/ Debited(s, q, S.observedAt)'
  <2>1. s \in Requests
    BY <1>1 DEF TypeOK
  <2>2. CASE s \in charged[q] /\ s # r
    BY <1>1, <1>2, <2>1, <2>2, OthersKept
  <2>3. CASE s \in charged[q] /\ s = r
    BY <1>1, <1>2, <1>3, <2>3, OwnKept
  <2>4. CASE s \notin charged[q]
    <3>1. Count(r) /\ s = r
      BY <2>4, ChargedForms
    <3> QED BY <1>1, <1>3, <2>4, <3>1, CountedOnBooks DEF LedgerInv
  <2> QED BY <2>2, <2>3, <2>4
<1> QED BY <1>2, <1>3 DEF Covers

-----------------------------------------------------------------------------
(* Readings stay sound.                                                    *)

\* A reading stays sound through calls, reaping and time.
LEMMA SoundStays ==
  ASSUME LedgerInv, NEW S, NEW D, NEW E, Reading(S, D, E),
         (\E r \in Requests : Call(r)) \/ Reap \/ Tick \/ UNCHANGED vars
  PROVE  Sound(S, E)'
<1>1. /\ TypeOK /\ S \in Observation /\ S.observedAt <= clock /\ Timed(S)
      /\ clock \in Nat /\ \A q \in Resources : clock < S.staleAt[q] => Covers(S, D, q)
  BY ReadingIsSound, TimesTypes DEF LedgerInv, RowsInv, Sound, TypeOK
<1>0. /\ S.observedAt \in 0..MaxTime /\ S.observedAt \in Nat
      /\ \A q \in Resources : S.staleAt[q] \in Nat
  <2>1. S.observedAt \in 0..MaxTime
    BY <1>1 DEF Observation
  <2> QED BY <1>1, <2>1, ReadingTypes, TimesTypes
<1>2. clock' \in Nat /\ clock <= clock'
  <2>1. CASE \E r \in Requests : Call(r)
    BY <1>1, <2>1, CallFrame
  <2>2. CASE Reap \/ Tick \/ UNCHANGED vars
    BY <1>1, <2>2 DEF Reap, Tick, vars
  <2> QED BY <2>1, <2>2
<1>3. Timed(S)'
  BY <1>1 DEF Timed
<1>4. ASSUME NEW q \in Resources, clock' < S.staleAt[q] PROVE Covers(S, E, q)'
  <2>1. clock < S.staleAt[q]
    BY <1>0, <1>1, <1>2, <1>4
  <2>2. PICK C \in SUBSET Requests :
          /\ S.remaining[q] + Cardinality(C) <= Limit
          /\ \A s \in charged[q] : s \in C \/ s \in D \/ Debited(s, q, S.observedAt)
    BY <1>1, <2>1 DEF Covers
  <2>3. charged[q] \subseteq Requests
    BY <1>1 DEF TypeOK
  <2>4. CASE \E r \in Requests : Call(r)
    BY <2>1, <2>4, CallsCover
  <2>5. CASE Reap
    <3>1. charged' = charged
      BY <2>5 DEF Reap
    <3>2. \A s \in charged[q] : D \subseteq E /\
            (Debited(s, q, S.observedAt) => Debited(s, q, S.observedAt)' \/ s \in E)
      BY <1>1, <2>1, <2>3, <2>5, OthersKept, DroppedGrow
    <3> QED BY <2>2, <3>1, <3>2 DEF Covers
  <2>6. CASE Tick \/ UNCHANGED vars
    <3>1. UNCHANGED <<row, pc, since, dropped>> /\ charged'[q] \subseteq charged[q]
      BY <2>6 DEF Tick, NoGrant, vars
    <3>2. D = E
      BY <3>1 DEF Reading
    <3> QED BY <2>2, <3>1, <3>2 DEF Covers, Debited
  <2> QED BY <2>4, <2>5, <2>6
<1> QED BY <1>0, <1>1, <1>2, <1>3, <1>4 DEF Sound

\* A step that leaves rows, calls and counts alone leaves what is known of a reading.
LEMMA SoundFrame ==
  ASSUME NEW S, NEW D, Sound(S, D), UNCHANGED <<clock, row, pc, since, charged>>
  PROVE  Sound(S, D)'
BY DEF Sound, Timed, Covers, Debited

\* An answer of the provider is sound: it leaves no more than the limit allows
\* beyond what is counted, and the window's end bounds its freshness.
LEMMA AnswerIsSound ==
  ASSUME LedgerInv, ReadQuota, NEW D
  PROVE  Sound(fetch'.got, D)
<1>1. /\ TypeOK /\ fetch.got \in Observation /\ fetch.got.observedAt <= clock
  BY DEF LedgerInv, RowsInv, TypeOK, ReadingsCover, ReadQuota
<1>0. fetch.got.observedAt \in 0..MaxTime /\ clock \in 0..MaxTime
  BY <1>1 DEF TypeOK, Observation
<1>2. PICK left \in [Resources -> 0..Limit] :
        /\ \A q \in Resources : left[q] + Cardinality(charged[q]) <= Limit
        /\ LET reset == [q \in Resources |-> IF clock < ResetAt[q] THEN ResetAt[q] ELSE Never]
           IN fetch' = [phase |-> "read",
                        got |-> [fetch.got EXCEPT
                          !.remaining = left,
                          !.resetAt = reset,
                          !.staleAt = [q \in Resources |->
                            Min({fetch.got.observedAt + FreshnessMs, reset[q]})]]]
  BY DEF ReadQuota
<1> DEFINE reset == [q \in Resources |-> IF clock < ResetAt[q] THEN ResetAt[q] ELSE Never]
<1> DEFINE stale == [q \in Resources |-> Min({fetch.got.observedAt + FreshnessMs, reset[q]})]
<1>3. PICK S : S = fetch'.got
  OBVIOUS
<1>4. /\ S.observedAt = fetch.got.observedAt /\ S.remaining = left
      /\ S.resetAt = reset /\ S.staleAt = stale
  BY <1>1, <1>2, <1>3 DEF Observation
<1>6. Timed(S)
  <2> SUFFICES ASSUME NEW q \in Resources
               PROVE  S.staleAt[q] <= S.observedAt + FreshnessMs /\ S.staleAt[q] <= S.resetAt[q]
    BY DEF Timed
  <2>1. reset[q] \in Nat /\ fetch.got.observedAt + FreshnessMs \in Nat
    <3>1. ResetAt[q] \in Instants
      BY QuotaAssumption
    <3>2. reset[q] \in {ResetAt[q], Never}
      OBVIOUS
    <3> HIDE DEF reset
    <3>3. fetch.got.observedAt + FreshnessMs \in Times
      BY <1>0, TimesTypes
    <3> QED BY <3>1, <3>2, <3>3, TimesTypes
  <2>2. stale[q] = Min({fetch.got.observedAt + FreshnessMs, reset[q]})
    OBVIOUS
  <2> HIDE DEF reset, stale
  <2>3. stale[q] <= fetch.got.observedAt + FreshnessMs /\ stale[q] <= reset[q]
    BY <2>1, <2>2, LesserOf
  <2> QED BY <1>4, <2>3
<1>7. ASSUME NEW q \in Resources PROVE Covers(S, D, q)
  <2>1. charged[q] \in SUBSET Requests
    BY <1>1 DEF TypeOK
  <2>2. S.remaining[q] + Cardinality(charged[q]) <= Limit
    BY <1>2, <1>4
  <2> QED BY <2>1, <2>2 DEF Covers
<1> QED BY <1>1, <1>3, <1>4, <1>6, <1>7 DEF Sound

LEMMA StepReadings ==
  ASSUME LedgerInv, [Next]_vars
  PROVE  ReadingsCover'
<1>1. ReadingsCover /\ TypeOK /\ clock \in Nat /\ fetch.got.observedAt \in Nat
  <2>1. fetch.got.observedAt \in 0..MaxTime /\ clock \in 0..MaxTime
    BY DEF LedgerInv, RowsInv, TypeOK, Observation
  <2> QED BY <2>1, TimesTypes DEF LedgerInv, RowsInv
<1>0. PICK A, B, D, F : A = snapshot /\ B = fetch.got /\ D = dropped.stored /\ F = dropped.flight
  OBVIOUS
<1>2. CASE (\E r \in Requests : Call(r)) \/ Reap \/ Tick \/ UNCHANGED vars
  <2>1. UNCHANGED <<snapshot, fetch>> /\ clock' \in Nat /\ clock <= clock'
    <3>1. CASE \E r \in Requests : Call(r)
      BY <1>1, <3>1, CallFrame
    <3>2. CASE Reap \/ Tick \/ UNCHANGED vars
      BY <1>1, <3>2 DEF Reap, Tick, vars
    <3> QED BY <1>2, <3>1, <3>2
  <2>2. PICK E, G : E = dropped'.stored /\ G = dropped'.flight
    OBVIOUS
  <2>3. Sound(A, E)'
    <3>1. Reading(A, D, E)
      BY <1>0, <2>2 DEF Reading
    <3> QED BY <1>2, <3>1, SoundStays
  <2>4. fetch.phase = "read" => Sound(B, G)'
    <3>1. fetch.phase = "read" => Reading(B, F, G)
      BY <1>0, <2>2 DEF Reading
    <3> QED BY <1>2, <3>1, SoundStays
  <2>5. fetch.phase # "none" => fetch.got.observedAt <= clock'
    BY <1>1, <2>1 DEF ReadingsCover
  <2>6. Sound(snapshot, dropped.stored)'
    BY <1>0, <2>1, <2>2, <2>3 DEF Sound, Timed, Covers, Debited
  <2>7. fetch.phase = "read" => Sound(fetch.got, dropped.flight)'
    BY <1>0, <2>1, <2>2, <2>4 DEF Sound, Timed, Covers, Debited
  <2> QED BY <2>1, <2>5, <2>6, <2>7 DEF ReadingsCover
<1>3. CASE FetchQuota
  <2>1. /\ UNCHANGED <<snapshot, clock, row, pc, since, charged, dropped>>
        /\ fetch' = [phase |-> "asked", got |-> [NoObservation EXCEPT !.observedAt = clock]]
    BY <1>3 DEF FetchQuota, NoGrant
  <2>2. Sound(A, D)'
    BY <1>0, <1>1, <2>1, SoundFrame DEF ReadingsCover
  <2>3. Sound(snapshot, dropped.stored)'
    BY <1>0, <2>1, <2>2 DEF Sound, Timed, Covers, Debited
  <2>4. fetch'.phase = "asked" /\ fetch'.got.observedAt <= clock'
    BY <1>1, <2>1 DEF NoObservation
  <2> QED BY <2>3, <2>4 DEF ReadingsCover
<1>4. CASE ReadQuota
  <2>1. /\ UNCHANGED <<snapshot, clock, row, pc, since, charged, dropped>>
        /\ fetch'.phase = "read"
    BY <1>4 DEF ReadQuota, NoGrant
  <2>2. Sound(A, D)'
    BY <1>0, <1>1, <2>1, SoundFrame DEF ReadingsCover
  <2>3. Sound(snapshot, dropped.stored)'
    BY <1>0, <2>1, <2>2 DEF Sound, Timed, Covers, Debited
  <2>4. PICK G : G = fetch'.got
    OBVIOUS
  <2>5. Sound(G, F)
    BY <1>4, <2>4, AnswerIsSound
  <2>6. Sound(G, F)'
    BY <2>1, <2>5, SoundFrame
  <2>7. Sound(fetch.got, dropped.flight)'
    BY <1>0, <2>1, <2>4, <2>6 DEF Sound, Timed, Covers, Debited
  <2> QED BY <2>1, <2>3, <2>7 DEF ReadingsCover, Sound
<1>5. CASE StoreQuota
  <2>1. UNCHANGED <<clock, row, pc, since, charged>> /\ fetch.phase = "read" /\ fetch'.phase = "none"
    BY <1>5 DEF StoreQuota
  <2>2. PICK S, E : S = snapshot' /\ E = dropped'.stored
    OBVIOUS
  <2>3. (S = fetch.got /\ E = dropped.flight) \/ (S = snapshot /\ E = dropped.stored)
    BY <1>1, <1>5, <2>2 DEF StoreQuota, TypeOK
  <2>4. Sound(S, E)
    BY <1>1, <2>1, <2>3 DEF ReadingsCover
  <2>5. Sound(S, E)'
    BY <2>1, <2>4, SoundFrame
  <2>6. Sound(snapshot, dropped.stored)'
    BY <2>2, <2>5 DEF Sound, Timed, Covers, Debited
  <2> QED BY <2>1, <2>6 DEF ReadingsCover
<1> QED BY <1>2, <1>3, <1>4, <1>5 DEF Next, Call

-----------------------------------------------------------------------------
(* Promises.                                                               *)

\* An aged row that is active was the same before.
LEMMA AgedIsSame ==
  ASSUME NEW old, NEW new, NEW now, Aged(old, new, now), new.state = "active"
  PROVE  new = old
BY DEF Aged, NoRow

\* Nobody but a call that acquires adds to what is promised.
LEMMA PromisesShrink ==
  ASSUME LedgerInv, [Next]_vars, NEW s \in Requests, ~Acquire(s), NEW q \in Resources,
         s \in Promised(q)'
  PROVE  s \in Promised(q)
<1>0. /\ RowsInv /\ TypeOK /\ TypeOK' /\ row[s] \in Row /\ row \in [Requests -> Row]
      /\ clock \in Nat /\ clock \in Times
  BY StepTypes, TimesTypes DEF LedgerInv, RowsInv, TypeOK
<1>1. \/ s \in charged'[q]
      \/ /\ pc'[s] \in {"acquired", "sent", "orphan"}
         /\ q \in row'[s].items /\ row'[s].state = "active"
  BY DEF Promised
<1>2. ASSUME Aged(row[s], row'[s], clock), pc'[s] = pc[s], s \in charged'[q] => s \in charged[q]
      PROVE  s \in Promised(q)
  <2>1. CASE s \in charged'[q]
    BY <1>2, <2>1 DEF Promised
  <2>2. CASE pc'[s] \in {"acquired", "sent", "orphan"} /\ q \in row'[s].items
             /\ row'[s].state = "active"
    <3>1. row'[s] = row[s]
      BY <1>2, <2>2, AgedIsSame
    <3> QED BY <1>2, <2>2, <3>1 DEF Promised
  <2> QED BY <1>1, <2>1, <2>2
<1>3. ASSUME NEW r \in Requests, r # s, Call(r)
      PROVE  s \in Promised(q)
  <2>1. Aged(row[s], row'[s], clock)
    BY <1>0, <1>3, CallsAge DEF OthersAge
  <2>2. pc'[s] = pc[s]
    BY <1>0, <1>3, CallFrame DEF TypeOK
  <2>3. s \in charged'[q] => s \in charged[q]
    BY <1>3, ChargedForms
  <2> QED BY <1>2, <2>1, <2>2, <2>3
<1>4. CASE NotAcquired(s) \/ MarkFails(s) \/ Commit(s) \/ Release(s)
  <2>1. pc'[s] \in {"untracked", "over"}
    BY <1>0, <1>4 DEF TypeOK, NotAcquired, MarkFails, Commit, Release, Go
  <2>2. s \in charged'[q]
    BY <1>1, <2>1
  <2>3. charged' = charged \/ charged'[q] = charged[q] \ {s}
    BY <1>4 DEF NotAcquired, MarkFails, Commit, Release
  <2> QED BY <2>2, <2>3 DEF Promised
<1>5. CASE MarkDispatched(s)
  <2>1. PICK t \in Nows(s) : /\ Change(s, t, [row[s] EXCEPT !.dispatched = TRUE])
                             /\ Go(s, IF Live(row[s], t) THEN "sent" ELSE "over")
    BY <1>5 DEF MarkDispatched
  <2>2. t \in Times /\ t <= clock /\ [row[s] EXCEPT !.dispatched = TRUE] \in Row
    BY <1>0, NowsTypes, PastTypes, EditedRow
  <2>3. row'[s] = IF Live(row[s], t) THEN [row[s] EXCEPT !.dispatched = TRUE]
                                     ELSE Reaped(row, t)[s]
    BY <1>0, <2>1, <2>2, ChangedRows
  <2>4. pc'[s] = IF Live(row[s], t) THEN "sent" ELSE "over"
    BY <1>0, <2>1 DEF TypeOK, Go
  <2>5. charged' = charged /\ pc[s] = "acquired"
    BY <1>5 DEF MarkDispatched
  <2>6. CASE Live(row[s], t)
    <3>1. row'[s].items = row[s].items /\ row'[s].state = row[s].state
      BY <1>0, <2>3, <2>6 DEF Row
    <3> QED BY <1>1, <2>5, <3>1 DEF Promised
  <2>7. CASE ~Live(row[s], t)
    BY <1>1, <2>4, <2>5, <2>7 DEF Promised
  <2> QED BY <2>6, <2>7
<1>6. CASE Count(s)
  <2>1. pc'[s] \in {"counted", "over"}
    BY <1>0, <1>6 DEF TypeOK, Count, Go
  <2>2. s \in charged'[q]
    BY <1>1, <2>1
  <2> QED BY <1>0, <1>6, <2>2, CountedOnBooks DEF Promised
<1>7. CASE Heartbeat(s)
  <2>1. PICK t \in 0..clock : Change(s, t, [row[s] EXCEPT !.expires = t + LeaseMs])
    BY <1>7 DEF Heartbeat, Beats
  <2>2. pc' = pc /\ charged' = charged
    BY <1>7 DEF Heartbeat
  <2>3. t \in Times /\ t <= clock /\ [row[s] EXCEPT !.expires = t + LeaseMs] \in Row
    BY <1>0, PastTypes, TimesTypes, EditedRow
  <2>4. row'[s] = IF Live(row[s], t) THEN [row[s] EXCEPT !.expires = t + LeaseMs]
                                     ELSE Reaped(row, t)[s]
    BY <1>0, <2>1, <2>3, ChangedRows
  <2>5. CASE Live(row[s], t)
    <3>1. row'[s].items = row[s].items /\ row'[s].state = row[s].state
      BY <1>0, <2>4, <2>5 DEF Row
    <3> QED BY <1>1, <2>2, <3>1 DEF Promised
  <2>6. CASE ~Live(row[s], t)
    <3>1. Aged(row[s], row'[s], clock)
      BY <1>0, <2>3, <2>4, <2>6, ReapedAged
    <3> QED BY <1>2, <2>2, <3>1
  <2> QED BY <2>5, <2>6
<1>8. CASE Lose(s)
  <2>1. row' = row /\ charged' = charged /\ pc[s] \in {"acquired", "sent", "counted"}
    BY <1>8 DEF Lose
  <2>2. pc'[s] = IF pc[s] = "sent" THEN "orphan" ELSE "over"
    BY <1>0, <1>8 DEF TypeOK, Lose, Go
  <2> QED BY <1>1, <2>1, <2>2 DEF Promised
<1>9. CASE Reap
  <2>1. Aged(row[s], row'[s], clock) /\ pc' = pc /\ charged' = charged
    BY <1>0, <1>9, PrunedAged DEF Reap
  <2> QED BY <1>2, <2>1
<1>10. CASE FetchQuota \/ ReadQuota \/ StoreQuota \/ Tick \/ UNCHANGED vars
  <2>1. row' = row /\ pc' = pc /\ charged'[q] \subseteq charged[q]
    BY <1>10 DEF FetchQuota, ReadQuota, StoreQuota, Tick, vars
  <2> QED BY <1>2, <2>1 DEF Aged
<1> QED BY <1>3, <1>4, <1>5, <1>6, <1>7, <1>8, <1>9, <1>10 DEF Next, Call

-----------------------------------------------------------------------------
(* The debit that a reservation is granted against.                        *)

\* The rows that activeDebit adds up.
Debitors(rows, q, t) == {r \in Requests :
  /\ q \in rows[r].items
  /\ \/ Live(rows[r], t)
     \/ rows[r].state \in {"committed", "abandoned"} /\ StillDebits(rows[r], q, t)}

\* What is active after a reaping is live at its instant.
LEMMA ReapedIsLive ==
  ASSUME NEW rows \in [Requests -> Row], NEW t \in Times, NEW r \in Requests,
         Reaped(rows, t)[r].state = "active"
  PROVE  Live(Reaped(rows, t)[r], t)
<1>1. rows[r].expires \in Nat /\ t \in Nat
  BY TimesTypes DEF Row
<1>2. CASE rows[r].state = "active" /\ rows[r].expires <= t
  BY <1>2, ReapedRow
<1>3. CASE ~(rows[r].state = "active" /\ rows[r].expires <= t)
  BY <1>1, <1>3, ReapedRow DEF Live
<1> QED BY <1>2, <1>3

\* Whatever a transaction finds after its reaping and pruning, at an instant that
\* may have passed: while the reading is fresh, the requests that count are in what
\* it left, or were dropped while it was in flight, or they are debited.
LEMMA CountIsDebited ==
  ASSUME LedgerInv, NEW q \in Resources, NEW t \in 0..clock, Fresh(q, clock)
  PROVE  \E C \in SUBSET Requests :
           /\ snapshot.remaining[q] + Cardinality(C) <= Limit
           /\ (charged[q] \ dropped.stored) \subseteq
                C \cup Debitors(Pruned(Reaped(row, t), t), q, t)
<1> DEFINE reaped == Reaped(row, t)
<1> DEFINE rows == Pruned(reaped, t)
<1>1. /\ TypeOK /\ Timed(snapshot) /\ t \in Times /\ clock < snapshot.staleAt[q]
      /\ snapshot.observedAt \in Nat /\ Covers(snapshot, dropped.stored, q)
  BY ReadingTypes, PastTypes DEF LedgerInv, RowsInv, TypeOK, ReadingsCover, Sound, Fresh
<1>2. PICK C \in SUBSET Requests :
        /\ snapshot.remaining[q] + Cardinality(C) <= Limit
        /\ \A r \in charged[q] : r \in C \/ r \in dropped.stored \/ Debited(r, q, snapshot.observedAt)
  BY <1>1 DEF Covers
<1>3. reaped \in [Requests -> Row] /\ row \in [Requests -> Row]
  BY <1>1, ReapedTypes DEF TypeOK
<1>4. ASSUME NEW r \in charged[q], Debited(r, q, snapshot.observedAt)
      PROVE  r \in Debitors(rows, q, t)
  <2>1. r \in Requests /\ OnBooks(row[r], q, snapshot.observedAt)
    BY <1>1, <1>4 DEF TypeOK, Debited
  <2>2. OnBooks(reaped[r], q, snapshot.observedAt)
    BY <1>1, <1>3, <2>1, ReapedOnBooks
  <2>3. /\ rows[r] = reaped[r]
        /\ reaped[r].state \in {"committed", "abandoned"} => StillDebits(reaped[r], q, t)
    BY <1>1, <1>3, <2>1, <2>2, FreshDebitKept
  <2>4. reaped[r].state = "active" => Live(reaped[r], t)
    BY <1>1, <1>3, <2>1, ReapedIsLive
  <2> QED BY <2>1, <2>2, <2>3, <2>4 DEF Debitors, OnBooks
<1> QED BY <1>2, <1>4

LEMMA DebitorsCount ==
  ASSUME NEW rows, NEW q, NEW t
  PROVE  /\ Debitors(rows, q, t) \in SUBSET Requests
         /\ Debit(rows, q, t) = Cardinality(Debitors(rows, q, t))
BY DEF Debitors, Debit

\* Sizes of sets of requests.
LEMMA RequestSets ==
  ASSUME NEW A \in SUBSET Requests, NEW B \in SUBSET Requests
  PROVE  /\ Cardinality(A) \in Nat
         /\ A \subseteq B => Cardinality(A) <= Cardinality(B)
         /\ Cardinality(A \cup B) <= Cardinality(A) + Cardinality(B)
         /\ \A r \in Requests : Cardinality(A \cup {r}) <= Cardinality(A) + 1
<1>1. IsFiniteSet(A) /\ IsFiniteSet(B) /\ IsFiniteSet(A \cup B)
  BY FS_Subset, FS_Union, QuotaAssumption
<1>2. Cardinality(A) \in Nat /\ Cardinality(B) \in Nat
  BY <1>1, FS_CardinalityType
<1>3. A \subseteq B => Cardinality(A) <= Cardinality(B)
  BY <1>1, FS_Subset
<1>4. Cardinality(A \cup B) <= Cardinality(A) + Cardinality(B)
  <2>1. Cardinality(A \cup B) = Cardinality(A) + Cardinality(B) - Cardinality(A \cap B)
    BY <1>1, FS_Union
  <2>2. Cardinality(A \cap B) \in Nat
    BY <1>1, FS_Intersection, FS_CardinalityType
  <2> QED BY <1>2, <2>1, <2>2
<1>5. ASSUME NEW r \in Requests PROVE Cardinality(A \cup {r}) <= Cardinality(A) + 1
  <2>1. Cardinality(A \cup {r}) = IF r \in A THEN Cardinality(A) ELSE Cardinality(A) + 1
    BY <1>1, FS_AddElement
  <2> QED BY <1>2, <2>1
<1> QED BY <1>2, <1>3, <1>4, <1>5

\* A reservation is granted only while the debit leaves a unit.  So either what is
\* promised with it stays within the limit, or it was granted on a misreading.
LEMMA GrantWithinLimit ==
  ASSUME LedgerInv, NEW r \in Requests, Acquire(r), NEW q \in Resources
  PROVE  Cardinality((Promised(q) \ misled)') <= Limit
<1>1. /\ TypeOK /\ TypeOK' /\ clock \in Nat /\ Limit \in Nat
      /\ row \in [Requests -> Row] /\ PromisesKept
  BY StepTypes, TimesTypes DEF LedgerInv, RowsInv, TypeOK, Next
<1>2. PICK t \in Nows(r) :
        \E b \in Best(Pruned(Reaped(row, t), t), r, t) :
          /\ row' = [Pruned(Reaped(row, t), t) EXCEPT ![r] = NewRow(Tracked(b, t), t)]
          /\ misled' = misled \cup {s \in {r} : \E p \in Tracked(b, t) : Misread(p)}
  BY DEF Acquire
<1> DEFINE reaped == Reaped(row, t)
<1> DEFINE rows == Pruned(reaped, t)
<1>3. PICK b \in Best(rows, r, t) :
        /\ row' = [rows EXCEPT ![r] = NewRow(Tracked(b, t), t)]
        /\ misled' = misled \cup {s \in {r} : \E p \in Tracked(b, t) : Misread(p)}
  BY <1>2
<1>4. UNCHANGED <<clock, charged>> /\ pc[r] = "idle" /\ pc' = [pc EXCEPT ![r] = "acquired"]
  BY DEF Acquire, Go
<1>5. t \in 0..clock /\ t \in Times /\ reaped \in [Requests -> Row] /\ rows \in [Requests -> Row]
  BY <1>1, NowsTypes, PastTypes, ReapedTypes, PrunedTypes
<1>6. row'[r].items = Tracked(b, t)
  <2>1. row'[r] = NewRow(Tracked(b, t), t)
    BY <1>3, <1>5
  <2>2. NewRow(Tracked(b, t), t).items = Tracked(b, t)
    BY DEF NewRow, NoRow
  <2> QED BY <2>1, <2>2
<1>7. \A s \in Requests : s # r /\ s \in Promised(q)' => s \in Promised(q)
  <2> SUFFICES ASSUME NEW s \in Requests, s # r, s \in Promised(q)' PROVE s \in Promised(q)
    OBVIOUS
  <2>1. ~Acquire(s)
    <3>1. pc'[r] # pc[r]
      BY <1>1, <1>4 DEF TypeOK
    <3> QED BY <1>1, <3>1 DEF Acquire, Go, TypeOK
  <2> QED BY <2>1, PromisesShrink DEF Next
<1>8. Promised(q) \in SUBSET Requests /\ Promised(q)' \in SUBSET Requests /\ misled \subseteq misled'
  BY <1>3 DEF Promised
<1>9. CASE r \notin Promised(q)' \/ r \in misled'
  <2>1. (Promised(q) \ misled)' \subseteq (Promised(q) \ misled)
    BY <1>7, <1>8, <1>9
  <2>2. /\ (Promised(q) \ misled)' \in SUBSET Requests
        /\ (Promised(q) \ misled) \in SUBSET Requests
    BY <1>8
  <2>3. /\ Cardinality((Promised(q) \ misled)') <= Cardinality(Promised(q) \ misled)
        /\ Cardinality(Promised(q) \ misled) <= Limit
    BY <1>1, <2>1, <2>2, RequestSets DEF PromisesKept
  <2>4. Cardinality(Promised(q) \ misled) \in Nat /\ Cardinality((Promised(q) \ misled)') \in Nat
    BY <2>2, RequestSets
  <2> QED BY <1>1, <2>3, <2>4
<1>10. CASE r \in Promised(q)' /\ r \notin misled'
  <2>1. q \in Tracked(b, t)
    <3>1. r \notin charged[q]
      BY <1>4 DEF LedgerInv, RowsInv, RowsSound
    <3> QED BY <1>4, <1>6, <1>10, <3>1 DEF Promised
  <2>2. EffectiveRemaining(rows, q, t) >= 1
    BY <2>1 DEF Best, Eligible
  <2>3. Fresh(q, clock) /\ charged[q] \ dropped.stored = charged[q]
    <3>1. ~Misread(q)
      BY <1>3, <1>10, <2>1
    <3> QED BY <3>1 DEF Misread
  <2> DEFINE D == Debitors(rows, q, t)
  <2>4. PICK C \in SUBSET Requests :
          snapshot.remaining[q] + Cardinality(C) <= Limit /\ charged[q] \subseteq C \cup D
    BY <1>5, <2>3, CountIsDebited
  <2>5. D \in SUBSET Requests /\ snapshot.remaining[q] - Cardinality(D) >= 1
    BY <2>2, DebitorsCount DEF EffectiveRemaining
  <2>6. Promised(q)' \subseteq (C \cup D) \cup {r}
    <3> SUFFICES ASSUME NEW s \in Requests, s # r, s \in Promised(q)' PROVE s \in C \cup D
      BY <1>8
    <3>1. CASE s \in charged[q]
      BY <2>4, <3>1
    <3>2. CASE s \notin charged[q]
      <4>1. q \in row'[s].items /\ row'[s].state = "active"
        BY <1>4, <3>2 DEF Promised
      <4>2. row'[s] = rows[s]
        BY <1>3, <1>5
      <4>3. rows[s] = reaped[s]
        BY <4>1, <4>2 DEF Pruned, NoRow
      <4>4. Live(rows[s], t)
        BY <1>1, <1>5, <4>1, <4>2, <4>3, ReapedIsLive
      <4> QED BY <4>1, <4>2, <4>4 DEF Debitors
    <3> QED BY <3>1, <3>2
  <2> HIDE DEF D
  <2>7. Cardinality((C \cup D) \cup {r}) <= Cardinality(C) + Cardinality(D) + 1
    <3>1. Cardinality(C \cup D) <= Cardinality(C) + Cardinality(D)
      BY <2>5, RequestSets
    <3>2. C \cup D \in SUBSET Requests
      BY <2>5
    <3>3. Cardinality((C \cup D) \cup {r}) <= Cardinality(C \cup D) + 1
      BY <3>2, RequestSets
    <3>4. (C \cup D) \cup {r} \in SUBSET Requests
      BY <3>2
    <3>5. /\ Cardinality(C) \in Nat /\ Cardinality(D) \in Nat /\ Cardinality(C \cup D) \in Nat
          /\ Cardinality((C \cup D) \cup {r}) \in Nat
      BY <2>5, <3>2, <3>4, RequestSets
    <3> QED BY <3>1, <3>3, <3>5
  <2>8. (Promised(q) \ misled)' \subseteq (C \cup D) \cup {r}
    BY <2>6
  <2>9. Cardinality((Promised(q) \ misled)') <= Cardinality((C \cup D) \cup {r})
    <3>1. (C \cup D) \cup {r} \in SUBSET Requests /\ (Promised(q) \ misled)' \in SUBSET Requests
      BY <1>8, <2>5
    <3> QED BY <2>8, <3>1, RequestSets
  <2>10. snapshot.remaining[q] \in Nat
    BY <1>1, ReadingTypes DEF TypeOK
  <2>11. /\ Cardinality(C) \in Nat /\ Cardinality(D) \in Nat
         /\ Cardinality((C \cup D) \cup {r}) \in Nat /\ Cardinality((Promised(q) \ misled)') \in Nat
    <3>1. (C \cup D) \cup {r} \in SUBSET Requests /\ (Promised(q) \ misled)' \in SUBSET Requests
      BY <1>8, <2>5
    <3> QED BY <2>5, <3>1, RequestSets
  <2> QED BY <1>1, <2>4, <2>5, <2>7, <2>9, <2>10, <2>11
<1> QED BY <1>9, <1>10

LEMMA StepPromises ==
  ASSUME LedgerInv, [Next]_vars
  PROVE  PromisesKept'
<1> SUFFICES ASSUME NEW q \in Resources PROVE Cardinality((Promised(q) \ misled)') <= Limit
  BY DEF PromisesKept
<1>1. CASE \E r \in Requests : Acquire(r)
  BY <1>1, GrantWithinLimit
<1>2. CASE \A r \in Requests : ~Acquire(r)
  <2>1. Promised(q) \in SUBSET Requests /\ Promised(q)' \in SUBSET Requests
    BY DEF Promised
  <2>2. Promised(q)' \subseteq Promised(q)
    BY <1>2, <2>1, PromisesShrink
  <2>3. misled' = misled
    <3>1. CASE \E r \in Requests : Call(r)
      BY <1>2, <3>1 DEF Call, NotAcquired, MarkDispatched, MarkFails, Count, Heartbeat, Commit,
                        Release, Lose, NoGrant
    <3>2. CASE Reap \/ FetchQuota \/ ReadQuota \/ StoreQuota \/ Tick \/ UNCHANGED vars
      BY <3>2 DEF Reap, FetchQuota, ReadQuota, StoreQuota, Tick, NoGrant, vars
    <3> QED BY <3>1, <3>2 DEF Next, Call
  <2>4. (Promised(q) \ misled)' \subseteq Promised(q) \ misled
    BY <2>2, <2>3
  <2>5. /\ (Promised(q) \ misled)' \in SUBSET Requests
        /\ (Promised(q) \ misled) \in SUBSET Requests
    BY <2>1
  <2>6. /\ Cardinality((Promised(q) \ misled)') <= Cardinality(Promised(q) \ misled)
        /\ Cardinality(Promised(q) \ misled) <= Limit
    BY <2>4, <2>5, RequestSets DEF LedgerInv, PromisesKept
  <2>7. /\ Cardinality(Promised(q) \ misled) \in Nat /\ Limit \in Nat
        /\ Cardinality((Promised(q) \ misled)') \in Nat
    BY <2>5, RequestSets, TimesTypes
  <2> QED BY <2>6, <2>7
<1> QED BY <1>1, <1>2

LEMMA InitLedger == Init => LedgerInv
<1> SUFFICES ASSUME Init PROVE LedgerInv
  OBVIOUS
<1>1. RowsInv
  BY InitRows
<1>2. ReadingsCover
  <2>1. Timed(snapshot)
    <3> SUFFICES ASSUME NEW q \in Resources
                 PROVE  snapshot.staleAt[q] <= snapshot.observedAt + FreshnessMs
                        /\ snapshot.staleAt[q] <= snapshot.resetAt[q]
      BY DEF Timed
    <3>1. snapshot.staleAt[q] = 0 /\ snapshot.observedAt = 0 /\ snapshot.resetAt[q] = Never
      BY DEF Init, NoObservation
    <3> QED BY <3>1, TimesTypes
  <2>2. \A q \in Resources : ~(clock < snapshot.staleAt[q])
    BY DEF Init, NoObservation
  <2>3. snapshot.observedAt <= clock
    BY DEF Init, NoObservation
  <2> QED BY <2>1, <2>2, <2>3 DEF ReadingsCover, Sound, Init
<1>3. PromisesKept
  <2> SUFFICES ASSUME NEW q \in Resources PROVE Cardinality(Promised(q) \ misled) <= Limit
    BY DEF PromisesKept
  <2>1. Promised(q) \ misled = {}
    BY DEF Init, Promised
  <2> QED BY <2>1, FS_EmptySet, TimesTypes
<1> QED BY <1>1, <1>2, <1>3 DEF LedgerInv

\* The ledger's invariant, for any schedule and any age of the instants that calls
\* use: readings cover what the provider counts, but for the debits pruned while
\* they were in flight, and what is promised is within the limit, but for what was
\* granted on a misreading.
THEOREM QuotaLedger == Spec => []LedgerInv
<1>1. LedgerInv /\ [Next]_vars => LedgerInv'
  <2> SUFFICES ASSUME LedgerInv, [Next]_vars PROVE LedgerInv'
    OBVIOUS
  <2>1. RowsInv'
    BY StepRows DEF LedgerInv
  <2> QED BY <2>1, StepReadings, StepPromises DEF LedgerInv
<1> QED BY <1>1, InitLedger, PTL DEF Spec

\* No race of leases, heartbeats, crashes, reaping, pruning, window resets, late
\* readings and old instants makes the provider count more recorded requests than it
\* allows, the reservations granted on a misreading apart.
THEOREM QuotaWithinQuota == Spec => []WithinQuota
<1>1. LedgerInv => WithinQuota
  <2> SUFFICES ASSUME LedgerInv, NEW q \in Resources
               PROVE  Cardinality(charged[q] \ misled) <= Limit
    BY DEF WithinQuota
  <2>1. /\ (charged[q] \ misled) \subseteq (Promised(q) \ misled)
        /\ (Promised(q) \ misled) \in SUBSET Requests
        /\ (charged[q] \ misled) \in SUBSET Requests
    BY DEF LedgerInv, RowsInv, TypeOK, Promised
  <2>2. /\ Cardinality(charged[q] \ misled) <= Cardinality(Promised(q) \ misled)
        /\ Cardinality(Promised(q) \ misled) <= Limit
    BY <2>1, RequestSets DEF LedgerInv, PromisesKept
  <2>3. /\ Cardinality(charged[q] \ misled) \in Nat /\ Limit \in Nat
        /\ Cardinality(Promised(q) \ misled) \in Nat
    BY <2>1, RequestSets, TimesTypes
  <2> QED BY <2>2, <2>3
<1> QED BY <1>1, QuotaLedger, PTL

\* What the ledger would offer exceeds what the provider still has by no more than
\* the debits pruned while the stored reading was in flight.
THEOREM QuotaNeverOverstates == Spec => []NeverOverstates
<1>1. LedgerInv => NeverOverstates
  <2> DEFINE rows == Pruned(Reaped(row, clock), clock)
  <2> SUFFICES ASSUME LedgerInv, NEW q \in Resources, Fresh(q, clock)
               PROVE  EffectiveRemaining(rows, q, clock)
                        + Cardinality(charged[q] \ dropped.stored) <= Limit
    BY DEF NeverOverstates, Offered
  <2> DEFINE D == Debitors(rows, q, clock)
  <2> DEFINE K == charged[q] \ dropped.stored
  <2>0. clock \in 0..clock
    <3>1. clock \in Nat BY TimesTypes DEF LedgerInv, RowsInv, TypeOK
    <3> QED BY <3>1
  <2>1. PICK C \in SUBSET Requests :
          snapshot.remaining[q] + Cardinality(C) <= Limit /\ K \subseteq C \cup D
    BY <2>0, CountIsDebited
  <2>2. D \in SUBSET Requests /\ K \in SUBSET Requests /\ snapshot.remaining[q] \in Nat
    BY DebitorsCount, ReadingTypes DEF LedgerInv, RowsInv, TypeOK
  <2>3. EffectiveRemaining(rows, q, clock) = snapshot.remaining[q] - Cardinality(D)
    BY DebitorsCount DEF EffectiveRemaining
  <2> HIDE DEF rows, D, K
  <2>4. C \cup D \in SUBSET Requests
    BY <2>2
  <2>5. Cardinality(K) <= Cardinality(C \cup D) /\ Cardinality(C \cup D) <= Cardinality(C) + Cardinality(D)
    BY <2>1, <2>2, <2>4, RequestSets
  <2>6. /\ Cardinality(K) \in Nat /\ Cardinality(C) \in Nat
        /\ Cardinality(D) \in Nat /\ Cardinality(C \cup D) \in Nat
    BY <2>2, <2>4, RequestSets
  <2>7. EffectiveRemaining(rows, q, clock) + Cardinality(K) <= Limit
    BY <2>1, <2>2, <2>3, <2>5, <2>6, TimesTypes
  <2> QED BY <2>7 DEF K
<1> QED BY <1>1, QuotaLedger, PTL
=============================================================================
