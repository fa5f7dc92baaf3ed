-------------------------- MODULE AccountRecovery --------------------------
(***************************************************************************)
(* One provider account on its way through failure and recovery.  The      *)
(* persisted fallback locks of the connection row                          *)
(* (src/lib/db/repos/connectionsRepo.js) keep it out of selection; once a  *)
(* lock has expired the process-local circuits let one request probe each  *)
(* scope (src/lib/routing/connectionRecovery.js).  A request works on the  *)
(* row it was selected with; failures and successes are written later, in  *)
(* any order, fenced by the time their attempt started.                    *)
(***************************************************************************)
EXTENDS CircuitOps, FiniteSets

CONSTANTS
  Requests,
  ModelOf,      \* ModelOf[r]: the model that request r is for
  Cooldowns,    \* the cooldowns that a failure may ask for
  Before,       \* the deadlines that the row may hold when the process starts
  MaxTime       \* bound on the clock

ASSUME RecoveryAssumption ==
  /\ ALL \notin Models /\ NoOne \notin Requests \cup Scopes
  /\ ModelOf \in [Requests -> Models]
  /\ Cooldowns \cup {LeaseMs, MaxTime} \subseteq Nat \ {0}
  /\ Before \subseteq Nat

VARIABLES
  clock,
  lock,         \* modelLock_<scope> of the row: a deadline
  version,      \* modelStateObserved_<scope>: start of the last attempt accepted
  circuit,      \* the circuits of the process
  pc,           \* where each request is
  seen,         \* seen[r]: the locks of the row that r was selected with
  started,      \* started[r]: when r's attempt started
  probe,        \* probe[r]: the scope, deadline and end of the lease r claimed
  newest,       \* history: the latest deadline each circuit was ever told
  outdated      \* history: circuits told an older deadline after a newer one

history == <<newest, outdated>>
vars == <<clock, lock, version, circuit, pc, seen, started, probe, history>>

Circuit == [state : {"CLOSED", "OPEN", "HALF_OPEN"}, cooldown : Nat,
            lease : Requests \cup {NoOne}, expires : Nat]

NoProbe == [scope |-> NoOne, basis |-> 0, until |-> 0]

TypeOK ==
  /\ clock \in 1..MaxTime
  /\ lock \in [Scopes -> Nat]
  /\ version \in [Scopes -> 0..MaxTime]
  /\ circuit \in [Scopes -> Circuit]
  /\ pc \in [Requests -> {"idle", "selected", "running", "succeeded", "ending", "failed"}]
  /\ seen \in [Requests -> [Scopes -> Nat]]
  /\ started \in [Requests -> 0..MaxTime]
  /\ probe \in [Requests -> [scope : Scopes \cup {NoOne}, basis : Nat, until : Nat]]
  /\ newest \in [Scopes -> Nat] /\ outdated \subseteq Scopes

NoLocks == [s \in Scopes |-> None]

\* The process starts with new circuits, on a row that may hold locks from
\* attempts before.
Init ==
  /\ clock = 1
  /\ lock \in [Scopes -> Before]
  /\ version = [s \in Scopes |-> 0]
  /\ circuit = [s \in Scopes |-> Closed]
  /\ pc = [r \in Requests |-> "idle"]
  /\ seen = [r \in Requests |-> NoLocks]
  /\ started = [r \in Requests |-> 0]
  /\ probe = [r \in Requests |-> NoProbe]
  /\ newest = NoLocks /\ outdated = {}

-----------------------------------------------------------------------------
Later(a, b) == IF a >= b THEN a ELSE b

\* What the circuits have been told: a deadline stays in its circuit until
\* another is told or a success closes it.
Remember ==
  /\ newest' = [s \in Scopes |-> Later(newest[s], circuit'[s].cooldown)]
  /\ outdated' = outdated \cup {s \in Scopes :
       circuit'[s].cooldown # None /\ circuit'[s].cooldown < newest[s]}

Move(r, p) == pc' = [pc EXCEPT ![r] = p]

\* What a request leaves with, its row and its attempt are its own.
Leave(r, p) ==
  /\ Move(r, p)
  /\ seen' = [seen EXCEPT ![r] = NoLocks]
  /\ started' = [started EXCEPT ![r] = 0]

\* The locks that concern request r.
Concerning(r, locks) == [s \in Scopes |-> IF s \in {ALL, ModelOf[r]} THEN locks[s] ELSE None]

\* recoveryScopes keeps a scope that the row locks or whose circuit has not
\* closed; the others are never evaluated.
Considered(cs, locks, s) == locks[s] # None \/ At(cs[s], clock).state # "CLOSED"

Consult(cs, locks, s) ==
  IF Considered(circuit, locks, s) THEN Evaluated(cs, s, locks[s], clock) ELSE cs

Passes(cs, locks, s) == Considered(circuit, locks, s) => CanExecute(cs, s, clock)

\* getProviderCredentials: a row without an active lock on the account or the
\* model, whose circuits admit a request, is selected as it is read here.  A
\* busy circuit turns the request away, and the account is consulted first.
Select(r) ==
  /\ pc[r] = "idle"
  /\ \A s \in {ALL, ModelOf[r]} : lock[s] <= clock
  /\ LET account == Consult(circuit, lock, ALL)
         both    == Consult(account, lock, ModelOf[r])
     IN IF Passes(account, lock, ALL)
        THEN /\ circuit' = both
             /\ IF Passes(both, lock, ModelOf[r])
                THEN Move(r, "selected") /\ seen' = [seen EXCEPT ![r] = Concerning(r, lock)]
                ELSE UNCHANGED <<pc, seen>>
        ELSE /\ circuit' = account
             /\ UNCHANGED <<pc, seen>>
  /\ Remember
  /\ UNCHANGED <<clock, lock, version, started, probe>>

\* A provider attempt takes a timestamp of its own.
Start(r) ==
  /\ clock < MaxTime
  /\ clock' = clock + 1
  /\ started' = [started EXCEPT ![r] = clock']
  /\ seen' = [seen EXCEPT ![r] = NoLocks]
  /\ Move(r, "running")

\* runWithConnectionRecovery claims the account's lease, or else the model's,
\* for each considered scope that has not closed, and sends the request.
Claim(r, cs, s) ==
  /\ CanProbe(cs, s, clock)
  /\ circuit' = Leased(cs, s, r, clock)
  /\ probe' = [probe EXCEPT ![r] =
                 [scope |-> s, basis |-> cs[s].cooldown, until |-> clock + LeaseMs]]
  /\ Start(r)

TurnAway(r, cs) ==
  /\ circuit' = cs
  /\ Leave(r, "idle")
  /\ UNCHANGED <<clock, probe>>

Needs(cs, locks, s) ==
  Considered(circuit, locks, s) /\ StateOf(cs, s, clock) # "CLOSED"

Dispatch(r) ==
  /\ pc[r] = "selected"
  /\ LET m       == ModelOf[r]
         account == Consult(circuit, seen[r], ALL)
         both    == Consult(account, seen[r], m)
     IN IF Needs(account, seen[r], ALL)
        THEN Claim(r, account, ALL)
             \/ (~CanProbe(account, ALL, clock) /\ TurnAway(r, account))
        ELSE IF Needs(both, seen[r], m)
        THEN Claim(r, both, m)
             \/ (~CanProbe(both, m, clock) /\ TurnAway(r, both))
        ELSE circuit' = both /\ UNCHANGED probe /\ Start(r)
  /\ Remember
  /\ UNCHANGED <<lock, version>>

\* Mutant: only a success returns the lease.
FinishOnSuccess(r, success) ==
  /\ circuit' = IF probe[r].scope = NoOne \/ ~success THEN circuit
                ELSE Settled(circuit, probe[r].scope, r, success, clock)
  /\ probe' = [probe EXCEPT ![r] = NoProbe]

\* finish: settle the claimed scope, once.
Finish(r, success) ==
  /\ circuit' = IF probe[r].scope = NoOne THEN circuit
                ELSE Settled(circuit, probe[r].scope, r, success, clock)
  /\ probe' = [probe EXCEPT ![r] = NoProbe]

\* The request is aborted, rejected locally, or its stream is over or cancelled.
Abandon(r) ==
  /\ pc[r] \in {"running", "succeeded", "ending"}
  /\ Finish(r, FALSE)
  /\ Leave(r, "idle")
  /\ UNCHANGED <<clock, lock, version, history>>

\* The provider fails the request: the lease goes back first, the failure is
\* recorded by the caller afterwards.
Fail(r) ==
  /\ pc[r] = "running"
  /\ Finish(r, FALSE)
  /\ Move(r, "failed")
  /\ UNCHANGED <<clock, lock, version, seen, started, history>>

\* Mutant: the version is the deadline instead of the attempt's start.
RecordDeadlineAsVersion(r) ==
  \E s \in {ALL, ModelOf[r]}, d \in Cooldowns :
    IF started[r] > version[s]
    THEN /\ lock' = [lock EXCEPT ![s] = Later(@, started[r] + d)]
         /\ version' = [version EXCEPT ![s] = started[r] + d]
    ELSE UNCHANGED <<lock, version>>

\* recordProviderConnectionFallbackState, for the model or the whole account: an
\* attempt that started before the last one accepted is ignored, and a lock is
\* only ever extended.
RecordFailure(r) ==
  \E s \in {ALL, ModelOf[r]}, d \in Cooldowns :
    IF started[r] > version[s]
    THEN /\ lock' = [lock EXCEPT ![s] = Later(@, started[r] + d)]
         /\ version' = [version EXCEPT ![s] = started[r]]
    ELSE UNCHANGED <<lock, version>>

Record(r) ==
  /\ pc[r] = "failed"
  /\ RecordFailure(r)
  /\ Leave(r, "idle")
  /\ UNCHANGED <<clock, circuit, probe, history>>

\* A stream that turns out empty is recorded first and returns its lease after.
RecordEmpty(r) ==
  /\ pc[r] = "running"
  /\ RecordFailure(r)
  /\ Leave(r, "ending")
  /\ UNCHANGED <<clock, circuit, probe, history>>

\* Mutant: a success clears both scopes however late it is.
AcceptedUnfenced(r) == {ALL, ModelOf[r]}

\* clearProviderConnectionFallbackState after a complete response: the model's
\* lock and the account's, each fenced by its own version, and every other lock
\* that had expired when the attempt started.
Accepted(r) == {s \in {ALL, ModelOf[r]} : started[r] > version[s]}

Clear(r) ==
  /\ pc[r] = "running"
  /\ IF ModelOf[r] \in Accepted(r)
     THEN /\ lock' = [s \in Scopes |->
                        IF s \in Accepted(r) \/ lock[s] <= started[r] THEN None ELSE lock[s]]
          /\ version' = [s \in Scopes |->
                           IF s \in Accepted(r) THEN started[r] ELSE version[s]]
     ELSE UNCHANGED <<lock, version>>
  /\ Leave(r, "succeeded")
  /\ UNCHANGED <<clock, circuit, probe, history>>

\* Only then does the success confirm the recovery.
Confirm(r) ==
  /\ pc[r] = "succeeded"
  /\ Finish(r, TRUE)
  /\ Leave(r, "idle")
  /\ UNCHANGED <<clock, lock, version, history>>

\* resetHealthStateOnActivation: a successful connection check clears the locks
\* of the row; nothing tells the circuits.
Reactivate ==
  /\ lock # NoLocks
  /\ lock' = NoLocks
  /\ UNCHANGED <<clock, version, circuit, pc, seen, started, probe, history>>

Tick ==
  /\ clock < MaxTime
  /\ clock' = clock + 1
  /\ UNCHANGED <<lock, version, circuit, pc, seen, started, probe, history>>

Next ==
  \/ \E r \in Requests :
       \/ Select(r) \/ Dispatch(r) \/ Abandon(r) \/ Fail(r) \/ Record(r) \/ RecordEmpty(r)
       \/ Clear(r) \/ Confirm(r)
  \/ Reactivate \/ Tick

Spec == Init /\ [][Next]_vars

-----------------------------------------------------------------------------
\* Only a lease in force counts.
InForce(s) == HasLease(circuit[s]) /\ circuit[s].expires > clock

\* A lease of the account and a lease of one of its models are never in force
\* together, whichever was claimed first and however old the rows were.
AccountLeasesAlone ==
  InForce(ALL) => \A m \in Models : ~InForce(m)

\* Request r probes scope s, within the time of the lease that it claimed.
Probes(r, s) == probe[r].scope = s /\ probe[r].until > clock

\* A cooldown newer than the one that r's probe is to end was told to the circuit.
Overtaken(r) == probe[r].basis < newest[probe[r].scope]

\* A probe of the account and a probe of one of its models: their leases exclude
\* each other, and the requests themselves run side by side only because the
\* scope of one has failed anew since it was claimed, or was told an older
\* deadline after a newer one.
AccountProbesAlone ==
  /\ AccountLeasesAlone
  /\ \A r, q \in Requests, m \in Models :
       Probes(r, ALL) /\ Probes(q, m) /\ {ALL, m} \cap outdated = {}
         => Overtaken(r) \/ Overtaken(q)

\* A lease is held by a request that is still running and will return it: none
\* is left behind on any way out, so recovery never waits for its timeout.
NoOrphanLease == \A s \in Scopes : HasLease(circuit[s]) =>
  LET r == circuit[s].lease IN
    pc[r] \in {"running", "succeeded", "ending"} /\ probe[r].scope = s

\* Requests r and q both probe one scope, the lease of r, the earlier one, runs.
ProbeTogether(r, q) ==
  /\ r # q /\ probe[r].scope = probe[q].scope /\ probe[r].scope # NoOne
  /\ probe[r].until > clock /\ probe[r].until < probe[q].until

\* One recovery claim per scope: while a probe's lease runs, another request
\* probes the same scope only because a newer cooldown has voided that lease.
OneProbePerScope == \A r, q \in Requests :
  ProbeTogether(r, q) => probe[r].basis < probe[q].basis

\* The same for every circuit that was never told an older deadline after a
\* newer one: rows out of date are the only reason for probes side by side.
FreshRowsProbeAlone == \A r, q \in Requests :
  ProbeTogether(r, q) /\ probe[r].scope \notin outdated => probe[r].basis < probe[q].basis

\* An active cooldown is only ended early by an operator, or by the success of
\* an attempt that started after the failure which set it: a late answer to an
\* older request neither lifts nor shortens it.
OutlivesOldAnswers == \A s \in Scopes :
  lock[s] > clock /\ lock'[s] < lock[s] =>
    \/ lock' = NoLocks /\ pc' = pc
    \/ \E r \in Requests : pc[r] = "running" /\ pc'[r] = "succeeded" /\ started[r] > version[s]
CooldownKept == [][OutlivesOldAnswers]_vars

=============================================================================
