----------------------------- MODULE CircuitOps -----------------------------
(***************************************************************************)
(* The circuit of one scope of a connection, as ConnectionCircuitManager   *)
(* of src/lib/routing/connectionCircuitState.js keeps it: a state, the     *)
(* cooldown deadline it was last told, and the recovery lease of a probe.  *)
(* A lease token belongs to one dispatch, so the lease names its request.  *)
(***************************************************************************)
EXTENDS Naturals

CONSTANTS
  ALL,          \* SCOPE_ALL: the whole account
  Models,       \* the model scopes
  NoOne,        \* no lease
  LeaseMs       \* leaseTimeoutMs

Scopes == Models \cup {ALL}

\* No deadline: null in a circuit, undefined in a call.
None == 0

Closed == [state |-> "CLOSED", cooldown |-> None, lease |-> NoOne, expires |-> 0]

HasLease(c) == c.lease # NoOne

Unleased(c) == [c EXCEPT !.lease = NoOne, !.expires = 0]

\* _evaluateCircuit
At(c, now) ==
  IF c.cooldown = None \/ c.cooldown <= now
  THEN LET c1 == IF c.state # "CLOSED" /\ c.expires <= now THEN Unleased(c) ELSE c IN
       [c1 EXCEPT !.state = IF @ = "OPEN" THEN "HALF_OPEN" ELSE @]
  ELSE [Unleased(c) EXCEPT !.state = "OPEN"]

\* A deadline other than the one the circuit knows opens it and voids its lease.
Told(c, deadline) ==
  IF deadline = None \/ deadline = c.cooldown THEN c
  ELSE [Closed EXCEPT !.state = "OPEN", !.cooldown = deadline]

\* evaluateState: an account that is open, or under a probe, governs its models.
GovernedByAccount(cs, s, now) ==
  /\ s # ALL
  /\ LET account == At(cs[ALL], now) IN
       account.state = "OPEN" \/ (account.state = "HALF_OPEN" /\ HasLease(account))

Evaluated(cs, s, deadline, now) ==
  IF GovernedByAccount(cs, s, now) THEN cs
  ELSE [cs EXCEPT ![s] = At(Told(@, deadline), now)]

StateOf(cs, s, now) == IF GovernedByAccount(cs, s, now) THEN "OPEN" ELSE At(cs[s], now).state

\* canExecute and acquireRecoveryLease, on circuits that were evaluated.
CanExecute(cs, s, now) ==
  \/ StateOf(cs, s, now) = "CLOSED"
  \/ StateOf(cs, s, now) = "HALF_OPEN" /\ ~HasLease(At(cs[s], now))

\* Mutants: a probe of the account does not look at its models; a probe under
\* way is not noticed.
CanProbeAmongModels(cs, s, now) ==
  StateOf(cs, s, now) = "HALF_OPEN" /\ ~HasLease(At(cs[s], now))
CanProbeAgain(cs, s, now) == StateOf(cs, s, now) = "HALF_OPEN"

CanProbe(cs, s, now) ==
  /\ StateOf(cs, s, now) = "HALF_OPEN"
  /\ ~HasLease(At(cs[s], now))
  /\ s = ALL => \A m \in Models : cs[m].lease = NoOne \/ cs[m].expires <= now

Leased(cs, s, who, now) ==
  [cs EXCEPT ![s].lease = who, ![s].expires = now + LeaseMs]

\* settleRecovery: only the holder of a lease that has not expired can settle,
\* success closes the circuit, anything else just returns the lease.
Settled(cs, s, who, success, now) ==
  IF cs[s].lease # who THEN cs
  ELSE [cs EXCEPT ![s] = IF success /\ cs[s].expires > now THEN Closed
                         ELSE Unleased(@)]

=============================================================================
