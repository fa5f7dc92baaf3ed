--------------------------- MODULE SelectionTurn ---------------------------
(***************************************************************************)
(* The selection of an account for one provider                            *)
(* (src/sse/services/auth.js).  Each call of getProviderCredentials makes  *)
(* a promise of its own, waits for the one made before, and resolves its   *)
(* own at the end: only one call selects at a time.  A selection counts    *)
(* the requests of each account's last minute (rpmLimiter.js) with the     *)
(* time it took before it began to wait.                                   *)
(***************************************************************************)
EXTENDS Naturals, Sequences, FiniteSets

CONSTANTS
  Calls,        \* calls of getProviderCredentials for the provider
  Accounts,     \* its connections
  Limit,        \* Limit[a]: requests per window, 0 when there is no limit
  StatedCaps,   \* the caps that a provider may state in a 429
  Window,       \* RPM_WINDOW_MS
  Nobody,       \* no account
  MaxTime       \* bound on the clock

ASSUME SelectionAssumption ==
  /\ Limit \in [Accounts -> Nat] /\ Nobody \notin Accounts
  /\ Window \in Nat \ {0} /\ MaxTime \in Nat /\ StatedCaps \subseteq Nat \ {0}

VARIABLES
  clock,
  pc,           \* where each call is
  stamp,        \* stamp[c]: selectionNow of call c
  made,         \* the promises made so far, numbered as they are made
  own, before,  \* own[c], before[c]: c's own promise and the one it waits for
  resolved,     \* the promises that have resolved
  tail,         \* the promise in selectionMutexes, or 0
  cap,          \* cap[a]: what boundedLimit makes of the limit and a learned cap
  hits,         \* hits[a]: the times on record for account a
  pick,         \* pick[c]: the account that c has settled on
  granted,      \* history: granted[a]: the calls that were given a, with their times
  overtaken     \* history: the calls whose account had its cap lowered between their
                \* check of it and their record

chain == <<made, own, before, resolved, tail>>
counts == <<cap, hits, granted, overtaken>>
vars == <<clock, pc, stamp, chain, counts, pick>>

TypeOK ==
  /\ clock \in 0..MaxTime
  /\ pc \in [Calls -> {"idle", "called", "waiting", "passing", "choosing", "chosen", "over"}]
  /\ stamp \in [Calls -> 0..MaxTime]
  /\ made \in Nat /\ tail \in Nat
  /\ own \in [Calls -> Nat] /\ before \in [Calls -> Nat]
  /\ resolved \subseteq Nat
  /\ cap \in [Accounts -> Nat]
  /\ hits \in [Accounts -> Seq(0..MaxTime)]
  /\ pick \in [Calls -> Accounts \cup {Nobody}]
  /\ granted \in [Accounts -> SUBSET (Calls \X (0..MaxTime))]
  /\ overtaken \subseteq Calls

Init ==
  /\ clock = 0
  /\ pc = [c \in Calls |-> "idle"]
  /\ stamp = [c \in Calls |-> 0]
  /\ made = 0 /\ tail = 0 /\ resolved = {}
  /\ own = [c \in Calls |-> 0] /\ before = [c \in Calls |-> 0]
  /\ cap = Limit
  /\ hits = [a \in Accounts |-> <<>>]
  /\ pick = [c \in Calls |-> Nobody]
  /\ granted = [a \in Accounts |-> {}]
  /\ overtaken = {}

-----------------------------------------------------------------------------
Move(c, p) == pc' = [pc EXCEPT ![c] = p]

\* Mutant: an account with one time that has expired is forgotten altogether.
PrunedAsOne(times, now) ==
  IF \E i \in 1..Len(times) : times[i] + Window <= now THEN <<>> ELSE times

\* pruneConnection: times that have left the window go, up to the first that has
\* not; one that is out of order behind it stays.
Pruned(times, now) ==
  LET live == {i \in 1..Len(times) : times[i] + Window > now} IN
    IF live = {} THEN <<>>
    ELSE SubSeq(times, CHOOSE i \in live : \A j \in live : i <= j, Len(times))

AllPruned(now) == [a \in Accounts |-> Pruned(hits[a], now)]

\* isOverLimit looks at the times of an account with a limit only, pruned.
Filtered(now) == [a \in Accounts |-> IF cap[a] = 0 THEN hits[a] ELSE Pruned(hits[a], now)]
OverLimit(a, times) == cap[a] > 0 /\ Len(times) >= cap[a]

\* recordRequest: nothing is kept without a limit, nor beyond it.
Recorded(a, now) ==
  LET times == Pruned(hits[a], now) IN
    IF cap[a] = 0 THEN hits[a]
    ELSE IF OverLimit(a, times) THEN times
    ELSE Append(times, now)

\* The call ends, its locals go with it.
End(c) ==
  /\ Move(c, "over")
  /\ stamp' = [stamp EXCEPT ![c] = 0]
  /\ pick' = [pick EXCEPT ![c] = Nobody]

\* A promise that has resolved leaves the map if nobody queued behind it.
Resolve(c) ==
  /\ resolved' = resolved \cup {own[c]}
  /\ tail' = IF tail = own[c] THEN 0 ELSE tail
  /\ UNCHANGED <<made, own, before>>

\* currentMutex has resolved.
HasTurn(c) == before[c] = 0 \/ before[c] \in resolved

-----------------------------------------------------------------------------
\* The call takes its time and reads the settings.
Call(c) ==
  /\ pc[c] = "idle"
  /\ stamp' = [stamp EXCEPT ![c] = clock]
  /\ Move(c, "called")
  /\ UNCHANGED <<clock, chain, counts, pick>>

\* A disabled provider or model ends it there.
Refuse(c) ==
  /\ pc[c] = "called"
  /\ End(c)
  /\ UNCHANGED <<clock, chain, counts>>

\* Otherwise it queues behind the last promise.
QueueUp(c) ==
  /\ pc[c] = "called"
  /\ made' = made + 1
  /\ own' = [own EXCEPT ![c] = made']
  /\ before' = [before EXCEPT ![c] = tail]
  /\ tail' = made'
  /\ Move(c, "waiting")
  /\ UNCHANGED <<clock, stamp, resolved, counts, pick>>

\* Mutants: an aborted waiter lets the next one in at once, or never.
AbortAndResolve(c) ==
  /\ pc[c] = "waiting"
  /\ End(c)
  /\ Resolve(c)
  /\ UNCHANGED <<clock, counts>>
AbortForGood(c) ==
  /\ pc[c] = "waiting"
  /\ End(c)
  /\ UNCHANGED <<clock, chain, counts>>

\* The client goes while the call waits: the caller gets its AbortError now, the
\* promise of the call resolves after the one before it.
Abort(c) ==
  /\ pc[c] = "waiting"
  /\ Move(c, "passing")
  /\ UNCHANGED <<clock, stamp, chain, counts, pick>>

PassOn(c) ==
  /\ pc[c] = "passing" /\ HasTurn(c)
  /\ End(c)
  /\ Resolve(c)
  /\ UNCHANGED <<clock, counts>>

Enter(c) ==
  /\ pc[c] = "waiting" /\ HasTurn(c)
  /\ Move(c, "choosing")
  /\ UNCHANGED <<clock, stamp, chain, counts, pick>>

\* The filters prune the accounts at the time of the call.  Of the accounts under
\* their limit the locks, quotas and the strategy choose one; those are open here.
Choose(c) ==
  /\ pc[c] = "choosing"
  /\ hits' = Filtered(stamp[c])
  /\ \/ \E a \in Accounts :
          /\ ~OverLimit(a, hits'[a])
          /\ pick' = [pick EXCEPT ![c] = a]
          /\ Move(c, "chosen")
          /\ UNCHANGED <<stamp, chain>>
     \/ End(c) /\ Resolve(c)
  /\ UNCHANGED <<clock, cap, granted, overtaken>>

\* The rows, the strategy and the proxy have been read and written meanwhile.
Grant(c) ==
  /\ pc[c] = "chosen"
  /\ LET a == pick[c] IN
       /\ hits' = [hits EXCEPT ![a] = Recorded(a, stamp[c])]
       /\ granted' = [granted EXCEPT ![a] = @ \cup {<<c, stamp[c]>>}]
  /\ End(c)
  /\ Resolve(c)
  /\ UNCHANGED <<clock, cap, overtaken>>

\* An abort, an error or an early answer: the finally block resolves all the same.
Leave(c) ==
  /\ pc[c] \in {"choosing", "chosen"}
  /\ End(c)
  /\ Resolve(c)
  /\ UNCHANGED <<clock, counts>>

SetCap(a, n) ==
  /\ cap' = [cap EXCEPT ![a] = n]
  /\ overtaken' = overtaken \cup {c \in Calls : pick[c] = a /\ n < cap[a]}
  /\ UNCHANGED <<clock, pc, stamp, chain, hits, granted, pick>>

\* A 429 of a granted request states a cap (learnedRequestCap.js), which replaces the
\* one learned before and counts if it is below the limit.
Learn(a) ==
  /\ granted[a] # {}
  /\ \E n \in StatedCaps : SetCap(a, IF Limit[a] = 0 \/ n < Limit[a] THEN n ELSE Limit[a])

\* A learned cap is kept for an hour, here for any time, or until the operator
\* clears it.
Forget(a) == cap[a] # Limit[a] /\ SetCap(a, Limit[a])

\* The interval timer prunes at the current time.
Cleanup ==
  /\ hits # AllPruned(clock)
  /\ hits' = AllPruned(clock)
  /\ UNCHANGED <<clock, pc, stamp, chain, cap, granted, overtaken, pick>>

Tick ==
  /\ clock < MaxTime
  /\ clock' = clock + 1
  /\ UNCHANGED <<pc, stamp, chain, counts, pick>>

Next ==
  \/ \E c \in Calls :
       \/ Call(c) \/ Refuse(c) \/ QueueUp(c) \/ Abort(c) \/ PassOn(c)
       \/ Enter(c) \/ Choose(c) \/ Grant(c) \/ Leave(c)
  \/ \E a \in Accounts : Learn(a) \/ Forget(a)
  \/ Cleanup \/ Tick

Spec == Init /\ [][Next]_vars

-----------------------------------------------------------------------------
Selecting == {c \in Calls : pc[c] \in {"choosing", "chosen"}}

\* One selection at a time, whoever aborted in the queue: no check of a limit
\* comes between another call's check and its record.
OneSelection == \A c, d \in Selecting : c = d

\* Of the calls that took their time in the window that ends now, an account with a
\* limit was given to at most that many: a pruning at a later time never forgets
\* what an earlier one, still waiting for its turn, would have had to count.  A
\* call counts by the time it took before it waited, as in the code, so one that
\* was given its account late may already have left the window; and one does not
\* count whose account learned a lower cap after the call had chosen it: its
\* record is dropped if the account is at that cap already.
WindowKept == \A a \in Accounts : Limit[a] > 0 =>
  Cardinality({g \in granted[a] : g[2] + Window > clock /\ g[1] \notin overtaken}) <= Limit[a]

\* A turn that has not come is still another call's to give, one that came
\* earlier: nobody is left waiting for a promise that no call will resolve.
TurnHasOwner == \A c \in Calls :
  pc[c] \in {"waiting", "passing"} /\ ~HasTurn(c) =>
    \E d \in Calls : /\ own[d] = before[c] /\ own[d] < own[c]
                     /\ pc[d] \in {"waiting", "passing", "choosing", "chosen"}

=============================================================================
