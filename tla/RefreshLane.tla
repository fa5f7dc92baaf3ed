---------------------------- MODULE RefreshLane ----------------------------
(***************************************************************************)
(* The refreshes of the OAuth connections of one rotation group.           *)
(*                                                                         *)
(* A refresh is "guarded" (refreshAndUpdateCredentials of                  *)
(* src/src/shared/services/providerCredentials.js: chat retries, quota     *)
(* pages) or "proactive" (checkAndRefreshToken of                          *)
(* src/src/sse/services/tokenRefresh.js: the background scheduler,         *)
(* embeddings, speech).  Both pass through refreshProviderCredentials      *)
(* (src/open-sse/services/oauthCredentialManager.js), which puts the lock  *)
(* of the connection around the lane of the group                          *)
(* (src/open-sse/services/refreshSerializer.js); a guarded refresh is in   *)
(* the lane already, so its lock is inside the lane.  Results are kept for *)
(* a while by the token that bought them (tokenRefresh/dedup.js).          *)
(*                                                                         *)
(* The process runs one callback at a time and drains its microtasks       *)
(* before the next: an action of the outside world (a call, an answer, a   *)
(* timer) waits for Drained.                                               *)
(***************************************************************************)
EXTENDS Naturals, FiniteSets, Sequences

CONSTANTS
  Refreshes, Connections,
  ConnOf,       \* ConnOf[r]: the connection that r refreshes
  Proactive,    \* the refreshes that checkAndRefreshToken runs
  NoOne,
  MaxLogins     \* bound on the logins of a connection

ASSUME LaneAssumption ==
  /\ ConnOf \in [Refreshes -> Connections]
  /\ Proactive \subseteq Refreshes
  /\ NoOne \notin Refreshes
  /\ MaxLogins \in Nat \ {0}

VARIABLES
  lane,         \* who holds the lane of the group (its head) and who queues
  shared,       \* credentialRefreshInflight: the guarded refresh of a connection
  lock,         \* refreshLocks: the refresh that others of its connection join
  recent,       \* refreshDedupCache: results by the token that bought them
  stored,       \* the refresh token of each connection row
  pinned,       \* whether the row says reauth_required
  accepted,     \* the refresh tokens that the provider still takes
  call,         \* of each refresh: its place, the token it read, the answer it
                \* was given and the refresh whose answer it awaits
  logins,       \* how often the user has logged in to a connection
  spoiled       \* history: an answer was lost, a result aged out too early, or an
                \* answer was written over a row that it does not follow from

vars == <<lane, shared, lock, recent, stored, pinned, accepted, call, logins, spoiled>>

\* A token belongs to a grant (a login of the user): its rotation family.
Token == [grant : Nat, gen : Nat]
FirstToken(g) == [grant |-> g, gen |-> 1]
Rotated(t) == [t EXCEPT !.gen = @ + 1]

Nothing == [kind |-> "none", token |-> FirstToken(0)]
Failed == [kind |-> "failed", token |-> FirstToken(0)]
Dead == [kind |-> "dead", token |-> FirstToken(0)]
Fresh(t) == [kind |-> "fresh", token |-> t]
Reply == [kind : {"none", "failed", "dead", "fresh"}, token : Token]

Places == {"idle", "read", "waiting", "joined", "queued", "nested", "posting",
           "settling", "released", "reconciling", "pinning", "done"}
Call == [at : Places, seen : Token, reply : Reply, leader : Refreshes \cup {NoOne}]
Idle == [at |-> "idle", seen |-> FirstToken(0), reply |-> Nothing, leader |-> NoOne]
Over == [Idle EXCEPT !.at = "done"]

TypeOK ==
  /\ lane \in Seq(Refreshes)
  /\ shared \in [Connections -> Refreshes \cup {NoOne}]
  /\ lock \in [Connections -> Refreshes \cup {NoOne}]
  /\ recent \subseteq [conn : Connections, spent : Token, reply : Reply]
  /\ stored \in [Connections -> Token]
  /\ pinned \in [Connections -> BOOLEAN]
  /\ accepted \in [Connections -> SUBSET Token]
  /\ call \in [Refreshes -> Call]
  /\ logins \in [Connections -> 1..MaxLogins]
  /\ spoiled \in [Connections -> BOOLEAN]

Init ==
  /\ lane = <<>>
  /\ shared = [c \in Connections |-> NoOne]
  /\ lock = [c \in Connections |-> NoOne]
  /\ recent = {}
  /\ stored = [c \in Connections |-> FirstToken(1)]
  /\ pinned = [c \in Connections |-> FALSE]
  /\ accepted = [c \in Connections |-> {FirstToken(1)}]
  /\ call = [r \in Refreshes |-> Idle]
  /\ logins = [c \in Connections |-> 1]
  /\ spoiled = [c \in Connections |-> FALSE]

At(r, place) == call[r].at = place
Holds(r) == lane # <<>> /\ Head(lane) = r

\* The next step of r is a microtask: its turn has come, its callback has
\* returned with nobody queued behind it, or it has left the lane.
Due(r) == \/ Holds(r) /\ At(r, "queued")
          \/ Holds(r) /\ At(r, "settling") /\ Len(lane) = 1
          \/ At(r, "released")
Drained == \A r \in Refreshes : ~Due(r)

\* The caller reads the row; it may be much later that it asks for the refresh.
Read(r) ==
  /\ Drained /\ At(r, "idle")
  /\ call' = [call EXCEPT ![r].at = "read", ![r].seen = stored[ConnOf[r]]]
  /\ UNCHANGED <<lane, shared, lock, recent, stored, pinned, accepted, logins, spoiled>>

Spoil(c, how) == spoiled' = [spoiled EXCEPT ![c] = @ \/ how]
Await(r, place, q) == call' = [call EXCEPT ![r].at = place, ![r].leader = q]
Queue(r) ==
  /\ call' = [call EXCEPT ![r].at = "queued"]
  /\ lane' = Append(lane, r)

\* refreshAndUpdateCredentials: join the refresh in flight, or queue for the lane.
StartGuarded(r) ==
  LET c == ConnOf[r] IN
  /\ Drained /\ At(r, "read") /\ r \notin Proactive
  /\ \/ /\ shared[c] # NoOne
        /\ Await(r, "waiting", shared[c])
        /\ UNCHANGED <<shared, lane>>
     \/ /\ shared[c] = NoOne
        /\ shared' = [shared EXCEPT ![c] = r]
        /\ Queue(r)
  /\ UNCHANGED <<lock, recent, stored, pinned, accepted, logins, spoiled>>

\* withCredentialRefreshLock: join the lock entry, or create one and queue.
StartProactive(r) ==
  LET c == ConnOf[r] IN
  /\ Drained /\ At(r, "read") /\ r \in Proactive
  /\ \/ /\ lock[c] # NoOne
        /\ Await(r, "joined", lock[c])
        /\ UNCHANGED <<lock, lane>>
     \/ /\ lock[c] = NoOne
        /\ lock' = [lock EXCEPT ![c] = r]
        /\ Queue(r)
  /\ UNCHANGED <<shared, recent, stored, pinned, accepted, logins, spoiled>>

\* The lane is r's.  A guarded refresh now asks for the lock of its connection
\* and may find it taken; otherwise a recent result is reused, or r posts.
JoinInside(r) ==
  /\ Holds(r) /\ At(r, "queued") /\ r \notin Proactive /\ lock[ConnOf[r]] # NoOne
  /\ Await(r, "nested", lock[ConnOf[r]])
  /\ UNCHANGED <<lane, shared, lock, recent, stored, pinned, accepted, logins, spoiled>>

\* Mutant: a lane that is held by anybody counts as held by the asker.
HasTurnBeside(r) == At(r, "queued") /\ (r \in Proactive \/ lock[ConnOf[r]] = NoOne)

HasTurn(r) == Holds(r) /\ At(r, "queued") /\ (r \in Proactive \/ lock[ConnOf[r]] = NoOne)
Hits(r) == {e \in recent : e.conn = ConnOf[r] /\ e.spent = call[r].seen}

Reuse(r) ==
  /\ HasTurn(r)
  /\ \E e \in Hits(r) : call' = [call EXCEPT ![r].at = "settling", ![r].reply = e.reply]
  /\ UNCHANGED <<lane, shared, lock, recent, stored, pinned, accepted, logins, spoiled>>

Post(r) ==
  /\ HasTurn(r) /\ Hits(r) = {}
  /\ call' = [call EXCEPT ![r].at = "posting"]
  /\ lock' = IF r \in Proactive THEN lock ELSE [lock EXCEPT ![ConnOf[r]] = r]
  /\ UNCHANGED <<lane, shared, recent, stored, pinned, accepted, logins, spoiled>>

\* The promise of r's lock entry settles with answer a.  Those who joined it are
\* given a: a guarded one goes on inside the lane, a proactive one is over.
Unlocked(r) == [c \in Connections |-> IF lock[c] = r THEN NoOne ELSE lock[c]]
Joined(r, place) == {q \in Refreshes : call[q].leader = r /\ At(q, place)}
Shared(r, mine, a) == [q \in Refreshes |->
  IF q = r THEN mine
  ELSE IF q \in Joined(r, "joined") THEN Over
  ELSE IF q \in Joined(r, "nested") THEN [call[q] EXCEPT !.at = "settling", !.reply = a, !.leader = NoOne]
  ELSE call[q]]

\* updateProviderCredentials: proactive refreshes write what they were given
\* over whatever the row holds by now.
Overwritten(writers, c, a) ==
  IF a.kind = "fresh" /\ writers # {} THEN [stored EXCEPT ![c] = a.token] ELSE stored

\* Such a write goes astray if the row holds neither the token that the answer
\* replaces nor the answer itself: it undoes a login or a later rotation.
Astray(writers, r, a) ==
  a.kind = "fresh" /\ writers # {} /\ stored[ConnOf[r]] \notin {call[r].seen, a.token}

\* Mutant: only a request under way is shared, its result is not kept.
KeptNoLonger(r, a) == recent

Kept(r, a) == recent \cup {[conn |-> ConnOf[r], spent |-> call[r].seen, reply |-> a]}

\* The token endpoint answers a.  The answer is kept for the next refresh with
\* the same token.  The lock of a guarded refresh ends with its callback, that
\* of a proactive one only once it has left the lane.
Answered(r, a) ==
  LET given == [call[r] EXCEPT !.at = "settling", !.reply = a] IN
  /\ Drained /\ At(r, "posting")
  /\ recent' = Kept(r, a)
  /\ IF r \in Proactive
       THEN call' = [call EXCEPT ![r] = given] /\ UNCHANGED <<lock, stored>>
       ELSE /\ call' = Shared(r, given, a)
            /\ lock' = Unlocked(r)
            /\ stored' = Overwritten(Joined(r, "joined"), ConnOf[r], a)
  /\ UNCHANGED <<lane, shared, pinned, logins>>

\* The provider takes a token once: it spends it and issues the next one.
Spend(r) ==
  LET c == ConnOf[r]  t == call[r].seen IN
  /\ t \in accepted[c]
  /\ accepted' = [accepted EXCEPT ![c] = (@ \ {t}) \cup {Rotated(t)}]

Granted(r) ==
  LET a == Fresh(Rotated(call[r].seen)) IN
  /\ Spend(r) /\ Answered(r, a)
  /\ Spoil(ConnOf[r], r \notin Proactive /\ Astray(Joined(r, "joined"), r, a))

AnswerLost(r) == Spend(r) /\ Answered(r, Failed) /\ Spoil(ConnOf[r], TRUE)

Unavailable(r) == Answered(r, Failed) /\ UNCHANGED <<accepted, spoiled>>

\* A token presented again revokes its whole family.
Refused(r) ==
  LET c == ConnOf[r]  t == call[r].seen IN
  /\ t \notin accepted[c]
  /\ accepted' = [accepted EXCEPT ![c] = {u \in @ : u.grant # t.grant}]
  /\ Answered(r, Dead)
  /\ UNCHANGED spoiled

\* Mutant: the lane is given back after a result only, not in a finally.
ReleaseOnResult(r) ==
  /\ Holds(r) /\ At(r, "settling") /\ call[r].reply.kind = "fresh"
  /\ lane' = Tail(lane)
  /\ call' = [call EXCEPT ![r].at = "released"]
  /\ UNCHANGED <<shared, lock, recent, stored, pinned, accepted, logins, spoiled>>

\* The lane is given back, after the settle gap when somebody queues behind.
Release(r) ==
  /\ Holds(r) /\ At(r, "settling")
  /\ lane' = Tail(lane)
  /\ call' = [call EXCEPT ![r].at = "released"]
  /\ UNCHANGED <<shared, lock, recent, stored, pinned, accepted, logins, spoiled>>

\* checkAndRefreshToken goes on: the lock entry is dropped, whoever joined it
\* has its answer, and the row is written.
FinishProactive(r) ==
  /\ At(r, "released") /\ r \in Proactive
  /\ call' = Shared(r, Over, call[r].reply)
  /\ lock' = Unlocked(r)
  /\ stored' = Overwritten({r}, ConnOf[r], call[r].reply)
  /\ Spoil(ConnOf[r], Astray({r}, r, call[r].reply))
  /\ UNCHANGED <<lane, shared, recent, pinned, accepted, logins>>

\* The operation of a guarded refresh settles: so do the callers waiting on it.
Settle(r) ==
  /\ call' = [q \in Refreshes |-> IF q = r \/ q \in Joined(r, "waiting") THEN Over ELSE call[q]]
  /\ shared' = [c \in Connections |-> IF shared[c] = r THEN NoOne ELSE shared[c]]

\* Mutants: the token is written over any row; it is written only if somebody
\* still waits for it.
CommittedBlindly(r) ==
  [stored EXCEPT ![ConnOf[r]] = IF call[r].reply.kind = "fresh" THEN call[r].reply.token ELSE @]
CommittedIfAwaited(r) ==
  [stored EXCEPT ![ConnOf[r]] =
     IF call[r].reply.kind = "fresh" /\ @ = call[r].seen /\ Joined(r, "waiting") # {}
       THEN call[r].reply.token ELSE @]

Committed(r) ==
  [stored EXCEPT ![ConnOf[r]] =
     IF call[r].reply.kind = "fresh" /\ @ = call[r].seen THEN call[r].reply.token ELSE @]

\* refreshAndUpdateCredentials goes on: a new token is written only over the one
\* that was read, a dead one is looked into, anything else is given up.
Commit(r) ==
  /\ At(r, "released") /\ r \notin Proactive /\ call[r].reply.kind # "dead"
  /\ stored' = Committed(r)
  /\ Settle(r)
  /\ UNCHANGED <<lane, lock, recent, pinned, accepted, logins, spoiled>>

LookInto(r) ==
  /\ At(r, "released") /\ r \notin Proactive /\ call[r].reply.kind = "dead"
  /\ call' = [call EXCEPT ![r].at = "reconciling"]
  /\ UNCHANGED <<lane, shared, lock, recent, stored, pinned, accepted, logins, spoiled>>

\* reconcileConcurrentRotation reads the row a few times.  A row that changed was
\* rotated by somebody else; one that did not, to the last, has a dead token.
Superseded(r) ==
  /\ Drained /\ At(r, "reconciling") /\ stored[ConnOf[r]] # call[r].seen
  /\ Settle(r)
  /\ UNCHANGED <<lane, lock, recent, stored, pinned, accepted, logins, spoiled>>

Unchanged(r) ==
  /\ Drained /\ At(r, "reconciling") /\ stored[ConnOf[r]] = call[r].seen
  /\ call' = [call EXCEPT ![r].at = "pinning"]
  /\ UNCHANGED <<lane, shared, lock, recent, stored, pinned, accepted, logins, spoiled>>

\* Mutant: pinned without a look at the row.
PinBlindly(r) ==
  /\ Drained /\ At(r, "pinning")
  /\ pinned' = [pinned EXCEPT ![ConnOf[r]] = TRUE]
  /\ Settle(r)
  /\ UNCHANGED <<lane, lock, recent, stored, accepted, logins, spoiled>>

\* persistReauthRequired: pinned only if the row is still the one that was read.
Pin(r) ==
  LET c == ConnOf[r] IN
  /\ Drained /\ At(r, "pinning")
  /\ pinned' = [pinned EXCEPT ![c] = @ \/ stored[c] = call[r].seen]
  /\ Settle(r)
  /\ UNCHANGED <<lane, lock, recent, stored, accepted, logins, spoiled>>

\* The timer of a lock entry forgets it; those who joined it go on waiting.
LockExpires(c) ==
  /\ Drained /\ lock[c] # NoOne
  /\ lock' = [lock EXCEPT ![c] = NoOne]
  /\ UNCHANGED <<lane, shared, recent, stored, pinned, accepted, call, logins, spoiled>>

\* The timer of a result forgets it: too early for a refresh that has yet to
\* present the same token, or that may still write its successor.
ResultExpires(e) ==
  /\ Drained
  /\ recent' = recent \ {e}
  /\ Spoil(e.conn, \E r \in Refreshes : ConnOf[r] = e.conn /\ call[r].seen = e.spent)
  /\ UNCHANGED <<lane, shared, lock, stored, pinned, accepted, call, logins>>

\* The user logs in again: a new grant replaces the tokens and lifts the pin.
Reconnect(c) ==
  LET t == FirstToken(logins[c] + 1) IN
  /\ Drained /\ logins[c] < MaxLogins
  /\ logins' = [logins EXCEPT ![c] = @ + 1]
  /\ stored' = [stored EXCEPT ![c] = t]
  /\ accepted' = [accepted EXCEPT ![c] = @ \cup {t}]
  /\ pinned' = [pinned EXCEPT ![c] = FALSE]
  /\ UNCHANGED <<lane, shared, lock, recent, call, spoiled>>

Step(r) ==
  \/ StartGuarded(r) \/ StartProactive(r)
  \/ JoinInside(r) \/ Reuse(r) \/ Post(r)
  \/ Granted(r) \/ AnswerLost(r) \/ Unavailable(r) \/ Refused(r)
  \/ Release(r) \/ FinishProactive(r) \/ Commit(r) \/ LookInto(r)
  \/ Superseded(r) \/ Unchanged(r) \/ Pin(r)

Next ==
  \/ \E r \in Refreshes : Read(r) \/ Step(r)
  \/ \E e \in recent : ResultExpires(e)
  \/ \E c \in Connections : LockExpires(c) \/ Reconnect(c)

Spec == Init /\ [][Next]_vars

\* A callback that is due runs, the provider answers or the connection breaks,
\* and the settle gap ends.  Logins and timers of entries are under no fairness.
FairSpec == Spec /\ \A r \in Refreshes : WF_vars(Step(r))

-----------------------------------------------------------------------------
\* "Two sibling accounts must never POST to /oauth/token concurrently": at most
\* one request of the group is at the token endpoint.
OnePost == \A r, q \in Refreshes : At(r, "posting") /\ At(q, "posting") => r = q

\* A single-use token is presented a second time, which revokes its family, only
\* if an answer was lost, a result was forgotten while it was still needed, or a
\* proactive refresh took the row back to an earlier token.
TokenPresentedOnce == \A r \in Refreshes :
  At(r, "posting") /\ ~spoiled[ConnOf[r]] => call[r].seen \in accepted[ConnOf[r]]

\* No rotation is dropped: once every answer has been written, the row of a
\* connection holds a token that the provider takes.
Unwritten(c) == \E r \in Refreshes : ConnOf[r] = c /\ call[r].at \in {"settling", "released"}
RotationKept == \A c \in Connections :
  ~Unwritten(c) /\ ~spoiled[c] => stored[c] \in accepted[c]

\* An account is marked for re-authorization only while the token it holds is
\* dead: a mark never lands on what a concurrent winner or a login has stored.
\* (A guarded refresh that joins a proactive one may be given the "dead" of a
\* token from before a login, so this is about connections without such pairs.)
Guarded(c) == \A r \in Proactive : ConnOf[r] # c
PinnedIsDead == \A c \in Connections :
  pinned[c] /\ (Guarded(c) \/ logins[c] = 1) => stored[c] \notin accepted[c]

\* A login is not undone by a guarded refresh that was under way: the row never
\* goes back to a token of an older grant.
LoginStands == \A c \in Connections : Guarded(c) => stored'[c].grant >= stored[c].grant
LoginKept == [][LoginStands]_vars

\* Every refresh that a caller asked for comes to an end ("the queue keeps
\* flowing even after a failed refresh").
Ends == \A r \in Refreshes : At(r, "read") ~> At(r, "done")

\* The one thing that stops the group: the holder of the lane awaits the answer
\* of a refresh that queues behind it.
Blocked == \E r, q \in Refreshes :
  Holds(r) /\ At(r, "nested") /\ call[r].leader = q /\ At(q, "queued")
EndsUnlessBlocked == []~Blocked => Ends

=============================================================================
