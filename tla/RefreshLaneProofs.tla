------------------------- MODULE RefreshLaneProofs -------------------------
(***************************************************************************)
(* Proofs about RefreshLane, for any number of refreshes and connections.  *)
(***************************************************************************)
EXTENDS RefreshLane, TLAPS

USE LaneAssumption

\* Whoever is inside the lane is at its head: past its turn and not yet released.
InsideHolds == \A r \in Refreshes :
  call[r].at \in {"nested", "posting", "settling"} => Holds(r)

LaneInv == TypeOK /\ InsideHolds

LEMMA TokenTypes ==
  /\ \A g \in Nat : FirstToken(g) \in Token
  /\ \A t \in Token : Rotated(t) \in Token /\ Rotated(t).grant = t.grant
  /\ \A t \in Token : Fresh(t) \in Reply
  /\ Nothing \in Reply /\ Failed \in Reply /\ Dead \in Reply
  /\ Idle \in Call /\ Over \in Call
BY DEF Token, FirstToken, Rotated, Reply, Fresh, Nothing, Failed, Dead, Call, Idle, Over, Places

LEMMA LaneInit == Init => LaneInv
<1> SUFFICES ASSUME Init PROVE LaneInv
  OBVIOUS
<1>1. TypeOK
  BY TokenTypes DEF Init, TypeOK
<1>2. InsideHolds
  BY DEF Init, InsideHolds, Idle
<1> QED  BY <1>1, <1>2 DEF LaneInv

\* What the promise of a lock entry does to the calls that joined it.
LEMMA SharedTypes ==
  ASSUME TypeOK, NEW r \in Refreshes, NEW mine \in Call, NEW a \in Reply
  PROVE  Shared(r, mine, a) \in [Refreshes -> Call]
<1>1. \A q \in Refreshes : [call[q] EXCEPT !.at = "settling", !.reply = a, !.leader = NoOne] \in Call
  BY DEF TypeOK, Call, Places
<1> QED  BY <1>1, TokenTypes DEF Shared, TypeOK

LEMMA OverwrittenTypes ==
  ASSUME TypeOK, NEW writers, NEW c \in Connections, NEW a \in Reply
  PROVE  Overwritten(writers, c, a) \in [Connections -> Token]
BY DEF Overwritten, TypeOK, Reply

LEMMA UnlockedTypes ==
  ASSUME TypeOK, NEW r \in Refreshes
  PROVE  Unlocked(r) \in [Connections -> Refreshes \cup {NoOne}]
BY DEF Unlocked, TypeOK

LEMMA SettleTypes ==
  ASSUME TypeOK, NEW r \in Refreshes, Settle(r)
  PROVE  /\ call' \in [Refreshes -> Call]
         /\ shared' \in [Connections -> Refreshes \cup {NoOne}]
BY TokenTypes DEF Settle, TypeOK

LEMMA SpoilTypes ==
  ASSUME TypeOK, NEW c \in Connections, NEW how, Spoil(c, how)
  PROVE  spoiled' \in [Connections -> BOOLEAN]
<1>1. (spoiled[c] \/ how) \in BOOLEAN
  OBVIOUS
<1> QED  BY <1>1 DEF Spoil, TypeOK

LEMMA AnsweredTypes ==
  ASSUME TypeOK, NEW r \in Refreshes, NEW a \in Reply, Answered(r, a)
  PROVE  /\ lane' = lane /\ shared' = shared /\ pinned' = pinned /\ logins' = logins
         /\ lock' \in [Connections -> Refreshes \cup {NoOne}]
         /\ recent' \subseteq [conn : Connections, spent : Token, reply : Reply]
         /\ stored' \in [Connections -> Token]
         /\ call' \in [Refreshes -> Call]
<1> DEFINE given == [call[r] EXCEPT !.at = "settling", !.reply = a]
<1>1. given \in Call /\ call[r].seen \in Token
  <2>1. call[r] \in Call
    BY DEF TypeOK
  <2> QED  BY <2>1 DEF Call, Places
<1>2. recent' \subseteq [conn : Connections, spent : Token, reply : Reply]
  BY <1>1 DEF Answered, Kept, TypeOK
<1>3. CASE r \in Proactive
  <2>1. call' = [call EXCEPT ![r] = given] /\ lock' = lock /\ stored' = stored
    BY <1>3 DEF Answered
  <2>2. call' \in [Refreshes -> Call]
    BY <2>1, <1>1 DEF TypeOK
  <2> QED  BY <2>1, <2>2, <1>2 DEF Answered, TypeOK
<1>4. CASE r \notin Proactive
  <2>1. call' = Shared(r, given, a) /\ lock' = Unlocked(r)
        /\ stored' = Overwritten(Joined(r, "joined"), ConnOf[r], a)
    BY <1>4 DEF Answered
  <2> QED  BY <2>1, <1>1, <1>2, SharedTypes, UnlockedTypes, OverwrittenTypes DEF Answered
<1> QED  BY <1>3, <1>4

\* The four ways in which the token endpoint may answer.
AnswerOf(r) == Granted(r) \/ AnswerLost(r) \/ Unavailable(r) \/ Refused(r)

LEMMA AnswerTypes ==
  ASSUME TypeOK, NEW r \in Refreshes, AnswerOf(r)
  PROVE  TypeOK' /\ \E a \in Reply : Answered(r, a)
<1>0. call[r] \in Call /\ call[r].seen \in Token /\ ConnOf[r] \in Connections
  BY DEF TypeOK, Call
<1>1. \E a \in Reply : Answered(r, a)
  BY <1>0, TokenTypes DEF AnswerOf, Granted, AnswerLost, Unavailable, Refused
<1>2. PICK a \in Reply : Answered(r, a)
  BY <1>1
<1>3. accepted' \in [Connections -> SUBSET Token]
  <2>1. CASE Granted(r) \/ AnswerLost(r)
    <3>1. accepted' = [accepted EXCEPT ![ConnOf[r]] =
                         (@ \ {call[r].seen}) \cup {Rotated(call[r].seen)}]
      BY <2>1 DEF Granted, AnswerLost, Spend
    <3>2. Rotated(call[r].seen) \in Token
      BY <1>0, TokenTypes
    <3> QED  BY <3>1, <3>2, <1>0 DEF TypeOK
  <2>2. CASE Unavailable(r)
    BY <2>2 DEF Unavailable, TypeOK
  <2>3. CASE Refused(r)
    BY <2>3, <1>0 DEF Refused, TypeOK
  <2> QED  BY <2>1, <2>2, <2>3 DEF AnswerOf
<1>4. spoiled' \in [Connections -> BOOLEAN]
  <2>1. CASE Granted(r) \/ AnswerLost(r)
    BY <2>1, <1>0, SpoilTypes DEF Granted, AnswerLost
  <2>2. CASE Unavailable(r) \/ Refused(r)
    BY <2>2 DEF Unavailable, Refused, TypeOK
  <2> QED  BY <2>1, <2>2 DEF AnswerOf
<1>5. TypeOK'
  BY <1>2, <1>3, <1>4, AnsweredTypes DEF TypeOK
<1> QED  BY <1>1, <1>5

LEMMA StepTypes ==
  ASSUME TypeOK, NEW r \in Refreshes, Read(r) \/ Step(r)
  PROVE  TypeOK'
<1>0. call[r] \in Call /\ ConnOf[r] \in Connections
  BY DEF TypeOK
<1>1. ASSUME NEW place \in Places, NEW q \in Refreshes \cup {NoOne}
      PROVE  /\ [call EXCEPT ![r].at = place] \in [Refreshes -> Call]
             /\ [call EXCEPT ![r].at = place, ![r].leader = q] \in [Refreshes -> Call]
  <2>1. [call[r] EXCEPT !.at = place] \in Call /\ [call[r] EXCEPT !.at = place, !.leader = q] \in Call
    BY <1>0 DEF Call
  <2> QED  BY <2>1 DEF TypeOK
<1>2. CASE Read(r)
  <2>1. call' = [call EXCEPT ![r] = [call[r] EXCEPT !.at = "read", !.seen = stored[ConnOf[r]]]]
    BY <1>2, <1>0 DEF Read, TypeOK, Call
  <2>2. [call[r] EXCEPT !.at = "read", !.seen = stored[ConnOf[r]]] \in Call
    BY <1>0 DEF TypeOK, Call, Places
  <2> QED  BY <1>2, <2>1, <2>2 DEF Read, TypeOK
<1>3. CASE StartGuarded(r)
  <2>1. CASE shared[ConnOf[r]] # NoOne
    <3>1. call' = [call EXCEPT ![r].at = "waiting", ![r].leader = shared[ConnOf[r]]]
      BY <1>3, <2>1 DEF StartGuarded, Await
    <3>2. shared[ConnOf[r]] \in Refreshes \cup {NoOne} /\ "waiting" \in Places
      BY <1>0 DEF TypeOK, Places
    <3>3. call' \in [Refreshes -> Call]
      BY <3>1, <3>2, <1>1
    <3> QED  BY <1>3, <2>1, <3>3 DEF StartGuarded, TypeOK
  <2>2. CASE shared[ConnOf[r]] = NoOne
    <3>1. call' = [call EXCEPT ![r].at = "queued"] /\ lane' = Append(lane, r)
          /\ shared' = [shared EXCEPT ![ConnOf[r]] = r]
      BY <1>3, <2>2 DEF StartGuarded, Queue
    <3>2. call' \in [Refreshes -> Call]
      BY <3>1, <1>1 DEF Places
    <3> QED  BY <1>3, <1>0, <3>1, <3>2 DEF StartGuarded, TypeOK
  <2> QED  BY <2>1, <2>2
<1>4. CASE StartProactive(r)
  <2>1. CASE lock[ConnOf[r]] # NoOne
    <3>1. call' = [call EXCEPT ![r].at = "joined", ![r].leader = lock[ConnOf[r]]]
      BY <1>4, <2>1 DEF StartProactive, Await
    <3>2. lock[ConnOf[r]] \in Refreshes \cup {NoOne} /\ "joined" \in Places
      BY <1>0 DEF TypeOK, Places
    <3>3. call' \in [Refreshes -> Call]
      BY <3>1, <3>2, <1>1
    <3> QED  BY <1>4, <2>1, <3>3 DEF StartProactive, TypeOK
  <2>2. CASE lock[ConnOf[r]] = NoOne
    <3>1. call' = [call EXCEPT ![r].at = "queued"] /\ lane' = Append(lane, r)
          /\ lock' = [lock EXCEPT ![ConnOf[r]] = r]
      BY <1>4, <2>2 DEF StartProactive, Queue
    <3>2. call' \in [Refreshes -> Call]
      BY <3>1, <1>1 DEF Places
    <3> QED  BY <1>4, <1>0, <3>1, <3>2 DEF StartProactive, TypeOK
  <2> QED  BY <2>1, <2>2
<1>5. CASE JoinInside(r)
  BY <1>5, <1>0, <1>1 DEF JoinInside, Await, TypeOK, Places
<1>6. CASE Reuse(r)
  <2>1. PICK e \in Hits(r) : call' = [call EXCEPT ![r].at = "settling", ![r].reply = e.reply]
    BY <1>6 DEF Reuse
  <2>2. e.reply \in Reply
    BY <2>1 DEF Hits, TypeOK
  <2>3. [call[r] EXCEPT !.at = "settling", !.reply = e.reply] \in Call
    BY <2>2, <1>0 DEF Call, Places
  <2>4. call' = [call EXCEPT ![r] = [call[r] EXCEPT !.at = "settling", !.reply = e.reply]]
    BY <2>1, <1>0 DEF TypeOK, Call
  <2> QED  BY <1>6, <2>3, <2>4 DEF Reuse, TypeOK
<1>7. CASE Post(r)
  BY <1>7, <1>0, <1>1 DEF Post, TypeOK, Places
<1>8. CASE AnswerOf(r)
  BY <1>8, AnswerTypes
<1>9. CASE Release(r)
  <2>1. call' \in [Refreshes -> Call]
    BY <1>9, <1>1 DEF Release, Places
  <2>2. Tail(lane) \in Seq(Refreshes)
    BY <1>9 DEF Release, Holds, TypeOK
  <2> QED  BY <1>9, <2>1, <2>2 DEF Release, TypeOK
<1>10. CASE FinishProactive(r)
  <2>1. call[r].reply \in Reply
    BY <1>0 DEF Call
  <2> QED  BY <1>10, <1>0, <2>1, TokenTypes, SharedTypes, UnlockedTypes, OverwrittenTypes, SpoilTypes
           DEF FinishProactive, TypeOK
<1>11. CASE Commit(r)
  BY <1>11, <1>0, SettleTypes DEF Commit, Committed, TypeOK, Call, Reply
<1>12. CASE LookInto(r)
  BY <1>12, <1>0, <1>1 DEF LookInto, TypeOK, Places
<1>13. CASE Superseded(r)
  BY <1>13, SettleTypes DEF Superseded, TypeOK
<1>14. CASE Unchanged(r)
  BY <1>14, <1>0, <1>1 DEF Unchanged, TypeOK, Places
<1>15. CASE Pin(r)
  BY <1>15, <1>0, SettleTypes DEF Pin, TypeOK
<1> QED
  BY <1>2, <1>3, <1>4, <1>5, <1>6, <1>7, <1>8, <1>9, <1>10, <1>11, <1>12, <1>13, <1>14, <1>15
  DEF Step, AnswerOf

LEMMA TimerTypes ==
  ASSUME TypeOK,
         \/ \E e \in recent : ResultExpires(e)
         \/ \E c \in Connections : LockExpires(c) \/ Reconnect(c)
  PROVE  TypeOK'
<1>1. ASSUME NEW e \in recent, ResultExpires(e) PROVE TypeOK'
  <2>1. e.conn \in Connections
    BY DEF TypeOK
  <2> QED  BY <1>1, <2>1, SpoilTypes DEF ResultExpires, TypeOK
<1>2. CASE \E c \in Connections : LockExpires(c)
  BY <1>2 DEF LockExpires, TypeOK
<1>3. ASSUME NEW c \in Connections, Reconnect(c) PROVE TypeOK'
  <2>0. logins[c] \in 1..MaxLogins
    BY DEF TypeOK
  <2>1. logins[c] + 1 \in 1..MaxLogins
    <3>1. logins[c] < MaxLogins
      BY <1>3 DEF Reconnect
    <3> QED  BY <2>0, <3>1
  <2>2. FirstToken(logins[c] + 1) \in Token
    BY <2>0, TokenTypes
  <2>3. /\ stored' = [stored EXCEPT ![c] = FirstToken(logins[c] + 1)]
        /\ accepted' = [accepted EXCEPT ![c] = @ \cup {FirstToken(logins[c] + 1)}]
        /\ pinned' = [pinned EXCEPT ![c] = FALSE]
        /\ logins' = [logins EXCEPT ![c] = @ + 1]
    BY <1>3 DEF Reconnect
  <2>4. /\ stored' \in [Connections -> Token]
        /\ accepted' \in [Connections -> SUBSET Token]
        /\ pinned' \in [Connections -> BOOLEAN]
    BY <2>2, <2>3 DEF TypeOK
  <2>5. logins' \in [Connections -> 1..MaxLogins]
    BY <2>1, <2>3 DEF TypeOK
  <2> QED  BY <1>3, <2>4, <2>5 DEF Reconnect, TypeOK
<1> QED  BY <1>1, <1>2, <1>3

-----------------------------------------------------------------------------
\* A step that puts nobody inside but the holder, and takes nobody from the head
\* of the lane, leaves the lane to its holder.
LEMMA InsideKept ==
  ASSUME LaneInv, NEW r \in Refreshes, lane' = lane \/ lane' = Append(lane, r),
         \A q \in Refreshes : call'[q].at \in {"nested", "posting", "settling"} =>
           Holds(q) \/ call[q].at \in {"nested", "posting", "settling"}
  PROVE  InsideHolds'
<1>1. \A q \in Refreshes : Holds(q) => Holds(q)'
  <2>1. lane \in Seq(Refreshes)
    BY DEF LaneInv, TypeOK
  <2>2. lane # <<>> => Append(lane, r) # <<>> /\ Head(Append(lane, r)) = Head(lane)
    BY <2>1
  <2>3. CASE lane' = lane
    BY <2>3 DEF Holds
  <2>4. CASE lane' = Append(lane, r)
    BY <2>2, <2>4 DEF Holds
  <2> QED  BY <2>3, <2>4
<1> QED  BY <1>1 DEF LaneInv, InsideHolds

LEMMA AnswerInside ==
  ASSUME LaneInv, NEW r \in Refreshes, AnswerOf(r)
  PROVE  InsideHolds'
<1>1. PICK a \in Reply : Answered(r, a)
  BY AnswerTypes DEF LaneInv
<1>2. lane' = lane /\ At(r, "posting")
  BY <1>1 DEF Answered
<1>3. ASSUME NEW q \in Refreshes, call'[q].at \in {"nested", "posting", "settling"}
      PROVE  call[q].at \in {"nested", "posting", "settling"}
  <2>1. CASE q = r
    BY <1>2, <2>1 DEF At
  <2>2. CASE q # r /\ r \in Proactive
    BY <1>1, <1>3, <2>2 DEF Answered, LaneInv, TypeOK
  <2>3. CASE q # r /\ r \notin Proactive
    <3>1. call'[q] = IF q \in Joined(r, "joined") THEN Over
                     ELSE IF q \in Joined(r, "nested")
                       THEN [call[q] EXCEPT !.at = "settling", !.reply = a, !.leader = NoOne]
                       ELSE call[q]
      BY <1>1, <2>3 DEF Answered, Shared
    <3> QED  BY <1>3, <3>1 DEF Over, Idle, Joined, At
  <2> QED  BY <2>1, <2>2, <2>3
<1> QED  BY <1>2, <1>3, InsideKept

LEMMA StepInside ==
  ASSUME LaneInv, NEW r \in Refreshes, Read(r) \/ Step(r)
  PROVE  InsideHolds'
<1>0. call \in [Refreshes -> Call]
  BY DEF LaneInv, TypeOK
<1>1. CASE Read(r)
  BY <1>0, <1>1, InsideKept DEF Read, Call
<1>2. CASE StartGuarded(r)
  BY <1>0, <1>2, InsideKept DEF StartGuarded, Await, Queue, Call
<1>3. CASE StartProactive(r)
  BY <1>0, <1>3, InsideKept DEF StartProactive, Await, Queue, Call
<1>4. CASE JoinInside(r)
  BY <1>0, <1>4, InsideKept DEF JoinInside, Await, Call
<1>5. CASE Reuse(r)
  BY <1>0, <1>5, InsideKept DEF Reuse, HasTurn, Call
<1>6. CASE Post(r)
  BY <1>0, <1>6, InsideKept DEF Post, HasTurn, Call
<1>7. CASE AnswerOf(r)
  BY <1>7, AnswerInside
<1>8. CASE Release(r)
  <2>1. \A q \in Refreshes \ {r} : call[q].at \notin {"nested", "posting", "settling"}
    BY <1>8 DEF Release, Holds, LaneInv, InsideHolds
  <2>2. \A q \in Refreshes : call'[q].at \notin {"nested", "posting", "settling"}
    BY <1>0, <1>8, <2>1 DEF Release, Call
  <2> QED  BY <2>2 DEF InsideHolds
<1>9. CASE FinishProactive(r)
  <2>1. ASSUME NEW q \in Refreshes, call'[q].at \in {"nested", "posting", "settling"}
        PROVE  call[q].at \in {"nested", "posting", "settling"}
    BY <1>0, <1>9, <2>1 DEF FinishProactive, Shared, Joined, At, Over, Idle
  <2> QED  BY <1>9, <2>1, InsideKept DEF FinishProactive
<1>10. CASE Commit(r)
  BY <1>10, InsideKept DEF Commit, Settle, Over, Idle
<1>11. CASE LookInto(r)
  BY <1>0, <1>11, InsideKept DEF LookInto, Call
<1>12. CASE Superseded(r)
  BY <1>12, InsideKept DEF Superseded, Settle, Over, Idle
<1>13. CASE Unchanged(r)
  BY <1>0, <1>13, InsideKept DEF Unchanged, Call
<1>14. CASE Pin(r)
  BY <1>14, InsideKept DEF Pin, Settle, Over, Idle
<1> QED
  BY <1>1, <1>2, <1>3, <1>4, <1>5, <1>6, <1>7, <1>8, <1>9, <1>10, <1>11, <1>12, <1>13, <1>14
  DEF Step, AnswerOf

LEMMA LaneStep == LaneInv /\ [Next]_vars => LaneInv'
<1> SUFFICES ASSUME LaneInv, [Next]_vars PROVE LaneInv'
  OBVIOUS
<1>1. ASSUME NEW r \in Refreshes, Read(r) \/ Step(r) PROVE LaneInv'
  BY <1>1, StepTypes, StepInside DEF LaneInv
<1>2. CASE \/ \E e \in recent : ResultExpires(e)
           \/ \E c \in Connections : LockExpires(c) \/ Reconnect(c)
  <2>1. lane' = lane /\ call' = call
    BY <1>2 DEF ResultExpires, LockExpires, Reconnect
  <2> QED  BY <1>2, <2>1, TimerTypes DEF LaneInv, InsideHolds, Holds
<1>3. CASE UNCHANGED vars
  BY <1>3 DEF vars, LaneInv, TypeOK, InsideHolds, Holds
<1> QED  BY <1>1, <1>2, <1>3 DEF Next

\* The inductive invariant of the lane: types, and only its holder is inside.
THEOREM LaneInvariant == Spec => []LaneInv
BY LaneInit, LaneStep, PTL DEF Spec

\* Every variable stays in its type.
THEOREM LaneTypes == Spec => []TypeOK
<1>1. LaneInv => TypeOK
  BY DEF LaneInv
<1> QED  BY <1>1, LaneInvariant, PTL

\* However many connections and refreshes a rotation group has, and whichever of
\* the two paths each refresh takes, at most one request is at the token endpoint.
THEOREM LaneOnePost == Spec => []OnePost
<1>1. LaneInv => OnePost
  BY DEF LaneInv, InsideHolds, OnePost, Holds, At
<1> QED  BY <1>1, LaneInvariant, PTL

-----------------------------------------------------------------------------
\* The entry of a lock belongs to its connection; a guarded refresh owns one only
\* while it posts.
LockOwner == \A c \in Connections : lock[c] # NoOne =>
  ConnOf[lock[c]] = c /\ (lock[c] \in Proactive \/ At(lock[c], "posting"))

\* Whoever joined a lock joined one of its own connection; a lock that is found
\* taken inside the lane belongs to a proactive refresh.
JoinersOwn == \A q \in Refreshes :
  /\ At(q, "joined") => q \in Proactive /\ ConnOf[call[q].leader] = ConnOf[q]
  /\ At(q, "nested") => call[q].leader \in Proactive /\ ConnOf[call[q].leader] = ConnOf[q]

\* A token is traded for one of its own grant, kept or at hand.
SameGrant(a, t) == a.kind = "fresh" => a.token.grant = t.grant
KeepsGrant ==
  /\ \A e \in recent : SameGrant(e.reply, e.spent)
  /\ \A r \in Refreshes : Guarded(ConnOf[r]) => SameGrant(call[r].reply, call[r].seen)

\* The row of a connection that is only refreshed under guard has no grant that
\* is still to come.
LoginsCounted == \A c \in Connections : Guarded(c) => stored[c].grant <= logins[c]

\* A refresh that has not begun carries nothing of an earlier one.
IdleIsNew == \A r \in Refreshes : At(r, "idle") => call[r] = Idle

LoginInv == LaneInv /\ IdleIsNew /\ LockOwner /\ JoinersOwn /\ KeepsGrant /\ LoginsCounted

LEMMA LoginInit == Init => LoginInv
<1> SUFFICES ASSUME Init PROVE LoginInv
  OBVIOUS
<1>1. LockOwner /\ JoinersOwn
  BY DEF Init, LockOwner, JoinersOwn, At, Idle
<1>2. KeepsGrant
  BY DEF Init, KeepsGrant, SameGrant, Idle, Nothing
<1>3. LoginsCounted
  BY DEF Init, LoginsCounted, FirstToken
<1>4. IdleIsNew
  BY DEF Init, IdleIsNew
<1> QED  BY <1>1, <1>2, <1>3, <1>4, LaneInit DEF LoginInv

\* On a connection that is only refreshed under guard, nobody joins a lock.
LEMMA NobodyJoins ==
  ASSUME LoginInv, NEW r \in Refreshes, Guarded(ConnOf[r])
  PROVE  /\ r \notin Proactive
         /\ Joined(r, "joined") = {} /\ Joined(r, "nested") = {}
         /\ ~At(r, "joined") /\ ~At(r, "nested")
BY DEF LoginInv, JoinersOwn, Joined, Guarded

\* What a step may do to the row of a connection that is only refreshed under
\* guard: nothing, trade its token for one of the same grant, or log in.
RowChange(c) ==
  \/ stored'[c] = stored[c] /\ logins'[c] = logins[c]
  \/ stored'[c].grant = stored[c].grant /\ logins'[c] = logins[c]
  \/ stored'[c].grant = logins[c] + 1 /\ logins'[c] = logins[c] + 1

LEMMA RowChanges ==
  ASSUME LoginInv, [Next]_vars, NEW c \in Connections, Guarded(c)
  PROVE  RowChange(c)
<1>0. /\ stored \in [Connections -> Token] /\ logins \in [Connections -> 1..MaxLogins]
      /\ call \in [Refreshes -> Call]
  BY DEF LoginInv, LaneInv, TypeOK
<1>1. ASSUME NEW r \in Refreshes, AnswerOf(r) PROVE RowChange(c)
  <2>1. PICK a \in Reply : Answered(r, a)
    BY <1>1, AnswerTypes DEF LoginInv, LaneInv
  <2>2. logins' = logins
    BY <2>1 DEF Answered
  <2>3. CASE ConnOf[r] = c
    BY <2>1, <2>2, <2>3, NobodyJoins DEF Answered, Overwritten, RowChange
  <2>4. CASE ConnOf[r] # c
    BY <1>0, <2>1, <2>2, <2>4 DEF Answered, Overwritten, RowChange
  <2> QED  BY <2>3, <2>4
<1>2. ASSUME NEW r \in Refreshes, FinishProactive(r) PROVE RowChange(c)
  <2>1. ConnOf[r] # c
    BY <1>2 DEF FinishProactive, Guarded
  <2> QED  BY <1>0, <1>2, <2>1 DEF FinishProactive, Overwritten, RowChange
<1>3. ASSUME NEW r \in Refreshes, Commit(r) PROVE RowChange(c)
  <2>1. logins' = logins /\ stored' = Committed(r)
    BY <1>3 DEF Commit
  <2>2. CASE stored'[c] = stored[c]
    BY <2>1, <2>2 DEF RowChange
  <2>3. CASE stored'[c] # stored[c]
    <3>1. ConnOf[r] = c /\ call[r].reply.kind = "fresh" /\ stored[c] = call[r].seen
          /\ stored'[c] = call[r].reply.token
      BY <1>0, <2>1, <2>3 DEF Committed
    <3>2. SameGrant(call[r].reply, call[r].seen)
      BY <3>1 DEF LoginInv, KeepsGrant
    <3> QED  BY <2>1, <3>1, <3>2 DEF SameGrant, RowChange
  <2> QED  BY <2>2, <2>3
<1>4. ASSUME NEW d \in Connections, Reconnect(d) PROVE RowChange(c)
  BY <1>0, <1>4 DEF Reconnect, FirstToken, RowChange
<1>5. CASE stored' = stored /\ logins' = logins
  BY <1>5 DEF RowChange
<1>6. ASSUME NEW r \in Refreshes,
             Read(r) \/ (Step(r) /\ ~AnswerOf(r) /\ ~FinishProactive(r) /\ ~Commit(r))
      PROVE  stored' = stored /\ logins' = logins
  BY <1>6 DEF Read, Step, AnswerOf, StartGuarded, StartProactive, JoinInside, Reuse, Post,
              Release, LookInto, Superseded, Unchanged, Pin
<1>7. ASSUME (\E e \in recent : ResultExpires(e)) \/ (\E d \in Connections : LockExpires(d))
             \/ UNCHANGED vars
      PROVE  stored' = stored /\ logins' = logins
  BY <1>7 DEF ResultExpires, LockExpires, vars
<1> QED  BY <1>1, <1>2, <1>3, <1>4, <1>5, <1>6, <1>7 DEF Next

LEMMA CountedStep == LoginInv /\ [Next]_vars => LoginsCounted' /\ LoginStands
<1> SUFFICES ASSUME LoginInv, [Next]_vars, NEW c \in Connections, Guarded(c)
             PROVE  stored'[c].grant <= logins'[c] /\ stored'[c].grant >= stored[c].grant
  BY DEF LoginsCounted, LoginStands, Guarded
<1>1. stored[c].grant \in Nat /\ logins[c] \in Nat /\ stored[c].grant <= logins[c]
  BY DEF LoginInv, LaneInv, TypeOK, LoginsCounted, Token
<1> QED  BY <1>1, RowChanges DEF RowChange

\* How a step of r changes the calls that joined a lock: it may join one itself,
\* from the outside or inside the lane; of the others none joins.
CallChange(r, q) ==
  /\ At(q, "idle")' => call'[q] = call[q]
  /\ At(q, "posting") /\ q # r => At(q, "posting")'
  /\ At(q, "joined")' => \/ At(q, "joined") /\ call'[q].leader = call[q].leader
                         \/ StartProactive(q) /\ lock[ConnOf[q]] # NoOne /\ call'[q].leader = lock[ConnOf[q]]
  /\ At(q, "nested")' => \/ At(q, "nested") /\ call'[q].leader = call[q].leader
                         \/ JoinInside(q) /\ call'[q].leader = lock[ConnOf[q]]

LEMMA CallChanges ==
  ASSUME LoginInv, NEW r \in Refreshes, Read(r) \/ Step(r), NEW q \in Refreshes
  PROVE  CallChange(r, q)
<1>0. call \in [Refreshes -> Call]
  BY DEF LoginInv, LaneInv, TypeOK
<1>1. CASE Read(r)
  BY <1>0, <1>1 DEF Read, CallChange, At, Call
<1>2. CASE StartGuarded(r)
  BY <1>0, <1>2 DEF StartGuarded, Await, Queue, CallChange, At, Call
<1>3. CASE StartProactive(r)
  <2>1. CASE q # r
    BY <1>0, <1>3, <2>1 DEF StartProactive, Await, Queue, CallChange, At
  <2>2. CASE q = r /\ lock[ConnOf[r]] # NoOne
    <3>1. call' = [call EXCEPT ![r].at = "joined", ![r].leader = lock[ConnOf[r]]]
      BY <1>3, <2>2 DEF StartProactive, Await
    <3>2. call'[q].at = "joined" /\ call'[q].leader = lock[ConnOf[q]]
      BY <1>0, <3>1, <2>2 DEF Call
    <3> QED  BY <1>3, <2>2, <3>2 DEF CallChange, At
  <2>3. CASE q = r /\ lock[ConnOf[r]] = NoOne
    BY <1>0, <1>3, <2>3 DEF StartProactive, Queue, CallChange, At, Call
  <2> QED  BY <2>1, <2>2, <2>3
<1>4. CASE JoinInside(r)
  <2>1. CASE q # r
    BY <1>0, <1>4, <2>1 DEF JoinInside, Await, CallChange, At
  <2>2. CASE q = r
    <3>1. call'[q].at = "nested" /\ call'[q].leader = lock[ConnOf[q]]
      BY <1>0, <1>4, <2>2 DEF JoinInside, Await, Call
    <3> QED  BY <1>4, <2>2, <3>1 DEF CallChange, At
  <2> QED  BY <2>1, <2>2
<1>5. CASE Reuse(r)
  BY <1>0, <1>5 DEF Reuse, CallChange, At, Call
<1>6. CASE Post(r)
  BY <1>0, <1>6 DEF Post, CallChange, At, Call
<1>7. CASE AnswerOf(r)
  <2>1. PICK a \in Reply : Answered(r, a)
    BY <1>7, AnswerTypes DEF LoginInv, LaneInv
  <2>2. CASE q = r
    <3>1. call'[q].at = "settling"
      BY <1>0, <2>1, <2>2 DEF Answered, Shared, Call
    <3> QED  BY <2>2, <3>1 DEF CallChange, At
  <2>3. CASE q # r /\ r \in Proactive
    BY <1>0, <2>1, <2>3 DEF Answered, CallChange, At
  <2>4. CASE q # r /\ r \notin Proactive
    <3>1. \/ call'[q] = Over /\ q \in Joined(r, "joined")
          \/ call'[q].at = "settling" /\ q \in Joined(r, "nested")
          \/ call'[q] = call[q]
      <4>1. call'[q] = IF q \in Joined(r, "joined") THEN Over
                       ELSE IF q \in Joined(r, "nested")
                         THEN [call[q] EXCEPT !.at = "settling", !.reply = a, !.leader = NoOne]
                         ELSE call[q]
        BY <2>1, <2>4 DEF Answered, Shared
      <4>2. [call[q] EXCEPT !.at = "settling", !.reply = a, !.leader = NoOne].at = "settling"
        BY <1>0 DEF Call
      <4> QED  BY <4>1, <4>2
    <3> QED  BY <2>4, <3>1 DEF CallChange, At, Over, Idle, Joined
  <2> QED  BY <2>2, <2>3, <2>4
<1>8. CASE Release(r)
  BY <1>0, <1>8 DEF Release, CallChange, At, Call
<1>9. CASE FinishProactive(r)
  <2>1. \/ call'[q] = Over /\ (q = r \/ q \in Joined(r, "joined"))
        \/ call'[q].at = "settling" /\ q # r /\ q \in Joined(r, "nested")
        \/ call'[q] = call[q]
    BY <1>0, <1>9 DEF FinishProactive, Shared, Call
  <2> QED  BY <2>1 DEF CallChange, At, Over, Idle, Joined
<1>10. CASE Commit(r) \/ Superseded(r) \/ Pin(r)
  <2>1. \/ call'[q] = Over /\ (q = r \/ q \in Joined(r, "waiting"))
        \/ call'[q] = call[q]
    BY <1>10 DEF Commit, Superseded, Pin, Settle
  <2> QED  BY <2>1 DEF CallChange, At, Over, Idle, Joined
<1>11. CASE LookInto(r) \/ Unchanged(r)
  BY <1>0, <1>11 DEF LookInto, Unchanged, CallChange, At, Call
<1> QED
  BY <1>1, <1>2, <1>3, <1>4, <1>5, <1>6, <1>7, <1>8, <1>9, <1>10, <1>11 DEF Step, AnswerOf

LEMMA JoinersStep ==
  ASSUME LoginInv, NEW r \in Refreshes, Read(r) \/ Step(r)
  PROVE  JoinersOwn' /\ IdleIsNew'
<1>1. \A q \in Refreshes : ConnOf[q] \in Connections
  OBVIOUS
<1>2. ASSUME NEW q \in Refreshes, At(q, "joined")'
      PROVE  q \in Proactive /\ ConnOf[call'[q].leader] = ConnOf[q]
  <2>1. CASE At(q, "joined") /\ call'[q].leader = call[q].leader
    BY <2>1 DEF LoginInv, JoinersOwn
  <2>2. CASE StartProactive(q) /\ lock[ConnOf[q]] # NoOne /\ call'[q].leader = lock[ConnOf[q]]
    BY <1>1, <2>2 DEF StartProactive, LoginInv, LockOwner
  <2> QED  BY <1>2, <2>1, <2>2, CallChanges DEF CallChange
<1>3. ASSUME NEW q \in Refreshes, At(q, "nested")'
      PROVE  call'[q].leader \in Proactive /\ ConnOf[call'[q].leader] = ConnOf[q]
  <2>1. CASE At(q, "nested") /\ call'[q].leader = call[q].leader
    BY <2>1 DEF LoginInv, JoinersOwn
  <2>2. CASE JoinInside(q) /\ call'[q].leader = lock[ConnOf[q]]
    <3>1. Holds(q) /\ At(q, "queued") /\ lock[ConnOf[q]] # NoOne
      BY <2>2 DEF JoinInside
    <3>2. lock[ConnOf[q]] \in Refreshes
      BY <1>1, <3>1 DEF LoginInv, LaneInv, TypeOK
    <3>3. ~At(lock[ConnOf[q]], "posting")
      BY <3>1, <3>2 DEF LoginInv, LaneInv, InsideHolds, Holds, At
    <3> QED  BY <1>1, <2>2, <3>1, <3>3 DEF LoginInv, LockOwner
  <2> QED  BY <1>3, <2>1, <2>2, CallChanges DEF CallChange
<1>4. IdleIsNew'
  <2>1. ASSUME NEW q \in Refreshes, At(q, "idle")' PROVE call'[q] = Idle
    BY <2>1, CallChanges DEF CallChange, At, LoginInv, IdleIsNew
  <2> QED  BY <2>1 DEF IdleIsNew, At
<1> QED  BY <1>2, <1>3, <1>4 DEF JoinersOwn, At

\* What a step of r does to a lock: leave it, unless it is r's answer that was
\* posted under it; free it; or take it.
LockChange(r, c) ==
  \/ lock'[c] = lock[c] /\ (lock[c] = r => r \in Proactive \/ ~At(r, "posting"))
  \/ lock'[c] = NoOne
  \/ lock'[c] = r /\ ConnOf[r] = c /\ (r \in Proactive \/ At(r, "posting")')

LEMMA LockChanges ==
  ASSUME LoginInv, NEW r \in Refreshes, Read(r) \/ Step(r), NEW c \in Connections
  PROVE  LockChange(r, c)
<1>0. call \in [Refreshes -> Call] /\ lock \in [Connections -> Refreshes \cup {NoOne}]
  BY DEF LoginInv, LaneInv, TypeOK
<1>1. CASE StartProactive(r)
  BY <1>0, <1>1 DEF StartProactive, LockChange, At
<1>2. CASE Post(r)
  <2>1. At(r, "posting")' /\ ~At(r, "posting")
    BY <1>0, <1>2 DEF Post, HasTurn, At, Call
  <2> QED  BY <1>0, <1>2, <2>1 DEF Post, LockChange
<1>3. CASE AnswerOf(r)
  <2>1. PICK a \in Reply : Answered(r, a)
    BY <1>3, AnswerTypes DEF LoginInv, LaneInv
  <2> QED  BY <2>1 DEF Answered, Unlocked, LockChange
<1>4. CASE FinishProactive(r)
  BY <1>4 DEF FinishProactive, Unlocked, LockChange
<1>5. CASE \/ Read(r) \/ StartGuarded(r) \/ JoinInside(r) \/ Reuse(r) \/ Release(r)
           \/ Commit(r) \/ LookInto(r) \/ Superseded(r) \/ Unchanged(r) \/ Pin(r)
  <2>1. lock' = lock
    BY <1>5 DEF Read, StartGuarded, JoinInside, Reuse, Release, Commit, LookInto, Superseded,
                Unchanged, Pin
  <2>2. ~At(r, "posting")
    BY <1>5 DEF Read, StartGuarded, JoinInside, Reuse, HasTurn, Release, Commit, LookInto,
                Superseded, Unchanged, Pin, At
  <2> QED  BY <2>1, <2>2 DEF LockChange
<1> QED  BY <1>1, <1>2, <1>3, <1>4, <1>5 DEF Step, AnswerOf

LEMMA LockStep ==
  ASSUME LoginInv, NEW r \in Refreshes, Read(r) \/ Step(r)
  PROVE  LockOwner'
<1> SUFFICES ASSUME NEW c \in Connections, lock'[c] # NoOne
             PROVE  ConnOf[lock'[c]] = c
                    /\ (lock'[c] \in Proactive \/ call'[lock'[c]].at = "posting")
  BY DEF LockOwner, At
<1>1. CASE lock'[c] = lock[c] /\ (lock[c] = r => r \in Proactive \/ ~At(r, "posting"))
  <2>1. lock[c] \in Refreshes /\ ConnOf[lock[c]] = c
        /\ (lock[c] \in Proactive \/ At(lock[c], "posting"))
    BY <1>1 DEF LoginInv, LaneInv, TypeOK, LockOwner
  <2>2. At(lock[c], "posting") /\ lock[c] # r => call'[lock[c]].at = "posting"
    BY <2>1, CallChanges DEF CallChange, At
  <2> QED  BY <1>1, <2>1, <2>2
<1>2. CASE lock'[c] = r /\ ConnOf[r] = c /\ (r \in Proactive \/ At(r, "posting")')
  BY <1>2 DEF At
<1> QED  BY <1>1, <1>2, LockChanges DEF LockChange

LEMMA AnswerKeepsGrant ==
  ASSUME LoginInv, NEW r \in Refreshes, AnswerOf(r)
  PROVE  \E a \in Reply : Answered(r, a) /\ SameGrant(a, call[r].seen)
<1>1. call[r].seen \in Token
  BY DEF LoginInv, LaneInv, TypeOK, Call
<1>2. SameGrant(Fresh(Rotated(call[r].seen)), call[r].seen) /\ Fresh(Rotated(call[r].seen)) \in Reply
  BY <1>1, TokenTypes DEF SameGrant, Fresh
<1>3. SameGrant(Failed, call[r].seen) /\ SameGrant(Dead, call[r].seen)
  BY DEF SameGrant, Failed, Dead
<1> QED  BY <1>2, <1>3, TokenTypes DEF AnswerOf, Granted, AnswerLost, Unavailable, Refused

LEMMA RecentStep ==
  ASSUME LoginInv, NEW r \in Refreshes, Read(r) \/ Step(r)
  PROVE  \A e \in recent' : SameGrant(e.reply, e.spent)
<1>0. \A e \in recent : SameGrant(e.reply, e.spent)
  BY DEF LoginInv, KeepsGrant
<1>1. CASE AnswerOf(r)
  <2>1. PICK a \in Reply : Answered(r, a) /\ SameGrant(a, call[r].seen)
    BY <1>1, AnswerKeepsGrant
  <2> QED  BY <1>0, <2>1 DEF Answered, Kept
<1>2. CASE ~AnswerOf(r)
  <2>1. recent' = recent
    BY <1>2 DEF Read, Step, AnswerOf, StartGuarded, StartProactive, JoinInside, Reuse, Post,
                Release, FinishProactive, Commit, LookInto, Superseded, Unchanged, Pin
  <2> QED  BY <1>0, <2>1
<1> QED  BY <1>1, <1>2

\* Of the calls on a connection that is only refreshed under guard, r's step
\* changes what was read and answered for r alone, or ends the call.
LEMMA GuardedCalls ==
  ASSUME LoginInv, NEW r \in Refreshes, Read(r) \/ Step(r),
         NEW q \in Refreshes, Guarded(ConnOf[q])
  PROVE  SameGrant(call'[q].reply, call'[q].seen)
<1>0. call \in [Refreshes -> Call]
  BY DEF LoginInv, LaneInv, TypeOK
<1>1. SameGrant(call[q].reply, call[q].seen)
  BY DEF LoginInv, KeepsGrant
<1>2. SameGrant(Over.reply, Over.seen) /\ SameGrant(Idle.reply, Idle.seen)
  BY DEF Over, Idle, Nothing, SameGrant
<1>3. Joined(r, "nested") \cap {q} = {} /\ Joined(r, "joined") \cap {q} = {}
  BY NobodyJoins DEF Joined
<1>4. CASE Read(r)
  <2>1. q = r => call'[q].reply = Idle.reply
    BY <1>0, <1>4 DEF Read, LoginInv, IdleIsNew, At, Call, Idle
  <2>2. q # r => call'[q] = call[q]
    BY <1>0, <1>4 DEF Read
  <2> QED  BY <1>1, <2>1, <2>2 DEF Idle, Nothing, SameGrant
<1>5. CASE Reuse(r)
  <2>1. PICK e \in Hits(r) : call' = [call EXCEPT ![r].at = "settling", ![r].reply = e.reply]
    BY <1>5 DEF Reuse
  <2>2. SameGrant(e.reply, call[r].seen)
    BY <2>1 DEF Hits, LoginInv, KeepsGrant
  <2>3. q = r => call'[q].reply = e.reply /\ call'[q].seen = call[r].seen
    BY <1>0, <2>1 DEF Call
  <2>4. q # r => call'[q] = call[q]
    BY <1>0, <2>1
  <2> QED  BY <1>1, <2>2, <2>3, <2>4
<1>6. CASE AnswerOf(r)
  <2>1. PICK a \in Reply : Answered(r, a) /\ SameGrant(a, call[r].seen)
    BY <1>6, AnswerKeepsGrant
  <2>2. q = r => call'[q].reply = a /\ call'[q].seen = call[r].seen
    <3>1. q = r => call'[q] = [call[r] EXCEPT !.at = "settling", !.reply = a]
      BY <1>0, <2>1 DEF Answered, Shared
    <3> QED  BY <1>0, <3>1 DEF Call
  <2>3. q # r => call'[q] = call[q]
    BY <1>0, <1>3, <2>1 DEF Answered, Shared
  <2> QED  BY <1>1, <2>1, <2>2, <2>3
<1>7. CASE FinishProactive(r)
  <2>1. call'[q] = Over \/ call'[q] = call[q]
    BY <1>3, <1>7 DEF FinishProactive, Shared
  <2> QED  BY <1>1, <1>2, <2>1
<1>8. CASE Commit(r) \/ Superseded(r) \/ Pin(r)
  <2>1. call'[q] = Over \/ call'[q] = call[q]
    BY <1>8 DEF Commit, Superseded, Pin, Settle
  <2> QED  BY <1>1, <1>2, <2>1
<1>9. CASE StartGuarded(r) \/ StartProactive(r) \/ JoinInside(r) \/ Post(r) \/ Release(r)
           \/ LookInto(r) \/ Unchanged(r)
  <2>1. call'[q].reply = call[q].reply /\ call'[q].seen = call[q].seen
    BY <1>0, <1>9 DEF StartGuarded, StartProactive, JoinInside, Post, Release, LookInto,
                      Unchanged, Await, Queue, Call
  <2> QED  BY <1>1, <2>1
<1> QED  BY <1>4, <1>5, <1>6, <1>7, <1>8, <1>9 DEF Step, AnswerOf

LEMMA LoginStep == LoginInv /\ [Next]_vars => LoginInv'
<1> SUFFICES ASSUME LoginInv, [Next]_vars PROVE LoginInv'
  OBVIOUS
<1>1. LaneInv' /\ LoginsCounted'
  BY LaneStep, CountedStep DEF LoginInv
<1>2. ASSUME NEW r \in Refreshes, Read(r) \/ Step(r)
      PROVE  IdleIsNew' /\ LockOwner' /\ JoinersOwn' /\ KeepsGrant'
  <2>1. \A q \in Refreshes : Guarded(ConnOf[q]) => SameGrant(call'[q].reply, call'[q].seen)
    BY <1>2, GuardedCalls
  <2>2. KeepsGrant'
    BY <1>2, <2>1, RecentStep DEF KeepsGrant, SameGrant, Guarded
  <2> QED  BY <1>2, <2>2, JoinersStep, LockStep
<1>3. ASSUME call' = call, recent' \subseteq recent,
             \A c \in Connections : lock'[c] \in {lock[c], NoOne}
      PROVE  IdleIsNew' /\ LockOwner' /\ JoinersOwn' /\ KeepsGrant'
  <2>1. IdleIsNew' /\ JoinersOwn'
    BY <1>3 DEF LoginInv, IdleIsNew, JoinersOwn, At
  <2>2. LockOwner'
    BY <1>3 DEF LoginInv, LockOwner, At
  <2>3. KeepsGrant'
    BY <1>3 DEF LoginInv, KeepsGrant, SameGrant, Guarded
  <2> QED  BY <2>1, <2>2, <2>3
<1>4. CASE \E e \in recent : ResultExpires(e)
  BY <1>1, <1>3, <1>4 DEF ResultExpires, LoginInv
<1>5. ASSUME NEW c \in Connections, LockExpires(c) \/ Reconnect(c) PROVE LoginInv'
  <2>1. \A d \in Connections : lock'[d] \in {lock[d], NoOne}
    BY <1>5 DEF LockExpires, Reconnect, LoginInv, LaneInv, TypeOK
  <2> QED  BY <1>1, <1>3, <1>5, <2>1 DEF LockExpires, Reconnect, LoginInv
<1>6. CASE UNCHANGED vars
  BY <1>1, <1>3, <1>6 DEF vars, LoginInv
<1> QED  BY <1>1, <1>2, <1>4, <1>5, <1>6 DEF Next, LoginInv

\* The inductive invariant of the login: nobody who is given another's answer is
\* on a connection that is only refreshed under guard, and there every token at
\* hand is of the grant of the token that was read.
THEOREM LoginInvariant == Spec => []LoginInv
BY LoginInit, LoginStep, PTL DEF Spec

\* The compare-and-swap of guarded refreshes never undoes a login, however late
\* the answer to an older token is: whatever the number of refreshes and logins.
THEOREM LaneLoginKept == Spec => LoginKept
<1>1. LoginInv /\ [Next]_vars => [LoginStands]_vars
  BY CountedStep
<1> QED  BY <1>1, LoginInvariant, PTL DEF Spec, LoginKept

-----------------------------------------------------------------------------
\* A refresh is under way: it has read its row and is not over.
InHand(r) == ~At(r, "idle") /\ ~At(r, "done")
IsFresh(a) == a.kind = "fresh"

\* The answer a that the token endpoint gives r.
AnswerIs(r, a) ==
  /\ Answered(r, a)
  /\ \/ Granted(r) /\ a = Fresh(Rotated(call[r].seen))
     \/ (AnswerLost(r) \/ Unavailable(r)) /\ a = Failed
     \/ Refused(r) /\ a = Dead

LEMMA AnswerCases ==
  ASSUME LoginInv, NEW r \in Refreshes, AnswerOf(r)
  PROVE  \E a \in Reply : AnswerIs(r, a)
<1>1. call[r].seen \in Token
  BY DEF LoginInv, LaneInv, TypeOK, Call
<1>2. Failed \in Reply /\ Dead \in Reply /\ Fresh(Rotated(call[r].seen)) \in Reply
  BY <1>1, TokenTypes
<1> QED  BY <1>2 DEF AnswerOf, AnswerIs, Granted, AnswerLost, Unavailable, Refused

\* How a step of r leaves another call q, or r itself: it is left alone, is over,
\* reads its row, moves on with what it has, or is given an answer - by a kept
\* result, by the token endpoint, or by the proactive refresh whose lock it joined.
Given(q, a) ==
  /\ InHand(q) /\ ~(call[q].at \in {"settling", "released"})
  /\ call'[q].at = "settling" /\ call'[q].reply = a /\ call'[q].seen = call[q].seen
Ended(r, q) ==
  /\ call'[q] = Over
  /\ call[q].at \in {"settling", "released"} => q = r /\ (FinishProactive(r) \/ Commit(r))
Begun(q) ==
  /\ Read(q) /\ call'[q].at = "read"
  /\ call'[q].seen = stored[ConnOf[q]] /\ call'[q].reply = Nothing
Moved(q) ==
  /\ InHand(q) /\ call'[q].seen = call[q].seen /\ call'[q].reply = call[q].reply
  /\ call'[q].at \notin {"idle", "settling", "done"}
  /\ call'[q].at = "posting" => Hits(q) = {} /\ Post(q)
  /\ call'[q].at = "released" => At(q, "settling")
  /\ At(q, "settling") => call'[q].at = "released"
  /\ At(q, "released") => call[q].reply.kind = "dead"
  /\ call'[q].at \in {"reconciling", "pinning"} => call[q].reply.kind = "dead" \/ At(q, "reconciling")
CallStep(r, q) ==
  \/ call'[q] = call[q] /\ (q = r => ~At(r, "posting"))
  \/ Ended(r, q)
  \/ q = r /\ Begun(r)
  \/ q = r /\ Moved(r)
  \/ q = r /\ Reuse(r) /\ \E e \in Hits(r) : Given(r, e.reply)
  \/ q = r /\ \E a \in Reply : AnswerIs(r, a) /\ Given(r, a)
  \/ q # r /\ FinishProactive(r) /\ ConnOf[q] = ConnOf[r] /\ Given(q, call[r].reply)

LEMMA CallSteps ==
  ASSUME LoginInv, NEW r \in Refreshes, Read(r) \/ Step(r), NEW q \in Refreshes
  PROVE  CallStep(r, q)
<1>0. /\ call \in [Refreshes -> Call] /\ call[r] \in Call /\ call[q] \in Call
      /\ NoOne \notin Refreshes
  BY DEF LoginInv, LaneInv, TypeOK
<1>1. CASE Read(r)
  <2>1. CASE q = r
    <3>1. call'[r].at = "read" /\ call'[r].seen = stored[ConnOf[r]] /\ call'[r].reply = call[r].reply
      BY <1>0, <1>1 DEF Read, Call
    <3>2. call[r].reply = Nothing
      BY <1>1 DEF Read, LoginInv, IdleIsNew, At, Idle
    <3> QED  BY <1>1, <2>1, <3>1, <3>2 DEF CallStep, Begun
  <2> QED  BY <1>0, <1>1, <2>1 DEF Read, CallStep
<1>2. CASE StartGuarded(r) \/ StartProactive(r) \/ JoinInside(r)
  <2>1. CASE q = r
    <3>1. /\ call'[r].seen = call[r].seen /\ call'[r].reply = call[r].reply
          /\ call'[r].at \in {"waiting", "joined", "queued", "nested"}
      BY <1>0, <1>2 DEF StartGuarded, StartProactive, JoinInside, Await, Queue, Call
    <3>2. At(r, "read") \/ At(r, "queued")
      BY <1>2 DEF StartGuarded, StartProactive, JoinInside
    <3> QED  BY <2>1, <3>1, <3>2 DEF CallStep, Moved, InHand, At
  <2> QED  BY <1>0, <1>2, <2>1 DEF StartGuarded, StartProactive, JoinInside, Await, Queue, CallStep
<1>3. CASE Reuse(r)
  <2>1. PICK e \in Hits(r) : call' = [call EXCEPT ![r].at = "settling", ![r].reply = e.reply]
    BY <1>3 DEF Reuse
  <2>2. CASE q = r
    <3>1. call'[r].at = "settling" /\ call'[r].reply = e.reply /\ call'[r].seen = call[r].seen
      BY <1>0, <2>1 DEF Call
    <3>2. At(r, "queued")
      BY <1>3 DEF Reuse, HasTurn
    <3> QED  BY <1>3, <2>2, <3>1, <3>2 DEF CallStep, Given, InHand, At
  <2> QED  BY <1>0, <2>1, <2>2 DEF CallStep
<1>4. CASE Post(r)
  <2>1. CASE q = r
    <3>1. /\ call'[r].seen = call[r].seen /\ call'[r].reply = call[r].reply
          /\ call'[r].at = "posting" /\ Hits(r) = {} /\ At(r, "queued")
      BY <1>0, <1>4 DEF Post, HasTurn, Call
    <3> QED  BY <1>4, <2>1, <3>1 DEF CallStep, Moved, InHand, At
  <2> QED  BY <1>0, <1>4, <2>1 DEF Post, CallStep
<1>5. CASE AnswerOf(r)
  <2>0. PICK a \in Reply : AnswerIs(r, a)
    BY <1>5, AnswerCases
  <2>1. Answered(r, a)
    BY <2>0 DEF AnswerIs
  <2>2. CASE q = r
    <3>1. call'[r] = [call[r] EXCEPT !.at = "settling", !.reply = a] /\ At(r, "posting")
      BY <1>0, <2>1 DEF Answered, Shared
    <3>2. Given(r, a)
      BY <1>0, <3>1 DEF Given, InHand, At, Call
    <3> QED  BY <2>0, <2>2, <3>2 DEF CallStep
  <2>3. CASE q # r /\ r \in Proactive
    BY <1>0, <2>1, <2>3 DEF Answered, CallStep
  <2>4. CASE q # r /\ r \notin Proactive
    <3>1. q \notin Joined(r, "nested")
      BY <2>4 DEF Joined, LoginInv, JoinersOwn
    <3>2. call'[q] = IF q \in Joined(r, "joined") THEN Over ELSE call[q]
      BY <2>1, <2>4, <3>1 DEF Answered, Shared
    <3> QED  BY <2>4, <3>2 DEF CallStep, Ended, Joined, At
  <2> QED  BY <2>2, <2>3, <2>4
<1>6. CASE Release(r)
  <2>1. CASE q = r
    <3>1. /\ call'[r].seen = call[r].seen /\ call'[r].reply = call[r].reply
          /\ call'[r].at = "released" /\ At(r, "settling")
      BY <1>0, <1>6 DEF Release, Call
    <3> QED  BY <2>1, <3>1 DEF CallStep, Moved, InHand, At
  <2> QED  BY <1>0, <1>6, <2>1 DEF Release, CallStep
<1>7. CASE FinishProactive(r)
  <2>1. CASE q = r
    BY <1>0, <1>7, <2>1 DEF FinishProactive, Shared, CallStep, Ended
  <2>2. CASE q # r /\ q \in Joined(r, "joined")
    BY <1>7, <2>2 DEF FinishProactive, Shared, CallStep, Ended, Joined, At
  <2>3. CASE q # r /\ q \in Joined(r, "nested")
    <3>1. call'[q] = [call[q] EXCEPT !.at = "settling", !.reply = call[r].reply, !.leader = NoOne]
      BY <1>7, <2>3 DEF FinishProactive, Shared, Joined, At
    <3>2. At(q, "nested") /\ ConnOf[q] = ConnOf[r]
      BY <2>3 DEF Joined, LoginInv, JoinersOwn
    <3>3. Given(q, call[r].reply)
      BY <1>0, <3>1, <3>2 DEF Given, InHand, At, Call
    <3> QED  BY <1>7, <2>3, <3>2, <3>3 DEF CallStep
  <2>4. CASE q # r /\ q \notin Joined(r, "joined") /\ q \notin Joined(r, "nested")
    BY <1>7, <2>4 DEF FinishProactive, Shared, CallStep
  <2> QED  BY <2>1, <2>2, <2>3, <2>4
<1>8. CASE Commit(r) \/ Superseded(r) \/ Pin(r)
  <2>1. call'[q] = IF q = r \/ q \in Joined(r, "waiting") THEN Over ELSE call[q]
    BY <1>8 DEF Commit, Superseded, Pin, Settle
  <2>2. q = r /\ call[r].at \in {"settling", "released"} => Commit(r)
    BY <1>8 DEF Superseded, Pin, At
  <2> QED  BY <2>1, <2>2 DEF CallStep, Ended, Joined, At
<1>9. CASE LookInto(r) \/ Unchanged(r)
  <2>1. CASE q = r
    <3>1. /\ call'[r].seen = call[r].seen /\ call'[r].reply = call[r].reply
          /\ call'[r].at \in {"reconciling", "pinning"}
      BY <1>0, <1>9 DEF LookInto, Unchanged, Call
    <3>2. (At(r, "released") /\ call[r].reply.kind = "dead") \/ At(r, "reconciling")
      BY <1>9 DEF LookInto, Unchanged
    <3> QED  BY <2>1, <3>1, <3>2 DEF CallStep, Moved, InHand, At
  <2> QED  BY <1>0, <1>9, <2>1 DEF LookInto, Unchanged, CallStep
<1> QED
  BY <1>1, <1>2, <1>3, <1>4, <1>5, <1>6, <1>7, <1>8, <1>9 DEF Step, AnswerOf

\* What a step may do to the row of any connection: nothing, write an answer that
\* one of its own refreshes bought, or log in.
RowWrite(c) ==
  \/ stored'[c] = stored[c] /\ logins'[c] = logins[c]
  \/ /\ logins'[c] = logins[c]
     /\ \E r \in Refreshes : ConnOf[r] = c /\ At(r, "released") /\ IsFresh(call[r].reply)
                             /\ stored'[c] = call[r].reply.token /\ accepted' = accepted
                             /\ (FinishProactive(r) \/ (Commit(r) /\ stored[c] = call[r].seen))
  \/ /\ logins'[c] = logins[c]
     /\ \E r \in Refreshes : ConnOf[r] = c /\ Granted(r) /\ stored'[c] = Rotated(call[r].seen)
                             /\ r \notin Proactive /\ Joined(r, "joined") # {}
  \/ /\ logins'[c] = logins[c] + 1 /\ stored'[c] = FirstToken(logins[c] + 1)
     /\ accepted'[c] = accepted[c] \cup {stored'[c]} /\ pinned'[c] = FALSE

LEMMA RowWrites ==
  ASSUME LoginInv, [Next]_vars, NEW c \in Connections
  PROVE  RowWrite(c)
<1>0. /\ stored \in [Connections -> Token] /\ logins \in [Connections -> 1..MaxLogins]
      /\ call \in [Refreshes -> Call] /\ accepted \in [Connections -> SUBSET Token]
      /\ pinned \in [Connections -> BOOLEAN]
  BY DEF LoginInv, LaneInv, TypeOK
<1>1. ASSUME NEW r \in Refreshes, AnswerOf(r) PROVE RowWrite(c)
  <2>1. CASE Granted(r)
    <3>1. Answered(r, Fresh(Rotated(call[r].seen)))
      BY <2>1 DEF Granted
    <3>2. CASE r \in Proactive \/ ConnOf[r] # c \/ Joined(r, "joined") = {}
      <4>1. stored'[c] = stored[c] /\ logins' = logins
        BY <1>0, <3>1, <3>2 DEF Answered, Overwritten
      <4> QED  BY <4>1 DEF RowWrite
    <3>3. CASE r \notin Proactive /\ ConnOf[r] = c /\ Joined(r, "joined") # {}
      <4>1. stored'[c] = Rotated(call[r].seen) /\ logins' = logins
        BY <1>0, <3>1, <3>3 DEF Answered, Overwritten, Fresh
      <4> QED  BY <2>1, <3>3, <4>1 DEF RowWrite
    <3> QED  BY <3>2, <3>3
  <2>2. CASE AnswerLost(r) \/ Unavailable(r) \/ Refused(r)
    <3>1. Answered(r, Failed) \/ Answered(r, Dead)
      BY <2>2 DEF AnswerLost, Unavailable, Refused
    <3>2. stored' = stored /\ logins' = logins
      BY <3>1 DEF Answered, Overwritten, Failed, Dead
    <3> QED  BY <3>2 DEF RowWrite
  <2> QED  BY <1>1, <2>1, <2>2 DEF AnswerOf
<1>2. ASSUME NEW r \in Refreshes, FinishProactive(r) PROVE RowWrite(c)
  <2>1. At(r, "released") /\ logins' = logins /\ accepted' = accepted
        /\ stored' = Overwritten({r}, ConnOf[r], call[r].reply)
    BY <1>2 DEF FinishProactive
  <2>2. CASE ConnOf[r] = c /\ IsFresh(call[r].reply)
    <3>1. stored'[c] = call[r].reply.token
      BY <1>0, <2>1, <2>2 DEF Overwritten, IsFresh
    <3> QED  BY <1>2, <2>1, <2>2, <3>1 DEF RowWrite
  <2>3. CASE ~(ConnOf[r] = c /\ IsFresh(call[r].reply))
    BY <1>0, <2>1, <2>3 DEF Overwritten, IsFresh, RowWrite
  <2> QED  BY <2>2, <2>3
<1>3. ASSUME NEW r \in Refreshes, Commit(r) PROVE RowWrite(c)
  <2>1. At(r, "released") /\ logins' = logins /\ accepted' = accepted /\ stored' = Committed(r)
    BY <1>3 DEF Commit
  <2>2. CASE ConnOf[r] = c /\ IsFresh(call[r].reply) /\ stored[c] = call[r].seen
    <3>1. stored'[c] = call[r].reply.token
      BY <1>0, <2>1, <2>2 DEF Committed, IsFresh
    <3> QED  BY <1>3, <2>1, <2>2, <3>1 DEF RowWrite
  <2>3. CASE ~(ConnOf[r] = c /\ IsFresh(call[r].reply) /\ stored[c] = call[r].seen)
    BY <1>0, <2>1, <2>3 DEF Committed, IsFresh, RowWrite
  <2> QED  BY <2>2, <2>3
<1>4. ASSUME NEW d \in Connections, Reconnect(d) PROVE RowWrite(c)
  <2>1. CASE d = c
    <3>1. logins[c] + 1 \in Nat
      BY <1>0
    <3> QED  BY <1>0, <1>4, <2>1, <3>1 DEF Reconnect, RowWrite
  <2> QED  BY <1>0, <1>4, <2>1 DEF Reconnect, RowWrite
<1>5. CASE stored' = stored /\ logins' = logins
  BY <1>5 DEF RowWrite
<1>6. ASSUME NEW r \in Refreshes,
             Read(r) \/ (Step(r) /\ ~AnswerOf(r) /\ ~FinishProactive(r) /\ ~Commit(r))
      PROVE  stored' = stored /\ logins' = logins
  BY <1>6 DEF Read, Step, AnswerOf, StartGuarded, StartProactive, JoinInside, Reuse, Post,
              Release, LookInto, Superseded, Unchanged, Pin
<1>7. ASSUME (\E e \in recent : ResultExpires(e)) \/ (\E d \in Connections : LockExpires(d))
             \/ UNCHANGED vars
      PROVE  stored' = stored /\ logins' = logins
  BY <1>7 DEF ResultExpires, LockExpires, vars
<1> QED  BY <1>1, <1>2, <1>3, <1>4, <1>5, <1>6, <1>7 DEF Next

\* Every token at hand is of a grant that the user has given.
Known(c, t) == t.grant \in 1..logins[c]
GrantsKnown ==
  /\ \A c \in Connections : Known(c, stored[c])
  /\ \A r \in Refreshes : InHand(r) => Known(ConnOf[r], call[r].seen)
  /\ \A r \in Refreshes : IsFresh(call[r].reply) => Known(ConnOf[r], call[r].reply.token)
  /\ \A e \in recent : Known(e.conn, e.spent) /\ (IsFresh(e.reply) => Known(e.conn, e.reply.token))

GrantInv == LoginInv /\ GrantsKnown

LEMMA GrantInit == Init => GrantInv
<1> SUFFICES ASSUME Init PROVE GrantsKnown
  BY LoginInit DEF GrantInv
<1>1. ASSUME NEW r \in Refreshes PROVE ~InHand(r) /\ ~IsFresh(call[r].reply)
  BY DEF Init, InHand, IsFresh, At, Idle, Nothing
<1>2. \A c \in Connections : Known(c, stored[c])
  BY DEF Init, Known, FirstToken
<1> QED  BY <1>1, <1>2 DEF GrantsKnown, Init

\* Logins only grow, so that what is known stays known.
LEMMA KnownStays ==
  ASSUME LoginInv, [Next]_vars, NEW c \in Connections, NEW t, Known(c, t)
  PROVE  /\ t.grant \in 1..logins'[c]
         /\ logins'[c] \in Nat /\ logins'[c] >= 1
<1>1. logins[c] \in 1..MaxLogins
  BY DEF LoginInv, LaneInv, TypeOK
<1>2. logins'[c] = logins[c] \/ logins'[c] = logins[c] + 1
  <2>1. RowWrite(c)
    BY RowWrites
  <2> QED  BY <2>1 DEF RowWrite
<1> QED  BY <1>1, <1>2 DEF Known

\* What a step does to the kept results: it keeps them and may add the answer
\* that it was given.
LEMMA ResultSteps ==
  ASSUME LoginInv, NEW r \in Refreshes, Read(r) \/ Step(r)
  PROVE  \/ recent' = recent
         \/ \E a \in Reply : AnswerIs(r, a)
              /\ recent' = recent \cup {[conn |-> ConnOf[r], spent |-> call[r].seen, reply |-> a]}
<1>1. CASE AnswerOf(r)
  <2>1. PICK a \in Reply : AnswerIs(r, a)
    BY <1>1, AnswerCases
  <2> QED  BY <2>1 DEF AnswerIs, Answered, Kept
<1>2. CASE ~AnswerOf(r)
  BY <1>2 DEF Read, Step, AnswerOf, StartGuarded, StartProactive, JoinInside, Reuse, Post,
              Release, FinishProactive, Commit, LookInto, Superseded, Unchanged, Pin
<1> QED  BY <1>1, <1>2

\* The token that r is given is of a known grant.
LEMMA GivenKnown ==
  ASSUME GrantInv, NEW r \in Refreshes, NEW a \in Reply, AnswerIs(r, a)
  PROVE  /\ Known(ConnOf[r], call[r].seen)
         /\ IsFresh(a) => Known(ConnOf[r], a.token)
<1>1. InHand(r) /\ call[r].seen \in Token
  BY DEF AnswerIs, Answered, InHand, At, GrantInv, LoginInv, LaneInv, TypeOK, Call
<1>2. Known(ConnOf[r], call[r].seen)
  BY <1>1 DEF GrantInv, GrantsKnown
<1>3. CASE a = Fresh(Rotated(call[r].seen))
  BY <1>1, <1>2, <1>3, TokenTypes DEF Fresh, Known
<1>4. CASE a = Failed \/ a = Dead
  BY <1>2, <1>4 DEF Failed, Dead, IsFresh
<1> QED  BY <1>3, <1>4 DEF AnswerIs

LEMMA GrantCalls ==
  ASSUME GrantInv, NEW r \in Refreshes, Read(r) \/ Step(r), NEW q \in Refreshes
  PROVE  /\ InHand(q)' => Known(ConnOf[q], call'[q].seen)
         /\ IsFresh(call'[q].reply) => Known(ConnOf[q], call'[q].reply.token)
<1> DEFINE Goal == /\ InHand(q)' => Known(ConnOf[q], call'[q].seen)
                   /\ IsFresh(call'[q].reply) => Known(ConnOf[q], call'[q].reply.token)
<1>0. /\ InHand(q) => Known(ConnOf[q], call[q].seen)
      /\ IsFresh(call[q].reply) => Known(ConnOf[q], call[q].reply.token)
      /\ ConnOf[q] \in Connections
  BY DEF GrantInv, GrantsKnown
<1>1. CASE call'[q] = call[q]
  BY <1>0, <1>1 DEF InHand, At
<1>2. CASE Ended(r, q)
  <2>1. call'[q] = Over
    BY <1>2 DEF Ended
  <2> QED  BY <2>1 DEF Over, Idle, Nothing, IsFresh, InHand, At
<1>3. CASE q = r /\ Begun(r)
  <2>1. Known(ConnOf[q], stored[ConnOf[q]])
    BY <1>0 DEF GrantInv, GrantsKnown
  <2> QED  BY <1>3, <2>1 DEF Begun, Nothing, IsFresh
<1>4. CASE q = r /\ Moved(r)
  BY <1>0, <1>4 DEF Moved
<1>5. ASSUME q = r, NEW e \in Hits(r), Given(r, e.reply) PROVE Goal
  <2>1. e \in recent /\ e.conn = ConnOf[r]
    BY DEF Hits
  <2>2. IsFresh(e.reply) => Known(ConnOf[q], e.reply.token)
    BY <1>5, <2>1 DEF GrantInv, GrantsKnown
  <2> QED  BY <1>0, <1>5, <2>2 DEF Given
<1>6. ASSUME q = r, NEW a \in Reply, AnswerIs(r, a), Given(r, a) PROVE Goal
  BY <1>6, GivenKnown DEF Given
<1>7. CASE ConnOf[q] = ConnOf[r] /\ Given(q, call[r].reply)
  <2>1. IsFresh(call[r].reply) => Known(ConnOf[q], call[r].reply.token)
    BY <1>7 DEF GrantInv, GrantsKnown
  <2> QED  BY <1>0, <1>7, <2>1 DEF Given
<1>8. CallStep(r, q)
  BY CallSteps DEF GrantInv
<1> QED  BY <1>1, <1>2, <1>3, <1>4, <1>5, <1>6, <1>7, <1>8 DEF CallStep

LEMMA GrantRows ==
  ASSUME GrantInv, [Next]_vars, NEW c \in Connections
  PROVE  Known(c, stored[c])'
<1>0. GrantInv => LoginInv
  BY DEF GrantInv
<1>1. CASE stored'[c] = stored[c]
  <2>1. Known(c, stored[c])
    BY DEF GrantInv, GrantsKnown
  <2>2. stored[c].grant \in 1..logins'[c]
    BY <1>0, <2>1, KnownStays
  <2> QED  BY <1>1, <2>2 DEF Known
<1>2. ASSUME NEW r \in Refreshes, ConnOf[r] = c, IsFresh(call[r].reply), stored'[c] = call[r].reply.token,
             logins'[c] = logins[c]
      PROVE  Known(c, stored[c])'
  BY <1>2 DEF GrantInv, GrantsKnown, Known
<1>3. ASSUME NEW r \in Refreshes, ConnOf[r] = c, Granted(r), stored'[c] = Rotated(call[r].seen),
             logins'[c] = logins[c]
      PROVE  Known(c, stored[c])'
  <2>1. InHand(r) /\ call[r].seen \in Token
    BY <1>3 DEF Granted, Answered, InHand, At, GrantInv, LoginInv, LaneInv, TypeOK, Call
  <2>2. Known(c, call[r].seen) /\ Rotated(call[r].seen).grant = call[r].seen.grant
    BY <1>3, <2>1, TokenTypes DEF GrantInv, GrantsKnown
  <2> QED  BY <1>3, <2>2 DEF Known
<1>4. CASE logins'[c] = logins[c] + 1 /\ stored'[c] = FirstToken(logins[c] + 1)
  <2>1. logins[c] \in 1..MaxLogins
    BY DEF GrantInv, LoginInv, LaneInv, TypeOK
  <2> QED  BY <1>4, <2>1 DEF Known, FirstToken
<1>5. RowWrite(c)
  BY <1>0, RowWrites
<1> QED  BY <1>1, <1>2, <1>3, <1>4, <1>5 DEF RowWrite

LEMMA GrantStep == GrantInv /\ [Next]_vars => GrantInv'
<1> SUFFICES ASSUME GrantInv, [Next]_vars PROVE GrantsKnown'
  BY LoginStep DEF GrantInv
<1>0. LoginInv
  BY DEF GrantInv
<1>1. \A c \in Connections : Known(c, stored[c])'
  BY GrantRows
<1>2. ASSUME NEW r \in Refreshes
      PROVE  /\ InHand(r)' => Known(ConnOf[r], call'[r].seen)
             /\ IsFresh(call'[r].reply) => Known(ConnOf[r], call'[r].reply.token)
  <2>1. CASE call' = call
    BY <2>1 DEF GrantInv, GrantsKnown, InHand, At
  <2>2. CASE \E p \in Refreshes : Read(p) \/ Step(p)
    BY <2>2, GrantCalls
  <2> QED  BY <2>1, <2>2 DEF Next, vars, ResultExpires, LockExpires, Reconnect
<1>3. ASSUME NEW e \in recent'
      PROVE  Known(e.conn, e.spent) /\ (IsFresh(e.reply) => Known(e.conn, e.reply.token))
             /\ e.conn \in Connections
  <2>1. CASE e \in recent
    BY <2>1 DEF GrantInv, GrantsKnown, LoginInv, LaneInv, TypeOK
  <2>2. CASE e \notin recent
    <3>1. PICK r \in Refreshes : Read(r) \/ Step(r)
      BY <2>2 DEF Next, vars, ResultExpires, LockExpires, Reconnect
    <3>2. PICK a \in Reply : AnswerIs(r, a) /\ e = [conn |-> ConnOf[r], spent |-> call[r].seen, reply |-> a]
      BY <1>0, <2>2, <3>1, ResultSteps
    <3> QED  BY <3>2, GivenKnown
  <2> QED  BY <2>1, <2>2
<1>4. ASSUME NEW c \in Connections, NEW t, Known(c, t) PROVE t.grant \in 1..logins'[c]
  BY <1>0, <1>4, KnownStays
<1>5. \A r \in Refreshes : /\ InHand(r)' => Known(ConnOf[r], call[r].seen)'
                           /\ IsFresh(call'[r].reply) => Known(ConnOf[r], call[r].reply.token)'
  BY <1>2, <1>4 DEF Known
<1>6. \A e \in recent' : /\ e.spent.grant \in 1..logins'[e.conn]
                         /\ IsFresh(e.reply) => e.reply.token.grant \in 1..logins'[e.conn]
  BY <1>3, <1>4
<1> QED  BY <1>1, <1>5, <1>6 DEF GrantsKnown, Known, IsFresh

-----------------------------------------------------------------------------
\* The provider takes no token of grant g of connection c any more.
DeadGrant(c, g) == \A u \in accepted[c] : u.grant # g

\* What a "dead" answer at hand for token t of connection c stands for: the grant
\* of t is dead; if a proactive refresh may have passed it on, some grant is.
DeadFor(c, t) ==
  IF Guarded(c) THEN DeadGrant(c, t.grant) ELSE \E g \in 1..logins[c] : DeadGrant(c, g)

IsDead(a) == a.kind = "dead"
DeadInv ==
  /\ \A e \in recent : IsDead(e.reply) => DeadGrant(e.conn, e.spent.grant)
  /\ \A r \in Refreshes : InHand(r) /\ IsDead(call[r].reply) => DeadFor(ConnOf[r], call[r].seen)
  /\ \A r \in Refreshes : call[r].at \in {"reconciling", "pinning"} => IsDead(call[r].reply)
  /\ \A c \in Connections : pinned[c] => DeadFor(c, stored[c])

\* The tokens that the provider takes after a step: those it took, the successor
\* of one of them, or the first one of a new grant.
LEMMA AcceptedGrows ==
  ASSUME GrantInv, [Next]_vars, NEW c \in Connections, NEW u \in accepted'[c]
  PROVE  \/ u \in accepted[c]
         \/ \E t \in accepted[c] : u.grant = t.grant
         \/ u.grant = logins[c] + 1
<1>0. /\ accepted \in [Connections -> SUBSET Token] /\ call \in [Refreshes -> Call]
      /\ logins \in [Connections -> 1..MaxLogins]
  BY DEF GrantInv, LoginInv, LaneInv, TypeOK
<1>1. CASE accepted' = accepted
  BY <1>1
<1>2. ASSUME NEW r \in Refreshes, AnswerOf(r)
      PROVE  u \in accepted[c] \/ \E t \in accepted[c] : u.grant = t.grant
  <2>0. call[r].seen \in Token /\ ConnOf[r] \in Connections
    BY <1>0 DEF Call
  <2>1. CASE Granted(r) \/ AnswerLost(r)
    <3>1. /\ call[r].seen \in accepted[ConnOf[r]]
          /\ accepted' = [accepted EXCEPT ![ConnOf[r]] =
                           (@ \ {call[r].seen}) \cup {Rotated(call[r].seen)}]
      BY <2>1 DEF Granted, AnswerLost, Spend
    <3>2. Rotated(call[r].seen).grant = call[r].seen.grant
      BY <2>0, TokenTypes
    <3>3. CASE ConnOf[r] = c
      <4>1. u \in accepted[c] \/ u = Rotated(call[r].seen)
        BY <1>0, <3>1, <3>3
      <4> QED  BY <3>1, <3>2, <3>3, <4>1
    <3>4. CASE ConnOf[r] # c
      BY <1>0, <3>1, <3>4
    <3> QED  BY <3>3, <3>4
  <2>2. CASE Unavailable(r)
    BY <2>2 DEF Unavailable
  <2>3. CASE Refused(r)
    BY <1>0, <2>0, <2>3 DEF Refused
  <2> QED  BY <1>2, <2>1, <2>2, <2>3 DEF AnswerOf
<1>3. ASSUME NEW d \in Connections, Reconnect(d) PROVE u \in accepted[c] \/ u.grant = logins[c] + 1
  BY <1>0, <1>3 DEF Reconnect, FirstToken
<1>4. ASSUME NEW r \in Refreshes, Read(r) \/ Step(r), ~AnswerOf(r) PROVE accepted' = accepted
  BY <1>4 DEF Read, Step, AnswerOf, StartGuarded, StartProactive, JoinInside, Reuse, Post,
              Release, FinishProactive, Commit, LookInto, Superseded, Unchanged, Pin
<1> QED  BY <1>1, <1>2, <1>3, <1>4 DEF Next, vars, ResultExpires, LockExpires

\* A dead grant stays dead.
LEMMA DeadStays ==
  ASSUME GrantInv, [Next]_vars, NEW c \in Connections, NEW g \in 1..logins[c], DeadGrant(c, g)
  PROVE  DeadGrant(c, g)' /\ g \in 1..logins'[c]
<1>0. LoginInv /\ logins[c] \in Nat
  BY DEF GrantInv, LoginInv, LaneInv, TypeOK
<1>1. ASSUME NEW u \in accepted'[c] PROVE u.grant # g
  BY <1>0, AcceptedGrows DEF DeadGrant
<1>2. g \in 1..logins'[c]
  <2>1. logins'[c] = logins[c] \/ logins'[c] = logins[c] + 1
    BY <1>0, RowWrites DEF RowWrite
  <2> QED  BY <1>0, <2>1
<1> QED  BY <1>1, <1>2 DEF DeadGrant

LEMMA DeadForStays ==
  ASSUME GrantInv, [Next]_vars, NEW c \in Connections, NEW t, Known(c, t), DeadFor(c, t)
  PROVE  IF Guarded(c) THEN DeadGrant(c, t.grant)' ELSE \E g \in 1..logins'[c] : DeadGrant(c, g)'
<1>1. CASE Guarded(c)
  BY <1>1, DeadStays DEF DeadFor, Known
<1>2. CASE ~Guarded(c)
  <2>1. PICK g \in 1..logins[c] : DeadGrant(c, g)
    BY <1>2 DEF DeadFor
  <2>2. DeadGrant(c, g)' /\ g \in 1..logins'[c]
    BY <2>1, DeadStays
  <2> QED  BY <1>2, <2>2
<1> QED  BY <1>1, <1>2

LEMMA DeadInit == Init => DeadInv
<1> SUFFICES ASSUME Init PROVE DeadInv
  OBVIOUS
<1>1. \A r \in Refreshes : call[r] = Idle
  BY DEF Init
<1>2. \A r \in Refreshes : ~InHand(r) /\ call[r].at = "idle"
  BY <1>1 DEF InHand, At, Idle
<1> QED  BY <1>2 DEF Init, DeadInv

\* A token that was refused leaves its whole grant dead.
LEMMA RefusedIsDead ==
  ASSUME GrantInv, NEW r \in Refreshes, NEW a \in Reply, AnswerIs(r, a), IsDead(a)
  PROVE  DeadGrant(ConnOf[r], call[r].seen.grant)'
<1>1. Refused(r)
  BY DEF AnswerIs, IsDead, Failed, Fresh
<1>2. accepted \in [Connections -> SUBSET Token] /\ ConnOf[r] \in Connections
  BY DEF GrantInv, LoginInv, LaneInv, TypeOK
<1>3. call'[r].seen = call[r].seen
  <2>1. call \in [Refreshes -> Call] /\ call[r] \in Call
    BY DEF GrantInv, LoginInv, LaneInv, TypeOK
  <2>2. call'[r] = [call[r] EXCEPT !.at = "settling", !.reply = a]
    BY <2>1 DEF AnswerIs, Answered, Shared
  <2> QED  BY <2>1, <2>2 DEF Call
<1>4. \A u \in accepted'[ConnOf[r]] : u.grant # call[r].seen.grant
  BY <1>1, <1>2 DEF Refused
<1> QED  BY <1>3, <1>4 DEF DeadGrant

LEMMA DeadCalls ==
  ASSUME GrantInv, DeadInv, [Next]_vars, NEW r \in Refreshes, Read(r) \/ Step(r), NEW q \in Refreshes
  PROVE  /\ InHand(q)' /\ IsDead(call'[q].reply) => DeadFor(ConnOf[q], call[q].seen)'
         /\ call'[q].at \in {"reconciling", "pinning"} => IsDead(call'[q].reply)
<1> DEFINE Goal == /\ InHand(q)' /\ IsDead(call'[q].reply) => DeadFor(ConnOf[q], call[q].seen)'
                   /\ call'[q].at \in {"reconciling", "pinning"} => IsDead(call'[q].reply)
<1>0. /\ InHand(q) /\ IsDead(call[q].reply) => DeadFor(ConnOf[q], call[q].seen)
      /\ InHand(q) => Known(ConnOf[q], call[q].seen)
      /\ call[q].at \in {"reconciling", "pinning"} => IsDead(call[q].reply)
      /\ ConnOf[q] \in Connections /\ ConnOf[r] \in Connections /\ logins[ConnOf[q]] \in Nat
  BY DEF GrantInv, GrantsKnown, DeadInv, LoginInv, LaneInv, TypeOK
<1>1. ASSUME InHand(q), IsDead(call[q].reply), call'[q].seen = call[q].seen
      PROVE  DeadFor(ConnOf[q], call[q].seen)'
  BY <1>0, <1>1, DeadForStays DEF DeadFor
<1>2. CASE call'[q] = call[q]
  BY <1>0, <1>1, <1>2 DEF InHand, At
<1>3. CASE Ended(r, q)
  <2>1. call'[q] = Over
    BY <1>3 DEF Ended
  <2> QED  BY <2>1 DEF Over, Idle, Nothing, IsDead, InHand, At
<1>4. CASE q = r /\ Begun(r)
  BY <1>4 DEF Begun, Nothing, IsDead
<1>5. CASE q = r /\ Moved(r)
  BY <1>0, <1>1, <1>5 DEF Moved, At, IsDead
<1>6. ASSUME q = r, NEW e \in Hits(r), Given(r, e.reply) PROVE Goal
  <2>1. SUFFICES ASSUME IsDead(e.reply) PROVE DeadFor(ConnOf[q], call[q].seen)'
    BY <1>6 DEF Given
  <2>2. e \in recent /\ e.conn = ConnOf[q] /\ e.spent = call[q].seen
    BY <1>6 DEF Hits
  <2>3. DeadGrant(ConnOf[q], call[q].seen.grant)
    BY <2>1, <2>2 DEF DeadInv
  <2>4. Known(ConnOf[q], call[q].seen) /\ call'[q].seen = call[q].seen
    BY <1>0, <1>6 DEF Given
  <2>5. DeadFor(ConnOf[q], call[q].seen)
    BY <2>3, <2>4 DEF DeadFor, Known
  <2> QED  BY <1>0, <2>4, <2>5, DeadForStays DEF DeadFor
<1>7. ASSUME q = r, NEW a \in Reply, AnswerIs(r, a), Given(r, a) PROVE Goal
  <2>1. SUFFICES ASSUME IsDead(a) PROVE DeadFor(ConnOf[q], call[q].seen)'
    BY <1>7 DEF Given
  <2>2. DeadGrant(ConnOf[q], call[q].seen.grant)'
    BY <1>7, <2>1, RefusedIsDead
  <2>3. call'[q].seen = call[q].seen /\ Known(ConnOf[q], call[q].seen) /\ logins' = logins
    BY <1>0, <1>7 DEF Given, AnswerIs, Answered
  <2> QED  BY <2>2, <2>3 DEF DeadFor, DeadGrant, Known
<1>8. ASSUME q # r, FinishProactive(r), ConnOf[q] = ConnOf[r], Given(q, call[r].reply) PROVE Goal
  <2>1. SUFFICES ASSUME IsDead(call[r].reply) PROVE DeadFor(ConnOf[q], call[q].seen)'
    BY <1>8 DEF Given
  <2>2. InHand(r) /\ ~Guarded(ConnOf[q])
    BY <1>8 DEF FinishProactive, InHand, At, Guarded
  <2>3. DeadFor(ConnOf[r], call[r].seen) /\ Known(ConnOf[r], call[r].seen)
    BY <2>1, <2>2 DEF DeadInv, GrantInv, GrantsKnown
  <2>4. \E g \in 1..logins'[ConnOf[q]] : DeadGrant(ConnOf[q], g)'
    BY <1>0, <1>8, <2>2, <2>3, DeadForStays
  <2> QED  BY <2>2, <2>4 DEF DeadFor, Guarded
<1>9. CallStep(r, q)
  BY CallSteps DEF GrantInv
<1> QED  BY <1>2, <1>3, <1>4, <1>5, <1>6, <1>7, <1>8, <1>9 DEF CallStep

\* The mark of a row lasts only while the row keeps a token of the same grant.
LEMMA DeadRows ==
  ASSUME GrantInv, DeadInv, [Next]_vars, NEW c \in Connections, pinned'[c]
  PROVE  DeadFor(c, stored[c])'
<1>0. /\ GrantInv => LoginInv
      /\ Known(c, stored[c])
      /\ stored \in [Connections -> Token] /\ pinned \in [Connections -> BOOLEAN]
  BY DEF GrantInv, GrantsKnown, LoginInv, LaneInv, TypeOK
<1>1. \/ pinned[c] /\ logins'[c] = logins[c]
      \/ \E r \in Refreshes : Pin(r) /\ ConnOf[r] = c /\ stored[c] = call[r].seen
  <2>1. CASE \E r \in Refreshes : Pin(r)
    BY <1>0, <2>1 DEF Pin
  <2>2. CASE \E d \in Connections : Reconnect(d)
    <3>1. PICK d \in Connections : Reconnect(d)
      BY <2>2
    <3> QED  BY <1>0, <3>1 DEF Reconnect, GrantInv, LoginInv, LaneInv, TypeOK
  <2>3. ASSUME NEW r \in Refreshes, Read(r) \/ Step(r), ~Pin(r) PROVE pinned' = pinned /\ logins' = logins
    BY <2>3 DEF Read, Step, StartGuarded, StartProactive, JoinInside, Reuse, Post,
                Granted, AnswerLost, Unavailable, Refused, Answered,
                Release, FinishProactive, Commit, LookInto, Superseded, Unchanged
  <2> QED  BY <2>1, <2>2, <2>3 DEF Next, vars, ResultExpires, LockExpires
<1>2. ASSUME NEW r \in Refreshes, Pin(r), ConnOf[r] = c, stored[c] = call[r].seen PROVE DeadFor(c, stored[c])'
  <2>1. At(r, "pinning") /\ stored' = stored
    BY <1>2 DEF Pin
  <2>2. DeadFor(c, stored[c])
    BY <1>2, <2>1 DEF DeadInv, InHand, At
  <2> QED  BY <1>0, <2>1, <2>2, DeadForStays DEF DeadFor
<1>3. CASE pinned[c] /\ logins'[c] = logins[c]
  <2>1. DeadFor(c, stored[c])
    BY <1>3 DEF DeadInv
  <2>2. Guarded(c) => stored'[c].grant = stored[c].grant
    <3>1. Guarded(c) => RowChange(c)
      BY <1>0, RowChanges
    <3>2. logins[c] \in Nat
      BY <1>0 DEF GrantInv, LoginInv, LaneInv, TypeOK
    <3> QED  BY <1>3, <3>1, <3>2 DEF RowChange
  <2>3. IF Guarded(c) THEN DeadGrant(c, stored[c].grant)' ELSE \E g \in 1..logins'[c] : DeadGrant(c, g)'
    <3>1. IF Guarded(c) THEN \A u \in accepted'[c] : u.grant # stored[c].grant
                        ELSE \E g \in 1..logins'[c] : DeadGrant(c, g)'
      BY <1>0, <2>1, DeadForStays DEF DeadGrant
    <3> QED  BY <2>2, <3>1 DEF DeadGrant
  <2> QED  BY <2>3 DEF DeadFor, Guarded
<1> QED  BY <1>1, <1>2, <1>3

LEMMA DeadStep == GrantInv /\ DeadInv /\ [Next]_vars => DeadInv'
<1> SUFFICES ASSUME GrantInv, DeadInv, [Next]_vars PROVE DeadInv'
  OBVIOUS
<1>0. LoginInv
  BY DEF GrantInv
<1>1. ASSUME NEW e \in recent', IsDead(e.reply) PROVE DeadGrant(e.conn, e.spent.grant)'
  <2>1. CASE e \in recent
    <3>1. DeadGrant(e.conn, e.spent.grant) /\ Known(e.conn, e.spent) /\ e.conn \in Connections
      BY <1>1, <2>1 DEF DeadInv, GrantInv, GrantsKnown, LoginInv, LaneInv, TypeOK
    <3> QED  BY <3>1, DeadStays DEF Known
  <2>2. CASE e \notin recent
    <3>1. PICK r \in Refreshes : Read(r) \/ Step(r)
      BY <2>2 DEF Next, vars, ResultExpires, LockExpires, Reconnect
    <3>2. PICK a \in Reply : AnswerIs(r, a) /\ e = [conn |-> ConnOf[r], spent |-> call[r].seen, reply |-> a]
      BY <1>0, <2>2, <3>1, ResultSteps
    <3>3. Refused(r) /\ accepted \in [Connections -> SUBSET Token] /\ ConnOf[r] \in Connections
      BY <1>0, <1>1, <3>2 DEF AnswerIs, IsDead, Failed, Fresh, LoginInv, LaneInv, TypeOK
    <3> QED  BY <3>2, <3>3 DEF Refused, DeadGrant
  <2> QED  BY <2>1, <2>2
<1>2. ASSUME NEW r \in Refreshes
      PROVE  /\ InHand(r)' /\ IsDead(call'[r].reply) => DeadFor(ConnOf[r], call[r].seen)'
             /\ call'[r].at \in {"reconciling", "pinning"} => IsDead(call'[r].reply)
  <2>1. CASE call' = call
    <3>1. InHand(r) => Known(ConnOf[r], call[r].seen)
      BY DEF GrantInv, GrantsKnown
    <3>2. InHand(r) /\ IsDead(call[r].reply) => DeadFor(ConnOf[r], call[r].seen)'
      BY <2>1, <3>1, DeadForStays DEF DeadInv, DeadFor
    <3> QED  BY <2>1, <3>2 DEF DeadInv, InHand, At
  <2>2. CASE \E p \in Refreshes : Read(p) \/ Step(p)
    BY <2>2, DeadCalls
  <2> QED  BY <2>1, <2>2 DEF Next, vars, ResultExpires, LockExpires, Reconnect
<1>3. \A c \in Connections : pinned'[c] => DeadFor(c, stored[c])'
  BY DeadRows
<1> QED  BY <1>1, <1>2, <1>3 DEF DeadInv, IsDead

\* The inductive invariant of the grants: every token at hand is of a grant that
\* the user gave, and a "dead" answer at hand speaks of a grant that is dead.
THEOREM DeadInvariant == Spec => [](GrantInv /\ DeadInv)
BY GrantInit, GrantStep, DeadInit, DeadStep, PTL DEF Spec

\* An account whose row only guarded refreshes write, or whose user never logged
\* in again, is marked for re-authorization only while its token is dead.
THEOREM LanePinnedIsDead == Spec => []PinnedIsDead
<1>1. GrantInv /\ DeadInv => PinnedIsDead
  <2> SUFFICES ASSUME GrantInv, DeadInv, NEW c \in Connections, pinned[c],
                      Guarded(c) \/ logins[c] = 1
               PROVE  stored[c] \notin accepted[c]
    BY DEF PinnedIsDead
  <2>1. DeadFor(c, stored[c]) /\ Known(c, stored[c])
    BY DEF DeadInv, GrantInv, GrantsKnown
  <2>2. CASE Guarded(c)
    BY <2>1, <2>2 DEF DeadFor, DeadGrant
  <2>3. CASE ~Guarded(c) /\ logins[c] = 1
    <3>1. DeadGrant(c, 1) /\ stored[c].grant = 1
      BY <2>1, <2>3 DEF DeadFor, Known
    <3> QED  BY <3>1 DEF DeadGrant
  <2> QED  BY <2>2, <2>3
<1> QED  BY <1>1, DeadInvariant, PTL

-----------------------------------------------------------------------------
\* The order in which the tokens of a connection are issued.
NotAfter(t, u) == t.grant < u.grant \/ (t.grant = u.grant /\ t.gen <= u.gen)

LEMMA TokenOrder ==
  /\ \A t \in Token : NotAfter(t, t) /\ NotAfter(t, Rotated(t)) /\ ~NotAfter(Rotated(t), t)
  /\ \A t, u \in Token : NotAfter(t, u) /\ NotAfter(u, t) => t = u
  /\ \A t, u, w \in Token : NotAfter(t, u) /\ NotAfter(u, w) => NotAfter(t, w)
<1>1. \A t \in Token : Rotated(t).grant = t.grant /\ Rotated(t).gen = t.gen + 1
  BY DEF Token, Rotated
<1>2. \A t, u \in Token : t.grant = u.grant /\ t.gen = u.gen => t = u
  BY DEF Token
<1>3. \A t \in Token : t.grant \in Nat /\ t.gen \in Nat
  BY DEF Token
<1>4. \A t \in Token : NotAfter(t, t) /\ NotAfter(t, Rotated(t)) /\ ~NotAfter(Rotated(t), t)
  BY <1>1, <1>3 DEF NotAfter
<1>5. \A t, u \in Token : NotAfter(t, u) /\ NotAfter(u, t) => t = u
  BY <1>2, <1>3 DEF NotAfter
<1>6. \A t, u, w \in Token : NotAfter(t, u) /\ NotAfter(u, w) => NotAfter(t, w)
  BY <1>3 DEF NotAfter
<1> QED  BY <1>4, <1>5, <1>6

\* A token that was bought for connection c is still good, or the row had it.
Settled(c, t) == t \in accepted[c] \/ NotAfter(t, stored[c])

\* A token of connection c is good, or what it was traded for is kept.
Backed(c, t) == t \in accepted[c] \/ \E e \in recent : e.conn = c /\ e.spent = t

\* A refresh has an answer that it may write.  The answer follows from the token
\* it read, or the row is already at it or past it.
Bought(r) == call[r].at \in {"settling", "released"} /\ IsFresh(call[r].reply)
Follows(r) ==
  LET t == call[r].reply.token  s == call[r].seen IN
  t = Rotated(s) \/ (NotAfter(s, t) /\ NotAfter(t, stored[ConnOf[r]]))

\* Someone is about to replace the token of the row by its successor.
Writer(r, c) ==
  /\ ConnOf[r] = c /\ call[r].at \in {"settling", "released"}
  /\ call[r].seen = stored[c] /\ call[r].reply = Fresh(Rotated(call[r].seen))

RowKept(c) == stored[c] \in accepted[c] \/ \E r \in Refreshes : Writer(r, c)
CallKept(r) ==
  /\ NotAfter(call[r].seen, stored[ConnOf[r]])
  /\ InHand(r) => Backed(ConnOf[r], call[r].seen)
  /\ At(r, "posting") => call[r].seen \in accepted[ConnOf[r]]
  /\ Bought(r) => Settled(ConnOf[r], call[r].reply.token) /\ Follows(r)
ResultKept(e) ==
  IsFresh(e.reply) => e.reply.token = Rotated(e.spent) /\ Settled(e.conn, e.reply.token)

RotationInv ==
  /\ \A c \in Connections : ~spoiled[c] => RowKept(c)
  /\ \A r \in Refreshes : ~spoiled[ConnOf[r]] => CallKept(r)
  /\ \A e \in recent : ~spoiled[e.conn] => ResultKept(e)

KeptInv == GrantInv /\ RotationInv

LEMMA RotationInit == Init => KeptInv
<1> SUFFICES ASSUME Init PROVE RotationInv
  BY GrantInit DEF KeptInv
<1>1. \A c \in Connections : RowKept(c)
  BY DEF Init, RowKept
<1>2. ASSUME NEW r \in Refreshes PROVE CallKept(r)
  <2>1. call[r] = Idle /\ stored[ConnOf[r]] = FirstToken(1)
    BY DEF Init
  <2>2. NotAfter(call[r].seen, stored[ConnOf[r]])
    BY <2>1 DEF Idle, FirstToken, NotAfter
  <2> QED  BY <2>1, <2>2 DEF CallKept, InHand, At, Bought, Idle
<1> QED  BY <1>1, <1>2 DEF Init, RotationInv

LEMMA KeptTypes ==
  ASSUME KeptInv
  PROVE  /\ stored \in [Connections -> Token] /\ accepted \in [Connections -> SUBSET Token]
         /\ call \in [Refreshes -> Call] /\ logins \in [Connections -> 1..MaxLogins]
         /\ spoiled \in [Connections -> BOOLEAN]
         /\ recent \subseteq [conn : Connections, spent : Token, reply : Reply]
         /\ \A r \in Refreshes : /\ call[r].seen \in Token /\ call[r].reply \in Reply
                                 /\ call[r].reply.token \in Token /\ ConnOf[r] \in Connections
         /\ LoginInv
BY DEF KeptInv, GrantInv, LoginInv, LaneInv, TypeOK, Call, Reply

\* What goes wrong once stays on record.
LEMMA SpoiledStays ==
  ASSUME KeptInv, [Next]_vars, NEW c \in Connections, spoiled[c]
  PROVE  spoiled'[c]
<1>0. spoiled \in [Connections -> BOOLEAN]
  BY KeptTypes
<1>1. ASSUME NEW d, NEW how, Spoil(d, how) PROVE spoiled'[c]
  BY <1>0, <1>1 DEF Spoil
<1>2. ASSUME NEW r \in Refreshes, Read(r) \/ Step(r) PROVE spoiled'[c]
  <2>1. CASE Granted(r) \/ AnswerLost(r) \/ FinishProactive(r)
    BY <1>1, <2>1 DEF Granted, AnswerLost, FinishProactive
  <2> QED  BY <1>2, <2>1 DEF Read, Step, StartGuarded, StartProactive, JoinInside, Reuse, Post,
              Unavailable, Refused, Release, Commit, LookInto, Superseded, Unchanged, Pin
<1>3. CASE \E e \in recent : ResultExpires(e)
  BY <1>1, <1>3 DEF ResultExpires
<1> QED  BY <1>2, <1>3 DEF Next, vars, LockExpires, Reconnect

\* While nothing went wrong, a row only moves on: to the successor of its token,
\* one that the provider takes, or to the first token of a new grant.
RowStep(c) ==
  \/ stored'[c] = stored[c]
  \/ stored'[c] = Rotated(stored[c]) /\ stored'[c] \in accepted'[c]
  \/ stored'[c].grant = logins[c] + 1 /\ stored'[c] \in accepted'[c]

LEMMA RowSteps ==
  ASSUME KeptInv, [Next]_vars, NEW c \in Connections, ~spoiled'[c]
  PROVE  RowStep(c) /\ NotAfter(stored[c], stored'[c])
<1>0. ~spoiled[c]
  BY SpoiledStays
<1>1. /\ stored \in [Connections -> Token] /\ accepted \in [Connections -> SUBSET Token]
      /\ logins \in [Connections -> 1..MaxLogins] /\ spoiled \in [Connections -> BOOLEAN]
      /\ \A r \in Refreshes : call[r].seen \in Token /\ call[r].reply.token \in Token
  BY KeptTypes
<1>2. ASSUME NEW r \in Refreshes, ConnOf[r] = c, At(r, "released"), IsFresh(call[r].reply),
             stored'[c] = call[r].reply.token, accepted' = accepted,
             stored[c] \in {call[r].seen, call[r].reply.token}
      PROVE  RowStep(c)
  <2>1. Settled(c, call[r].reply.token) /\ Follows(r)
    BY <1>0, <1>2 DEF KeptInv, RotationInv, CallKept, Bought, At
  <2>2. CASE stored[c] = call[r].seen /\ call[r].reply.token = Rotated(call[r].seen)
    <3>1. ~NotAfter(call[r].reply.token, stored[c])
      BY <1>1, <2>2, TokenOrder
    <3> QED  BY <1>2, <2>1, <2>2, <3>1 DEF Settled, RowStep
  <2>3. CASE stored[c] = call[r].seen /\ call[r].reply.token # Rotated(call[r].seen)
    <3>1. NotAfter(call[r].seen, call[r].reply.token) /\ NotAfter(call[r].reply.token, stored[c])
      BY <1>2, <2>1, <2>3 DEF Follows
    <3>2. call[r].reply.token = stored[c]
      BY <1>1, <2>3, <3>1, TokenOrder
    <3> QED  BY <1>2, <3>2 DEF RowStep
  <2>4. CASE stored[c] = call[r].reply.token
    BY <1>2, <2>4 DEF RowStep
  <2> QED  BY <1>2, <2>2, <2>3, <2>4
<1>3. ASSUME NEW r \in Refreshes, FinishProactive(r), ConnOf[r] = c, IsFresh(call[r].reply)
      PROVE  stored[c] \in {call[r].seen, call[r].reply.token}
  BY <1>1, <1>3 DEF FinishProactive, Spoil, Astray, IsFresh
<1>4. ASSUME NEW r \in Refreshes, ConnOf[r] = c, Granted(r), stored'[c] = Rotated(call[r].seen),
             r \notin Proactive, Joined(r, "joined") # {}
      PROVE  RowStep(c)
  <2>1. stored[c] \in {call[r].seen, Rotated(call[r].seen)}
    BY <1>1, <1>4 DEF Granted, Spoil, Astray, Fresh
  <2>2. Rotated(call[r].seen) \in accepted'[c]
    BY <1>1, <1>4 DEF Granted, Spend
  <2> QED  BY <1>4, <2>1, <2>2 DEF RowStep
<1>5. ASSUME logins'[c] = logins[c] + 1, stored'[c] = FirstToken(logins[c] + 1),
             accepted'[c] = accepted[c] \cup {stored'[c]}
      PROVE  RowStep(c)
  BY <1>5 DEF RowStep, FirstToken
<1>6. RowWrite(c)
  BY KeptTypes, RowWrites
<1>7. RowStep(c)
  BY <1>2, <1>3, <1>4, <1>5, <1>6 DEF RowWrite, RowStep
<1>8. NotAfter(stored[c], stored'[c])
  <2>1. CASE stored'[c].grant = logins[c] + 1
    <3>1. stored[c].grant \in 1..logins[c] /\ logins[c] \in Nat
      BY <1>1 DEF KeptInv, GrantInv, GrantsKnown, Known
    <3> QED  BY <2>1, <3>1 DEF NotAfter
  <2> QED  BY <1>1, <1>7, <2>1, TokenOrder DEF RowStep
<1> QED  BY <1>7, <1>8

\* Only one request is at the endpoint.
LEMMA OnlyPoster ==
  ASSUME KeptInv, NEW r \in Refreshes, NEW q \in Refreshes, At(r, "posting"), At(q, "posting")
  PROVE  r = q
BY KeptTypes DEF LoginInv, LaneInv, InsideHolds, Holds, At

\* While nothing went wrong, a token ceases to be good only by being traded for
\* its successor.
LEMMA AcceptedSteps ==
  ASSUME KeptInv, [Next]_vars, NEW c \in Connections, ~spoiled'[c], NEW t \in accepted[c]
  PROVE  \/ t \in accepted'[c]
         \/ \E r \in Refreshes : ConnOf[r] = c /\ t = call[r].seen
              /\ AnswerIs(r, Fresh(Rotated(call[r].seen))) /\ Granted(r)
<1>0. /\ accepted \in [Connections -> SUBSET Token] /\ spoiled \in [Connections -> BOOLEAN]
      /\ ~spoiled[c]
  BY KeptTypes, SpoiledStays
<1>1. ASSUME NEW r \in Refreshes, Granted(r), t \notin accepted'[c]
      PROVE  ConnOf[r] = c /\ t = call[r].seen /\ AnswerIs(r, Fresh(Rotated(call[r].seen)))
  BY <1>0, <1>1 DEF Granted, Spend, AnswerIs
<1>2. ASSUME NEW r \in Refreshes, AnswerLost(r) PROVE t \in accepted'[c]
  <2>1. ConnOf[r] # c
    BY <1>0, <1>2 DEF AnswerLost, Spoil
  <2> QED  BY <1>0, <1>2, <2>1 DEF AnswerLost, Spend
<1>3. ASSUME NEW r \in Refreshes, Refused(r) PROVE t \in accepted'[c]
  <2>1. ConnOf[r] # c
    <3>1. At(r, "posting") /\ call[r].seen \notin accepted[ConnOf[r]]
      BY <1>3 DEF Refused, Answered
    <3> QED  BY <1>0, <3>1 DEF KeptInv, RotationInv, CallKept
  <2> QED  BY <1>0, <1>3, <2>1 DEF Refused
<1>4. ASSUME NEW d \in Connections, Reconnect(d) PROVE t \in accepted'[c]
  BY <1>0, <1>4 DEF Reconnect
<1>5. ASSUME NEW r \in Refreshes, Read(r) \/ Step(r), ~Granted(r), ~AnswerLost(r), ~Refused(r)
      PROVE  accepted' = accepted
  BY <1>5 DEF Read, Step, StartGuarded, StartProactive, JoinInside, Reuse, Post, Unavailable,
              Release, FinishProactive, Commit, LookInto, Superseded, Unchanged, Pin
<1> QED  BY <1>1, <1>2, <1>3, <1>4, <1>5 DEF Next, vars, ResultExpires, LockExpires

LEMMA SettledStays ==
  ASSUME KeptInv, [Next]_vars, NEW c \in Connections, ~spoiled'[c], NEW t \in Token, Settled(c, t)
  PROVE  t \in accepted'[c] \/ NotAfter(t, stored'[c])
<1>0. /\ stored \in [Connections -> Token] /\ stored'[c] \in Token /\ ~spoiled[c]
      /\ NotAfter(stored[c], stored'[c])
  <2>1. stored' \in [Connections -> Token]
    BY KeptTypes, LaneStep DEF LoginInv, LaneInv, TypeOK
  <2> QED  BY <2>1, KeptTypes, SpoiledStays, RowSteps
<1>1. CASE NotAfter(t, stored[c])
  BY <1>0, <1>1, TokenOrder
<1>2. CASE t \in accepted[c] /\ t \notin accepted'[c]
  <2>1. PICK r \in Refreshes : ConnOf[r] = c /\ t = call[r].seen
    BY <1>2, AcceptedSteps
  <2>2. NotAfter(t, stored[c])
    BY <1>0, <2>1 DEF KeptInv, RotationInv, CallKept
  <2> QED  BY <1>0, <2>2, TokenOrder
<1> QED  BY <1>1, <1>2 DEF Settled

\* The row of a connection is kept: whoever traded its token is about to write
\* the successor, and nobody else may have the last word.
LEMMA RowKeptStep ==
  ASSUME KeptInv, [Next]_vars, NEW c \in Connections, ~spoiled'[c]
  PROVE  RowKept(c)'
<1>0. /\ ~spoiled[c] /\ RowKept(c) /\ LoginInv
      /\ stored \in [Connections -> Token]
      /\ \A r \in Refreshes : call[r].seen \in Token
  BY KeptTypes, SpoiledStays DEF KeptInv, RotationInv
<1>1. RowStep(c)
  BY RowSteps
<1>2. CASE stored'[c] # stored[c]
  <2>1. CASE stored'[c].grant = logins[c] + 1 /\ stored'[c] \in accepted'[c]
    BY <2>1 DEF RowKept
  <2> QED  BY <1>1, <1>2, <2>1 DEF RowStep, RowKept
<1>3. CASE stored'[c] = stored[c] /\ stored[c] \in accepted[c]
  <2>1. CASE stored[c] \in accepted'[c]
    BY <1>3, <2>1 DEF RowKept
  <2>2. CASE stored[c] \notin accepted'[c]
    <3>1. PICK r \in Refreshes : /\ ConnOf[r] = c /\ stored[c] = call[r].seen
                                 /\ AnswerIs(r, Fresh(Rotated(call[r].seen))) /\ Granted(r)
      BY <1>3, <2>2, AcceptedSteps
    <3> DEFINE a == Fresh(Rotated(call[r].seen))
    <3>2. call'[r] = [call[r] EXCEPT !.at = "settling", !.reply = a]
      BY <1>0, <3>1 DEF AnswerIs, Answered, Shared, LoginInv, LaneInv, TypeOK
    <3>3. call'[r].at = "settling" /\ call'[r].seen = call[r].seen /\ call'[r].reply = a
      BY <1>0, <3>2 DEF LoginInv, LaneInv, TypeOK, Call
    <3>4. Writer(r, c)'
      BY <1>3, <3>1, <3>3 DEF Writer
    <3> QED  BY <3>4 DEF RowKept
  <2> QED  BY <2>1, <2>2
<1>4. CASE stored'[c] = stored[c] /\ stored[c] \notin accepted[c]
  <2>1. PICK q \in Refreshes : Writer(q, c)
    BY <1>0, <1>4 DEF RowKept
  <2>2. /\ call[q].at \in {"settling", "released"} /\ ConnOf[q] = c
        /\ call[q].seen = stored[c] /\ call[q].reply = Fresh(Rotated(stored[c]))
    BY <2>1 DEF Writer
  <2>3. CASE call'[q] = call[q]
    BY <1>4, <2>1, <2>3 DEF Writer, RowKept
  <2>4. ASSUME NEW r \in Refreshes, Read(r) \/ Step(r) PROVE Writer(q, c)'
    <3>1. Rotated(stored[c]) # stored[c]
      BY <1>0, TokenOrder
    <3>2. ~Ended(r, q)
      <4>1. SUFFICES ASSUME Ended(r, q) PROVE FALSE
        OBVIOUS
      <4>2. q = r /\ (FinishProactive(r) \/ Commit(r))
        BY <2>2, <4>1 DEF Ended
      <4>3. stored'[c] = Rotated(stored[c])
        BY <1>0, <2>2, <4>2 DEF FinishProactive, Overwritten, Commit, Committed, Fresh
      <4> QED  BY <1>4, <3>1, <4>3
    <3>3. CASE call'[q] = call[q]
      BY <1>4, <2>1, <3>3 DEF Writer
    <3>4. CASE q = r /\ Begun(r)
      BY <2>2, <3>4 DEF Begun, Read, At
    <3>5. CASE q = r /\ Moved(r)
      BY <1>4, <2>1, <2>2, <3>5 DEF Moved, At, Writer, Fresh
    <3>6. \A a : ~Given(q, a)
      BY <2>2 DEF Given
    <3> QED  BY <3>2, <3>3, <3>4, <3>5, <3>6, <1>0, <2>4, CallSteps DEF CallStep
  <2>5. CASE call' = call
    BY <2>3, <2>5
  <2> QED  BY <2>4, <2>5 DEF Next, vars, ResultExpires, LockExpires, Reconnect, RowKept
<1> QED  BY <1>2, <1>3, <1>4

LEMMA BackedStays ==
  ASSUME KeptInv, [Next]_vars, NEW r \in Refreshes, Read(r) \/ Step(r),
         NEW c \in Connections, ~spoiled'[c], NEW t, Backed(c, t)
  PROVE  t \in accepted'[c] \/ \E e \in recent' : e.conn = c /\ e.spent = t
<1>0. LoginInv
  BY KeptTypes
<1>1. recent \subseteq recent'
  BY <1>0, ResultSteps
<1>2. CASE t \in accepted[c]
  <2>1. ASSUME NEW p \in Refreshes, ConnOf[p] = c, t = call[p].seen, AnswerIs(p, Fresh(Rotated(call[p].seen)))
        PROVE  \E e \in recent' : e.conn = c /\ e.spent = t
    <3>1. recent' = Kept(p, Fresh(Rotated(call[p].seen)))
      BY <2>1 DEF AnswerIs, Answered
    <3> DEFINE e == [conn |-> ConnOf[p], spent |-> call[p].seen, reply |-> Fresh(Rotated(call[p].seen))]
    <3>2. e \in recent'
      BY <3>1 DEF Kept
    <3>3. e.conn = c /\ e.spent = t
      BY <2>1
    <3> QED  BY <3>2, <3>3
  <2> QED  BY <1>2, <2>1, AcceptedSteps
<1> QED  BY <1>1, <1>2 DEF Backed

LEMMA CallKeptStep ==
  ASSUME KeptInv, [Next]_vars, NEW r \in Refreshes, Read(r) \/ Step(r),
         NEW q \in Refreshes, ~spoiled'[ConnOf[q]]
  PROVE  CallKept(q)'
<1> DEFINE c == ConnOf[q]
           Moves == NotAfter(call'[q].seen, stored'[c])
           Backs == InHand(q)' => call'[q].seen \in accepted'[c]
                                  \/ \E e \in recent' : e.conn = c /\ e.spent = call'[q].seen
           Posts == At(q, "posting")' => call'[q].seen \in accepted'[c]
           Buys == Bought(q)' => /\ call'[q].reply.token \in accepted'[c]
                                    \/ NotAfter(call'[q].reply.token, stored'[c])
                                 /\ Follows(q)'
<1>0. /\ c \in Connections /\ ~spoiled[c] /\ LoginInv
      /\ stored \in [Connections -> Token] /\ stored'[c] \in Token
      /\ call \in [Refreshes -> Call] /\ accepted \in [Connections -> SUBSET Token]
      /\ \A p \in Refreshes : call[p].seen \in Token /\ call[p].reply.token \in Token
      /\ NotAfter(stored[c], stored'[c])
  <2>1. stored' \in [Connections -> Token]
    BY KeptTypes, LaneStep DEF LoginInv, LaneInv, TypeOK
  <2> QED  BY <2>1, KeptTypes, SpoiledStays, RowSteps
<1>1. CallKept(q) /\ (Bought(q) => Settled(c, call[q].reply.token) /\ Follows(q))
  BY <1>0 DEF KeptInv, RotationInv, CallKept
<1>2. SUFFICES Moves /\ Backs /\ Posts /\ Buys
  BY DEF CallKept, Backed, Settled
<1>3. NotAfter(call[q].seen, stored'[c])
  BY <1>0, <1>1, TokenOrder DEF CallKept
<1>4. InHand(q) => call[q].seen \in accepted'[c] \/ \E e \in recent' : e.conn = c /\ e.spent = call[q].seen
  BY <1>0, <1>1, BackedStays DEF CallKept
<1>5. ASSUME Bought(q), call'[q].seen = call[q].seen, call'[q].reply = call[q].reply PROVE Buys
  <2>1. call[q].reply.token \in accepted'[c] \/ NotAfter(call[q].reply.token, stored'[c])
    BY <1>0, <1>1, <1>5, SettledStays
  <2>2. Follows(q)'
    BY <1>0, <1>1, <1>5, TokenOrder DEF Follows
  <2> QED  BY <1>5, <2>1, <2>2
<1>6. CASE call'[q] = call[q] /\ (q = r => ~At(r, "posting"))
  <2>1. Posts
    <3>1. SUFFICES ASSUME At(q, "posting"), call[q].seen \notin accepted'[c] PROVE FALSE
      BY <1>6 DEF At
    <3>2. call[q].seen \in accepted[c]
      BY <1>1, <3>1 DEF CallKept
    <3>3. PICK p \in Refreshes : AnswerIs(p, Fresh(Rotated(call[p].seen)))
      BY <1>0, <3>1, <3>2, AcceptedSteps
    <3>4. At(p, "posting") /\ p = q
      BY <3>1, <3>3, OnlyPoster DEF AnswerIs, Answered
    <3>5. call'[p] = [call[p] EXCEPT !.at = "settling", !.reply = Fresh(Rotated(call[p].seen))]
      BY <1>0, <3>3 DEF AnswerIs, Answered, Shared
    <3>6. call'[p].at = "settling"
      BY <1>0, <3>5 DEF Call
    <3> QED  BY <1>6, <3>1, <3>4, <3>6 DEF At
  <2> QED  BY <1>3, <1>4, <1>5, <1>6, <2>1 DEF InHand, At, Bought
<1>7. CASE Ended(r, q)
  <2>1. call'[q] = Over
    BY <1>7 DEF Ended
  <2>2. stored'[c].grant \in 1..logins'[c]
    BY <1>0, GrantStep DEF KeptInv, GrantInv, GrantsKnown, Known
  <2>3. NotAfter(FirstToken(0), stored'[c])
    <3>1. stored'[c].grant \in Nat /\ stored'[c].grant > 0
      BY <1>0, <2>2 DEF Token
    <3> QED  BY <3>1 DEF NotAfter, FirstToken
  <2> QED  BY <2>1, <2>3 DEF Over, Idle, InHand, At, Bought
<1>8. CASE q = r /\ Begun(r)
  <2>1. /\ call'[q].seen = stored[c] /\ call'[q].at = "read"
        /\ stored' = stored /\ accepted' = accepted /\ recent' = recent
    BY <1>8 DEF Begun, Read
  <2>2. stored[c] \in accepted[c] \/ \E e \in recent : e.conn = c /\ e.spent = stored[c]
    <3>1. CASE \E p \in Refreshes : Writer(p, c)
      <4>1. PICK p \in Refreshes : Writer(p, c)
        BY <3>1
      <4>2. CallKept(p) /\ InHand(p) /\ call[p].seen = stored[c] /\ ConnOf[p] = c
        BY <1>0, <4>1 DEF KeptInv, RotationInv, Writer, InHand, At
      <4> QED  BY <4>2 DEF CallKept, Backed
    <3> QED  BY <1>0, <3>1 DEF KeptInv, RotationInv, RowKept
  <2> QED  BY <1>0, <2>1, <2>2 DEF At, Bought
<1>9. CASE q = r /\ Moved(r)
  <2>1. Posts
    <3>1. SUFFICES ASSUME At(q, "posting")' PROVE call[q].seen \in accepted'[c]
      BY <1>9 DEF Moved
    <3>2. Hits(q) = {} /\ accepted' = accepted /\ InHand(q)
      BY <1>9, <3>1 DEF Moved, At, Post
    <3> QED  BY <1>1, <3>2 DEF CallKept, Backed, Hits
  <2>2. Buys
    BY <1>5, <1>9 DEF Moved, At, Bought
  <2> QED  BY <1>3, <1>4, <1>9, <2>1, <2>2 DEF Moved
<1>10. ASSUME q = r, Reuse(r), NEW e \in Hits(r), Given(r, e.reply) PROVE Moves /\ Backs /\ Posts /\ Buys
  <2>1. /\ call'[q].at = "settling" /\ call'[q].reply = e.reply /\ call'[q].seen = call[q].seen
        /\ InHand(q)
    BY <1>10 DEF Given
  <2>2. e \in recent /\ e.conn = c /\ e.spent = call[q].seen
    BY <1>10 DEF Hits
  <2>3. IsFresh(e.reply) => e.reply.token = Rotated(e.spent) /\ Settled(c, e.reply.token) /\ e.reply.token \in Token
    BY <1>0, <2>2, KeptTypes DEF KeptInv, RotationInv, ResultKept, Reply
  <2>4. Buys
    BY <1>0, <2>1, <2>2, <2>3, SettledStays DEF Bought, Follows
  <2> QED  BY <1>3, <1>4, <2>1, <2>4 DEF At
<1>11. ASSUME q = r, NEW a \in Reply, AnswerIs(r, a), Given(r, a) PROVE Moves /\ Backs /\ Posts /\ Buys
  <2>1. /\ call'[q].at = "settling" /\ call'[q].reply = a /\ call'[q].seen = call[q].seen
        /\ InHand(q)
    BY <1>11 DEF Given
  <2>2. IsFresh(a) => a = Fresh(Rotated(call[q].seen)) /\ Rotated(call[q].seen) \in accepted'[c]
    BY <1>0, <1>11 DEF AnswerIs, IsFresh, Failed, Dead, Granted, Spend
  <2>3. Buys
    BY <2>1, <2>2 DEF Bought, Follows, Fresh
  <2> QED  BY <1>3, <1>4, <2>1, <2>3 DEF At
<1>12. ASSUME q # r, FinishProactive(r), ConnOf[q] = ConnOf[r], Given(q, call[r].reply)
       PROVE Moves /\ Backs /\ Posts /\ Buys
  <2>1. /\ call'[q].at = "settling" /\ call'[q].reply = call[r].reply /\ call'[q].seen = call[q].seen
        /\ InHand(q)
    BY <1>12 DEF Given
  <2>2. IsFresh(call[r].reply) => stored'[c] = call[r].reply.token
    BY <1>0, <1>12 DEF FinishProactive, Overwritten, IsFresh
  <2>3. Buys
    BY <1>0, <1>3, <2>1, <2>2, TokenOrder DEF Bought, Follows
  <2> QED  BY <1>3, <1>4, <2>1, <2>3 DEF At
<1>13. CallStep(r, q)
  BY <1>0, CallSteps
<1> QED  BY <1>6, <1>7, <1>8, <1>9, <1>10, <1>11, <1>12, <1>13 DEF CallStep

\* Outside the refreshes only timers and logins happen: they leave the calls alone.
LEMMA CallKeptOutside ==
  ASSUME KeptInv, [Next]_vars, call' = call, ~(\E r \in Refreshes : Read(r) \/ Step(r)),
         NEW q \in Refreshes, ~spoiled'[ConnOf[q]]
  PROVE  CallKept(q)'
<1> DEFINE c == ConnOf[q]
<1>0. /\ c \in Connections /\ ~spoiled[c] /\ LoginInv
      /\ stored \in [Connections -> Token] /\ stored'[c] \in Token
      /\ accepted \in [Connections -> SUBSET Token] /\ spoiled \in [Connections -> BOOLEAN]
      /\ call[q].seen \in Token /\ call[q].reply.token \in Token
      /\ NotAfter(stored[c], stored'[c])
  <2>1. stored' \in [Connections -> Token]
    BY KeptTypes, LaneStep DEF LoginInv, LaneInv, TypeOK
  <2> QED  BY <2>1, KeptTypes, SpoiledStays, RowSteps
<1>1. CallKept(q)
  BY <1>0 DEF KeptInv, RotationInv
<1>2. NotAfter(call[q].seen, stored'[c])
  BY <1>0, <1>1, TokenOrder DEF CallKept
<1>3. \A t \in accepted[c] : t \in accepted'[c]
  <2>1. CASE \E d \in Connections : Reconnect(d)
    BY <1>0, <2>1 DEF Reconnect
  <2>2. CASE accepted' = accepted
    BY <2>2
  <2> QED  BY <2>1, <2>2 DEF Next, vars, ResultExpires, LockExpires
<1>4. ASSUME Backed(c, call[q].seen)
      PROVE  call[q].seen \in accepted'[c] \/ \E e \in recent' : e.conn = c /\ e.spent = call[q].seen
  <2>1. CASE call[q].seen \in accepted[c]
    BY <1>3, <2>1
  <2>2. ASSUME NEW e \in recent, e.conn = c, e.spent = call[q].seen PROVE e \in recent'
    <3>1. ASSUME NEW f \in recent, ResultExpires(f) PROVE f # e
      BY <1>0, <2>2, <3>1 DEF ResultExpires, Spoil
    <3> QED  BY <3>1 DEF Next, vars, ResultExpires, LockExpires, Reconnect
  <2> QED  BY <1>4, <2>1, <2>2 DEF Backed
<1>5. ASSUME Bought(q)
      PROVE  /\ call[q].reply.token \in accepted'[c] \/ NotAfter(call[q].reply.token, stored'[c])
             /\ Follows(q)'
  <2>1. Settled(c, call[q].reply.token) /\ Follows(q)
    BY <1>1, <1>5 DEF CallKept
  <2>2. call[q].reply.token \in accepted'[c] \/ NotAfter(call[q].reply.token, stored'[c])
    BY <1>0, <2>1, SettledStays
  <2>3. Follows(q)'
    BY <1>0, <2>1, TokenOrder DEF Follows
  <2> QED  BY <2>2, <2>3
<1> QED  BY <1>1, <1>2, <1>3, <1>4, <1>5 DEF CallKept, InHand, At, Bought, Backed, Settled

LEMMA ResultKeptStep ==
  ASSUME KeptInv, [Next]_vars, NEW e \in recent', ~spoiled'[e.conn]
  PROVE  ResultKept(e)'
<1>0. LoginInv /\ LaneInv'
  BY KeptTypes, LaneStep DEF LoginInv
<1>1. e.conn \in Connections /\ e.reply \in Reply
  BY <1>0 DEF LaneInv, TypeOK
<1>2. CASE e \in recent
  <2>1. ResultKept(e)
    BY <1>1, <1>2, SpoiledStays DEF KeptInv, RotationInv
  <2>2. IsFresh(e.reply) => e.reply.token = Rotated(e.spent) /\ Settled(e.conn, e.reply.token)
                            /\ e.reply.token \in Token
    BY <1>1, <2>1 DEF ResultKept, Reply
  <2>3. IsFresh(e.reply) => e.reply.token \in accepted'[e.conn] \/ NotAfter(e.reply.token, stored'[e.conn])
    BY <1>1, <2>2, SettledStays
  <2> QED  BY <2>2, <2>3 DEF ResultKept, Settled, IsFresh
<1>3. CASE e \notin recent
  <2>1. PICK r \in Refreshes : Read(r) \/ Step(r)
    BY <1>3 DEF Next, vars, ResultExpires, LockExpires, Reconnect
  <2>2. PICK a \in Reply : AnswerIs(r, a) /\ e = [conn |-> ConnOf[r], spent |-> call[r].seen, reply |-> a]
    BY <1>0, <1>3, <2>1, ResultSteps
  <2>3. e.reply = a /\ e.spent = call[r].seen /\ e.conn = ConnOf[r]
    BY <2>2
  <2>4. accepted \in [Connections -> SUBSET Token]
    BY KeptTypes
  <2>5. IsFresh(a) => a = Fresh(Rotated(call[r].seen)) /\ Rotated(call[r].seen) \in accepted'[ConnOf[r]]
    BY <1>1, <2>2, <2>3, <2>4 DEF AnswerIs, IsFresh, Failed, Dead, Granted, Spend
  <2> QED  BY <2>3, <2>5 DEF ResultKept, Settled, IsFresh, Fresh
<1> QED  BY <1>2, <1>3

LEMMA KeptStep == KeptInv /\ [Next]_vars => KeptInv'
<1> SUFFICES ASSUME KeptInv, [Next]_vars PROVE RotationInv'
  BY GrantStep DEF KeptInv
<1>1. \A c \in Connections : ~spoiled'[c] => RowKept(c)'
  BY RowKeptStep
<1>2. ASSUME NEW q \in Refreshes, ~spoiled'[ConnOf[q]] PROVE CallKept(q)'
  <2>1. CASE \E r \in Refreshes : Read(r) \/ Step(r)
    BY <1>2, <2>1, CallKeptStep
  <2>2. CASE ~(\E r \in Refreshes : Read(r) \/ Step(r))
    <3>1. call' = call
      BY <2>2 DEF Next, vars, ResultExpires, LockExpires, Reconnect
    <3> QED  BY <1>2, <2>2, <3>1, CallKeptOutside
  <2> QED  BY <2>1, <2>2
<1>3. \A e \in recent' : ~spoiled'[e.conn] => ResultKept(e)'
  BY ResultKeptStep
<1> QED  BY <1>1, <1>2, <1>3 DEF RotationInv

\* The inductive invariant of the rotation: while no answer is lost, no result
\* forgotten too early and no row taken back, the row of a connection moves along
\* the tokens in the order of their issue, and whoever holds a spent token either
\* finds its result or is the one who writes it.
THEOREM KeptInvariant == Spec => []KeptInv
BY RotationInit, KeptStep, PTL DEF Spec

\* However the refreshes of a connection queue, join and reuse, none of them
\* presents a token twice.
THEOREM LaneTokenPresentedOnce == Spec => []TokenPresentedOnce
<1>1. KeptInv => TokenPresentedOnce
  BY DEF KeptInv, RotationInv, CallKept, TokenPresentedOnce
<1> QED  BY <1>1, KeptInvariant, PTL

\* When every answer has been written, the row of every connection holds a token
\* that the provider takes: no interleaving of the two paths drops a rotation.
THEOREM LaneRotationKept == Spec => []RotationKept
<1>1. KeptInv => RotationKept
  BY DEF KeptInv, RotationInv, RowKept, Writer, Unwritten, RotationKept
<1> QED  BY <1>1, KeptInvariant, PTL

-----------------------------------------------------------------------------
\* An account is marked for re-authorization only if something went wrong: an
\* answer was lost, a result forgotten too early, or a proactive write astray took
\* the row back.
MarkHasCause == \A c \in Connections : pinned[c] => spoiled[c]

\* A "dead" answer has such a cause, wherever it is at hand.
DeadHasCause ==
  /\ \A e \in recent : IsDead(e.reply) => spoiled[e.conn]
  /\ \A r \in Refreshes : IsDead(call[r].reply) => spoiled[ConnOf[r]]

CauseInv == KeptInv /\ DeadInv /\ DeadHasCause /\ MarkHasCause

LEMMA CauseInit == Init => CauseInv
<1> SUFFICES ASSUME Init PROVE DeadHasCause /\ MarkHasCause
  BY RotationInit, DeadInit DEF CauseInv
<1> QED  BY DEF Init, DeadHasCause, MarkHasCause, IsDead, Idle, Nothing

LEMMA CauseStep == CauseInv /\ [Next]_vars => CauseInv'
<1> SUFFICES ASSUME CauseInv, [Next]_vars PROVE DeadHasCause' /\ MarkHasCause'
  BY KeptStep, DeadStep DEF CauseInv, KeptInv
<1>0. KeptInv /\ DeadInv /\ GrantInv /\ LoginInv /\ \A r \in Refreshes : ConnOf[r] \in Connections
  BY KeptTypes DEF CauseInv, KeptInv
<1>1. \A c \in Connections : spoiled[c] => spoiled'[c]
  BY <1>0, SpoiledStays
<1>2. ASSUME NEW r \in Refreshes, NEW a \in Reply, AnswerIs(r, a), IsDead(a) PROVE spoiled[ConnOf[r]]
  <2>1. Refused(r)
    BY <1>2 DEF AnswerIs, IsDead, Failed, Fresh
  <2>2. At(r, "posting") /\ call[r].seen \notin accepted[ConnOf[r]]
    BY <2>1 DEF Refused, Answered
  <2> QED  BY <1>0, <2>2 DEF KeptInv, RotationInv, CallKept
<1>3. ASSUME NEW e \in recent', IsDead(e.reply) PROVE spoiled'[e.conn]
  <2>1. CASE e \in recent
    BY <1>0, <1>1, <1>3, <2>1 DEF CauseInv, DeadHasCause, LoginInv, LaneInv, TypeOK
  <2>2. CASE e \notin recent
    <3>1. PICK r \in Refreshes : Read(r) \/ Step(r)
      BY <2>2 DEF Next, vars, ResultExpires, LockExpires, Reconnect
    <3>2. PICK a \in Reply : AnswerIs(r, a) /\ e = [conn |-> ConnOf[r], spent |-> call[r].seen, reply |-> a]
      BY <1>0, <2>2, <3>1, ResultSteps
    <3> QED  BY <1>0, <1>1, <1>2, <1>3, <3>2
  <2> QED  BY <2>1, <2>2
<1>4. ASSUME NEW r \in Refreshes, Read(r) \/ Step(r), NEW q \in Refreshes, IsDead(call'[q].reply)
      PROVE  spoiled'[ConnOf[q]]
  <2>1. CASE IsDead(call[q].reply)
    BY <1>0, <1>1, <2>1 DEF CauseInv, DeadHasCause
  <2>2. ASSUME NEW e \in Hits(r), q = r, Given(r, e.reply) PROVE spoiled'[ConnOf[q]]
    BY <1>0, <1>1, <1>4, <2>2 DEF CauseInv, DeadHasCause, Hits, Given
  <2>3. ASSUME NEW a \in Reply, q = r, AnswerIs(r, a), Given(r, a) PROVE spoiled'[ConnOf[q]]
    BY <1>0, <1>1, <1>2, <1>4, <2>3 DEF Given
  <2>4. CASE ConnOf[q] = ConnOf[r] /\ Given(q, call[r].reply)
    BY <1>0, <1>1, <1>4, <2>4 DEF CauseInv, DeadHasCause, Given
  <2>5. ~Ended(r, q) /\ ~Begun(q)
    BY <1>4 DEF Ended, Begun, Over, Idle, Nothing, IsDead
  <2>6. CASE call'[q].reply = call[q].reply
    BY <1>4, <2>1, <2>6
  <2>7. CallStep(r, q)
    BY <1>0, <1>4, CallSteps
  <2> QED  BY <2>2, <2>3, <2>4, <2>5, <2>6, <2>7 DEF CallStep, Moved
<1>5. ASSUME NEW q \in Refreshes, IsDead(call'[q].reply) PROVE spoiled'[ConnOf[q]]
  <2>1. CASE call' = call
    BY <1>0, <1>1, <1>5, <2>1 DEF CauseInv, DeadHasCause
  <2> QED  BY <1>4, <1>5, <2>1 DEF Next, vars, ResultExpires, LockExpires, Reconnect
<1>6. ASSUME NEW c \in Connections, pinned'[c] PROVE spoiled'[c]
  <2>1. CASE pinned[c]
    BY <1>1, <2>1 DEF CauseInv, MarkHasCause
  <2>2. CASE ~pinned[c]
    <3>0. pinned \in [Connections -> BOOLEAN]
      BY <1>0 DEF LoginInv, LaneInv, TypeOK
    <3>1. ASSUME NEW d \in Connections, Reconnect(d) PROVE FALSE
      BY <1>6, <2>2, <3>0, <3>1 DEF Reconnect
    <3>2. ASSUME NEW r \in Refreshes, Read(r) \/ Step(r), ~Pin(r) PROVE pinned' = pinned
      BY <3>2 DEF Read, Step, StartGuarded, StartProactive, JoinInside, Reuse, Post,
                  Granted, AnswerLost, Unavailable, Refused, Answered,
                  Release, FinishProactive, Commit, LookInto, Superseded, Unchanged
    <3>3. PICK r \in Refreshes : Pin(r)
      BY <1>6, <2>2, <3>1, <3>2 DEF Next, vars, ResultExpires, LockExpires
    <3>4. ConnOf[r] = c /\ At(r, "pinning")
      BY <1>6, <2>2, <3>0, <3>3 DEF Pin
    <3> QED  BY <1>0, <1>1, <3>4 DEF DeadInv, CauseInv, DeadHasCause, At
  <2> QED  BY <2>1, <2>2
<1> QED  BY <1>3, <1>5, <1>6 DEF DeadHasCause, MarkHasCause, IsDead

\* Refreshing alone, by whatever interleaving of the two paths, never costs the
\* user a new login.
THEOREM LaneMarkHasCause == Spec => []MarkHasCause
<1>1. CauseInv => MarkHasCause
  BY DEF CauseInv
<1> QED  BY <1>1, CauseInit, CauseStep, PTL DEF Spec

=============================================================================
