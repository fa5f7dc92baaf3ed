------------------------ MODULE SelectionTurnProofs ------------------------
(***************************************************************************)
(* The turn of SelectionTurn for any set of calls: one selection at a time *)
(* and no turn lost, whoever aborts in the queue.  And its record of       *)
(* requests: whatever is pruned, and whatever caps are learned and         *)
(* forgotten, every request that counts is on record, and the record never *)
(* exceeds the limit.                                                      *)
(***************************************************************************)
EXTENDS SelectionTurn, FiniteSetTheorems, SequenceTheorems, WellFoundedInduction, TLAPS

\* Calls whose promise is still to be resolved.
Queued == {"waiting", "passing", "choosing", "chosen"}

\* Every promise made before number n has resolved.
AllBefore(n, done) == \A m \in Nat : 1 <= m /\ m < n => m \in done

ChainTypes ==
  /\ made \in Nat /\ tail \in Nat /\ resolved \subseteq Nat
  /\ own \in [Calls -> Nat] /\ before \in [Calls -> Nat]
  /\ DOMAIN pc = Calls

\* Promises resolve in the order they were made.
InOrder == \A n \in resolved : n <= made /\ 1 <= n /\ AllBefore(n, resolved)

\* The map holds the last promise, until all have resolved.
TailIsLast == IF tail = 0 THEN AllBefore(made + 1, resolved) ELSE tail = made

\* A call in the queue waits for the promise made just before its own, or found
\* the map empty.
Linked == \A c \in Calls : pc[c] \in Queued =>
  /\ 1 <= own[c] /\ own[c] <= made /\ own[c] \notin resolved
  /\ before[c] = own[c] - 1 \/ (before[c] = 0 /\ AllBefore(own[c], resolved))

OwnIsOwn == \A c, d \in Calls : pc[c] \in Queued /\ pc[d] \in Queued /\ own[c] = own[d] => c = d

\* Every promise that is pending belongs to a call in the queue.
Owned == \A n \in Nat : 1 <= n /\ n <= made /\ n \notin resolved =>
  \E d \in Calls : own[d] = n /\ pc[d] \in Queued

\* Who selects has nobody before it.
First == \A c \in Calls : pc[c] \in {"choosing", "chosen"} => AllBefore(own[c], resolved)

\* The inductive invariant: exclusion alone says nothing of who is next.
ChainInv == ChainTypes /\ InOrder /\ TailIsLast /\ Linked /\ OwnIsOwn /\ Owned /\ First

-----------------------------------------------------------------------------
\* The end of the chain: whose turn it is has all promises before it resolved.
LEMMA TurnIsFirst ==
  ASSUME ChainInv, NEW c \in Calls, pc[c] \in Queued, HasTurn(c)
  PROVE  AllBefore(own[c], resolved)
<1>1. own[c] \in Nat /\ before[c] \in Nat /\ 1 <= own[c]
  BY DEF ChainInv, ChainTypes, Linked
<1>2. CASE before[c] = 0 /\ AllBefore(own[c], resolved)
  BY <1>2
<1>3. CASE before[c] = own[c] - 1
  <2>1. CASE before[c] = 0
    BY <1>1, <1>3, <2>1 DEF AllBefore
  <2>2. CASE before[c] \in resolved
    BY <1>1, <1>3, <2>2 DEF AllBefore, ChainInv, InOrder
  <2> QED BY <2>1, <2>2 DEF HasTurn
<1> QED BY <1>2, <1>3 DEF ChainInv, Linked

LEMMA InitChain == Init => ChainInv
<1> SUFFICES ASSUME Init PROVE ChainInv
  OBVIOUS
<1>1. ChainTypes /\ InOrder /\ TailIsLast /\ Linked
  BY DEF Init, ChainTypes, InOrder, TailIsLast, Linked, AllBefore, Queued
<1>2. OwnIsOwn /\ Owned /\ First
  BY DEF Init, OwnIsOwn, Owned, First, Queued
<1> QED BY <1>1, <1>2 DEF ChainInv

\* A call moves on within the queue, or without having entered it.
LEMMA MoveChain ==
  ASSUME ChainInv, UNCHANGED chain, NEW c \in Calls, NEW p, pc' = [pc EXCEPT ![c] = p],
         pc[c] \in Queued <=> p \in Queued,
         p \in {"choosing", "chosen"} => AllBefore(own[c], resolved)
  PROVE  ChainInv'
<1>1. /\ UNCHANGED <<made, own, before, resolved, tail>>
      /\ \A d \in Calls : pc'[d] \in Queued <=> pc[d] \in Queued
      /\ \A d \in Calls : d # c => pc'[d] = pc[d]
      /\ pc'[c] = p /\ DOMAIN pc' = Calls
  BY DEF chain, ChainInv, ChainTypes
<1>2. ChainTypes' /\ InOrder' /\ TailIsLast' /\ Linked'
  BY <1>1 DEF ChainInv, ChainTypes, InOrder, TailIsLast, Linked, AllBefore
<1>3. OwnIsOwn' /\ Owned'
  BY <1>1 DEF ChainInv, OwnIsOwn, Owned
<1>4. First'
  BY <1>1 DEF ChainInv, First, AllBefore
<1> QED BY <1>2, <1>3, <1>4 DEF ChainInv

LEMMA QueueUpChain ==
  ASSUME ChainInv, NEW c \in Calls, QueueUp(c)
  PROVE  ChainInv'
<1>1. /\ made' = made + 1 /\ tail' = made + 1 /\ resolved' = resolved
      /\ own' = [own EXCEPT ![c] = made + 1] /\ before' = [before EXCEPT ![c] = tail]
      /\ pc' = [pc EXCEPT ![c] = "waiting"] /\ pc[c] = "called"
  BY DEF QueueUp, Move
<1>2. /\ made \in Nat /\ tail \in Nat /\ own \in [Calls -> Nat] /\ before \in [Calls -> Nat]
      /\ resolved \subseteq Nat /\ DOMAIN pc = Calls
  BY DEF ChainInv, ChainTypes
<1>3. /\ own'[c] = made + 1 /\ before'[c] = tail /\ pc'[c] = "waiting"
      /\ \A d \in Calls : d # c => own'[d] = own[d] /\ before'[d] = before[d] /\ pc'[d] = pc[d]
  BY <1>1, <1>2
<1>4. \A n \in Nat : AllBefore(n, resolved') <=> AllBefore(n, resolved)
  BY <1>1 DEF AllBefore
<1>5. ChainTypes'
  BY <1>1, <1>2 DEF ChainTypes
<1>6. InOrder'
  BY <1>1, <1>2, <1>4 DEF ChainInv, InOrder
<1>7. TailIsLast'
  BY <1>1, <1>2 DEF TailIsLast
<1>8. Linked'
  <2> SUFFICES ASSUME NEW d \in Calls, pc'[d] \in Queued
               PROVE  /\ 1 <= own'[d] /\ own'[d] <= made' /\ own'[d] \notin resolved'
                      /\ before'[d] = own'[d] - 1 \/ (before'[d] = 0 /\ AllBefore(own'[d], resolved'))
    BY DEF Linked
  <2>1. CASE d = c
    <3>1. made + 1 \notin resolved
      BY <1>2 DEF ChainInv, InOrder
    <3>2. tail = made \/ (tail = 0 /\ AllBefore(made + 1, resolved))
      BY DEF ChainInv, TailIsLast
    <3> QED BY <1>1, <1>2, <1>3, <1>4, <2>1, <3>1, <3>2
  <2>2. CASE d # c
    BY <1>1, <1>2, <1>3, <1>4, <2>2 DEF ChainInv, Linked
  <2> QED BY <2>1, <2>2
<1>9. OwnIsOwn'
  BY <1>2, <1>3 DEF ChainInv, OwnIsOwn, Linked
<1>10. Owned'
  <2> SUFFICES ASSUME NEW n \in Nat, 1 <= n, n <= made', n \notin resolved'
               PROVE  \E d \in Calls : own'[d] = n /\ pc'[d] \in Queued
    BY DEF Owned
  <2>1. CASE n = made + 1
    BY <1>3, <2>1 DEF Queued
  <2>2. CASE n # made + 1
    <3>1. PICK d \in Calls : own[d] = n /\ pc[d] \in Queued
      BY <1>1, <1>2, <2>2 DEF ChainInv, Owned
    <3>2. d # c
      BY <1>1, <3>1 DEF Queued
    <3> QED BY <1>3, <3>1, <3>2
  <2> QED BY <2>1, <2>2
<1>11. First'
  <2>1. \A d \in Calls : pc'[d] \in {"choosing", "chosen"} => d # c
    BY <1>3
  <2> QED BY <1>2, <1>3, <1>4, <2>1 DEF ChainInv, First
<1> QED BY <1>5, <1>6, <1>7, <1>8, <1>9, <1>10, <1>11 DEF ChainInv

\* A call that is first leaves and resolves its promise.
LEMMA ResolveChain ==
  ASSUME ChainInv, NEW c \in Calls, pc[c] \in Queued, AllBefore(own[c], resolved),
         pc' = [pc EXCEPT ![c] = "over"], Resolve(c)
  PROVE  ChainInv'
<1>1. /\ UNCHANGED <<made, own, before>> /\ resolved' = resolved \cup {own[c]}
      /\ tail' = IF tail = own[c] THEN 0 ELSE tail
  BY DEF Resolve
<1>2. /\ made \in Nat /\ tail \in Nat /\ own \in [Calls -> Nat] /\ before \in [Calls -> Nat]
      /\ resolved \subseteq Nat /\ DOMAIN pc = Calls
      /\ 1 <= own[c] /\ own[c] <= made
  BY DEF ChainInv, ChainTypes, Linked
<1>3. /\ pc'[c] = "over" /\ "over" \notin Queued
      /\ \A d \in Calls : d # c => pc'[d] = pc[d]
  BY <1>2 DEF Queued
<1>4. \A n \in Nat : AllBefore(n, resolved) => AllBefore(n, resolved')
  BY <1>1 DEF AllBefore
<1>5. ChainTypes'
  BY <1>1, <1>2 DEF ChainTypes
<1>6. InOrder'
  BY <1>1, <1>2, <1>4 DEF ChainInv, InOrder
<1>7. TailIsLast'
  <2>1. CASE tail = own[c] /\ tail # 0
    <3>1. own[c] = made
      BY <2>1 DEF ChainInv, TailIsLast
    <3>2. AllBefore(made + 1, resolved')
      BY <1>1, <1>2, <3>1 DEF AllBefore
    <3> QED BY <1>1, <2>1, <3>2 DEF TailIsLast
  <2>2. CASE tail # own[c] /\ tail # 0
    BY <1>1, <2>2 DEF ChainInv, TailIsLast
  <2>3. CASE tail = 0
    <3>1. AllBefore(made + 1, resolved') /\ tail' = 0
      BY <1>1, <1>2, <1>4, <2>3 DEF ChainInv, TailIsLast
    <3> QED BY <1>1, <3>1 DEF TailIsLast
  <2> QED BY <2>1, <2>2, <2>3
<1>8. \A d \in Calls : pc'[d] \in Queued => d # c /\ pc[d] \in Queued /\ own[d] # own[c]
  BY <1>3 DEF ChainInv, OwnIsOwn
<1>9. Linked'
  <2> SUFFICES ASSUME NEW d \in Calls, pc'[d] \in Queued
               PROVE  /\ 1 <= own'[d] /\ own'[d] <= made' /\ own'[d] \notin resolved'
                      /\ before'[d] = own'[d] - 1 \/ (before'[d] = 0 /\ AllBefore(own'[d], resolved'))
    BY DEF Linked
  <2> QED BY <1>1, <1>2, <1>4, <1>8 DEF ChainInv, Linked
<1>10. OwnIsOwn'
  BY <1>1, <1>8 DEF ChainInv, OwnIsOwn
<1>11. Owned'
  <2> SUFFICES ASSUME NEW n \in Nat, 1 <= n, n <= made', n \notin resolved'
               PROVE  \E d \in Calls : own'[d] = n /\ pc'[d] \in Queued
    BY DEF Owned
  <2>1. PICK d \in Calls : own[d] = n /\ pc[d] \in Queued
    BY <1>1 DEF ChainInv, Owned
  <2>2. d # c
    BY <1>1, <2>1
  <2> QED BY <1>1, <1>3, <2>1, <2>2
<1>12. First'
  <2>1. \A d \in Calls : pc'[d] \in {"choosing", "chosen"} => d # c
    BY <1>3
  <2> QED BY <1>1, <1>2, <1>3, <1>4, <2>1 DEF ChainInv, First
<1> QED BY <1>5, <1>6, <1>7, <1>9, <1>10, <1>11, <1>12 DEF ChainInv

LEMMA StepChain == ChainInv /\ [Next]_vars => ChainInv'
<1> SUFFICES ASSUME ChainInv, [Next]_vars PROVE ChainInv'
  OBVIOUS
<1>1. ASSUME NEW c \in Calls, Call(c) PROVE ChainInv'
  BY <1>1, MoveChain DEF Call, Move, Queued
<1>2. ASSUME NEW c \in Calls, Refuse(c) PROVE ChainInv'
  BY <1>2, MoveChain DEF Refuse, End, Move, Queued
<1>3. ASSUME NEW c \in Calls, QueueUp(c) PROVE ChainInv'
  BY <1>3, QueueUpChain
<1>4. ASSUME NEW c \in Calls, Abort(c) PROVE ChainInv'
  BY <1>4, MoveChain DEF Abort, Move, Queued
<1>5. ASSUME NEW c \in Calls, PassOn(c) PROVE ChainInv'
  BY <1>5, TurnIsFirst, ResolveChain DEF PassOn, End, Move, Queued
<1>6. ASSUME NEW c \in Calls, Enter(c) PROVE ChainInv'
  BY <1>6, TurnIsFirst, MoveChain DEF Enter, Move, Queued
<1>7. ASSUME NEW c \in Calls, pc[c] \in {"choosing", "chosen"}, Choose(c) \/ Grant(c) \/ Leave(c)
      PROVE  ChainInv'
  <2>1. pc[c] \in Queued /\ AllBefore(own[c], resolved)
    BY <1>7 DEF ChainInv, First, Queued
  <2>2. CASE pc' = [pc EXCEPT ![c] = "chosen"] /\ UNCHANGED chain
    BY <2>1, <2>2, MoveChain DEF Queued
  <2>3. CASE pc' = [pc EXCEPT ![c] = "over"] /\ Resolve(c)
    BY <2>1, <2>3, ResolveChain
  <2> QED BY <1>7, <2>2, <2>3 DEF Choose, Grant, Leave, End, Move
<1>8. CASE (\E a \in Accounts : Learn(a) \/ Forget(a)) \/ Cleanup \/ Tick \/ UNCHANGED vars
  <2>1. UNCHANGED <<pc, made, own, before, resolved, tail>>
    BY <1>8 DEF Learn, Forget, SetCap, Cleanup, Tick, vars, chain
  <2> QED BY <2>1 DEF ChainInv, ChainTypes, InOrder, TailIsLast, Linked, OwnIsOwn, Owned, First,
                     AllBefore
<1>9. ASSUME NEW c \in Calls, Choose(c) \/ Grant(c) \/ Leave(c) PROVE ChainInv'
  BY <1>7, <1>9 DEF Choose, Grant, Leave
<1> QED BY <1>1, <1>2, <1>3, <1>4, <1>5, <1>6, <1>8, <1>9 DEF Next

\* Who selects, is alone.
LEMMA ChainIsExclusive == ChainInv => OneSelection
<1> SUFFICES ASSUME ChainInv, NEW c \in Calls, NEW d \in Calls,
                    pc[c] \in {"choosing", "chosen"}, pc[d] \in {"choosing", "chosen"}
             PROVE  c = d
  BY DEF OneSelection, Selecting
<1>1. pc[c] \in Queued /\ pc[d] \in Queued
  BY DEF Queued
<1>2. /\ own[c] \in Nat /\ own[d] \in Nat /\ 1 <= own[c] /\ 1 <= own[d]
      /\ own[c] \notin resolved /\ own[d] \notin resolved
  BY <1>1 DEF ChainInv, ChainTypes, Linked
<1>3. AllBefore(own[c], resolved) /\ AllBefore(own[d], resolved)
  BY DEF ChainInv, First
<1>4. own[c] = own[d]
  BY <1>2, <1>3 DEF AllBefore
<1> QED BY <1>1, <1>4 DEF ChainInv, OwnIsOwn

-----------------------------------------------------------------------------
\* The promises of the calls form a chain that resolves in order.
THEOREM SelectionChain == Spec => []ChainInv
BY InitChain, StepChain, PTL DEF Spec

\* Two calls never select at a time: a waiter that aborts resolves its promise
\* only when the one before has resolved.
THEOREM SelectionOneAtATime == Spec => []OneSelection
BY ChainIsExclusive, SelectionChain, PTL

\* Nobody waits for a promise that no call will resolve.
THEOREM SelectionTurnHasOwner == Spec => []TurnHasOwner
<1>1. ChainInv => TurnHasOwner
  <2> SUFFICES ASSUME ChainInv, NEW c \in Calls, pc[c] \in {"waiting", "passing"}, ~HasTurn(c)
               PROVE  \E d \in Calls : /\ own[d] = before[c] /\ own[d] < own[c]
                                       /\ pc[d] \in Queued
    BY DEF TurnHasOwner, Queued
  <2>1. /\ own[c] \in Nat /\ before[c] \in Nat /\ made \in Nat /\ own[c] <= made
        /\ before[c] # 0 /\ before[c] \notin resolved /\ before[c] = own[c] - 1
    BY DEF ChainInv, ChainTypes, Linked, HasTurn, Queued
  <2> QED BY <2>1 DEF ChainInv, Owned
<1> QED BY <1>1, SelectionChain, PTL
-----------------------------------------------------------------------------
(* What is on record.                                                      *)

\* The places of a record that are in the window that ends at s.
LiveAt(times, s) == {i \in 1..Len(times) : times[i] + Window > s}

\* The calls given account a in the window that ends at s, but for the overtaken.
Counted(a, s) == {g \in granted[a] : g[2] + Window > s /\ g[1] \notin overtaken}

\* No time of a call, of a record or of a grant is ahead of the clock.
TimesPast ==
  /\ \A c \in Calls : stamp[c] <= clock
  /\ \A a \in Accounts : \A i \in 1..Len(hits[a]) : hits[a][i] <= clock

\* A cap is never above the limit, and a record never longer than it.
CapsBound == \A a \in Accounts : Limit[a] > 0 =>
  1 <= cap[a] /\ cap[a] <= Limit[a] /\ Len(hits[a]) <= Limit[a]

\* A call has settled on an account only between its check and its record, and
\* the record has room for it unless the cap was lowered meanwhile.
RoomKept == \A c \in Calls :
  /\ pc[c] = "chosen" <=> pick[c] # Nobody
  /\ pick[c] # Nobody /\ Limit[pick[c]] > 0 /\ c \notin overtaken =>
       Len(hits[pick[c]]) < cap[pick[c]]

\* Every call that counts now or will count later is on record.
AllOnRecord == \A a \in Accounts : Limit[a] > 0 =>
  \A s \in Nat : clock <= s =>
    Cardinality(Counted(a, s)) <= Cardinality(LiveAt(hits[a], s))

\* The inductive invariant of the window: the bound on the record bounds the calls
\* only because no pruning forgets a time that may still count.
RecordInv ==
  /\ TypeOK /\ TimesPast /\ CapsBound /\ RoomKept /\ AllOnRecord
  /\ \A a \in Accounts : IsFiniteSet(granted[a])

LEMMA LeastNatural ==
  ASSUME NEW T, T \subseteq Nat, T # {}
  PROVE  \E n \in T : \A m \in T : n <= m
<1> DEFINE R == OpToRel(<, Nat)
<1>1. \E n \in T : \A m \in T : <<m, n>> \notin R
  BY NatLessThanWellFounded, WFMin
<1>2. \A n, m \in Nat : <<m, n>> \in R <=> m < n
  BY DEF OpToRel
<1> HIDE DEF R
<1>3. PICK n \in T : \A m \in T : <<m, n>> \notin R
  BY <1>1
<1>4. ASSUME NEW m \in T PROVE n <= m
  <2>1. n \in Nat /\ m \in Nat /\ ~ (m < n)
    BY <1>2, <1>3
  <2> QED BY <2>1
<1> QED BY <1>4

\* The places of a record that are in a window are finitely many, no more than
\* the record is long.
LEMMA LiveIsBounded ==
  ASSUME NEW times \in Seq(Nat), NEW s \in Nat
  PROVE  /\ IsFiniteSet(LiveAt(times, s))
         /\ Cardinality(LiveAt(times, s)) \in Nat
         /\ Cardinality(LiveAt(times, s)) <= Len(times)
<1>1. Len(times) \in Nat
  OBVIOUS
<1>2. IsFiniteSet(1..Len(times)) /\ Cardinality(1..Len(times)) = Len(times)
  <2>1. 1 \in Int /\ Len(times) \in Int
    BY <1>1
  <2>2. /\ IsFiniteSet(1..Len(times))
        /\ Cardinality(1..Len(times)) = IF 1 > Len(times) THEN 0 ELSE Len(times) - 1 + 1
    BY <2>1, FS_Interval
  <2> QED BY <1>1, <2>2
<1>3. LiveAt(times, s) \in SUBSET (1..Len(times))
  BY DEF LiveAt
<1>4. /\ IsFiniteSet(LiveAt(times, s))
      /\ Cardinality(LiveAt(times, s)) <= Cardinality(1..Len(times))
  BY <1>2, <1>3, FS_Subset
<1>5. Cardinality(LiveAt(times, s)) \in Nat
  BY <1>4, FS_CardinalityType
<1> QED BY <1>2, <1>4, <1>5

\* Pruning takes a prefix away, none of which is in the window of a later time.
LEMMA PrunedIsSuffix ==
  ASSUME NEW T, T \subseteq Nat, NEW times \in Seq(T), NEW now \in Nat, Window \in Nat
  PROVE  \E n \in 0..Len(times) :
           /\ Pruned(times, now) \in Seq(T)
           /\ Len(Pruned(times, now)) = Len(times) - n
           /\ \A i \in 1..(Len(times) - n) : Pruned(times, now)[i] = times[i + n]
           /\ \A i \in 1..n : times[i] + Window <= now
<1> DEFINE live == {i \in 1..Len(times) : times[i] + Window > now}
<1>0. Len(times) \in Nat /\ \A i \in 1..Len(times) : times[i] \in T /\ times[i] \in Nat
  BY ElementOfSeq, LenProperties
<1>1. CASE live = {}
  <2>1. Pruned(times, now) = <<>>
    BY <1>1 DEF Pruned
  <2>2. \A i \in 1..Len(times) : times[i] + Window <= now
    BY <1>0, <1>1
  <2>3. <<>> \in Seq(T) /\ Len(<<>>) = 0
    OBVIOUS
  <2>4. Len(times) \in 0..Len(times) /\ Len(times) - Len(times) = 0
    BY <1>0
  <2> QED BY <2>1, <2>2, <2>3, <2>4
<1>2. CASE live # {}
  <2> DEFINE least == CHOOSE i \in live : \A j \in live : i <= j
  <2>1. live \subseteq Nat
    BY <1>0
  <2>2. \E i \in live : \A j \in live : i <= j
    BY <1>2, <2>1, LeastNatural
  <2>3. least \in live /\ \A j \in live : least <= j
    BY <2>2
  <2>4. Pruned(times, now) = SubSeq(times, least, Len(times))
    BY <1>2 DEF Pruned
  <2>5. least \in 1..Len(times)
    BY <2>3
  <2>6. ASSUME NEW i \in 1..Len(times), i < least PROVE times[i] + Window <= now
    <3>1. i \notin live
      <4> HIDE DEF live, least
      <4> QED BY <1>0, <2>3, <2>5, <2>6
    <3> QED BY <1>0, <3>1
  <2> HIDE DEF least, live
  <2>7. \A i \in least..Len(times) : times[i] \in T
    BY <1>0, <2>5
  <2>8. /\ SubSeq(times, least, Len(times)) \in Seq(T)
        /\ Len(SubSeq(times, least, Len(times))) = Len(times) - least + 1
        /\ \A i \in 1..(Len(times) - least + 1) :
             SubSeq(times, least, Len(times))[i] = times[least + i - 1]
    BY <1>0, <2>5, <2>7, SubSeqProperties
  <2>9. least - 1 \in 0..Len(times) /\ Len(times) - (least - 1) = Len(times) - least + 1
    BY <1>0, <2>5
  <2>10. \A i \in 1..(Len(times) - least + 1) : least + i - 1 = i + (least - 1)
    BY <1>0, <2>5
  <2>11. \A i \in 1..(least - 1) : times[i] + Window <= now
    BY <1>0, <2>5, <2>6
  <2> QED BY <2>4, <2>8, <2>9, <2>10, <2>11
<1> QED BY <1>1, <1>2

\* A pruning loses nothing of what any later window holds.
LEMMA PrunedKeepsLive ==
  ASSUME NEW T, T \subseteq Nat, NEW times \in Seq(T), NEW now \in Nat, NEW s \in Nat, now <= s,
         Window \in Nat
  PROVE  /\ Pruned(times, now) \in Seq(T)
         /\ Len(Pruned(times, now)) <= Len(times)
         /\ \A i \in 1..Len(Pruned(times, now)) : \E j \in 1..Len(times) :
              Pruned(times, now)[i] = times[j]
         /\ Cardinality(LiveAt(times, s)) <= Cardinality(LiveAt(Pruned(times, now), s))
<1> DEFINE rest == Pruned(times, now)
<1>1. PICK n \in 0..Len(times) :
        /\ rest \in Seq(T)
        /\ Len(rest) = Len(times) - n
        /\ \A i \in 1..(Len(times) - n) : rest[i] = times[i + n]
        /\ \A i \in 1..n : times[i] + Window <= now
  BY PrunedIsSuffix
<1> HIDE DEF rest
<1>2. Len(times) \in Nat /\ \A i \in 1..Len(times) : times[i] \in Nat
  BY ElementOfSeq, LenProperties
<1> DEFINE shift == [j \in LiveAt(times, s) |-> j - n]
<1>3. \A j \in LiveAt(times, s) : j \in 1..Len(times) /\ j > n /\ j - n \in LiveAt(rest, s)
  <2> SUFFICES ASSUME NEW j \in LiveAt(times, s)
               PROVE  j \in 1..Len(times) /\ j > n /\ j - n \in LiveAt(rest, s)
    OBVIOUS
  <2>1. j \in 1..Len(times) /\ times[j] + Window > s
    BY DEF LiveAt
  <2>2. j > n
    BY <1>1, <1>2, <2>1
  <2>3. j - n \in 1..Len(rest) /\ rest[j - n] = times[j]
    <3>1. j - n \in 1..(Len(times) - n) /\ (j - n) + n = j
      BY <1>1, <1>2, <2>1, <2>2
    <3> QED BY <1>1, <3>1
  <2> QED BY <2>1, <2>2, <2>3 DEF LiveAt
<1>4. shift \in Injection(LiveAt(times, s), LiveAt(rest, s))
  <2>1. shift \in [LiveAt(times, s) -> LiveAt(rest, s)]
    BY <1>3
  <2>2. \A i, j \in LiveAt(times, s) : shift[i] = shift[j] => i = j
    BY <1>3, <1>1
  <2> QED BY <2>1, <2>2 DEF Injection, IsInjective
<1>5. rest \in Seq(Nat)
  BY <1>1, SeqMonotonic
<1>6. IsFiniteSet(LiveAt(rest, s))
  BY <1>5, LiveIsBounded
<1> HIDE DEF shift
<1>7. Cardinality(LiveAt(times, s)) <= Cardinality(LiveAt(rest, s))
  BY <1>4, <1>6, FS_Injection
<1>8. \A i \in 1..Len(rest) : \E j \in 1..Len(times) : rest[i] = times[j]
  BY <1>1, <1>2
<1>9. Len(rest) <= Len(times)
  BY <1>1, <1>2
<1> QED BY <1>1, <1>7, <1>8, <1>9 DEF rest

\* A time that is added is one more in every window that holds it.
LEMMA AppendedIsLive ==
  ASSUME NEW times \in Seq(Nat), NEW t \in Nat, NEW s \in Nat, Window \in Nat
  PROVE  Cardinality(LiveAt(Append(times, t), s)) =
           Cardinality(LiveAt(times, s)) + (IF t + Window > s THEN 1 ELSE 0)
<1> DEFINE more == Append(times, t)
           last == Len(times) + 1
<1>1. /\ Len(times) \in Nat /\ Len(more) = last
      /\ \A i \in 1..Len(times) : more[i] = times[i]
      /\ more[last] = t
  BY AppendProperties
<1>2. IsFiniteSet(LiveAt(times, s)) /\ Cardinality(LiveAt(times, s)) \in Nat
  BY LiveIsBounded
<1>3. last \notin LiveAt(times, s)
  BY <1>1 DEF LiveAt
<1> HIDE DEF more
<1>4. CASE t + Window > s
  <2>1. LiveAt(more, s) = LiveAt(times, s) \cup {last}
    BY <1>1, <1>4 DEF LiveAt
  <2>2. Cardinality(LiveAt(times, s) \cup {last}) = Cardinality(LiveAt(times, s)) + 1
    BY <1>2, <1>3, FS_AddElement
  <2> QED BY <1>4, <2>1, <2>2 DEF more
<1>5. CASE ~ (t + Window > s)
  <2>1. LiveAt(more, s) = LiveAt(times, s)
    BY <1>1, <1>5 DEF LiveAt
  <2> QED BY <1>2, <1>5, <2>1 DEF more
<1> QED BY <1>4, <1>5

-----------------------------------------------------------------------------
(* Types.                                                                  *)

LEMMA PrunedTypes ==
  ASSUME TypeOK, NEW now \in Nat
  PROVE  /\ AllPruned(now) \in [Accounts -> Seq(0..MaxTime)]
         /\ Filtered(now) \in [Accounts -> Seq(0..MaxTime)]
<1>1. 0..MaxTime \subseteq Nat /\ Window \in Nat
  BY SelectionAssumption
<1>2. \A a \in Accounts : hits[a] \in Seq(0..MaxTime)
  BY DEF TypeOK
<1>3. \A a \in Accounts : Pruned(hits[a], now) \in Seq(0..MaxTime)
  BY <1>1, <1>2, PrunedIsSuffix
<1>4. AllPruned(now) \in [Accounts -> Seq(0..MaxTime)]
  BY <1>3 DEF AllPruned
<1> QED BY <1>2, <1>3, <1>4 DEF Filtered

LEMMA RecordedTypes ==
  ASSUME TypeOK, NEW a \in Accounts, NEW now \in 0..MaxTime
  PROVE  Recorded(a, now) \in Seq(0..MaxTime)
<1>1. 0..MaxTime \subseteq Nat /\ Window \in Nat /\ now \in Nat
  BY SelectionAssumption
<1>2. hits[a] \in Seq(0..MaxTime)
  BY DEF TypeOK
<1>3. Pruned(hits[a], now) \in Seq(0..MaxTime)
  BY <1>1, <1>2, PrunedIsSuffix
<1>4. Append(Pruned(hits[a], now), now) \in Seq(0..MaxTime)
  BY <1>3, AppendProperties
<1> QED BY <1>2, <1>3, <1>4 DEF Recorded

LEMMA InitTypes == Init => TypeOK
<1>1. 0 \in 0..MaxTime /\ Limit \in [Accounts -> Nat]
  BY SelectionAssumption
<1>2. <<>> \in Seq(0..MaxTime)
  OBVIOUS
<1> SUFFICES ASSUME Init PROVE TypeOK
  OBVIOUS
<1>3. /\ hits \in [Accounts -> Seq(0..MaxTime)]
      /\ granted \in [Accounts -> SUBSET (Calls \X (0..MaxTime))]
      /\ cap \in [Accounts -> Nat] /\ overtaken \subseteq Calls
  <2>1. {} \in SUBSET (Calls \X (0..MaxTime))
    OBVIOUS
  <2> QED BY <1>1, <1>2, <2>1 DEF Init
<1>4. /\ clock \in 0..MaxTime /\ stamp \in [Calls -> 0..MaxTime]
      /\ made \in Nat /\ tail \in Nat /\ resolved \subseteq Nat
      /\ own \in [Calls -> Nat] /\ before \in [Calls -> Nat]
      /\ pick \in [Calls -> Accounts \cup {Nobody}]
      /\ pc \in [Calls -> {"idle", "called", "waiting", "passing", "choosing", "chosen", "over"}]
  BY <1>1 DEF Init
<1> QED BY <1>3, <1>4 DEF TypeOK

\* What the end of a call and the resolution of its promise leave.
LEMMA EndTypes ==
  ASSUME TypeOK, NEW c \in Calls, End(c)
  PROVE  /\ pc' \in [Calls -> {"idle", "called", "waiting", "passing", "choosing", "chosen", "over"}]
         /\ stamp' \in [Calls -> 0..MaxTime]
         /\ pick' \in [Calls -> Accounts \cup {Nobody}]
<1>1. 0 \in 0..MaxTime
  BY SelectionAssumption
<1>2. "over" \in {"idle", "called", "waiting", "passing", "choosing", "chosen", "over"}
  OBVIOUS
<1> QED BY <1>1, <1>2 DEF TypeOK, End, Move

LEMMA ResolveTypes ==
  ASSUME TypeOK, NEW c \in Calls, Resolve(c)
  PROVE  /\ made' \in Nat /\ tail' \in Nat /\ resolved' \subseteq Nat
         /\ own' \in [Calls -> Nat] /\ before' \in [Calls -> Nat]
BY DEF TypeOK, Resolve

LEMMA CallTypes ==
  ASSUME TypeOK, NEW c \in Calls,
         Call(c) \/ Refuse(c) \/ QueueUp(c) \/ Abort(c) \/ PassOn(c) \/ Enter(c) \/ Leave(c)
  PROVE  TypeOK'
<1>1. CASE Call(c)
  BY <1>1 DEF TypeOK, Call, Move, chain, counts
<1>2. CASE Refuse(c)
  BY <1>2, EndTypes DEF TypeOK, Refuse, chain, counts
<1>3. CASE QueueUp(c)
  BY <1>3 DEF TypeOK, QueueUp, Move, counts
<1>4. CASE Abort(c)
  BY <1>4 DEF TypeOK, Abort, Move, chain, counts
<1>5. CASE PassOn(c)
  BY <1>5, EndTypes, ResolveTypes DEF TypeOK, PassOn, counts
<1>6. CASE Enter(c)
  BY <1>6 DEF TypeOK, Enter, Move, chain, counts
<1>7. CASE Leave(c)
  BY <1>7, EndTypes, ResolveTypes DEF TypeOK, Leave, counts
<1> QED BY <1>1, <1>2, <1>3, <1>4, <1>5, <1>6, <1>7

LEMMA ChooseTypes ==
  ASSUME TypeOK, NEW c \in Calls, Choose(c)
  PROVE  TypeOK'
<1>1. stamp[c] \in Nat
  BY SelectionAssumption DEF TypeOK
<1>2. hits' \in [Accounts -> Seq(0..MaxTime)]
  BY <1>1, PrunedTypes DEF Choose
<1>3. CASE End(c) /\ Resolve(c)
  BY <1>2, <1>3, EndTypes, ResolveTypes DEF TypeOK, Choose
<1>4. CASE \E a \in Accounts : /\ pick' = [pick EXCEPT ![c] = a] /\ Move(c, "chosen")
                               /\ UNCHANGED <<stamp, chain>>
  BY <1>2, <1>4 DEF TypeOK, Choose, Move, chain
<1> QED BY <1>3, <1>4 DEF Choose

LEMMA GrantTypes ==
  ASSUME TypeOK, NEW c \in Calls, pick[c] \in Accounts, Grant(c)
  PROVE  TypeOK'
<1> DEFINE a == pick[c]
<1>1. stamp[c] \in 0..MaxTime
  BY DEF TypeOK
<1>2. Recorded(a, stamp[c]) \in Seq(0..MaxTime)
  BY <1>1, RecordedTypes
<1>3. hits' \in [Accounts -> Seq(0..MaxTime)]
  BY <1>2 DEF TypeOK, Grant
<1>4. granted' \in [Accounts -> SUBSET (Calls \X (0..MaxTime))]
  <2>1. granted' = [granted EXCEPT ![a] = granted[a] \cup {<<c, stamp[c]>>}]
    BY DEF Grant
  <2>2. granted[a] \cup {<<c, stamp[c]>>} \in SUBSET (Calls \X (0..MaxTime))
    BY <1>1 DEF TypeOK
  <2> QED BY <2>1, <2>2 DEF TypeOK
<1> QED BY <1>3, <1>4, EndTypes, ResolveTypes DEF TypeOK, Grant

LEMMA CapTypes ==
  ASSUME TypeOK, NEW a \in Accounts, NEW n \in Nat, SetCap(a, n)
  PROVE  TypeOK'
BY DEF TypeOK, SetCap, chain

\* The cap that a change leaves.
LEMMA CapSteps ==
  ASSUME TypeOK, NEW a \in Accounts, Learn(a) \/ Forget(a)
  PROVE  \E n \in Nat : SetCap(a, n) /\ (Limit[a] > 0 => 1 <= n /\ n <= Limit[a])
<1>1. Limit[a] \in Nat /\ StatedCaps \subseteq Nat \ {0}
  BY SelectionAssumption
<1>2. CASE Learn(a)
  <2>1. PICK m \in StatedCaps : SetCap(a, IF Limit[a] = 0 \/ m < Limit[a] THEN m ELSE Limit[a])
    BY <1>2 DEF Learn
  <2> DEFINE n == IF Limit[a] = 0 \/ m < Limit[a] THEN m ELSE Limit[a]
  <2>2. n \in Nat /\ (Limit[a] > 0 => 1 <= n /\ n <= Limit[a])
    BY <1>1
  <2> QED BY <2>1, <2>2
<1>3. CASE Forget(a)
  <2>1. SetCap(a, Limit[a])
    BY <1>3 DEF Forget
  <2>2. Limit[a] > 0 => 1 <= Limit[a] /\ Limit[a] <= Limit[a]
    BY <1>1
  <2> QED BY <1>1, <2>1, <2>2
<1> QED BY <1>2, <1>3

-----------------------------------------------------------------------------
(* The record covers the window.                                           *)

\* The types that the arithmetic of the record needs.
LEMMA RecordTypes ==
  ASSUME RecordInv, NEW a \in Accounts
  PROVE  /\ hits[a] \in Seq(Nat) /\ Len(hits[a]) \in Nat
         /\ cap[a] \in Nat /\ Limit[a] \in Nat /\ Window \in Nat /\ clock \in Nat
         /\ \A c \in Calls : stamp[c] \in Nat
<1>1. hits[a] \in Seq(0..MaxTime) /\ 0..MaxTime \subseteq Nat
  BY SelectionAssumption DEF RecordInv, TypeOK
<1>2. hits[a] \in Seq(Nat)
  BY <1>1, SeqMonotonic
<1> QED BY <1>2, SelectionAssumption DEF RecordInv, TypeOK

LEMMA CountedIsFinite ==
  ASSUME RecordInv, NEW a \in Accounts, NEW s \in Nat
  PROVE  IsFiniteSet(Counted(a, s)) /\ Cardinality(Counted(a, s)) \in Nat
<1>1. IsFiniteSet(granted[a]) /\ Counted(a, s) \in SUBSET granted[a]
  BY DEF RecordInv, Counted
<1> QED BY <1>1, FS_Subset, FS_CardinalityType

LEMMA InitRecord == Init => RecordInv
<1> SUFFICES ASSUME Init PROVE RecordInv
  OBVIOUS
<1>1. TypeOK
  BY InitTypes
<1>2. TimesPast /\ RoomKept
  BY DEF Init, TimesPast, RoomKept
<1>3. CapsBound
  BY SelectionAssumption DEF Init, CapsBound
<1>4. \A a \in Accounts : IsFiniteSet(granted[a])
  BY FS_EmptySet DEF Init
<1>5. AllOnRecord
  <2> SUFFICES ASSUME NEW a \in Accounts, NEW s \in Nat
               PROVE  Cardinality(Counted(a, s)) <= Cardinality(LiveAt(hits[a], s))
    BY DEF AllOnRecord
  <2>1. Counted(a, s) = {} /\ LiveAt(hits[a], s) = {}
    BY DEF Init, Counted, LiveAt
  <2> QED BY <2>1, FS_EmptySet
<1> QED BY <1>1, <1>2, <1>3, <1>4, <1>5 DEF RecordInv

\* A call keeps the account it has settled on, or gives it up.
KeepsOrDrops(d) ==
  \/ pick'[d] = Nobody /\ pc'[d] # "chosen"
  \/ pick'[d] = pick[d] /\ (pc'[d] = "chosen" <=> pc[d] = "chosen")

\* A step that leaves the record alone, in which a call may give its account up.
LEMMA QuietRecord ==
  ASSUME RecordInv, TypeOK', UNCHANGED <<cap, hits, granted, overtaken>>,
         clock <= clock', \A d \in Calls : stamp'[d] <= clock',
         \A d \in Calls : KeepsOrDrops(d)
  PROVE  RecordInv'
<1>1. clock \in Nat /\ clock' \in Nat
  BY SelectionAssumption DEF RecordInv, TypeOK
<1>2. TimesPast'
  <2> SUFFICES ASSUME NEW a \in Accounts, NEW i \in 1..Len(hits[a]) PROVE hits[a][i] <= clock'
    BY DEF TimesPast
  <2>1. hits[a][i] \in Nat
    BY RecordTypes, ElementOfSeq
  <2>2. hits[a][i] <= clock
    BY DEF RecordInv, TimesPast
  <2> QED BY <1>1, <2>1, <2>2
<1>3. CapsBound'
  BY DEF RecordInv, CapsBound
<1>4. RoomKept'
  BY DEF RecordInv, RoomKept, KeepsOrDrops
<1>5. AllOnRecord'
  BY <1>1 DEF RecordInv, AllOnRecord, Counted
<1> QED BY <1>2, <1>3, <1>4, <1>5 DEF RecordInv

LEMMA CallRecord ==
  ASSUME RecordInv, NEW c \in Calls,
         Call(c) \/ Refuse(c) \/ QueueUp(c) \/ Abort(c) \/ PassOn(c) \/ Enter(c) \/ Leave(c)
  PROVE  RecordInv'
<1>1. TypeOK /\ TypeOK'
  BY CallTypes DEF RecordInv
<1>2. UNCHANGED <<clock, cap, hits, granted, overtaken>>
  BY DEF Call, Refuse, QueueUp, Abort, PassOn, Enter, Leave, counts
<1>3. \A d \in Calls : stamp[d] \in Nat /\ stamp[d] <= clock /\ clock \in Nat
  BY <1>1, SelectionAssumption DEF RecordInv, TimesPast, TypeOK
<1>4. \A d \in Calls : stamp'[d] <= clock'
  <2>1. \/ stamp' = [stamp EXCEPT ![c] = clock]
        \/ stamp' = [stamp EXCEPT ![c] = 0]
        \/ stamp' = stamp
    BY DEF Call, Refuse, QueueUp, Abort, PassOn, Enter, Leave, End
  <2>2. \A d \in Calls : stamp'[d] \in {clock, 0, stamp[d]}
    BY <1>1, <2>1 DEF TypeOK
  <2> QED BY <1>2, <1>3, <2>2
<1>5. ASSUME NEW d \in Calls PROVE KeepsOrDrops(d)
  <2>2. CASE End(c)
    BY <1>1, <2>2 DEF KeepsOrDrops, TypeOK, End, Move
  <2>3. CASE ~ End(c)
    BY <1>1, <2>3 DEF KeepsOrDrops, TypeOK, Call, Refuse, QueueUp, Abort, PassOn, Enter, Leave, Move
  <2> QED BY <2>2, <2>3
<1>6. clock <= clock'
  BY <1>2, <1>3
<1> QED BY <1>1, <1>2, <1>4, <1>5, <1>6, QuietRecord

\* What a pruning does to the record of one account.
LEMMA PrunedRecord ==
  ASSUME RecordInv, NEW a \in Accounts, NEW now \in Nat, NEW s \in Nat, now <= s
  PROVE  /\ Pruned(hits[a], now) \in Seq(Nat)
         /\ Len(Pruned(hits[a], now)) <= Len(hits[a])
         /\ \A i \in 1..Len(Pruned(hits[a], now)) : \E j \in 1..Len(hits[a]) :
              Pruned(hits[a], now)[i] = hits[a][j]
         /\ Cardinality(LiveAt(hits[a], s)) <= Cardinality(LiveAt(Pruned(hits[a], now), s))
<1>1. hits[a] \in Seq(Nat) /\ Window \in Nat /\ Nat \subseteq Nat
  BY RecordTypes
<1> QED BY <1>1, PrunedKeepsLive

\* A step prunes the record of an account or leaves it.
PrunedOrKept(a, now) == hits'[a] = Pruned(hits[a], now) \/ hits'[a] = hits[a]

\* A pruning at a time that has come shortens the records and loses nothing that
\* counts.
LEMMA PruneRecord ==
  ASSUME RecordInv, NEW now \in Nat, now <= clock,
         \A a \in Accounts : PrunedOrKept(a, now),
         UNCHANGED <<clock, cap, granted, overtaken>>
  PROVE  /\ CapsBound' /\ AllOnRecord'
         /\ \A a \in Accounts : Len(hits'[a]) \in Nat /\ Len(hits'[a]) <= Len(hits[a])
         /\ \A a \in Accounts : \A i \in 1..Len(hits'[a]) : hits'[a][i] <= clock
<1>1. ASSUME NEW a \in Accounts, NEW s \in Nat, clock <= s
      PROVE  /\ hits'[a] \in Seq(Nat) /\ Len(hits'[a]) <= Len(hits[a])
             /\ \A i \in 1..Len(hits'[a]) : \E j \in 1..Len(hits[a]) : hits'[a][i] = hits[a][j]
             /\ Cardinality(LiveAt(hits[a], s)) <= Cardinality(LiveAt(hits'[a], s))
  <2>1. clock \in Nat /\ now <= s
    <3>1. clock \in Nat
      BY RecordTypes
    <3> QED BY <1>1, <3>1
  <2>2. CASE hits'[a] = hits[a]
    <3>1. hits[a] \in Seq(Nat) /\ Len(hits[a]) \in Nat
      BY RecordTypes
    <3>2. IsFiniteSet(LiveAt(hits[a], s)) /\ Cardinality(LiveAt(hits[a], s)) \in Nat
      BY <1>1, <3>1, RecordTypes, LiveIsBounded
    <3>3. Cardinality(LiveAt(hits[a], s)) <= Cardinality(LiveAt(hits[a], s))
      BY <3>2
    <3>4. Cardinality(LiveAt(hits[a], s)) <= Cardinality(LiveAt(hits'[a], s))
      BY <2>2, <3>3, Zenon
    <3> QED BY <2>2, <3>1, <3>4
  <2>3. /\ Pruned(hits[a], now) \in Seq(Nat)
        /\ Len(Pruned(hits[a], now)) <= Len(hits[a])
        /\ \A i \in 1..Len(Pruned(hits[a], now)) : \E j \in 1..Len(hits[a]) :
             Pruned(hits[a], now)[i] = hits[a][j]
        /\ Cardinality(LiveAt(hits[a], s)) <= Cardinality(LiveAt(Pruned(hits[a], now), s))
    BY <2>1, PrunedRecord
  <2>4. CASE hits'[a] = Pruned(hits[a], now)
    BY <2>3, <2>4
  <2> QED BY <2>2, <2>4 DEF PrunedOrKept
<1>2. ASSUME NEW a \in Accounts
      PROVE  /\ hits'[a] \in Seq(Nat) /\ Len(hits'[a]) <= Len(hits[a])
             /\ \A i \in 1..Len(hits'[a]) : \E j \in 1..Len(hits[a]) : hits'[a][i] = hits[a][j]
             /\ Len(hits'[a]) \in Nat /\ Len(hits[a]) \in Nat
             /\ cap[a] \in Nat /\ Limit[a] \in Nat
  <2>1. clock \in Nat /\ clock <= clock
    BY RecordTypes
  <2>2. hits'[a] \in Seq(Nat)
    BY <1>1, <2>1
  <2>3. Len(hits'[a]) <= Len(hits[a])
    BY <1>1, <2>1
  <2>4. \A i \in 1..Len(hits'[a]) : \E j \in 1..Len(hits[a]) : hits'[a][i] = hits[a][j]
    BY <1>1, <2>1
  <2>5. Len(hits'[a]) \in Nat
    BY <2>2, LenProperties
  <2> QED BY <2>2, <2>3, <2>4, <2>5, RecordTypes
<1>3. CapsBound'
  <2> SUFFICES ASSUME NEW a \in Accounts, Limit[a] > 0
               PROVE  1 <= cap[a] /\ cap[a] <= Limit[a] /\ Len(hits'[a]) <= Limit[a]
    BY DEF CapsBound
  <2>1. 1 <= cap[a] /\ cap[a] <= Limit[a] /\ Len(hits[a]) <= Limit[a]
    BY DEF RecordInv, CapsBound
  <2> QED BY <1>2, <2>1
<1>4. AllOnRecord'
  <2> SUFFICES ASSUME NEW a \in Accounts, Limit[a] > 0, NEW s \in Nat, clock <= s
               PROVE  Cardinality(Counted(a, s)) <= Cardinality(LiveAt(hits'[a], s))
    BY DEF AllOnRecord, Counted
  <2>1. Cardinality(Counted(a, s)) <= Cardinality(LiveAt(hits[a], s))
    BY DEF RecordInv, AllOnRecord
  <2>2. Cardinality(LiveAt(hits[a], s)) <= Cardinality(LiveAt(hits'[a], s))
    BY <1>1
  <2>3. /\ Cardinality(Counted(a, s)) \in Nat
        /\ Cardinality(LiveAt(hits[a], s)) \in Nat
        /\ Cardinality(LiveAt(hits'[a], s)) \in Nat
    BY <1>2, RecordTypes, CountedIsFinite, LiveIsBounded
  <2> QED BY <2>1, <2>2, <2>3
<1>5. ASSUME NEW a \in Accounts, NEW i \in 1..Len(hits'[a]) PROVE hits'[a][i] <= clock
  <2>1. PICK j \in 1..Len(hits[a]) : hits'[a][i] = hits[a][j]
    BY <1>2
  <2> QED BY <2>1 DEF RecordInv, TimesPast
<1> QED BY <1>2, <1>3, <1>4, <1>5

\* Beside the call that selects none has settled on an account.
LEMMA OthersHaveNoPick ==
  ASSUME ChainInv, RecordInv, NEW c \in Calls, pc[c] \in {"choosing", "chosen"},
         NEW d \in Calls, d # c
  PROVE  pick[d] = Nobody /\ pc[d] # "chosen"
<1>1. pc[d] # "chosen"
  BY ChainIsExclusive DEF OneSelection, Selecting
<1> QED BY <1>1 DEF RecordInv, RoomKept

LEMMA ChooseRecord ==
  ASSUME ChainInv, RecordInv, NEW c \in Calls, Choose(c)
  PROVE  RecordInv'
<1>1. TypeOK /\ TypeOK' /\ stamp[c] \in Nat /\ stamp[c] <= clock /\ clock \in Nat
  <2>1. TypeOK /\ TypeOK'
    BY ChooseTypes DEF RecordInv
  <2>2. stamp[c] \in Nat /\ clock \in Nat
    BY <2>1, SelectionAssumption DEF TypeOK
  <2> QED BY <2>1, <2>2 DEF RecordInv, TimesPast
<1>2. UNCHANGED <<clock, cap, granted, overtaken>>
  BY DEF Choose
<1>7. \A a \in Accounts : PrunedOrKept(a, stamp[c])
  BY DEF Choose, Filtered, PrunedOrKept
<1>3. /\ CapsBound' /\ AllOnRecord'
      /\ \A a \in Accounts : Len(hits'[a]) \in Nat /\ Len(hits'[a]) <= Len(hits[a])
      /\ \A a \in Accounts : \A i \in 1..Len(hits'[a]) : hits'[a][i] <= clock
  BY <1>1, <1>2, <1>7, PruneRecord
<1>4. TimesPast'
  <2>1. stamp' = stamp \/ stamp' = [stamp EXCEPT ![c] = 0]
    BY DEF Choose, End
  <2>2. \A d \in Calls : stamp'[d] \in {0, stamp[d]}
    BY <1>1, <2>1 DEF TypeOK
  <2>3. \A d \in Calls : stamp'[d] <= clock
    BY <1>1, <2>2 DEF RecordInv, TimesPast
  <2> QED BY <1>2, <1>3, <2>3 DEF TimesPast
<1>5. RoomKept'
  <2>1. ASSUME NEW d \in Calls, d # c PROVE pick[d] = Nobody /\ pc[d] # "chosen"
    <3>1. pc[c] = "choosing"
      BY DEF Choose
    <3> QED BY <2>1, <3>1, OthersHaveNoPick
  <2>2. CASE End(c)
    <3>1. \A d \in Calls : pick'[d] = Nobody /\ pc'[d] # "chosen"
      BY <1>1, <2>1, <2>2 DEF TypeOK, End, Move
    <3> QED BY <3>1 DEF RoomKept
  <2>3. CASE \E a \in Accounts : /\ ~OverLimit(a, hits'[a]) /\ pick' = [pick EXCEPT ![c] = a]
                                 /\ Move(c, "chosen")
    <3>1. PICK a \in Accounts : /\ ~OverLimit(a, hits'[a]) /\ pick' = [pick EXCEPT ![c] = a]
                                /\ Move(c, "chosen")
      BY <2>3
    <3>2. /\ pick'[c] = a /\ pc'[c] = "chosen" /\ a # Nobody
          /\ \A d \in Calls : d # c => pick'[d] = Nobody /\ pc'[d] # "chosen"
      BY SelectionAssumption, <1>1, <2>1, <3>1 DEF TypeOK, Move
    <3>3. Limit[a] > 0 => 1 <= cap[a]
      BY DEF RecordInv, CapsBound
    <3>4. cap[a] \in Nat /\ Len(hits'[a]) \in Nat
      BY <1>3, RecordTypes
    <3>5. Limit[a] > 0 => Len(hits'[a]) < cap[a]
      BY <3>1, <3>3, <3>4 DEF OverLimit
    <3> QED BY <1>2, <3>2, <3>5 DEF RoomKept
  <2> QED BY <2>2, <2>3 DEF Choose
<1>6. \A a \in Accounts : IsFiniteSet(granted'[a])
  BY <1>2 DEF RecordInv
<1> QED BY <1>1, <1>3, <1>4, <1>5, <1>6 DEF RecordInv

\* What a grant does to the record of its account: the time is added, unless the
\* cap was lowered since the check.
LEMMA GrantedIsRecorded ==
  ASSUME RecordInv, NEW c \in Calls, NEW a \in Accounts, pick[c] = a, Limit[a] > 0,
         NEW now \in Nat, now <= clock, NEW s \in Nat, clock <= s
  PROVE  /\ Len(Recorded(a, now)) <= Limit[a]
         /\ \A i \in 1..Len(Recorded(a, now)) : Recorded(a, now)[i] <= clock
         /\ Recorded(a, now) \in Seq(Nat)
         /\ Cardinality(LiveAt(hits[a], s)) +
              (IF c \notin overtaken /\ now + Window > s THEN 1 ELSE 0)
            <= Cardinality(LiveAt(Recorded(a, now), s))
<1> DEFINE times == Pruned(hits[a], now)
<1>1. /\ hits[a] \in Seq(Nat) /\ Len(hits[a]) \in Nat
      /\ cap[a] \in Nat /\ Limit[a] \in Nat /\ Window \in Nat /\ clock \in Nat /\ now <= s
  <2>1. /\ hits[a] \in Seq(Nat) /\ Len(hits[a]) \in Nat
        /\ cap[a] \in Nat /\ Limit[a] \in Nat /\ Window \in Nat /\ clock \in Nat
    BY RecordTypes
  <2> QED BY <2>1
<1>2. 1 <= cap[a] /\ cap[a] <= Limit[a] /\ Len(hits[a]) <= Limit[a]
  BY DEF RecordInv, CapsBound
<1>3. c \notin overtaken => Len(hits[a]) < cap[a]
  BY SelectionAssumption DEF RecordInv, RoomKept
<1>4. \A i \in 1..Len(hits[a]) : hits[a][i] <= clock
  BY DEF RecordInv, TimesPast
<1>6. /\ times \in Seq(Nat) /\ Len(times) <= Len(hits[a])
      /\ \A i \in 1..Len(times) : \E j \in 1..Len(hits[a]) : times[i] = hits[a][j]
      /\ Cardinality(LiveAt(hits[a], s)) <= Cardinality(LiveAt(times, s))
  BY <1>1, PrunedRecord
<1>7. Recorded(a, now) = IF Len(times) >= cap[a] THEN times ELSE Append(times, now)
  BY <1>1, <1>2 DEF Recorded, OverLimit
<1> HIDE DEF times
<1>8. /\ Len(times) \in Nat
      /\ Cardinality(LiveAt(hits[a], s)) \in Nat /\ Cardinality(LiveAt(times, s)) \in Nat
      /\ \A i \in 1..Len(times) : times[i] <= clock
  <2>1. Len(times) \in Nat
    BY <1>6
  <2>2. Cardinality(LiveAt(hits[a], s)) \in Nat /\ Cardinality(LiveAt(times, s)) \in Nat
    BY <1>1, <1>6, LiveIsBounded
  <2> QED BY <1>4, <1>6, <2>1, <2>2
<1>9. CASE Len(times) >= cap[a]
  <2>1. c \in overtaken
    BY <1>1, <1>3, <1>6, <1>8, <1>9
  <2>2. Len(times) <= Limit[a]
    BY <1>1, <1>2, <1>6, <1>8
  <2> QED BY <1>6, <1>7, <1>8, <1>9, <2>1, <2>2
<1>10. CASE ~ (Len(times) >= cap[a])
  <2>1. /\ Append(times, now) \in Seq(Nat)
        /\ Len(Append(times, now)) = Len(times) + 1
        /\ \A i \in 1..Len(times) : Append(times, now)[i] = times[i]
        /\ Append(times, now)[Len(times) + 1] = now
    BY <1>1, <1>6, AppendProperties
  <2>2. Len(Append(times, now)) <= Limit[a]
    BY <1>1, <1>2, <1>8, <1>10, <2>1
  <2>3. \A i \in 1..Len(Append(times, now)) : Append(times, now)[i] <= clock
    <3> SUFFICES ASSUME NEW i \in 1..Len(Append(times, now)) PROVE Append(times, now)[i] <= clock
      OBVIOUS
    <3>1. i \in 1..Len(times) \/ i = Len(times) + 1
      BY <1>8, <2>1
    <3> QED BY <1>1, <1>8, <2>1, <3>1
  <2>4. Cardinality(LiveAt(Append(times, now), s)) =
          Cardinality(LiveAt(times, s)) + (IF now + Window > s THEN 1 ELSE 0)
    BY <1>1, <1>6, AppendedIsLive
  <2>5. Cardinality(LiveAt(hits[a], s)) +
          (IF c \notin overtaken /\ now + Window > s THEN 1 ELSE 0)
        <= Cardinality(LiveAt(Append(times, now), s))
    BY <1>1, <1>6, <1>8, <2>4
  <2> QED BY <1>7, <1>10, <2>1, <2>2, <2>3, <2>5
<1> QED BY <1>9, <1>10

\* No time on record is ahead of the clock after a grant.
LEMMA GrantedIsPast ==
  ASSUME RecordInv, NEW a \in Accounts, NEW now \in Nat, now <= clock
  PROVE  \A i \in 1..Len(Recorded(a, now)) : Recorded(a, now)[i] <= clock
<1> DEFINE times == Pruned(hits[a], now)
<1>1. hits[a] \in Seq(Nat) /\ clock \in Nat /\ \A i \in 1..Len(hits[a]) : hits[a][i] <= clock
  BY RecordTypes DEF RecordInv, TimesPast
<1>2. /\ times \in Seq(Nat)
      /\ \A i \in 1..Len(times) : \E j \in 1..Len(hits[a]) : times[i] = hits[a][j]
  BY <1>1, PrunedRecord
<1>3. Recorded(a, now) \in {hits[a], times, Append(times, now)}
  BY DEF Recorded
<1> HIDE DEF times
<1>4. \A i \in 1..Len(times) : times[i] <= clock
  BY <1>1, <1>2
<1>5. /\ Len(times) \in Nat /\ Len(Append(times, now)) = Len(times) + 1
      /\ \A i \in 1..Len(times) : Append(times, now)[i] = times[i]
      /\ Append(times, now)[Len(times) + 1] = now
  BY <1>2, AppendProperties
<1>6. ASSUME NEW i \in 1..Len(Append(times, now)) PROVE Append(times, now)[i] <= clock
  <2>1. i \in 1..Len(times) \/ i = Len(times) + 1
    BY <1>5
  <2> QED BY <1>4, <1>5, <2>1
<1> QED BY <1>1, <1>3, <1>4, <1>6

LEMMA GrantRecord ==
  ASSUME ChainInv, RecordInv, NEW c \in Calls, Grant(c)
  PROVE  RecordInv'
<1>1. pc[c] = "chosen" /\ pick[c] \in Accounts /\ stamp[c] \in Nat
  BY SelectionAssumption DEF Grant, RecordInv, RoomKept, TypeOK
<1>2. PICK a \in Accounts : pick[c] = a
  BY <1>1
<1>3. PICK now \in Nat : stamp[c] = now
  BY <1>1
<1>4. TypeOK /\ TypeOK'
  BY <1>1, GrantTypes DEF RecordInv
<1>5. /\ hits' = [hits EXCEPT ![a] = Recorded(a, now)]
      /\ granted' = [granted EXCEPT ![a] = granted[a] \cup {<<c, now>>}]
      /\ UNCHANGED <<clock, cap, overtaken>> /\ End(c)
  BY <1>2, <1>3 DEF Grant
<1>6. now \in Nat /\ now <= clock /\ clock \in Nat
  BY <1>2, <1>3, RecordTypes DEF RecordInv, TimesPast
<1>7. \A d \in Calls : stamp'[d] \in {0, stamp[d]}
  BY <1>4, <1>5 DEF TypeOK, End
<1>8. \A d \in Calls : pick'[d] = Nobody /\ pc'[d] # "chosen"
  <2>1. \A d \in Calls : d # c => pick[d] = Nobody /\ pc[d] # "chosen"
    BY <1>1, OthersHaveNoPick
  <2> QED BY <1>4, <1>5, <2>1 DEF TypeOK, End, Move
<1>9. \A b \in Accounts : /\ hits'[b] = IF b = a THEN Recorded(a, now) ELSE hits[b]
                          /\ granted'[b] = IF b = a THEN granted[a] \cup {<<c, now>>} ELSE granted[b]
  BY <1>4, <1>5 DEF TypeOK
<1>10. TimesPast'
  <2>1. \A i \in 1..Len(Recorded(a, now)) : Recorded(a, now)[i] <= clock
    BY <1>6, GrantedIsPast
  <2>2. \A d \in Calls : stamp'[d] <= clock
    BY <1>6, <1>7 DEF RecordInv, TimesPast
  <2>3. \A b \in Accounts : \A i \in 1..Len(hits'[b]) : hits'[b][i] <= clock
    BY <1>9, <2>1 DEF RecordInv, TimesPast
  <2> QED BY <1>5, <2>2, <2>3 DEF TimesPast
<1>11. CapsBound'
  <2> SUFFICES ASSUME NEW b \in Accounts, Limit[b] > 0
               PROVE  1 <= cap[b] /\ cap[b] <= Limit[b] /\ Len(hits'[b]) <= Limit[b]
    BY <1>5 DEF CapsBound
  <2>1. 1 <= cap[b] /\ cap[b] <= Limit[b] /\ Len(hits[b]) <= Limit[b]
    BY DEF RecordInv, CapsBound
  <2>2. CASE b = a
    <3>1. Len(Recorded(a, now)) <= Limit[a]
      <4>1. clock <= clock
        BY <1>6
      <4> QED BY <1>2, <1>6, <2>2, <4>1, GrantedIsRecorded
    <3> QED BY <1>9, <2>1, <2>2, <3>1
  <2>3. CASE b # a
    BY <1>9, <2>1, <2>3
  <2> QED BY <2>2, <2>3
<1>12. RoomKept'
  BY <1>8 DEF RoomKept
<1>13. ASSUME NEW b \in Accounts PROVE IsFiniteSet(granted'[b])
  <2>1. IsFiniteSet(granted[b])
    BY DEF RecordInv
  <2>2. IsFiniteSet(granted[b] \cup {<<c, now>>})
    BY <2>1, FS_AddElement
  <2> QED BY <1>9, <2>1, <2>2
<1>14. AllOnRecord'
  <2> SUFFICES ASSUME NEW b \in Accounts, Limit[b] > 0, NEW s \in Nat, clock <= s
               PROVE  Cardinality(Counted(b, s)') <= Cardinality(LiveAt(hits'[b], s))
    BY <1>5 DEF AllOnRecord, Counted
  <2>1. Cardinality(Counted(b, s)) <= Cardinality(LiveAt(hits[b], s))
    BY DEF RecordInv, AllOnRecord
  <2>2. CASE b # a
    <3>1. Counted(b, s)' = Counted(b, s) /\ hits'[b] = hits[b]
      BY <1>5, <1>9, <2>2 DEF Counted
    <3> QED BY <2>1, <3>1
  <2>3. CASE b = a
    <3>1. /\ Recorded(a, now) \in Seq(Nat)
          /\ Cardinality(LiveAt(hits[a], s)) +
               (IF c \notin overtaken /\ now + Window > s THEN 1 ELSE 0)
             <= Cardinality(LiveAt(Recorded(a, now), s))
      BY <1>2, <1>6, <2>3, GrantedIsRecorded
    <3>2. /\ IsFiniteSet(Counted(a, s)) /\ Cardinality(Counted(a, s)) \in Nat
          /\ Cardinality(LiveAt(hits[a], s)) \in Nat
          /\ Cardinality(LiveAt(Recorded(a, now), s)) \in Nat
      BY <3>1, RecordTypes, CountedIsFinite, LiveIsBounded
    <3>3. Cardinality(Counted(a, s)') <=
            Cardinality(Counted(a, s)) + (IF c \notin overtaken /\ now + Window > s THEN 1 ELSE 0)
      <4>1. CASE c \notin overtaken /\ now + Window > s
        <5>1. Counted(a, s)' = Counted(a, s) \cup {<<c, now>>}
          BY <1>5, <1>9, <4>1 DEF Counted
        <5>2. Cardinality(Counted(a, s) \cup {<<c, now>>}) \in
                {Cardinality(Counted(a, s)), Cardinality(Counted(a, s)) + 1}
          BY <3>2, FS_AddElement
        <5> QED BY <3>2, <4>1, <5>1, <5>2
      <4>2. CASE ~ (c \notin overtaken /\ now + Window > s)
        <5>1. Counted(a, s)' = Counted(a, s)
          BY <1>5, <1>9, <4>2 DEF Counted
        <5> QED BY <3>2, <4>2, <5>1
      <4> QED BY <4>1, <4>2
    <3>4. Cardinality(Counted(a, s)') \in Nat
      <4>1. IsFiniteSet(granted'[a]) /\ Counted(a, s)' \in SUBSET granted'[a]
        BY <1>13 DEF Counted
      <4> QED BY <4>1, FS_Subset, FS_CardinalityType
    <3>5. hits'[b] = Recorded(a, now)
      BY <1>9, <2>3
    <3> QED BY <2>1, <2>3, <3>1, <3>2, <3>3, <3>4, <3>5
  <2> QED BY <2>2, <2>3
<1> QED BY <1>4, <1>10, <1>11, <1>12, <1>13, <1>14 DEF RecordInv

\* A lower cap leaves no room for the calls on their way to the record: they are
\* overtaken, which takes them out of the count.
LEMMA CapRecord ==
  ASSUME RecordInv, NEW a \in Accounts, NEW n \in Nat, SetCap(a, n),
         Limit[a] > 0 => 1 <= n /\ n <= Limit[a]
  PROVE  RecordInv'
<1>1. /\ cap' = [cap EXCEPT ![a] = n]
      /\ overtaken' = overtaken \cup {c \in Calls : pick[c] = a /\ n < cap[a]}
      /\ UNCHANGED <<clock, pc, stamp, hits, granted, pick>>
  BY DEF SetCap
<1>2. TypeOK /\ TypeOK'
  BY CapTypes DEF RecordInv
<1>3. \A b \in Accounts : cap'[b] = IF b = a THEN n ELSE cap[b]
  BY <1>1, <1>2 DEF TypeOK
<1>4. TimesPast'
  BY <1>1 DEF RecordInv, TimesPast
<1>5. CapsBound'
  BY <1>1, <1>3 DEF RecordInv, CapsBound
<1>6. RoomKept'
  <2> SUFFICES ASSUME NEW c \in Calls
               PROVE  /\ pc[c] = "chosen" <=> pick[c] # Nobody
                      /\ pick[c] # Nobody /\ Limit[pick[c]] > 0 /\ c \notin overtaken' =>
                           Len(hits[pick[c]]) < cap'[pick[c]]
    BY <1>1 DEF RoomKept
  <2>1. pc[c] = "chosen" <=> pick[c] # Nobody
    BY DEF RecordInv, RoomKept
  <2>2. ASSUME pick[c] # Nobody, Limit[pick[c]] > 0, c \notin overtaken'
        PROVE  Len(hits[pick[c]]) < cap'[pick[c]]
    <3>1. pick[c] \in Accounts /\ c \notin overtaken
      BY <1>1, <1>2, <2>2 DEF TypeOK
    <3>2. Len(hits[pick[c]]) < cap[pick[c]]
      BY <2>2, <3>1 DEF RecordInv, RoomKept
    <3>3. CASE pick[c] = a
      <4>1. ~ (n < cap[a])
        BY <1>1, <2>2, <3>3
      <4>2. Len(hits[a]) \in Nat /\ cap[a] \in Nat
        BY RecordTypes
      <4> QED BY <1>3, <3>2, <3>3, <4>1, <4>2
    <3>4. CASE pick[c] # a
      BY <1>3, <3>1, <3>2, <3>4
    <3> QED BY <3>3, <3>4
  <2> QED BY <2>1, <2>2
<1>7. AllOnRecord'
  <2> SUFFICES ASSUME NEW b \in Accounts, Limit[b] > 0, NEW s \in Nat, clock <= s
               PROVE  Cardinality(Counted(b, s)') <= Cardinality(LiveAt(hits[b], s))
    BY <1>1 DEF AllOnRecord, Counted
  <2>1. Cardinality(Counted(b, s)) <= Cardinality(LiveAt(hits[b], s))
    BY DEF RecordInv, AllOnRecord
  <2>2. Counted(b, s)' \in SUBSET Counted(b, s)
    BY <1>1 DEF Counted
  <2>3. IsFiniteSet(Counted(b, s)) /\ Cardinality(Counted(b, s)) \in Nat
    BY CountedIsFinite
  <2>4. /\ Cardinality(Counted(b, s)') <= Cardinality(Counted(b, s))
        /\ Cardinality(Counted(b, s)') \in Nat
    BY <2>2, <2>3, FS_Subset, FS_CardinalityType
  <2>5. Cardinality(LiveAt(hits[b], s)) \in Nat
    BY RecordTypes, LiveIsBounded
  <2> QED BY <2>1, <2>3, <2>4, <2>5
<1>8. \A b \in Accounts : IsFiniteSet(granted'[b])
  BY <1>1 DEF RecordInv
<1> QED BY <1>2, <1>4, <1>5, <1>6, <1>7, <1>8 DEF RecordInv

LEMMA CleanupRecord ==
  ASSUME RecordInv, Cleanup
  PROVE  RecordInv'
<1>1. /\ hits' = AllPruned(clock)
      /\ UNCHANGED <<clock, pc, stamp, chain, cap, granted, overtaken, pick>>
  BY DEF Cleanup
<1>2. clock \in Nat /\ clock <= clock
  BY SelectionAssumption DEF RecordInv, TypeOK
<1>8. \A a \in Accounts : PrunedOrKept(a, clock)
  BY <1>1 DEF AllPruned, PrunedOrKept
<1>3. /\ CapsBound' /\ AllOnRecord'
      /\ \A a \in Accounts : Len(hits'[a]) \in Nat /\ Len(hits'[a]) <= Len(hits[a])
      /\ \A a \in Accounts : \A i \in 1..Len(hits'[a]) : hits'[a][i] <= clock
  BY <1>1, <1>2, <1>8, PruneRecord
<1>4. hits' \in [Accounts -> Seq(0..MaxTime)]
  BY <1>1, <1>2, PrunedTypes DEF RecordInv
<1>5. TypeOK'
  BY <1>1, <1>4 DEF RecordInv, TypeOK, chain
<1>6. TimesPast'
  BY <1>1, <1>3 DEF RecordInv, TimesPast
<1>7. RoomKept'
  <2> SUFFICES ASSUME NEW c \in Calls
               PROVE  /\ pc[c] = "chosen" <=> pick[c] # Nobody
                      /\ pick[c] # Nobody /\ Limit[pick[c]] > 0 /\ c \notin overtaken =>
                           Len(hits'[pick[c]]) < cap[pick[c]]
    BY <1>1 DEF RoomKept
  <2>1. pc[c] = "chosen" <=> pick[c] # Nobody
    BY DEF RecordInv, RoomKept
  <2>2. ASSUME pick[c] # Nobody, Limit[pick[c]] > 0, c \notin overtaken
        PROVE  Len(hits'[pick[c]]) < cap[pick[c]]
    <3>1. pick[c] \in Accounts
      BY <2>2 DEF RecordInv, TypeOK
    <3>2. Len(hits[pick[c]]) < cap[pick[c]]
      BY <2>2 DEF RecordInv, RoomKept
    <3>3. Len(hits[pick[c]]) \in Nat /\ cap[pick[c]] \in Nat
      BY <3>1, RecordTypes
    <3> QED BY <1>3, <3>1, <3>2, <3>3
  <2> QED BY <2>1, <2>2
<1> QED BY <1>1, <1>3, <1>5, <1>6, <1>7 DEF RecordInv

LEMMA StepRecord == ChainInv /\ RecordInv /\ [Next]_vars => RecordInv'
<1> SUFFICES ASSUME ChainInv, RecordInv, [Next]_vars PROVE RecordInv'
  OBVIOUS
<1>1. ASSUME NEW c \in Calls,
             Call(c) \/ Refuse(c) \/ QueueUp(c) \/ Abort(c) \/ PassOn(c) \/ Enter(c) \/ Leave(c)
      PROVE  RecordInv'
  BY <1>1, CallRecord
<1>2. ASSUME NEW c \in Calls, Choose(c) PROVE RecordInv'
  BY <1>2, ChooseRecord
<1>3. ASSUME NEW c \in Calls, Grant(c) PROVE RecordInv'
  BY <1>3, GrantRecord
<1>4. ASSUME NEW a \in Accounts, Learn(a) \/ Forget(a) PROVE RecordInv'
  <2>1. TypeOK
    BY DEF RecordInv
  <2>2. PICK n \in Nat : SetCap(a, n) /\ (Limit[a] > 0 => 1 <= n /\ n <= Limit[a])
    BY <1>4, <2>1, CapSteps
  <2> QED BY <2>2, CapRecord
<1>5. CASE Cleanup
  BY <1>5, CleanupRecord
<1>6. CASE Tick \/ UNCHANGED vars
  <2>1. UNCHANGED <<pc, stamp, chain, cap, hits, granted, overtaken, pick>>
    BY <1>6 DEF Tick, vars, counts
  <2>2. clock \in Nat /\ clock' \in 0..MaxTime /\ clock <= clock'
    BY <1>6, SelectionAssumption DEF Tick, vars, RecordInv, TypeOK
  <2>3. TypeOK'
    BY <2>1, <2>2 DEF RecordInv, TypeOK, chain
  <2>4. \A d \in Calls : stamp'[d] <= clock'
    BY <2>1, <2>2, SelectionAssumption DEF RecordInv, TimesPast, TypeOK
  <2>5. \A d \in Calls : KeepsOrDrops(d)
    BY <2>1 DEF KeepsOrDrops
  <2> QED BY <2>1, <2>2, <2>3, <2>4, <2>5, QuietRecord
<1> QED BY <1>1, <1>2, <1>3, <1>4, <1>5, <1>6 DEF Next

-----------------------------------------------------------------------------
\* Every grant that counts is on record, and a record is never longer than the limit.
THEOREM SelectionRecord == Spec => [](ChainInv /\ RecordInv)
<1>1. Init => ChainInv /\ RecordInv
  BY InitChain, InitRecord
<1>2. ChainInv /\ RecordInv /\ [Next]_vars => (ChainInv /\ RecordInv)'
  BY StepChain, StepRecord
<1> QED BY <1>1, <1>2, PTL DEF Spec

\* The variables have their types.
THEOREM SelectionTypes == Spec => []TypeOK
<1>1. RecordInv => TypeOK
  BY DEF RecordInv
<1> QED BY <1>1, SelectionRecord, PTL

\* Of the calls whose time, taken before they waited, lies in the window that ends
\* now, no account with a limit was given to more than that limit, however late
\* the call that prunes or records had its turn.  Calls overtaken by a lower cap
\* are not counted.
THEOREM SelectionWindowKept == Spec => []WindowKept
<1>1. RecordInv => WindowKept
  <2> SUFFICES ASSUME RecordInv, NEW a \in Accounts, Limit[a] > 0
               PROVE  Cardinality(Counted(a, clock)) <= Limit[a]
    BY DEF WindowKept, Counted
  <2>1. clock \in Nat /\ clock <= clock /\ hits[a] \in Seq(Nat) /\ Len(hits[a]) \in Nat
        /\ Limit[a] \in Nat
    BY RecordTypes
  <2>2. Cardinality(Counted(a, clock)) <= Cardinality(LiveAt(hits[a], clock))
    BY <2>1 DEF RecordInv, AllOnRecord
  <2>3. Len(hits[a]) <= Limit[a]
    BY DEF RecordInv, CapsBound
  <2>4. /\ Cardinality(LiveAt(hits[a], clock)) \in Nat
        /\ Cardinality(LiveAt(hits[a], clock)) <= Len(hits[a])
    BY <2>1, LiveIsBounded
  <2>5. Cardinality(Counted(a, clock)) \in Nat
    BY <2>1, CountedIsFinite
  <2> QED BY <2>1, <2>2, <2>3, <2>4, <2>5
<1> QED BY <1>1, SelectionRecord, PTL

=============================================================================
