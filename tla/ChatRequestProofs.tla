------------------------- MODULE ChatRequestProofs -------------------------
(***************************************************************************)
(* The four invariants of ChatRequest, proved for any number of accounts   *)
(* and of sends.  An attempt is sound if its position, its slot and its    *)
(* tickets agree; every action changes one attempt, except the leaving of  *)
(* the client, which closes all of them, and the loop never chooses again  *)
(* while an attempt is busy.                                               *)
(***************************************************************************)
EXTENDS ChatRequest, TLAPS

\* Positions of an attempt that the loop has started and that is not over, and those
\* of one that asks the provider.
Busy(p) == p \notin {"new", "failed", "done"}
Upstream == {"calling", "reserving", "sent", "discarding", "refreshing"}

\* What the flags of an attempt say of each other and of its position.
Position(t, p) ==
  /\ ~t.live /\ t.at # "new" => t.finished /\ t.verdict # "open"
  /\ t.at = "new" => t.verdict = "open" /\ t.sends = 0 /\ ~t.live /\ ~t.slot /\ ~t.finished
  /\ t.at = "admitting" =>
       t.sends = 0 /\ t.stage = "first" /\ (t.live => ~t.finished /\ t.verdict = "open")
  /\ t.at \in {"settling", "failed", "done"} => t.finished
  /\ t.finished => ~t.slot
  /\ t.stage = "stripped" => p = "anthropic"
  /\ t.stage = "again" => t.at # "closing"
  /\ t.at \in Upstream \cup {"admitting"} => t.verdict # "success"

\* What a live attempt holds while it is at the provider.
Covered(t) ==
  /\ t.live /\ t.at \in Upstream => t.slot /\ t.verdict = "open"
  /\ t.live /\ t.at = "streaming" => t.slot \/ t.stage = "stripped"

\* How many sends there were, and how many may follow.
Counted(t) ==
  /\ t.at \in {"calling", "reserving"} => t.sends < MaxSends
  /\ t.at = "refreshing" => t.stage = "first" /\ t.sends < MaxSends
  /\ t.at = "discarding" =>
       /\ t.sends > 0
       /\ t.then # "throw" => t.sends < MaxSends
       /\ t.then = "refresh" => t.stage = "first"
       /\ t.then = "again" => t.stage = "again"
  /\ t.at \in {"sent", "streaming"} => t.sends > 0

\* What an attempt at its position may have its i-th ticket in: as long as its quota is
\* open, every ticket that was discarded has really been released.
TicketSound(t, i, s) ==
  /\ i > t.sends => s = "unused"
  /\ i <= t.sends => s # "unused"
  /\ s = "open" =>
       /\ t.at \in {"calling", "reserving", "sent", "discarding", "streaming"}
       /\ t.verdict = "open" \/ (t.at = "sent" /\ i = t.sends)
       /\ t.stage # "stripped" => i = t.sends /\ t.at \in {"sent", "streaming"}
  /\ s \in {"committing", "committed"} =>
       t.verdict = "success" /\ (i = t.sends \/ t.stage = "stripped")
  /\ t.verdict = "open" /\ t.stage # "stripped" /\ t.at \in Upstream \cup {"streaming"} =>
       /\ i < t.sends => s = "released"
       /\ i = t.sends /\ t.at \in {"calling", "reserving", "refreshing"} => s = "released"

\* An attempt and its tickets agree.
Sound(t, k, p) ==
  /\ Position(t, p) /\ Covered(t) /\ Counted(t)
  /\ \A i \in 1..MaxSends : TicketSound(t, i, k[i])

\* The inductive invariant: every attempt is sound, and only the loop's own is busy.
IInv == \A a \in Accounts :
  /\ Sound(try[a], ticket[a], provider)
  /\ Busy(try[a].at) => a = account /\ handler # "choosing"


\* What handleChatCore's helpers return is an attempt, or a set of tickets, again.
LEMMA HelperTypes ==
  ASSUME NEW t \in Attempt, NEW k \in [1..MaxSends -> Ticket]
  PROVE  /\ Finish(t) \in Attempt /\ Failed(t) \in Attempt /\ Closed(t) \in Attempt
         /\ Settling(k, "releasing") \in [1..MaxSends -> Ticket]
         /\ Settling(k, "committing") \in [1..MaxSends -> Ticket]
<1>1. ASSUME NEW u \in Attempt
      PROVE  Finish(u) \in Attempt /\ Failed(u) \in Attempt /\ [u EXCEPT !.live = FALSE] \in Attempt
  <2>1. Finish(u) \in Attempt
    <3>1. [u EXCEPT !.finished = TRUE, !.slot = FALSE] \in Attempt
      BY Zenon DEF Attempt
    <3> QED
      BY <3>1 DEF Finish
  <2>2. Failed(u) \in Attempt
    BY SMTT(30) DEF Failed, Attempt
  <2>3. [u EXCEPT !.live = FALSE] \in Attempt
    BY Zenon DEF Attempt
  <2> QED
    BY <2>1, <2>2, <2>3
<1>2. Closed(t) \in Attempt
  BY <1>1 DEF Closed
<1>3. \A i \in 1..MaxSends : k[i] \in Ticket
  OBVIOUS
<1>4. "releasing" \in Ticket /\ "committing" \in Ticket
  BY DEF Ticket
<1> QED
  BY <1>1, <1>2, <1>3, <1>4 DEF Settling

\* Ending the controller closes the attempt: its slot is back and no ticket is open,
\* except the one of a send that began after its verdict.
LEMMA ClosedSound ==
  ASSUME NEW t \in Attempt, NEW k \in [1..MaxSends -> Ticket], NEW p, Sound(t, k, p), t.at # "new"
  PROVE  Sound(Closed(t), IF t.live /\ t.verdict = "open" THEN Settling(k, "releasing") ELSE k, p)
<1> DEFINE u == Closed(t)
           m == IF t.live /\ t.verdict = "open" THEN Settling(k, "releasing") ELSE k
<1>1. CASE ~t.live
  BY <1>1 DEF Closed
<1>2. CASE t.live
  <2>1. u = Failed(Finish([t EXCEPT !.live = FALSE]))
    BY <1>2 DEF Closed
  <2>2. /\ u.at = t.at /\ u.stage = t.stage /\ u.then = t.then /\ u.sends = t.sends
        /\ u.live = FALSE /\ u.finished = TRUE
        /\ u.verdict = (IF t.verdict = "open" THEN "failure" ELSE t.verdict)
        /\ u.slot = (IF t.finished THEN t.slot ELSE FALSE)
    BY <2>1 DEF Failed, Finish, Attempt
  <2> HIDE DEF u, m
  <2>3. Position(u, p) /\ Covered(u) /\ Counted(u)
    BY <2>2, <1>2 DEF Sound, Position, Covered, Counted, Attempt, Upstream
  <2>4. ASSUME NEW i \in 1..MaxSends
        PROVE  TicketSound(u, i, m[i])
    <3>1. m[i] = IF t.verdict = "open" /\ k[i] \in {"open", "missed"} THEN "releasing" ELSE k[i]
      BY <1>2 DEF m, Settling
    <3>2. TicketSound(t, i, k[i])
      BY DEF Sound
    <3>3. k[i] \in Ticket /\ t.sends \in 0..MaxSends /\ t.verdict \in {"open", "success", "failure"}
      BY DEF Attempt
    <3> QED
      BY <2>2, <3>1, <3>2, <3>3 DEF TicketSound, Ticket
  <2> QED
    BY <2>3, <2>4 DEF Sound, u, m
<1> QED
  BY <1>1, <1>2

\* A failed attempt is settled.
LEMMA FailSound ==
  ASSUME NEW t \in Attempt, NEW k \in [1..MaxSends -> Ticket], NEW p, Sound(t, k, p), t.at # "new",
         NEW w \in {"none", "local", "capacity", "provider"},
         t.verdict = "open" \/ \A i \in 1..MaxSends : k[i] # "open"
  PROVE  Sound(Failed(Finish([t EXCEPT !.at = "settling", !.why = w])),
               IF t.verdict = "open" THEN Settling(k, "releasing") ELSE k, p)
<1> DEFINE u == Failed(Finish([t EXCEPT !.at = "settling", !.why = w]))
           m == IF t.verdict = "open" THEN Settling(k, "releasing") ELSE k
<1>1. /\ u.at = "settling" /\ u.stage = t.stage /\ u.then = t.then /\ u.sends = t.sends
      /\ u.live = t.live /\ u.finished = TRUE
      /\ u.verdict = (IF t.verdict = "open" THEN "failure" ELSE t.verdict)
      /\ u.slot = (IF t.finished THEN t.slot ELSE FALSE)
  BY DEF Failed, Finish, Attempt
<1> HIDE DEF u, m
<1>2. Position(u, p) /\ Covered(u) /\ Counted(u)
  BY <1>1 DEF Sound, Position, Covered, Counted, Attempt, Upstream
<1>3. ASSUME NEW i \in 1..MaxSends
      PROVE  TicketSound(u, i, m[i])
  <2>1. m[i] = IF t.verdict = "open" /\ k[i] \in {"open", "missed"} THEN "releasing" ELSE k[i]
    BY DEF m, Settling
  <2>2. TicketSound(t, i, k[i])
    BY DEF Sound
  <2>3. k[i] \in Ticket /\ t.sends \in 0..MaxSends /\ t.verdict \in {"open", "success", "failure"}
    BY DEF Attempt
  <2> QED
    BY <1>1, <2>1, <2>2, <2>3 DEF TicketSound, Ticket, Upstream
<1> QED
  BY <1>2, <1>3 DEF Sound, u, m

\* A step of one attempt keeps the invariant if that attempt stays sound and does
\* not start.
LEMMA OneAttempt ==
  ASSUME TypeOK, IInv, NEW a \in Accounts,
         NEW u \in Attempt, NEW m \in [1..MaxSends -> Ticket], Sound(u, m, provider),
         try' = [try EXCEPT ![a] = u], ticket' = [ticket EXCEPT ![a] = m],
         UNCHANGED <<provider, client, loop>>, Busy(u.at) => Busy(try[a].at)
  PROVE  TypeOK' /\ IInv'
<1>1. TypeOK'
  BY DEF TypeOK, loop
<1>2. ASSUME NEW b \in Accounts
      PROVE  Sound(try'[b], ticket'[b], provider) /\ (Busy(try'[b].at) => Busy(try[b].at))
  BY DEF TypeOK, IInv
<1>3. IInv'
  BY <1>2 DEF IInv, loop
<1> QED
  BY <1>1, <1>3

\* The same for a step that leaves the tickets alone.
LEMMA OneAttemptPut ==
  ASSUME TypeOK, IInv, NEW a \in Accounts,
         NEW u \in Attempt, Sound(u, ticket[a], provider), Put(a, u),
         UNCHANGED <<provider, client, loop, ticket>>, Busy(u.at) => Busy(try[a].at)
  PROVE  TypeOK' /\ IInv'
<1>1. /\ ticket[a] \in [1..MaxSends -> Ticket] /\ try' = [try EXCEPT ![a] = u]
      /\ ticket' = [ticket EXCEPT ![a] = ticket[a]]
  BY DEF TypeOK, Put
<1> QED
  BY <1>1, OneAttempt

\* The same for an attempt that only moves.
LEMMA AttemptMoves ==
  ASSUME TypeOK, IInv, NEW a \in Accounts, Busy(try[a].at),
         NEW p \in {"reserving", "refreshing", "calling", "ending", "failed", "done"}, Go(a, p),
         Sound([try[a] EXCEPT !.at = p], ticket[a], provider),
         UNCHANGED <<provider, client, loop, ticket>>
  PROVE  TypeOK' /\ IInv'
<1>1. try[a] \in Attempt
  BY DEF TypeOK
<1>2. [try[a] EXCEPT !.at = p] \in Attempt
  BY <1>1, Zenon DEF Attempt
<1>3. [try[a] EXCEPT !.at = p].at = p
  BY <1>1 DEF Attempt
<1> QED
  BY <1>1, <1>2, <1>3, OneAttemptPut DEF Go

\* The same for an attempt that fails and has no ticket open that nobody settles.
LEMMA AttemptFails ==
  ASSUME TypeOK, IInv, NEW a \in Accounts, Busy(try[a].at),
         NEW w \in {"none", "local", "capacity", "provider"}, Fail(a, w),
         try[a].verdict = "open" \/ \A i \in 1..MaxSends : ticket[a][i] # "open",
         UNCHANGED <<provider, client, loop>>
  PROVE  TypeOK' /\ IInv'
<1> DEFINE t == try[a]
           k == ticket[a]
           v == [t EXCEPT !.at = "settling", !.why = w]
           u == Failed(Finish(v))
           m == IF t.verdict = "open" THEN Settling(k, "releasing") ELSE k
<1>1. t \in Attempt /\ k \in [1..MaxSends -> Ticket] /\ Sound(t, k, provider) /\ t.at # "new"
  BY DEF TypeOK, IInv, Busy
<1>2. u \in Attempt /\ m \in [1..MaxSends -> Ticket]
  <2>1. v \in Attempt
    BY <1>1 DEF Attempt
  <2>2. Finish(v) \in Attempt
    BY <1>1, <2>1, HelperTypes
  <2> QED
    BY <1>1, <2>2, HelperTypes
<1>3. try' = [try EXCEPT ![a] = u] /\ ticket' = [ticket EXCEPT ![a] = m]
  BY DEF Fail, Put, SettleFailed
<1>4. Sound(u, m, provider)
  BY <1>1, FailSound
<1> QED
  BY <1>2, <1>3, <1>4, OneAttempt

\* The ways an attempt throws keep the invariant.
LEMMA ThrowAbortedKeeps ==
  ASSUME TypeOK, IInv, NEW a \in Accounts, try[a].at \in {"calling", "discarding"}, ~Live(a),
         ThrowAborted(a), UNCHANGED <<provider, client, loop>>
  PROVE  TypeOK' /\ IInv'
<1> DEFINE t == try[a]
           k == ticket[a]
<1>1. t \in Attempt /\ k \in [1..MaxSends -> Ticket] /\ Sound(t, k, provider) /\ Busy(t.at)
  BY DEF TypeOK, IInv, Busy
<1>2. t.finished /\ t.verdict # "open" /\ \A i \in 1..MaxSends : k[i] # "open"
  BY <1>1 DEF Sound, Position, TicketSound, Live
<1>3. ASSUME NEW p \in {"failed", "done"}
      PROVE  Sound([t EXCEPT !.at = p], k, provider)
  <2>1. Position([t EXCEPT !.at = p], provider) /\ Covered([t EXCEPT !.at = p]) /\ Counted([t EXCEPT !.at = p])
    BY <1>1, <1>2 DEF Sound, Position, Covered, Counted, Attempt, Upstream
  <2>2. ASSUME NEW i \in 1..MaxSends PROVE TicketSound([t EXCEPT !.at = p], i, k[i])
    BY <1>1, <1>2 DEF Sound, TicketSound, Attempt, Ticket, Upstream
  <2> QED
    BY <2>1, <2>2 DEF Sound
<1>4. CASE t.stage = "first"
  BY <1>1, <1>2, <1>4, AttemptFails DEF ThrowAborted
<1>5. CASE t.stage = "again"
  BY <1>1, <1>3, <1>5, AttemptMoves DEF ThrowAborted
<1>6. CASE t.stage \notin {"first", "again"}
  BY <1>1, <1>3, <1>6, AttemptMoves DEF ThrowAborted
<1> QED
  BY <1>4, <1>5, <1>6

\* So does an attempt without capacity.
LEMMA NoCapacityKeeps ==
  ASSUME TypeOK, IInv, NEW a \in Accounts, try[a].at \in {"reserving", "discarding"},
         NoCapacity(a), UNCHANGED <<provider, client, loop>>
  PROVE  TypeOK' /\ IInv'
<1> DEFINE t == try[a]
           k == ticket[a]
<1>1. t \in Attempt /\ k \in [1..MaxSends -> Ticket] /\ Sound(t, k, provider) /\ Busy(t.at)
  BY DEF TypeOK, IInv, Busy
<1>2. CASE t.stage = "again"
  <2> DEFINE p == IF t.live THEN "ending" ELSE "done"
             u == [t EXCEPT !.at = p]
  <2>1. Position(u, provider) /\ Covered(u) /\ Counted(u)
    BY <1>1, <1>2 DEF Sound, Position, Covered, Counted, Attempt, Upstream
  <2>2. ASSUME NEW i \in 1..MaxSends PROVE TicketSound(u, i, k[i])
    BY <1>1, <1>2 DEF Sound, TicketSound, Attempt, Ticket, Upstream
  <2> QED
    BY <1>1, <1>2, <2>1, <2>2, AttemptMoves DEF NoCapacity, Sound, Live
<1>3. CASE t.stage = "stripped"
  <2>1. t.verdict = "open" \/ \A i \in 1..MaxSends : k[i] # "open"
    BY <1>1 DEF Sound, TicketSound
  <2> QED
    BY <1>1, <1>3, <2>1, AttemptFails DEF NoCapacity
<1>4. CASE t.stage \in {"first", "refreshed"}
  <2> DEFINE v == [t EXCEPT !.at = "failed", !.why = "capacity"]
             u == Finish(v)
  <2>1. u \in Attempt
    <3>1. v \in Attempt
      BY <1>1 DEF Attempt
    <3> QED
      BY <1>1, <3>1, HelperTypes
  <2>2. Position(u, provider) /\ Covered(u) /\ Counted(u) /\ u.at = "failed"
    BY <1>1, <1>4 DEF Sound, Position, Covered, Counted, Attempt, Upstream, Finish
  <2>3. ASSUME NEW i \in 1..MaxSends PROVE TicketSound(u, i, k[i])
    BY <1>1, <1>4 DEF Sound, TicketSound, Attempt, Ticket, Upstream, Finish
  <2>4. Put(a, u) /\ UNCHANGED ticket
    BY <1>1, <1>4 DEF NoCapacity
  <2> QED
    BY <2>1, <2>2, <2>3, <2>4, OneAttemptPut DEF Sound, Busy
<1> QED
  BY <1>1, <1>2, <1>3, <1>4 DEF Attempt

\* So does any other error.
LEMMA ThrowKeeps ==
  ASSUME TypeOK, IInv, NEW a \in Accounts, At(a, "discarding"),
         Throw(a), UNCHANGED <<provider, client, loop>>
  PROVE  TypeOK' /\ IInv'
<1> DEFINE t == try[a]
           k == ticket[a]
<1>1. t \in Attempt /\ k \in [1..MaxSends -> Ticket] /\ Sound(t, k, provider) /\ Busy(t.at) /\ t.at = "discarding"
  BY DEF TypeOK, IInv, Busy, At
<1>2. CASE ~Live(a)
  BY <1>1, <1>2, ThrowAbortedKeeps DEF Throw
<1>3. CASE Live(a) /\ t.stage = "again"
  <2> DEFINE u == [t EXCEPT !.at = "ending"]
  <2>1. Position(u, provider) /\ Covered(u) /\ Counted(u)
    BY <1>1, <1>3 DEF Sound, Position, Covered, Counted, Attempt, Upstream
  <2>2. ASSUME NEW i \in 1..MaxSends PROVE TicketSound(u, i, k[i])
    BY <1>1, <1>3 DEF Sound, TicketSound, Attempt, Ticket, Upstream
  <2> QED
    BY <1>1, <1>3, <2>1, <2>2, AttemptMoves DEF Throw, Sound
<1>4. CASE Live(a) /\ t.stage # "again"
  <2>1. t.verdict = "open" \/ \A i \in 1..MaxSends : k[i] # "open"
    BY <1>1 DEF Sound, TicketSound
  <2> QED
    BY <1>1, <1>4, <2>1, AttemptFails DEF Throw
<1> QED
  BY <1>2, <1>3, <1>4

\* Releasing the ticket of the last send keeps the invariant.
LEMMA DiscardKeeps ==
  ASSUME TypeOK, IInv, NEW a \in Accounts, At(a, "sent"),
         NEW w \in {"resend", "refresh", "throw"}, Discard(a, w),
         w # "throw" => try[a].sends < MaxSends, w = "refresh" => try[a].stage = "first",
         UNCHANGED <<provider, client, loop>>
  PROVE  TypeOK' /\ IInv'
<1> DEFINE t == try[a]
           k == ticket[a]
           u == [t EXCEPT !.at = "discarding", !.then = w]
           m == [k EXCEPT ![t.sends] = IF @ \in {"open", "missed"} THEN "releasing" ELSE @]
<1>1. t \in Attempt /\ k \in [1..MaxSends -> Ticket] /\ Sound(t, k, provider) /\ Busy(t.at) /\ t.at = "sent"
  BY DEF TypeOK, IInv, Busy, At
<1>2. u \in Attempt
  BY <1>1 DEF Attempt
<1>3. t.sends \in 1..MaxSends /\ MaxSends \in Nat
  BY <1>1, ChatAssumption DEF Sound, Counted, Attempt
<1>4. m \in [1..MaxSends -> Ticket]
  BY <1>1, <1>3 DEF Ticket
<1>5. try' = [try EXCEPT ![a] = u] /\ ticket' = [ticket EXCEPT ![a] = m]
  BY <1>1 DEF Discard, Put, Last, TypeOK
<1>6. Position(u, provider) /\ Covered(u) /\ Counted(u)
  BY <1>1, <1>3 DEF Sound, Position, Covered, Counted, Attempt, Upstream
<1>7. ASSUME NEW i \in 1..MaxSends
      PROVE  TicketSound(u, i, m[i])
  <2>1. m[i] = IF i = t.sends /\ k[i] \in {"open", "missed"} THEN "releasing" ELSE k[i]
    BY <1>1, <1>3
  <2> HIDE DEF m
  <2>2. TicketSound(t, i, k[i]) /\ k[i] \in Ticket
    BY <1>1 DEF Sound
  <2>3. /\ u.at = "discarding" /\ u.stage = t.stage /\ u.sends = t.sends /\ u.verdict = t.verdict
    BY <1>1 DEF Attempt
  <2> HIDE DEF u
  <2> QED
    BY <1>1, <1>3, <2>1, <2>2, <2>3 DEF TicketSound, Ticket, Upstream
<1> QED
  BY <1>1, <1>2, <1>4, <1>5, <1>6, <1>7, OneAttempt DEF Sound, Busy
-----------------------------------------------------------------------------
\* Every action of one attempt keeps the invariant.
LEMMA AttemptKeeps ==
  ASSUME TypeOK, IInv, NEW a \in Accounts,
         \/ Admitted(a) \/ NotAdmitted(a) \/ Begin(a) \/ Reserved(a) \/ NotReserved(a)
         \/ Break(a) \/ Resend(a) \/ Unauthorized(a) \/ Refreshed(a) \/ NotRefreshed(a)
         \/ Strip(a) \/ Refuse(a) \/ Accept(a) \/ Continue(a) \/ Report(a)
  PROVE  TypeOK' /\ IInv'
<1> DEFINE t == try[a]
           k == ticket[a]
<1> USE DEF At, Live, Last
<1>0. t \in Attempt /\ k \in [1..MaxSends -> Ticket] /\ Sound(t, k, provider) /\ MaxSends \in Nat \ {0}
  BY ChatAssumption DEF TypeOK, IInv
<1>1. CASE Admitted(a)
  <2> DEFINE u == [t EXCEPT !.at = "calling", !.slot = ~t.finished]
  <2>1. u \in Attempt
    BY <1>0, Zenon DEF Attempt
  <2>2. Position(u, provider) /\ Covered(u) /\ Counted(u)
    BY <1>0, <1>1 DEF Admitted, Sound, Position, Covered, Counted, Attempt, Upstream
  <2>3. ASSUME NEW i \in 1..MaxSends PROVE TicketSound(u, i, k[i])
    BY <1>0, <1>1 DEF Admitted, Sound, Position, TicketSound, Attempt, Ticket, Upstream
  <2> QED
    BY <1>1, <2>1, <2>2, <2>3, OneAttemptPut DEF Admitted, Sound, Busy
<1>2. CASE NotAdmitted(a)
  <2> DEFINE why == IF t.live THEN "local" ELSE t.why
             v == [t EXCEPT !.at = "failed", !.why = why]
             u == Finish(v)
  <2>1. v \in Attempt
    <3>1. why \in {"none", "local", "capacity", "provider"} /\ t \in Attempt
      BY <1>0 DEF Attempt
    <3> HIDE DEF why
    <3> QED
      BY <3>1, Zenon DEF Attempt
  <2>2. u \in Attempt /\ Failed(u) \in Attempt
    BY <1>0, <2>1, HelperTypes
  <2>3. /\ Position(u, provider) /\ Covered(u) /\ Counted(u) /\ u.at = "failed"
        /\ Position(Failed(u), provider) /\ Covered(Failed(u)) /\ Counted(Failed(u)) /\ Failed(u).at = "failed"
    BY <1>0, <1>2 DEF NotAdmitted, Sound, Position, Covered, Counted, Attempt, Upstream, Finish, Failed
  <2>4. ASSUME NEW i \in 1..MaxSends
        PROVE  TicketSound(u, i, k[i]) /\ TicketSound(Failed(u), i, k[i])
    BY <1>0, <1>2 DEF NotAdmitted, Sound, Position, TicketSound, Attempt, Ticket, Upstream, Finish, Failed
  <2>5. Put(a, u) \/ Put(a, Failed(u))
    BY <1>2 DEF NotAdmitted
  <2>6. CASE Put(a, u)
    BY <1>2, <2>2, <2>3, <2>4, <2>6, OneAttemptPut DEF NotAdmitted, Sound, Busy
  <2>7. CASE Put(a, Failed(u))
    BY <1>2, <2>2, <2>3, <2>4, <2>7, OneAttemptPut DEF NotAdmitted, Sound, Busy
  <2> QED
    BY <2>5, <2>6, <2>7
<1>3. CASE Begin(a)
  <2> DEFINE u == [t EXCEPT !.at = "reserving"]
  <2>1. CASE t.live
    <3>1. Position(u, provider) /\ Covered(u) /\ Counted(u)
      BY <1>0, <1>3 DEF Begin, Sound, Position, Covered, Counted, Attempt, Upstream
    <3>2. ASSUME NEW i \in 1..MaxSends PROVE TicketSound(u, i, k[i])
      BY <1>0, <1>3 DEF Begin, Sound, Position, TicketSound, Attempt, Ticket, Upstream
    <3> QED
      BY <1>3, <2>1, <3>1, <3>2, AttemptMoves DEF Begin, Sound, Busy
  <2>2. CASE ~t.live
    BY <1>3, <2>2, ThrowAbortedKeeps DEF Begin
  <2> QED
    BY <2>1, <2>2
<1>4. CASE Reserved(a)
  <2> DEFINE u == [t EXCEPT !.at = "sent", !.sends = @ + 1]
             m == [k EXCEPT ![t.sends + 1] = "open"]
  <2>1. t.sends \in 0..MaxSends /\ t.sends < MaxSends /\ t.sends + 1 \in 0..MaxSends
    BY <1>0, <1>4 DEF Reserved, Attempt, Sound, Counted
  <2>2. u \in Attempt
    <3>1. t \in Attempt
      BY <1>0
    <3> QED
      BY <3>1, <2>1, Zenon DEF Attempt
  <2>3. m \in [1..MaxSends -> Ticket]
    BY <1>0 DEF Ticket
  <2>4. try' = [try EXCEPT ![a] = u] /\ ticket' = [ticket EXCEPT ![a] = m]
    BY <1>4 DEF Reserved, Put, TypeOK
  <2>5. Position(u, provider) /\ Covered(u) /\ Counted(u)
    BY <1>0, <1>4 DEF Reserved, Attempt, Sound, Counted, Position, Covered, Upstream
  <2>6. ASSUME NEW i \in 1..MaxSends PROVE TicketSound(u, i, m[i])
    BY <1>0, <1>4 DEF Reserved, Attempt, Ticket, Sound, Position, Covered, Counted, TicketSound, Upstream
  <2> QED
    BY <1>0, <1>4, <2>2, <2>3, <2>4, <2>5, <2>6, OneAttempt DEF Reserved, Sound, Busy
<1>5. CASE NotReserved(a)
  BY <1>5, NoCapacityKeeps DEF NotReserved
<1>6. CASE Break(a)
  BY <1>6, DiscardKeeps DEF Break
<1>7. CASE Resend(a)
  BY <1>7, DiscardKeeps DEF Resend
<1>8. CASE Unauthorized(a)
  BY <1>8, DiscardKeeps DEF Unauthorized, Answers
<1>9. CASE Refreshed(a)
  <2> DEFINE u == [t EXCEPT !.at = "calling", !.stage = "refreshed"]
  <2>1. u \in Attempt
    BY <1>0 DEF Attempt
  <2>2. Position(u, provider) /\ Covered(u) /\ Counted(u)
    BY <1>0, <1>9 DEF Refreshed, Sound, Position, Covered, Counted, Attempt, Upstream
  <2>3. ASSUME NEW i \in 1..MaxSends PROVE TicketSound(u, i, k[i])
    BY <1>0, <1>9 DEF Refreshed, Sound, Position, Counted, TicketSound, Attempt, Ticket, Upstream
  <2> QED
    BY <1>9, <2>1, <2>2, <2>3, OneAttemptPut DEF Refreshed, Sound, Busy
<1>10. CASE NotRefreshed(a)
  <2>1. \A i \in 1..MaxSends : k[i] # "open"
    BY <1>0, <1>10 DEF NotRefreshed, Sound, TicketSound
  <2>2. CASE t.live
    BY <1>10, <2>1, <2>2, AttemptFails DEF NotRefreshed, Busy
  <2>3. CASE ~t.live
    <3> DEFINE u == [t EXCEPT !.at = "failed"]
    <3>1. Position(u, provider) /\ Covered(u) /\ Counted(u)
      BY <1>0, <1>10, <2>3 DEF NotRefreshed, Sound, Position, Covered, Counted, Attempt, Upstream
    <3>2. ASSUME NEW i \in 1..MaxSends PROVE TicketSound(u, i, k[i])
      BY <1>0, <1>10, <2>3 DEF NotRefreshed, Sound, Position, TicketSound, Attempt, Ticket, Upstream
    <3> QED
      BY <1>10, <2>3, <3>1, <3>2, AttemptMoves DEF NotRefreshed, Sound, Busy
  <2> QED
    BY <2>2, <2>3
<1>11. CASE Strip(a)
  <2> DEFINE u == [t EXCEPT !.at = "calling", !.stage = "stripped"]
  <2>1. u \in Attempt
    BY <1>0, Zenon DEF Attempt
  <2>2. Position(u, provider) /\ Covered(u) /\ Counted(u)
    BY <1>0, <1>11 DEF Strip, Sound, Position, Covered, Counted, Attempt, Upstream
  <2>3. ASSUME NEW i \in 1..MaxSends PROVE TicketSound(u, i, k[i])
    BY <1>0, <1>11 DEF Strip, Sound, Position, Covered, TicketSound, Attempt, Ticket, Upstream
  <2> QED
    BY <1>11, <2>1, <2>2, <2>3, OneAttemptPut DEF Strip, Sound, Busy
<1>12. CASE Refuse(a)
  <2>1. CASE t.stage = "again"
    BY <1>12, <2>1, DiscardKeeps DEF Refuse, Answers
  <2>2. CASE t.stage # "again"
    <3>1. t.verdict = "open" \/ \A i \in 1..MaxSends : k[i] # "open"
      BY <1>0, <1>12 DEF Refuse, Answers, Sound, Covered, TicketSound, Upstream, Attempt
    <3> QED
      BY <1>12, <2>2, <3>1, AttemptFails DEF Refuse, Answers, Busy
  <2> QED
    BY <2>1, <2>2
<1>13. CASE Accept(a)
  <2> DEFINE v == [t EXCEPT !.at = "streaming"]
             u == IF v.stage = "stripped" THEN Finish(v) ELSE v
  <2>1. v \in Attempt
    BY <1>0, Zenon DEF Attempt
  <2>2. u \in Attempt
    BY <1>0, <2>1, HelperTypes
  <2>3. Position(u, provider) /\ Covered(u) /\ Counted(u)
    BY <1>0, <1>13 DEF Accept, Answers, Sound, Position, Covered, Counted, Attempt, Upstream, Finish
  <2>4. ASSUME NEW i \in 1..MaxSends PROVE TicketSound(u, i, k[i])
    BY <1>0, <1>13 DEF Accept, Answers, Sound, Position, Covered, TicketSound, Attempt, Ticket, Upstream, Finish
  <2> QED
    BY <1>13, <2>2, <2>3, <2>4, OneAttemptPut DEF Accept, Answers, Sound, Busy
<1>14. CASE Continue(a)
  <2>1. t.at = "discarding" /\ UNCHANGED <<provider, client, loop>>
    BY <1>14 DEF Continue
  <2>2. CASE NoCapacity(a)
    BY <2>1, <2>2, NoCapacityKeeps
  <2>3. CASE Fail(a, "provider")
    <3>1. t.verdict = "open" \/ \A i \in 1..MaxSends : k[i] # "open"
      BY <1>0, <2>1 DEF Sound, TicketSound
    <3> QED
      BY <2>1, <2>3, <3>1, AttemptFails DEF Busy
  <2>4. CASE Throw(a)
    BY <2>1, <2>4, ThrowKeeps
  <2>5. CASE ~t.live /\ ThrowAborted(a)
    BY <2>1, <2>5, ThrowAbortedKeeps
  <2>6. CASE /\ t.live /\ k[t.sends] \notin {"releasing", "missed"} /\ UNCHANGED ticket
             /\ \/ t.then = "resend" /\ Go(a, "reserving")
                \/ t.then = "refresh" /\ Go(a, "refreshing")
                \/ t.then = "again" /\ Go(a, "calling")
    <3>1. PICK p \in {"reserving", "refreshing", "calling"} :
            Go(a, p) /\ (p = "refreshing" => t.then = "refresh") /\ t.then # "throw"
      BY <2>6
    <3> DEFINE u == [t EXCEPT !.at = p]
    <3>2. /\ u.at = p /\ u.stage = t.stage /\ u.then = t.then /\ u.sends = t.sends /\ u.live = t.live
          /\ u.verdict = t.verdict /\ u.slot = t.slot /\ u.finished = t.finished
      BY <1>0 DEF Attempt
    <3> HIDE DEF u
    <3>3. Position(u, provider) /\ Covered(u) /\ Counted(u)
      BY <1>0, <2>1, <2>6, <3>1, <3>2 DEF Sound, Position, Covered, Counted, Attempt, Upstream
    <3>4. ASSUME NEW i \in 1..MaxSends PROVE TicketSound(u, i, k[i])
      <4>1. TicketSound(t, i, k[i]) /\ k[i] \in Ticket /\ t.sends \in 0..MaxSends
        BY <1>0 DEF Sound, Attempt
      <4>2. i = t.sends => k[i] \in {"unused", "open", "committing", "committed", "released"}
        BY <2>6, <4>1 DEF Ticket
      <4>3. t.verdict = "open"
        BY <1>0, <2>1, <2>6 DEF Sound, Covered, Upstream
      <4>4. t.then = "refresh" => t.stage = "first"
        BY <1>0, <2>1 DEF Sound, Counted
      <4> QED
        BY <1>0, <2>1, <2>6, <3>1, <3>2, <4>1, <4>2, <4>3, <4>4 DEF TicketSound, Upstream
    <3> QED
      BY <2>1, <2>6, <3>1, <3>3, <3>4, AttemptMoves DEF Sound, Busy, u
  <2> QED
    BY <1>14, <2>2, <2>3, <2>4, <2>5, <2>6 DEF Continue
<1>15. CASE Report(a)
  <2> DEFINE u == [t EXCEPT !.at = "failed"]
  <2>1. Position(u, provider) /\ Covered(u) /\ Counted(u)
    BY <1>0, <1>15 DEF Report, Sound, Position, Covered, Counted, Attempt, Upstream
  <2>2. ASSUME NEW i \in 1..MaxSends PROVE TicketSound(u, i, k[i])
    BY <1>0, <1>15 DEF Report, Sound, TicketSound, Attempt, Ticket, Upstream
  <2> QED
    BY <1>15, <2>1, <2>2, AttemptMoves DEF Report, Sound, Busy
<1> QED
  BY <1>1, <1>2, <1>3, <1>4, <1>5, <1>6, <1>7, <1>8, <1>9, <1>10, <1>11, <1>12, <1>13, <1>14, <1>15
\* Every step of the stream of one attempt, and of its calls to the database, keeps it.
LEMMA StreamKeeps ==
  ASSUME TypeOK, IInv, NEW a \in Accounts,
         \/ Coherent(a) \/ Empty(a) \/ Close(a) \/ FailBuffered(a) \/ CloseBuffered(a) \/ Stall(a)
         \/ \E i \in 1..MaxSends : Written(a, i)
  PROVE  TypeOK' /\ IInv'
<1> DEFINE t == try[a]
           k == ticket[a]
           c == Closed(t)
           n == IF t.live /\ t.verdict = "open" THEN Settling(k, "releasing") ELSE k
<1> USE DEF At, Live, Last
<1>0. t \in Attempt /\ k \in [1..MaxSends -> Ticket] /\ Sound(t, k, provider) /\ MaxSends \in Nat \ {0}
  BY ChatAssumption DEF TypeOK, IInv
<1>a. c \in Attempt /\ n \in [1..MaxSends -> Ticket] /\ n = ClosedTickets(a)
  BY <1>0, HelperTypes DEF ClosedTickets
<1>b. t.at # "new" => Sound(c, n, provider)
  BY <1>0, ClosedSound
<1>c. /\ c.at = t.at /\ c.stage = t.stage /\ c.then = t.then /\ c.sends = t.sends /\ ~c.live
  BY <1>0 DEF Closed, Failed, Finish, Attempt
<1>1. CASE Coherent(a)
  <2> DEFINE u == [t EXCEPT !.verdict = "success"]
             m == Settling(k, "committing")
  <2>1. u \in Attempt /\ m \in [1..MaxSends -> Ticket]
    BY <1>0, HelperTypes, Zenon DEF Attempt
  <2>2. try' = [try EXCEPT ![a] = u] /\ ticket' = [ticket EXCEPT ![a] = m]
    BY <1>1 DEF Coherent, Put
  <2>3. Position(u, provider) /\ Covered(u) /\ Counted(u)
    BY <1>0, <1>1 DEF Coherent, Sound, Position, Covered, Counted, Attempt, Upstream
  <2>4. ASSUME NEW i \in 1..MaxSends PROVE TicketSound(u, i, m[i])
    BY <1>0, <1>1 DEF Coherent, Sound, Position, TicketSound, Attempt, Ticket, Upstream, Settling
  <2> QED
    BY <1>1, <2>1, <2>2, <2>3, <2>4, OneAttempt DEF Coherent, Sound, Busy
<1>2. CASE Empty(a)
  <2> DEFINE then == IF t.sends < MaxSends THEN "again" ELSE "throw"
             u == [t EXCEPT !.at = "discarding", !.stage = "again", !.then = then]
             m == [k EXCEPT ![t.sends] = "releasing"]
  <2>1. t.sends \in 1..MaxSends
    BY <1>0, <1>2 DEF Empty, Sound, Counted, Attempt
  <2>2. u \in Attempt /\ m \in [1..MaxSends -> Ticket]
    <3>1. t \in Attempt /\ then \in {"again", "throw"}
      BY <1>0
    <3> HIDE DEF then
    <3>2. u \in Attempt
      BY <3>1, Zenon DEF Attempt
    <3>3. m \in [1..MaxSends -> Ticket]
      BY <1>0 DEF Ticket
    <3> QED
      BY <3>2, <3>3
  <2>3. try' = [try EXCEPT ![a] = u] /\ ticket' = [ticket EXCEPT ![a] = m]
    BY <1>2 DEF Empty, Put, TypeOK
  <2>4. Position(u, provider) /\ Covered(u) /\ Counted(u)
    BY <1>0, <1>2, <2>1 DEF Empty, Sound, Position, Covered, Counted, Attempt, Upstream
  <2>5. ASSUME NEW i \in 1..MaxSends PROVE TicketSound(u, i, m[i])
    BY <1>0, <1>2, <2>1 DEF Empty, Sound, Position, Covered, TicketSound, Attempt, Ticket, Upstream
  <2> QED
    BY <1>2, <2>2, <2>3, <2>4, <2>5, OneAttempt DEF Empty, Sound, Busy
<1>3. CASE Close(a)
  <2>1. \/ Put(a, [c EXCEPT !.at = "done"])
        \/ Put(a, [c EXCEPT !.at = "settling", !.why = "provider"])
    BY <1>3 DEF Close
  <2>2. ASSUME NEW u \in Attempt, NEW q \in {"done", "settling"},
               u.at = q /\ u.stage = c.stage /\ u.then = c.then /\ u.sends = c.sends /\ u.live = c.live
               /\ u.verdict = c.verdict /\ u.slot = c.slot /\ u.finished = c.finished
        PROVE  Sound(u, n, provider)
    <3>1. Position(u, provider) /\ Covered(u) /\ Counted(u)
      BY <1>b, <1>c, <1>3, <2>2 DEF Close, Sound, Position, Covered, Counted, Attempt, Upstream
    <3>2. ASSUME NEW i \in 1..MaxSends PROVE TicketSound(u, i, n[i])
      <4>1. TicketSound(c, i, n[i]) /\ c.verdict # "open"
        BY <1>b, <1>c, <1>3 DEF Close, Sound, Position
      <4> HIDE DEF c, n
      <4> QED
        BY <4>1, <1>c, <1>3, <2>2 DEF Close, TicketSound, Upstream
    <3> QED
      BY <3>1, <3>2 DEF Sound
  <2>3. CASE Put(a, [c EXCEPT !.at = "done"])
    <3> DEFINE u == [c EXCEPT !.at = "done"]
    <3>1. u \in Attempt /\ u.at = "done"
      BY <1>a DEF Attempt
    <3>2. Sound(u, n, provider)
      BY <1>a, <3>1, <2>2 DEF Attempt
    <3> QED
      BY <1>3, <1>a, <2>3, <3>1, <3>2, OneAttempt DEF Close, Busy, Put
  <2>4. CASE Put(a, [c EXCEPT !.at = "settling", !.why = "provider"])
    <3> DEFINE u == [c EXCEPT !.at = "settling", !.why = "provider"]
    <3>1. u \in Attempt /\ u.at = "settling"
      BY <1>a DEF Attempt
    <3>2. /\ u.stage = c.stage /\ u.then = c.then /\ u.sends = c.sends /\ u.live = c.live
          /\ u.verdict = c.verdict /\ u.slot = c.slot /\ u.finished = c.finished
      BY <1>a DEF Attempt
    <3>3. Sound(u, n, provider)
      <4> HIDE DEF u, c, n
      <4> QED
        BY <3>1, <3>2, <2>2
    <3> QED
      BY <1>3, <1>a, <2>4, <3>1, <3>3, OneAttempt DEF Close, Busy, Put
  <2> QED
    BY <2>1, <2>3, <2>4
<1>4. CASE FailBuffered(a)
  <2> DEFINE v == [t EXCEPT !.at = "closing", !.why = "provider"]
             u == Failed(v)
             m == IF t.verdict = "open" THEN Settling(k, "releasing") ELSE k
  <2>1. u \in Attempt /\ m \in [1..MaxSends -> Ticket]
    <3>1. v \in Attempt
      BY <1>0 DEF Attempt
    <3> QED
      BY <1>0, <3>1, HelperTypes
  <2>2. try' = [try EXCEPT ![a] = u] /\ ticket' = [ticket EXCEPT ![a] = m]
    BY <1>4 DEF FailBuffered, SettleFailed, Put
  <2>3. Position(u, provider) /\ Covered(u) /\ Counted(u)
    BY <1>0, <1>4 DEF FailBuffered, Sound, Position, Covered, Counted, Attempt, Upstream, Failed
  <2>4. ASSUME NEW i \in 1..MaxSends PROVE TicketSound(u, i, m[i])
    BY <1>0, <1>4 DEF FailBuffered, Sound, Position, TicketSound, Attempt, Ticket, Upstream, Failed, Settling
  <2> QED
    BY <1>4, <2>1, <2>2, <2>3, <2>4, OneAttempt DEF FailBuffered, Sound, Busy
<1>5. CASE CloseBuffered(a)
  <2> DEFINE u == [c EXCEPT !.at = "failed"]
  <2>1. u \in Attempt
    BY <1>a DEF Attempt
  <2>2. /\ u.at = "failed" /\ u.stage = t.stage /\ u.then = t.then /\ u.sends = t.sends
        /\ ~u.live /\ u.finished /\ ~u.slot /\ u.verdict # "open"
        /\ u.verdict = (IF t.live /\ t.verdict = "open" THEN "failure" ELSE t.verdict)
    BY <1>0, <1>5 DEF CloseBuffered, Closed, Failed, Finish, Attempt, Sound, Position
  <2>3. ASSUME NEW i \in 1..MaxSends PROVE TicketSound(u, i, k[i])
    <3>1. TicketSound(t, i, k[i]) /\ k[i] \in Ticket
      BY <1>0 DEF Sound
    <3> HIDE DEF u
    <3> QED
      BY <1>0, <1>5, <2>2, <3>1 DEF CloseBuffered, TicketSound, Upstream, Attempt
  <2> HIDE DEF u
  <2>4. Position(u, provider) /\ Covered(u) /\ Counted(u)
    BY <1>0, <1>5, <2>2 DEF Sound, Position, Covered, Counted, Upstream
  <2> QED
    BY <1>5, <2>1, <2>2, <2>3, <2>4, OneAttemptPut DEF CloseBuffered, Sound, Busy, u
<1>6. CASE Stall(a)
  <2>1. t.at # "new"
    BY <1>0, <1>6 DEF Stall, Sound, Position
  <2> QED
    BY <1>6, <1>a, <1>b, <1>c, <2>1, OneAttempt DEF Stall, Put
<1>7. CASE \E i \in 1..MaxSends : Written(a, i)
  <2>1. PICK i \in 1..MaxSends : Written(a, i)
    BY <1>7
  <2>2. PICK s \in {IF k[i] = "committing" THEN "committed" ELSE "released", "missed"} :
          ticket' = [ticket EXCEPT ![a][i] = s]
    BY <2>1 DEF Written
  <2> DEFINE m == [k EXCEPT ![i] = s]
  <2>3. m \in [1..MaxSends -> Ticket] /\ ticket' = [ticket EXCEPT ![a] = m]
        /\ try' = [try EXCEPT ![a] = t]
    BY <1>0, <2>1, <2>2 DEF Ticket, Written, TypeOK
  <2>4. ASSUME NEW j \in 1..MaxSends PROVE TicketSound(t, j, m[j])
    <3>1. TicketSound(t, j, k[j]) /\ k[j] \in Ticket /\ k[i] \in {"committing", "releasing"}
      BY <1>0, <2>1 DEF Sound, Written
    <3> QED
      BY <1>0, <2>2, <3>1 DEF TicketSound, Ticket
  <2> QED
    BY <1>0, <2>1, <2>3, <2>4, OneAttempt DEF Written, Sound
<1> QED
  BY <1>1, <1>2, <1>3, <1>4, <1>5, <1>6, <1>7
\* A step of the loop that leaves every attempt alone keeps the invariant if it
\* leaves no attempt running behind when it chooses again.
LEMMA LoopSteps ==
  ASSUME TypeOK, IInv, UNCHANGED <<provider, client, try, ticket>>,
         handler' \in {"choosing", "trying", "over"}, account' \in Accounts \cup {NoOne},
         excluded' \subseteq Accounts, held' \in BOOLEAN,
         \/ account' = account /\ handler' # "choosing"
         \/ \A b \in Accounts : ~Busy(try[b].at)
  PROVE  TypeOK' /\ IInv'
<1>1. TypeOK'
  BY DEF TypeOK
<1>2. IInv'
  BY DEF IInv
<1> QED
  BY <1>1, <1>2

\* The loop keeps the invariant: it makes at most one attempt at a time.
LEMMA LoopKeeps ==
  ASSUME TypeOK, IInv, NEW a \in Accounts,
         Choose(a) \/ GiveUp \/ Answer(a) \/ KeepAndTryNext(a) \/ Judge(a)
  PROVE  TypeOK' /\ IInv'
<1> USE DEF At
<1>1. ASSUME NEW b \in Accounts, ~Busy(try[b].at), b = account \/ handler = "choosing"
      PROVE  \A c \in Accounts : ~Busy(try[c].at)
  BY <1>1 DEF IInv
<1>2. CASE GiveUp
  <2>1. \A b \in Accounts : ~Busy(try[b].at)
    BY <1>2 DEF GiveUp, IInv
  <2> QED
    BY <1>2, <2>1, LoopSteps DEF GiveUp, TypeOK
<1>3. CASE Answer(a)
  BY <1>3, LoopSteps DEF Answer, TypeOK
<1>4. CASE KeepAndTryNext(a)
  <2>1. \A b \in Accounts : ~Busy(try[b].at)
    BY <1>1, <1>4 DEF KeepAndTryNext, Trying, Busy
  <2> QED
    BY <1>4, <2>1, LoopSteps DEF KeepAndTryNext, TypeOK
<1>5. CASE Judge(a)
  <2>1. \A b \in Accounts : ~Busy(try[b].at)
    BY <1>1, <1>5 DEF Judge, Trying, Busy
  <2> QED
    BY <1>5, <2>1, LoopSteps DEF Judge, TypeOK
<1>6. CASE Choose(a)
  <2>1. \A b \in Accounts : ~Busy(try[b].at)
    BY <1>6 DEF Choose, IInv
  <2>2. CASE UNCHANGED try
    BY <1>6, <2>1, <2>2, LoopSteps DEF Choose, TypeOK
  <2> DEFINE u == [New EXCEPT !.at = "admitting", !.live = TRUE]
  <2>3. CASE handler' = "trying" /\ account' = a /\ Put(a, u) /\ UNCHANGED excluded
    <3>1. u \in Attempt
      <4>1. New \in Attempt
        BY ChatAssumption DEF New, Attempt
      <4> QED
        BY <4>1, Zenon DEF Attempt
    <3>2. TypeOK'
      BY <1>6, <2>3, <3>1 DEF Choose, TypeOK, Put
    <3>3. ASSUME NEW i \in 1..MaxSends PROVE ticket[a][i] = "unused"
      BY <1>6 DEF Choose, IInv, Sound, Position, TicketSound, TypeOK
    <3>4. Sound(u, ticket[a], provider)
      BY <3>3, ChatAssumption DEF Sound, Position, Covered, Counted, TicketSound, New, Upstream
    <3>5. \A b \in Accounts : try'[b] = IF b = a THEN u ELSE try[b]
      BY <2>3 DEF TypeOK, Put
    <3>6. IInv'
      BY <1>6, <2>1, <2>3, <3>4, <3>5 DEF Choose, IInv
    <3> QED
      BY <3>2, <3>6
  <2> QED
    BY <1>6, <2>2, <2>3 DEF Choose
<1> QED
  BY <1>2, <1>3, <1>4, <1>5, <1>6

\* The client leaves: every attempt that is not over closes, at once.
LEMMA ClientLeavesKeeps ==
  ASSUME TypeOK, IInv, ClientLeaves
  PROVE  TypeOK' /\ IInv'
<1>1. ASSUME NEW a \in Accounts
      PROVE  /\ try'[a] = Closed(try[a]) /\ try'[a] \in Attempt /\ try'[a].at = try[a].at
             /\ ticket'[a] = ClosedTickets(a) /\ ticket'[a] \in [1..MaxSends -> Ticket]
             /\ Sound(try'[a], ticket'[a], provider)
  <2> DEFINE t == try[a]
             k == ticket[a]
  <2>1. t \in Attempt /\ k \in [1..MaxSends -> Ticket] /\ Sound(t, k, provider)
    BY DEF TypeOK, IInv
  <2>2. try'[a] = Closed(t) /\ ticket'[a] = ClosedTickets(a)
    BY DEF ClientLeaves
  <2>3. Closed(t) \in Attempt /\ Closed(t).at = t.at
    <3>1. Closed(t) \in Attempt
      BY <2>1, HelperTypes
    <3>2. Closed(t).at = t.at
      BY <2>1 DEF Closed, Failed, Finish, Attempt
    <3> QED
      BY <3>1, <3>2
  <2>4. ClosedTickets(a) = IF t.live /\ t.verdict = "open" THEN Settling(k, "releasing") ELSE k
    BY DEF ClosedTickets, Live
  <2>5. ClosedTickets(a) \in [1..MaxSends -> Ticket]
    BY <2>1, <2>4, HelperTypes
  <2>6. t.at = "new" => ~t.live
    BY <2>1 DEF Sound, Position
  <2>7. t.at = "new" => Closed(t) = t /\ ClosedTickets(a) = k
    BY <2>4, <2>6 DEF Closed
  <2>8. Sound(Closed(t), ClosedTickets(a), provider)
    BY <2>1, <2>4, <2>7, ClosedSound
  <2> QED
    BY <2>2, <2>3, <2>5, <2>8
<1>2. try' = [a \in Accounts |-> Closed(try[a])] /\ ticket' = [a \in Accounts |-> ClosedTickets(a)]
      /\ client' = "gone" /\ UNCHANGED <<provider, handler, account, excluded, held>>
  BY DEF ClientLeaves, loop
<1>3. TypeOK'
  <2>1. try' \in [Accounts -> Attempt]
    BY <1>1, <1>2
  <2>2. ticket' \in [Accounts -> [1..MaxSends -> Ticket]]
    BY <1>1, <1>2
  <2> QED
    BY <1>2, <2>1, <2>2 DEF TypeOK
<1>4. IInv'
  BY <1>1, <1>2 DEF IInv
<1> QED
  BY <1>3, <1>4

-----------------------------------------------------------------------------
\* A request starts sound: nothing has been tried.
LEMMA InitSound == Init => TypeOK /\ IInv
<1> SUFFICES ASSUME Init
             PROVE  TypeOK /\ IInv
  OBVIOUS
<1>1. New \in Attempt
  BY ChatAssumption DEF New, Attempt
<1>2. TypeOK
  BY <1>1 DEF Init, TypeOK, Ticket
<1>3. ASSUME NEW a \in Accounts
      PROVE  Sound(try[a], ticket[a], provider) /\ ~Busy(try[a].at)
  <2>1. try[a] = New /\ \A i \in 1..MaxSends : ticket[a][i] = "unused"
    BY DEF Init
  <2>2. Sound(New, ticket[a], provider)
    BY <2>1, ChatAssumption DEF Sound, Position, Covered, Counted, TicketSound, New, Upstream
  <2> QED
    BY <2>1, <2>2 DEF New, Busy
<1> QED
  BY <1>2, <1>3 DEF IInv

\* The inductive invariant: it holds of every request, at every step.
THEOREM ChatInvariant == Spec => [](TypeOK /\ IInv)
<1>1. Init => TypeOK /\ IInv
  BY InitSound
<1>2. TypeOK /\ IInv /\ [Next]_vars => TypeOK' /\ IInv'
  <2> SUFFICES ASSUME TypeOK, IInv, [Next]_vars
               PROVE  TypeOK' /\ IInv'
    OBVIOUS
  <2>1. CASE ClientLeaves
    BY <2>1, ClientLeavesKeeps
  <2>2. CASE GiveUp
    <3>1. CASE Accounts = {}
      BY <2>2, <3>1 DEF GiveUp, TypeOK, IInv
    <3>2. CASE Accounts # {}
      BY <2>2, <3>2, LoopKeeps
    <3> QED
      BY <3>1, <3>2
  <2>3. ASSUME NEW a \in Accounts,
               Choose(a) \/ Answer(a) \/ KeepAndTryNext(a) \/ Judge(a)
        PROVE  TypeOK' /\ IInv'
    BY <2>3, LoopKeeps
  <2>4. ASSUME NEW a \in Accounts,
               \/ Admitted(a) \/ NotAdmitted(a) \/ Begin(a) \/ Reserved(a) \/ NotReserved(a)
               \/ Break(a) \/ Resend(a) \/ Unauthorized(a) \/ Refreshed(a) \/ NotRefreshed(a)
               \/ Strip(a) \/ Refuse(a) \/ Accept(a) \/ Continue(a) \/ Report(a)
        PROVE  TypeOK' /\ IInv'
    BY <2>4, AttemptKeeps
  <2>5. ASSUME NEW a \in Accounts,
               \/ Coherent(a) \/ Empty(a) \/ Close(a) \/ FailBuffered(a) \/ CloseBuffered(a)
               \/ Stall(a) \/ \E i \in 1..MaxSends : Written(a, i)
        PROVE  TypeOK' /\ IInv'
    BY <2>5, StreamKeeps
  <2>6. CASE UNCHANGED vars
    BY <2>6 DEF vars, loop, TypeOK, IInv
  <2> QED
    BY <2>1, <2>2, <2>3, <2>4, <2>5, <2>6 DEF Next
<1> QED
  BY <1>1, <1>2, PTL DEF Spec

\* Whichever way an attempt of handleChatCore ends, its slot is back and it leaves no
\* ticket that nobody has tried to settle.
THEOREM ChatNothingOutstanding == Spec => []NothingOutstanding
<1>1. TypeOK /\ IInv => NothingOutstanding
  BY ChatAssumption DEF TypeOK, IInv, Sound, Position, TicketSound, NothingOutstanding, Over
<1> QED
  BY <1>1, ChatInvariant, PTL

\* What a live request has at the provider is covered by its slot, and its quota is
\* still open while it waits for an answer.
THEOREM ChatUpstreamIsCovered == Spec => []UpstreamIsCovered
<1>1. TypeOK /\ IInv => UpstreamIsCovered
  BY DEF TypeOK, IInv, Sound, Covered, UpstreamIsCovered, At, Live, Upstream
<1> QED
  BY <1>1, ChatInvariant, PTL

\* Of all sends of a request at most one holds a ticket that nobody is settling.
THEOREM ChatOneTicketAtATime == Spec => []OneTicketAtATime
<1>1. TypeOK /\ IInv => OneTicketAtATime
  <2> SUFFICES ASSUME TypeOK, IInv, NEW a \in Accounts, NEW b \in Accounts,
                      NEW i \in 1..MaxSends, NEW j \in 1..MaxSends,
                      ticket[a][i] = "open", ticket[b][j] = "open"
               PROVE  a = b /\ (i = j \/ try[a].stage = "stripped")
    BY DEF OneTicketAtATime
  <2>1. TicketSound(try[a], i, "open") /\ TicketSound(try[b], j, "open")
    BY DEF IInv, Sound
  <2>2. Busy(try[a].at) /\ Busy(try[b].at)
    BY <2>1 DEF TicketSound, Busy
  <2>3. a = b
    BY <2>2 DEF IInv
  <2> QED
    BY <2>1, <2>3 DEF TicketSound
<1> QED
  BY <1>1, ChatInvariant, PTL

\* Quota is committed for the answer that the client got and for no discarded one.
THEOREM ChatCommitsAnswerOnly == Spec => []CommitsAnswerOnly
<1>1. TypeOK /\ IInv => CommitsAnswerOnly
  BY DEF TypeOK, IInv, Sound, TicketSound, CommitsAnswerOnly, Last
<1> QED
  BY <1>1, ChatInvariant, PTL
=============================================================================
