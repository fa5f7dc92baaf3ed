---------------------------- MODULE ChatRequest ----------------------------
(***************************************************************************)
(* One chat request to one provider: the loop of handleSingleModelChat     *)
(* over the accounts (src/sse/handlers/chat.js), and for each account an   *)
(* attempt of handleChatCore (open-sse/handlers/chatCore.js) with a slot   *)
(* of the concurrency gate, a stream controller, and one quota ticket for  *)
(* every time the request is sent.  The client may leave at any await, and *)
(* every call to the database may fail.                                    *)
(***************************************************************************)
EXTENDS Naturals

CONSTANTS
  Accounts,   \* the accounts of the provider
  NoOne,      \* no account
  MaxSends    \* bound on the sends of an attempt

ASSUME ChatAssumption == NoOne \notin Accounts /\ MaxSends \in Nat \ {0}

VARIABLES
  provider,   \* anthropic may be asked again without thinking, antigravity in its stream
  client,     \* "there" or "gone"
  handler,    \* of the loop: choosing an account, trying it, or over
  account,    \* the account that is tried
  excluded,   \* excludeConnectionIds
  held,       \* earlyEofOriginal: an answer that ended early is kept
  try,        \* try[a]: the attempt on account a
  ticket      \* ticket[a]: the quota tickets of that attempt, one for each send

loop == <<handler, account, excluded, held>>
vars == <<provider, client, loop, try, ticket>>

\* stage: what the send is for.  then: what follows once a ticket is released.
\* slot: it holds one.  finished: finishProviderRequest has run.  live: the stream
\* controller has not ended, nor its signal been aborted.  verdict: settleQuota's first.
Attempt == [
  at: {"new", "admitting", "calling", "reserving", "sent", "discarding", "refreshing",
       "streaming", "closing", "ending", "settling", "failed", "done"},
  stage: {"first", "refreshed", "stripped", "again"},
  then: {"none", "resend", "refresh", "again", "throw"},
  slot: BOOLEAN,
  finished: BOOLEAN,
  live: BOOLEAN,
  verdict: {"open", "success", "failure"},
  sends: 0..MaxSends,
  why: {"none", "local", "capacity", "provider"}]

\* A ticket whose call to the database failed is missed: it stays active, and its
\* lease runs out unless a later call settles it.
Ticket == {"unused", "open", "committing", "releasing", "committed", "released", "missed"}

TypeOK ==
  /\ provider \in {"anthropic", "antigravity"}
  /\ client \in {"there", "gone"}
  /\ handler \in {"choosing", "trying", "over"}
  /\ account \in Accounts \cup {NoOne}
  /\ excluded \subseteq Accounts
  /\ held \in BOOLEAN
  /\ try \in [Accounts -> Attempt]
  /\ ticket \in [Accounts -> [1..MaxSends -> Ticket]]

New == [at |-> "new", stage |-> "first", then |-> "none", slot |-> FALSE,
        finished |-> FALSE, live |-> FALSE, verdict |-> "open", sends |-> 0, why |-> "none"]

Init ==
  /\ provider \in {"anthropic", "antigravity"}
  /\ client = "there"
  /\ handler = "choosing" /\ account = NoOne /\ excluded = {} /\ held = FALSE
  /\ try = [a \in Accounts |-> New]
  /\ ticket = [a \in Accounts |-> [i \in 1..MaxSends |-> "unused"]]

-----------------------------------------------------------------------------
At(a, p) == try[a].at = p
Live(a) == try[a].live
Last(a) == try[a].sends
Put(a, t) == try' = [try EXCEPT ![a] = t]
Go(a, p) == Put(a, [try[a] EXCEPT !.at = p])

\* The lifecycle settles every ticket that is still active.
Settling(tickets, call) ==
  [i \in 1..MaxSends |-> IF tickets[i] \in {"open", "missed"} THEN call ELSE tickets[i]]

\* finishProviderRequest: only its first call gives the slot back.
Finish(t) == IF t.finished THEN t ELSE [t EXCEPT !.finished = TRUE, !.slot = FALSE]

InFlight(a) == \E i \in 1..MaxSends : ticket[a][i] \in {"committing", "releasing"}

\* settleQuota(false): the first verdict wins, a later one does nothing.
Failed(t) == [t EXCEPT !.verdict = IF @ = "open" THEN "failure" ELSE @]
SettleFailed(a) ==
  ticket' = [ticket EXCEPT ![a] =
               IF try[a].verdict = "open" THEN Settling(@, "releasing") ELSE @]

\* handleDisconnect, handleError, handleComplete: only the first has an effect, and
\* the callbacks of all three give the slot back and settle the quota.
Closed(t) == IF t.live THEN Failed(Finish([t EXCEPT !.live = FALSE])) ELSE t
ClosedTickets(a) ==
  IF Live(a) /\ try[a].verdict = "open" THEN Settling(ticket[a], "releasing") ELSE ticket[a]

\* The attempt fails: finishProviderRequest, and settleQuota(false) is awaited.
Fail(a, why) ==
  /\ Put(a, Failed(Finish([try[a] EXCEPT !.at = "settling", !.why = why])))
  /\ SettleFailed(a)

\* executeProvider throws because the signal is aborted; the controller has ended.
ThrowAborted(a) ==
  CASE try[a].stage = "first" -> Fail(a, "none")
    [] try[a].stage = "again" -> Go(a, "done") /\ UNCHANGED ticket
    [] OTHER -> Go(a, "failed") /\ UNCHANGED ticket

\* It throws QuotaDispatchUnavailable: the loop may try another account.
NoCapacity(a) ==
  CASE try[a].stage = "again" ->
         Go(a, IF Live(a) THEN "ending" ELSE "done") /\ UNCHANGED ticket
    [] try[a].stage = "stripped" -> Fail(a, "provider")
    [] OTHER -> /\ Put(a, Finish([try[a] EXCEPT !.at = "failed", !.why = "capacity"]))
                /\ UNCHANGED ticket

\* It throws anything else: a last in-stream retry ends the stream, the other
\* stages report the error, their own or the one that was to be retried.
Throw(a) ==
  IF ~Live(a) THEN ThrowAborted(a)
  ELSE IF try[a].stage = "again" THEN Go(a, "ending") /\ UNCHANGED ticket
  ELSE Fail(a, "provider")

-----------------------------------------------------------------------------
\* The loop selects an account that was not tried and claims its recovery, where
\* it may be busy; the core makes its controller and asks for admission.
Choose(a) ==
  /\ handler = "choosing" /\ client = "there"
  /\ a \notin excluded /\ At(a, "new")
  /\ \/ /\ handler' = "trying" /\ account' = a
        /\ Put(a, [New EXCEPT !.at = "admitting", !.live = TRUE])
        /\ UNCHANGED excluded
     \/ excluded' = excluded \cup {a} /\ UNCHANGED <<handler, account, try>>
  /\ UNCHANGED <<provider, client, held, ticket>>

\* No account can be selected, or the client has gone: an error, or the answer kept.
GiveUp ==
  /\ handler = "choosing"
  /\ handler' = "over"
  /\ UNCHANGED <<provider, client, account, excluded, held, try, ticket>>

\* Mutant: the continuation of acquireMany does not look whether the request ended.
AdmittedBlindly(a) ==
  /\ At(a, "admitting")
  /\ Put(a, [try[a] EXCEPT !.at = "calling", !.slot = TRUE])
  /\ UNCHANGED <<provider, client, loop, ticket>>

\* A slot that comes after the request was finished goes back at once.
Admitted(a) ==
  /\ At(a, "admitting")
  /\ Put(a, [try[a] EXCEPT !.at = "calling", !.slot = ~try[a].finished])
  /\ UNCHANGED <<provider, client, loop, ticket>>

\* Payload admission settles, a timeout of the gate and an abort do not.
NotAdmitted(a) ==
  /\ At(a, "admitting")
  /\ LET t == Finish([try[a] EXCEPT !.at = "failed", !.why = IF Live(a) THEN "local" ELSE @])
     IN Put(a, t) \/ Put(a, Failed(t))
  /\ UNCHANGED <<provider, client, loop, ticket>>

\* executeProvider, and the executor up to the reservation.
Begin(a) ==
  /\ At(a, "calling")
  /\ IF Live(a) THEN Go(a, "reserving") /\ UNCHANGED ticket ELSE ThrowAborted(a)
  /\ UNCHANGED <<provider, client, loop>>

Reserved(a) ==
  /\ At(a, "reserving")
  /\ Put(a, [try[a] EXCEPT !.at = "sent", !.sends = @ + 1])
  /\ ticket' = [ticket EXCEPT ![a][Last(a) + 1] = "open"]
  /\ UNCHANGED <<provider, client, loop>>

NotReserved(a) ==
  /\ At(a, "reserving")
  /\ NoCapacity(a)
  /\ UNCHANGED <<provider, client, loop>>

\* Something answers: once the signal is aborted, only if it had answered before,
\* so that its ticket was there to be settled.
Answers(a) == At(a, "sent") /\ (Live(a) \/ ticket[a][Last(a)] # "open")

\* A ticket is released before what is to follow.
Discard(a, what) ==
  /\ Put(a, [try[a] EXCEPT !.at = "discarding", !.then = what])
  /\ ticket' = [ticket EXCEPT ![a][Last(a)] =
                  IF @ \in {"open", "missed"} THEN "releasing" ELSE @]

\* The connection breaks, times out or is aborted.
Break(a) ==
  /\ At(a, "sent")
  /\ Discard(a, "throw")
  /\ UNCHANGED <<provider, client, loop>>

\* The executor tries again itself (another URL, a transient status).
Resend(a) ==
  /\ At(a, "sent") /\ Live(a) /\ Last(a) < MaxSends
  /\ Discard(a, "resend")
  /\ UNCHANGED <<provider, client, loop>>

\* Mutants: the quota of the request is closed before the token is refreshed, or
\* the ticket is kept.
UnauthorizedSettles(a) ==
  /\ Answers(a) /\ try[a].stage = "first"
  /\ Put(a, Failed([try[a] EXCEPT !.at = "discarding", !.then = "refresh"]))
  /\ SettleFailed(a)
  /\ UNCHANGED <<provider, client, loop>>
UnauthorizedKeeps(a) ==
  /\ Answers(a) /\ try[a].stage = "first"
  /\ Go(a, "refreshing")
  /\ UNCHANGED <<provider, client, loop, ticket>>

\* 401 or 403: the token is refreshed, and the request sent again, once.
Unauthorized(a) ==
  /\ Answers(a) /\ try[a].stage = "first" /\ Last(a) < MaxSends
  /\ Discard(a, "refresh")
  /\ UNCHANGED <<provider, client, loop>>

Refreshed(a) ==
  /\ At(a, "refreshing")
  /\ Put(a, [try[a] EXCEPT !.at = "calling", !.stage = "refreshed"])
  /\ UNCHANGED <<provider, client, loop, ticket>>

\* No new token: the first answer is reported.  An abort of the refresh is not.
NotRefreshed(a) ==
  /\ At(a, "refreshing")
  /\ IF Live(a) THEN Fail(a, "provider") ELSE Go(a, "failed") /\ UNCHANGED ticket
  /\ UNCHANGED <<provider, client, loop>>

\* The thinking of earlier turns is refused: it is left out and the request sent
\* again, with the ticket of the first answer still open.
Strip(a) ==
  /\ At(a, "sent") /\ Live(a) /\ provider = "anthropic" /\ Last(a) < MaxSends
  /\ try[a].stage \in {"first", "refreshed"}
  /\ Put(a, [try[a] EXCEPT !.at = "calling", !.stage = "stripped"])
  /\ UNCHANGED <<provider, client, loop, ticket>>

\* Any other error status.  In its stream antigravity discards the ticket first.
Refuse(a) ==
  /\ Answers(a)
  /\ IF try[a].stage = "again" THEN Discard(a, "throw") ELSE Fail(a, "provider")
  /\ UNCHANGED <<provider, client, loop>>

\* The answer begins.  One that was recovered gives the slot back here.
Accept(a) ==
  /\ Answers(a)
  /\ LET t == [try[a] EXCEPT !.at = "streaming"] IN
       Put(a, IF t.stage = "stripped" THEN Finish(t) ELSE t)
  /\ UNCHANGED <<provider, client, loop, ticket>>

\* The awaited release has been written, and what it was for follows; or it was not,
\* and the attempt has no capacity.  A wrapped answer hides that from the refresh,
\* and an empty attempt ends the stream.
Continue(a) ==
  /\ At(a, "discarding") /\ ticket[a][Last(a)] # "releasing"
  /\ LET then == try[a].then IN
       IF ticket[a][Last(a)] = "missed"
       THEN \/ NoCapacity(a)
            \/ then = "refresh" /\ Fail(a, "provider")
       ELSE \/ then = "throw" /\ Throw(a)
            \/ then # "throw" /\ ~Live(a) /\ ThrowAborted(a)
            \/ /\ Live(a) /\ UNCHANGED ticket
               /\ \/ then = "resend" /\ Go(a, "reserving")
                  \/ then = "refresh" /\ Go(a, "refreshing")
                  \/ then = "again" /\ Go(a, "calling")
  /\ UNCHANGED <<provider, client, loop>>

\* The settlement that was awaited is over, and the error is reported.
Report(a) ==
  /\ At(a, "settling") /\ ~InFlight(a)
  /\ Go(a, "failed")
  /\ UNCHANGED <<provider, client, loop, ticket>>

-----------------------------------------------------------------------------
\* A coherent terminal of the provider commits what is still active.
Coherent(a) ==
  /\ At(a, "streaming")
  /\ try[a].verdict = "open"
  /\ Put(a, [try[a] EXCEPT !.verdict = "success"])
  /\ ticket' = [ticket EXCEPT ![a] = Settling(@, "committing")]
  /\ UNCHANGED <<provider, client, loop>>

\* Mutant: an empty attempt is not discarded.
EmptyKept(a) ==
  /\ At(a, "streaming") /\ provider = "antigravity" /\ Live(a)
  /\ try[a].verdict = "open" /\ Last(a) < MaxSends
  /\ Put(a, [try[a] EXCEPT !.at = "calling", !.stage = "again"])
  /\ UNCHANGED <<provider, client, loop, ticket>>

\* An antigravity attempt ends without content: its terminal is withheld, and it is
\* discarded and sent again in the same stream, or the stream is exhausted.
Empty(a) ==
  /\ At(a, "streaming") /\ provider = "antigravity" /\ Live(a)
  /\ try[a].verdict = "open" /\ ticket[a][Last(a)] = "open"
  /\ Put(a, [try[a] EXCEPT !.at = "discarding", !.stage = "again",
                           !.then = IF Last(a) < MaxSends THEN "again" ELSE "throw"])
  /\ ticket' = [ticket EXCEPT ![a][Last(a)] = "releasing"]
  /\ UNCHANGED <<provider, client, loop>>

\* The stream ends, breaks or misses its terminal, or a stream that is not one is
\* refused, which is a failure of the attempt.
Close(a) ==
  /\ At(a, "streaming") \/ At(a, "ending")
  /\ \/ Put(a, [Closed(try[a]) EXCEPT !.at = "done"])
     \/ handler = "trying" /\ At(a, "streaming") /\
          Put(a, [Closed(try[a]) EXCEPT !.at = "settling", !.why = "provider"])
  /\ ticket' = [ticket EXCEPT ![a] = ClosedTickets(a)]
  /\ UNCHANGED <<provider, client, loop>>

\* A buffered answer that fails is settled first, and its controller ends then.
FailBuffered(a) ==
  /\ At(a, "streaming") /\ handler = "trying" /\ try[a].stage # "again"
  /\ Put(a, Failed([try[a] EXCEPT !.at = "closing", !.why = "provider"]))
  /\ SettleFailed(a)
  /\ UNCHANGED <<provider, client, loop>>
CloseBuffered(a) ==
  /\ At(a, "closing") /\ ~InFlight(a)
  /\ Put(a, [Closed(try[a]) EXCEPT !.at = "failed"])
  /\ UNCHANGED <<provider, client, loop, ticket>>

\* While it streams, the watchdogs for a first byte and for a stall may fire.
Stall(a) ==
  /\ At(a, "streaming") \/ At(a, "ending") \/ try[a].stage = "again"
  /\ Live(a)
  /\ Put(a, Closed(try[a]))
  /\ ticket' = [ticket EXCEPT ![a] = ClosedTickets(a)]
  /\ UNCHANGED <<provider, client, loop>>

\* The client aborts or cancels: every controller that has not ended disconnects.
ClientLeaves ==
  /\ client = "there" /\ client' = "gone"
  /\ try' = [a \in Accounts |-> Closed(try[a])]
  /\ ticket' = [a \in Accounts |-> ClosedTickets(a)]
  /\ UNCHANGED <<provider, loop>>

-----------------------------------------------------------------------------
Trying(a) == handler = "trying" /\ account = a

\* The first content has come, or the peek took too long, or nothing is tried after
\* this answer: it is the client's.
Answer(a) ==
  /\ Trying(a)
  /\ At(a, "streaming") \/ At(a, "ending") \/ At(a, "done") \/ try[a].stage = "again"
  /\ handler' = "over"
  /\ UNCHANGED <<provider, client, account, excluded, held, try, ticket>>

\* The stream ended before any content: it is kept, and one sibling is tried.
KeepAndTryNext(a) ==
  /\ Trying(a) /\ At(a, "done") /\ ~held /\ client = "there"
  /\ handler' = "choosing" /\ account' = NoOne
  /\ held' = TRUE /\ excluded' = excluded \cup {a}
  /\ UNCHANGED <<provider, client, try, ticket>>

\* The attempt failed: a local or final failure is the answer, otherwise the
\* account is excluded, and cooled if the provider failed.
Judge(a) ==
  /\ Trying(a) /\ At(a, "failed")
  /\ \/ handler' = "over" /\ UNCHANGED <<account, excluded>>
     \/ /\ client = "there" /\ try[a].why \in {"capacity", "provider"}
        /\ handler' = "choosing" /\ account' = NoOne
        /\ excluded' = excluded \cup {a}
  /\ UNCHANGED <<provider, client, held, try, ticket>>

\* A call to the database ends, well or not.
Written(a, i) ==
  /\ ticket[a][i] \in {"committing", "releasing"}
  /\ \E s \in {IF ticket[a][i] = "committing" THEN "committed" ELSE "released", "missed"} :
       ticket' = [ticket EXCEPT ![a][i] = s]
  /\ UNCHANGED <<provider, client, loop, try>>

Next ==
  \/ \E a \in Accounts :
       \/ Choose(a) \/ Admitted(a) \/ NotAdmitted(a)
       \/ Begin(a) \/ Reserved(a) \/ NotReserved(a)
       \/ Break(a) \/ Resend(a) \/ Unauthorized(a) \/ Refreshed(a) \/ NotRefreshed(a)
       \/ Strip(a) \/ Refuse(a) \/ Accept(a) \/ Continue(a) \/ Report(a)
       \/ Coherent(a) \/ Empty(a) \/ Close(a) \/ FailBuffered(a) \/ CloseBuffered(a)
       \/ Stall(a) \/ Answer(a) \/ KeepAndTryNext(a) \/ Judge(a)
       \/ \E i \in 1..MaxSends : Written(a, i)
  \/ GiveUp \/ ClientLeaves

Spec == Init /\ [][Next]_vars

-----------------------------------------------------------------------------
Over(a) == try[a].at \in {"failed", "done"}

\* Whichever way an attempt ended, its slot is back, and no ticket is left that nobody
\* has tried to settle.
NothingOutstanding == \A a \in Accounts :
  Over(a) => ~try[a].slot /\ \A i \in 1..MaxSends : ticket[a][i] # "open"

\* What a live request has at the provider is covered: it holds its slot, unless it
\* was recovered from refused thinking and streams, and while it waits for an answer
\* its quota has not been settled.
UpstreamIsCovered == \A a \in Accounts :
  Live(a) /\ (At(a, "sent") \/ At(a, "streaming")) =>
    /\ try[a].slot \/ (At(a, "streaming") /\ try[a].stage = "stripped")
    /\ At(a, "sent") => try[a].verdict = "open"

\* "Retries release their discarded ticket before acquiring another": of all sends
\* of the request at most one has a ticket that is held and not being settled,
\* unless refused thinking was left out.
OneTicketAtATime == \A a, b \in Accounts :
  \A i, j \in 1..MaxSends :
    ticket[a][i] = "open" /\ ticket[b][j] = "open" =>
      a = b /\ (i = j \/ try[a].stage = "stripped")

\* A ticket is committed for the answer that the client got: it is the last of its
\* attempt, and not for a discarded answer, with the same exception.
CommitsAnswerOnly == \A a \in Accounts : \A i \in 1..MaxSends :
  ticket[a][i] \in {"committing", "committed"} =>
    /\ try[a].verdict = "success"
    /\ i = Last(a) \/ try[a].stage = "stripped"

=============================================================================
