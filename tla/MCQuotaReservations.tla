------------------------ MODULE MCQuotaReservations ------------------------
\* Two requests, of which one needs a session and a weekly unit together and the
\* other either of them; the session window starts anew at instant 3.
EXTENDS QuotaReservations
CONSTANTS r1, r2, session, weekly
MCRequests == {r1, r2}
MCResources == {session, weekly}
MCPlan == [r \in Requests |-> IF r = r1 THEN {{session, weekly}}
                                        ELSE {{session}, {weekly}}]
MCResetAt == [q \in Resources |-> IF q = session THEN 3 ELSE MaxTime + 1]
=============================================================================
