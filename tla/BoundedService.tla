--------------------------- MODULE BoundedService ---------------------------
(***************************************************************************)
(* What admission promises to the rest of the gateway, with no queue, no   *)
(* promise and no gate in sight: a request that asks is answered, and the  *)
(* requests sent upstream never exceed, together, what the operator        *)
(* allows: per gate key, in bytes, and in held streams.                    *)
(***************************************************************************)
EXTENDS PayloadOps

CONSTANTS
  Keys,         \* "__global__" and the providers
  KeysOf,       \* KeysOf[r]: the keys that request r counts against
  Limit         \* Limit[k]: concurrent requests allowed on k, 0 for any number

VARIABLE status \* status[r]: none, asked, running, over

WithinLimits(S) ==
  /\ \A k \in Keys : Limit[k] > 0 =>
       Cardinality({r \in S : k \in KeysOf[r]}) <= Limit[k]
  /\ SumFunctionOnSet(Bytes, S) <= MaxPayloadBytes
  /\ \A r \in S : Bytes[r] <= MaxSinglePayloadBytes
  /\ Cardinality({r \in S : IsStream[r]}) <= MaxHeldStreams

Running == {r \in Callers : status[r] = "running"}

Init == status = [r \in Callers |-> "none"]

Move(r, from, to) == status[r] = from /\ status' = [status EXCEPT ![r] = to]

Ask(r)    == Move(r, "none", "asked")
Run(r)    == Move(r, "asked", "running") /\ WithinLimits(Running \cup {r})
Refuse(r) == Move(r, "asked", "over")
Finish(r) == Move(r, "running", "over")
Forget(r) == Move(r, "over", "none")

Next == \E r \in Callers : Ask(r) \/ Run(r) \/ Refuse(r) \/ Finish(r) \/ Forget(r)

Spec ==
  /\ Init /\ [][Next]_status
  /\ \A r \in Callers : WF_status(Run(r) \/ Refuse(r)) /\ WF_status(Finish(r))

=============================================================================
