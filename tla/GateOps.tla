------------------------------ MODULE GateOps ------------------------------
(***************************************************************************)
(* One gate of open-sse/services/concurrencyGate.js: the number of slots   *)
(* handed out and the FIFO queue of callers waiting for one.  Operators    *)
(* only, so that the stand-alone gate and the admission path that composes *)
(* several gates change a gate in exactly the same way.                    *)
(***************************************************************************)
EXTENDS WaitQueue

\* The entry getGate creates on first use.  A gate whose last slot is returned
\* is deleted from the map; the next getGate recreates this same value, so an
\* absent gate and an empty one are the same state here.
EmptyGate == [current |-> 0, queue |-> <<>>]

\* Mutant: one more than the limit.
HasRoomForOneMore(gate, limit) == gate.current <= limit

\* acquireSlot's fast path and its slow path, for a limit above 0.
HasRoom(gate, limit) == gate.current < limit

TakeSlot(gate) == [gate EXCEPT !.current = @ + 1]

\* Mutant: a newcomer enters at the front.
EnqueueFirst(gate, caller) == [gate EXCEPT !.queue = <<caller>> \o @]

Enqueue(gate, caller) == [gate EXCEPT !.queue = Append(@, caller)]

IsWaiting(gate, caller) == \E i \in 1..Len(gate.queue) : gate.queue[i] = caller

Withdraw(gate, caller) == [gate EXCEPT !.queue = CutOut(@, caller)]

\* Mutant: the waiter shifted is never resolved.
NobodyResolved(gate) == {}

\* releaseSlot hands the slot to the first waiter, `current` unchanged, and
\* only an empty queue lets the count fall.
NextWaiters(gate) == IF gate.queue = <<>> THEN {} ELSE {Head(gate.queue)}

\* Mutants: the slot is handed over and returned as well; it is returned while
\* its waiter stays in the queue.
FreeSlotTwice(gate) ==
  [gate EXCEPT !.queue = IF @ # <<>> THEN Tail(@) ELSE @, !.current = @ - 1]
FreeSlotKeepingWaiter(gate) ==
  [gate EXCEPT !.current = IF @ > 0 THEN @ - 1 ELSE 0]

FreeSlot(gate) ==
  IF gate.queue # <<>>
  THEN [gate EXCEPT !.queue = Tail(@)]
  ELSE [gate EXCEPT !.current = IF @ > 0 THEN @ - 1 ELSE 0]

=============================================================================
