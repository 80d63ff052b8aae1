---------------------------------- MODULE SaveQueue ----------------------------------
(***************************************************************************)
(* The save queue of the environment editor (src/features/envs/            *)
(* saveQueue.ts): what is to be written (head), what the store is known to *)
(* hold (acked) and what is being written (flight).  The code's effects    *)
(* are not listed: a write is sent exactly when `flight` becomes a new one.*)
(***************************************************************************)
EXTENDS Integers

CONSTANT NoGoal  \* nothing that could be written

NoFlight == [rev |-> 0, goal |-> NoGoal]

\* An environment not stored yet has nothing acknowledged, and an invalid head.
CreateQueue(stored) ==
    [head |-> [rev |-> 0, goal |-> stored], acked |-> [rev |-> 0, goal |-> stored],
     flight |-> NoFlight, timer |-> FALSE, sendOnSettle |-> FALSE, failed |-> FALSE]

Owed(q) == q.head.goal # NoGoal /\ q.head.rev # q.acked.rev

TrySend(q) ==
    IF ~Owed(q) THEN [q EXCEPT !.sendOnSettle = FALSE]
    ELSE IF q.flight # NoFlight THEN [q EXCEPT !.sendOnSettle = q.flight.rev # q.head.rev]
    ELSE [q EXCEPT !.flight = q.head, !.sendOnSettle = FALSE, !.timer = FALSE]

Flush(q) == TrySend([q EXCEPT !.timer = FALSE])

Edited(q, goal, urgency) ==
    LET next == [q EXCEPT !.head = [rev |-> @.rev + 1, goal |-> goal], !.timer = urgency = "debounce"]
    IN  IF urgency = "now" THEN TrySend(next) ELSE next

MarkInvalid(q) ==
    [q EXCEPT !.head = [rev |-> @.rev + 1, goal |-> NoGoal], !.timer = FALSE, !.sendOnSettle = FALSE]

\* Only called for the revision in flight.
Settled(q, ok) ==
    LET next == IF ok THEN [q EXCEPT !.acked = q.flight, !.flight = NoFlight, !.failed = FALSE]
                ELSE [q EXCEPT !.flight = NoFlight, !.failed = TRUE]
    IN  IF next.sendOnSettle THEN TrySend(next) ELSE next

IsIdle(q) == q.flight = NoFlight /\ ~q.sendOnSettle /\ ~q.timer

QueueStatus(q) ==
    CASE q.head.rev = q.acked.rev -> IF q.acked.rev = 0 THEN "clean" ELSE "saved"
      [] q.head.rev # q.acked.rev /\ q.head.goal = NoGoal -> "invalid"
      [] Owed(q) /\ ~IsIdle(q) -> "saving"
      [] Owed(q) /\ IsIdle(q) -> IF q.failed THEN "failed" ELSE "held"
====
