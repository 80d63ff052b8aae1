--------------------------- MODULE EnvEditor_proofs ---------------------------
(***************************************************************************)
(* Theorems about EnvEditor and EnvSync, for any names, contents and       *)
(* lanes, any budget of the user and the disk, and any initial store.  An  *)
(* action is a chain of operators over what lane, session and list share;  *)
(* WellFormed says of that record what each operator of the chain keeps.   *)
(***************************************************************************)
EXTENDS EnvEditor, FiniteSetTheorems, SequenceTheorems, WellFoundedInduction, TLAPS

-----------------------------------------------------------------------------
(* The inductive invariant. *)

Destinations == [to : {"stored"}, name : Names] \cup {New, Empty, Closed}
PaneType == [phase : {"closed", "open", "closing"}, lane : Lanes \cup {NoLane},
             confirm : {"none", "asking", "deleting"}, armed : BOOLEAN, leaving : Destinations]

StepType ==
    [op : {"upsert"}, goal : EnvType] \cup [op : {"activate", "delete"}, name : Names]
      \cup [op : {"deactivate"}] \cup [op : {"reorder"}, names : Seq(Names)]
JobType ==
    [kind : {"sync", "cleanup", "delete"}, lane : Lanes, goal : GoalType, fp : FootprintType,
     state : {"queued", "running", "failed"}, steps : Seq(StepType), index : Int,
     activated : Names \cup {NoName}]

\* What a save queue never mixes up: what is acknowledged, what is being
\* written and the last edit follow each other; of one revision is one goal.
QueueOK(q) ==
    /\ q.acked.rev <= q.head.rev
    /\ q.acked.rev = q.head.rev => q.acked = q.head
    /\ q.flight # Queue!NoFlight =>
         /\ q.acked.rev < q.flight.rev /\ q.flight.rev <= q.head.rev
         /\ q.flight.rev = q.head.rev => q.flight = q.head
         /\ q.flight.goal # NoGoal
    /\ q.sendOnSettle => q.flight # Queue!NoFlight /\ q.flight.rev < q.head.rev

FootprintOK(fp) == fp \in FootprintType /\ (fp.stored => fp.name \in Names)

\* A lane that exists.
LaneOK(l) ==
    /\ l \in LaneType
    /\ QueueOK(l.queue) /\ FootprintOK(l.fp)
    /\ ~l.fp.stored => ~l.queue.timer

JobOK(job) ==
    /\ job \in JobType /\ FootprintOK(job.fp)
    /\ job.kind = "sync" => job.goal # NoGoal /\ (job.state = "running" => job.index \in Nat)

IsUi(u) ==
    u = [lanes |-> u.lanes, byName |-> u.byName, tail |-> u.tail, pane |-> u.pane, envs |-> u.envs]

Shape(u) ==
    /\ IsUi(u)
    /\ u.lanes \in [Lanes -> LaneType \cup {Unused}]
    /\ \A i \in Lanes : u.lanes[i].used => LaneOK(u.lanes[i])
    /\ u.byName \in [Names -> Lanes \cup {NoLane}]
    /\ u.tail \in Seq(JobType)
    /\ \A k \in DOMAIN u.tail : JobOK(u.tail[k]) /\ (u.tail[k].state # "queued" => k = 1)
    /\ u.pane \in PaneType
    /\ u.envs \in Seq(EnvType)

\* What is referred to exists.
Linked(u) ==
    /\ \A n \in Names : u.byName[n] # NoLane => u.lanes[u.byName[n]].used
    /\ u.pane.lane # NoLane => u.lanes[u.pane.lane].used
    /\ \A k \in DOMAIN u.tail : u.lanes[u.tail[k].lane].used

Syncs(tl, i) == {k \in DOMAIN tl : tl[k].kind = "sync" /\ tl[k].lane = i}

\* FlightIsQueued, of one lane.
FlightOf(u, i) ==
    u.lanes[i].used =>
        IF u.lanes[i].queue.flight = Queue!NoFlight THEN Syncs(u.tail, i) = {}
        ELSE \E k \in DOMAIN u.tail :
               /\ Syncs(u.tail, i) = {k}
               /\ u.tail[k].goal = u.lanes[i].queue.flight.goal /\ u.tail[k].fp = u.lanes[i].fp

\* The pane's phase, its dialog and its timer, and the lane it shows.
PaneOK(u) ==
    /\ u.pane.phase = "closed" => u.pane.lane = NoLane
    /\ u.pane.phase = "closing" => u.pane.lane # NoLane /\ u.pane.confirm = "none"
    /\ u.pane.phase = "closing" /\ ~u.lanes[u.pane.lane].fp.stored =>
         u.lanes[u.pane.lane].queue.flight = Queue!NoFlight
    /\ u.pane.confirm # "none" =>
         u.pane.phase = "open" /\ u.pane.lane # NoLane /\ u.lanes[u.pane.lane].fp.stored
    /\ u.pane.armed => u.pane.lane # NoLane /\ u.lanes[u.pane.lane].queue.timer

\* A clean-up or a delete is the pane's, which waits for it.
PaneJobs(u) ==
    \A k \in DOMAIN u.tail :
        /\ u.tail[k].kind = "cleanup" => u.pane.phase = "closing"
        /\ u.tail[k].kind = "delete" =>
             /\ u.pane.phase = "open" /\ u.pane.confirm = "deleting"
             /\ u.tail[k].lane = u.pane.lane /\ u.tail[k].fp = u.lanes[u.pane.lane].fp
             /\ \A m \in Syncs(u.tail, u.pane.lane) : k < m
        /\ \A m \in DOMAIN u.tail : u.tail[k].kind # "sync" /\ u.tail[m].kind = u.tail[k].kind => m = k

Sound(u) == Shape(u) /\ Linked(u) /\ PaneOK(u) /\ PaneJobs(u)

WellFormed(u) == Sound(u) /\ \A i \in Lanes : FlightOf(u, i)

StoreOK == store \in Seq(EnvType) /\ IsInjective(NamesOf(store)) /\ active \in Names \cup {NoName}

\* The calls nobody waits for.
CallsOK ==
    /\ refreshes \subseteq [read : BOOLEAN, list : Seq(EnvType), bump : BOOLEAN,
                            select : Names \cup {NoName, "keep"}]
    /\ selects \subseteq [name : Names \cup {NoName}, checked : BOOLEAN]

EnvInv == WellFormed(Ui) /\ StoreOK /\ CallsOK

-----------------------------------------------------------------------------
(* The save queue. *)

QueueType ==
    [head : RevType, acked : RevType, flight : RevType,
     timer : BOOLEAN, sendOnSettle : BOOLEAN, failed : BOOLEAN]

\* What an edit or a flush may do to the write under way: leave it, or start one.
Sends(was, now) == now = was \/ was = Queue!NoFlight

LEMMA NoFlightType == Queue!NoFlight \in RevType
  BY DEF Queue!NoFlight, RevType, GoalType

\* Sending what is owed keeps the queue in order.
LEMMA TrySendKeeps ==
    ASSUME NEW q \in QueueType, QueueOK(q)
    PROVE  /\ Queue!TrySend(q) \in QueueType /\ QueueOK(Queue!TrySend(q))
           /\ Sends(q.flight, Queue!TrySend(q).flight)
           /\ Queue!TrySend(q).timer => q.timer
  <1> DEFINE t == Queue!TrySend(q)
  <1>0. /\ q.head \in RevType /\ q.acked \in RevType /\ q.flight \in RevType
        /\ q.head.rev \in Nat /\ q.acked.rev \in Nat /\ q.flight.rev \in Nat
    BY DEF QueueType, RevType
  <1>1. CASE ~Queue!Owed(q)
    <2>1. t = [q EXCEPT !.sendOnSettle = FALSE]
      BY <1>1 DEF Queue!TrySend
    <2>2. QED BY <2>1 DEF QueueType, QueueOK, Sends
  <1>2. CASE Queue!Owed(q) /\ q.flight # Queue!NoFlight
    <2>1. t = [q EXCEPT !.sendOnSettle = q.flight.rev # q.head.rev]
      BY <1>2 DEF Queue!TrySend
    <2> DEFINE late == q.flight.rev # q.head.rev
    <2>2. late \in BOOLEAN /\ (late => q.flight.rev < q.head.rev)
      BY <1>0, <1>2 DEF QueueOK
    <2>3. t = [q EXCEPT !.sendOnSettle = late]
      BY <2>1
    <2> HIDE DEF late, t
    <2>4. t \in QueueType
      BY <2>2, <2>3 DEF QueueType
    <2>5. QueueOK(t)
      BY <1>2, <2>2, <2>3 DEF QueueType, QueueOK
    <2>6. t.flight = q.flight /\ t.timer = q.timer
      BY <2>3 DEF QueueType
    <2>7. QED BY <2>4, <2>5, <2>6 DEF Sends, t
  <1>3. CASE Queue!Owed(q) /\ q.flight = Queue!NoFlight
    <2>1. t = [q EXCEPT !.flight = q.head, !.sendOnSettle = FALSE, !.timer = FALSE]
      BY <1>3 DEF Queue!TrySend
    <2>2. q.head.goal # NoGoal /\ q.acked.rev < q.head.rev
      BY <1>0, <1>3 DEF Queue!Owed, QueueOK
    <2> HIDE DEF t
    <2>3. t \in QueueType
      BY <1>0, <2>1 DEF QueueType
    <2>4. /\ t.head = q.head /\ t.acked = q.acked /\ t.flight = q.head
          /\ t.sendOnSettle = FALSE /\ t.timer = FALSE
      BY <2>1 DEF QueueType
    <2>5. QueueOK(t)
      BY <1>0, <2>2, <2>4 DEF QueueOK
    <2>6. QED BY <1>3, <2>3, <2>4, <2>5 DEF Sends, t
  <1>4. QED BY <1>1, <1>2, <1>3

\* A flush drops the timer and sends what is owed.
LEMMA FlushKeeps ==
    ASSUME NEW q \in QueueType, QueueOK(q)
    PROVE  /\ Queue!Flush(q) \in QueueType /\ QueueOK(Queue!Flush(q))
           /\ Sends(q.flight, Queue!Flush(q).flight)
           /\ ~Queue!Flush(q).timer
  <1> DEFINE r == [q EXCEPT !.timer = FALSE]
  <1>1. r \in QueueType /\ r.flight = q.flight /\ ~r.timer
    BY DEF QueueType
  <1>2. QueueOK(r)
    BY DEF QueueType, QueueOK
  <1>3. Queue!Flush(q) = Queue!TrySend(r)
    BY DEF Queue!Flush
  <1> HIDE DEF r
  <1>4. QED BY <1>1, <1>2, <1>3, TrySendKeeps

Urgencies == {"now", "debounce", "hold"}

\* An edit is a later revision, and only one to be written now is sent.
LEMMA EditedKeeps ==
    ASSUME NEW q \in QueueType, QueueOK(q), NEW goal \in EnvType, NEW urgency \in Urgencies
    PROVE  LET e == Queue!Edited(q, goal, urgency)
           IN  /\ e \in QueueType /\ QueueOK(e) /\ Sends(q.flight, e.flight)
               /\ urgency # "now" => e.flight = q.flight
               /\ e.timer => urgency = "debounce"
  <1> DEFINE head == [rev |-> q.head.rev + 1, goal |-> goal]
             waits == urgency = "debounce"
             r == [q EXCEPT !.head = head, !.timer = waits]
             e == Queue!Edited(q, goal, urgency)
  <1>0. /\ q.head \in RevType /\ q.acked \in RevType /\ q.flight \in RevType
        /\ q.head.rev \in Nat /\ q.acked.rev \in Nat /\ q.flight.rev \in Nat
    BY DEF QueueType, RevType
  <1>1. head \in RevType /\ head.rev \in Nat /\ head.rev > q.head.rev /\ waits \in BOOLEAN
    BY <1>0 DEF RevType, GoalType
  <1>2. e = IF urgency = "now" THEN Queue!TrySend(r) ELSE r
    BY <1>0 DEF Queue!Edited, QueueType
  <1> HIDE DEF head, e
  <1>3. /\ r \in QueueType /\ r.flight = q.flight /\ r.timer = waits
        /\ r.head = head /\ r.acked = q.acked /\ r.sendOnSettle = q.sendOnSettle
    <2> HIDE DEF waits
    <2>1. QED BY <1>1 DEF QueueType
  <1> HIDE DEF r
  <1>4. QueueOK(r)
    BY <1>0, <1>1, <1>3 DEF QueueOK
  <1>5. CASE urgency = "now"
    <2>1. e = Queue!TrySend(r) /\ ~r.timer
      BY <1>2, <1>3, <1>5
    <2>2. QED BY <1>3, <1>4, <1>5, <2>1, TrySendKeeps DEF e
  <1>6. CASE urgency # "now"
    BY <1>2, <1>3, <1>4, <1>6 DEF Sends, e
  <1>7. QED BY <1>5, <1>6

\* What cannot be written is a later revision with nothing to write.
LEMMA MarkInvalidKeeps ==
    ASSUME NEW q \in QueueType, QueueOK(q)
    PROVE  LET e == Queue!MarkInvalid(q)
           IN  e \in QueueType /\ QueueOK(e) /\ e.flight = q.flight /\ ~e.timer
  <1> DEFINE head == [rev |-> q.head.rev + 1, goal |-> NoGoal]
             e == Queue!MarkInvalid(q)
  <1>0. /\ q.head \in RevType /\ q.acked \in RevType /\ q.flight \in RevType
        /\ q.head.rev \in Nat /\ q.acked.rev \in Nat /\ q.flight.rev \in Nat
    BY DEF QueueType, RevType
  <1>1. head \in RevType /\ head.rev \in Nat /\ head.rev > q.head.rev
    BY <1>0 DEF RevType, GoalType
  <1>2. e = [q EXCEPT !.head = head, !.timer = FALSE, !.sendOnSettle = FALSE]
    BY <1>0 DEF Queue!MarkInvalid, QueueType
  <1> HIDE DEF head, e
  <1>3. /\ e \in QueueType /\ e.flight = q.flight /\ e.timer = FALSE
        /\ e.head = head /\ e.acked = q.acked /\ e.sendOnSettle = FALSE
    BY <1>1, <1>2 DEF QueueType
  <1>4. QueueOK(e)
    BY <1>0, <1>1, <1>3 DEF QueueOK
  <1>5. QED BY <1>3, <1>4 DEF e

\* A write that settles is over; what starts then is another revision.
LEMMA SettledKeeps ==
    ASSUME NEW q \in QueueType, QueueOK(q), q.flight # Queue!NoFlight, NEW ok \in BOOLEAN
    PROVE  LET e == Queue!Settled(q, ok)
           IN  /\ e \in QueueType /\ QueueOK(e) /\ (e.timer => q.timer)
               /\ e.flight = Queue!NoFlight \/ e.flight # q.flight
  <1> DEFINE n == IF ok THEN [q EXCEPT !.acked = q.flight, !.flight = Queue!NoFlight, !.failed = FALSE]
                  ELSE [q EXCEPT !.flight = Queue!NoFlight, !.failed = TRUE]
             e == Queue!Settled(q, ok)
  <1>0. /\ q.head \in RevType /\ q.acked \in RevType /\ q.flight \in RevType
        /\ q.head.rev \in Nat /\ q.acked.rev \in Nat /\ q.flight.rev \in Nat
    BY DEF QueueType, RevType
  <1>1. /\ n \in QueueType /\ n.flight = Queue!NoFlight /\ n.timer = q.timer
        /\ n.head = q.head /\ n.acked \in {q.acked, q.flight} /\ n.sendOnSettle = q.sendOnSettle
    <2>1. CASE ok
      BY <1>0, <2>1, NoFlightType DEF QueueType
    <2>2. CASE ~ok
      BY <1>0, <2>2, NoFlightType DEF QueueType
    <2>3. QED BY <2>1, <2>2
  <1>2. e = IF n.sendOnSettle THEN Queue!TrySend(n) ELSE n
    BY DEF Queue!Settled
  <1> HIDE DEF n, e
  \* Without sendOnSettle, QueueOK(n) holds; with it, TrySend makes it hold.
  <1>3. QueueOK([n EXCEPT !.sendOnSettle = FALSE])
    BY <1>0, <1>1 DEF QueueOK, QueueType
  <1>4. CASE ~n.sendOnSettle
    <2>1. e = n
      BY <1>2, <1>4
    <2>2. QueueOK(n)
      BY <1>0, <1>1, <1>4 DEF QueueOK
    <2>3. QED BY <1>1, <2>1, <2>2 DEF e
  <1>5. CASE n.sendOnSettle
    <2> DEFINE m == [n EXCEPT !.sendOnSettle = FALSE]
    <2>1. m \in QueueType /\ m.flight = Queue!NoFlight /\ m.timer = q.timer /\ m.head = q.head
      BY <1>1 DEF QueueType
    <2>2. e = Queue!TrySend(n) /\ q.flight.rev < q.head.rev
      BY <1>1, <1>2, <1>5 DEF QueueOK
    <2>3. Queue!TrySend(n) = Queue!TrySend(m)
      BY <1>1 DEF Queue!TrySend, Queue!Owed, QueueType
    <2>4. Queue!TrySend(m).flight \in {Queue!NoFlight, q.head}
      BY <2>1 DEF Queue!TrySend, QueueType
    <2> HIDE DEF m
    <2>5. /\ Queue!TrySend(m) \in QueueType /\ QueueOK(Queue!TrySend(m))
          /\ Queue!TrySend(m).timer => q.timer
      <3>1. QueueOK(m)
        BY <1>3 DEF m
      <3>2. QED BY <2>1, <3>1, TrySendKeeps
    <2>6. q.head # q.flight
      BY <1>0, <2>2
    <2>7. QED BY <2>2, <2>3, <2>4, <2>5, <2>6 DEF e
  <1>6. QED BY <1>4, <1>5

-----------------------------------------------------------------------------
(* One lane. *)

DraftType == [name : Names \cup {NoName}, val : Vals, bad : BOOLEAN]

\* What a lane's own step may do to it.
Moves(l, n) == LaneOK(n) /\ n.fp = l.fp /\ Sends(l.queue.flight, n.queue.flight)

LEMMA MovesOn ==
    ASSUME NEW l, NEW m, NEW n, Moves(l, m), Moves(m, n) PROVE Moves(l, n)
  BY DEF Moves, Sends

LEMMA LaneParts ==
    ASSUME NEW l, LaneOK(l)
    PROVE  /\ l.used = TRUE /\ l.fp \in FootprintType /\ l.draft \in DraftType
           /\ l.queue \in QueueType /\ l.seen \in SUBSET Names
           /\ l.queue.head \in RevType /\ l.queue.acked \in RevType /\ l.queue.flight \in RevType
           /\ l.queue.head.goal \in GoalType /\ l.queue.acked.goal \in GoalType
           /\ l.queue.flight.goal \in GoalType /\ l.queue.timer \in BOOLEAN
           /\ l.fp.stored \in BOOLEAN
  BY DEF LaneOK, LaneType, DraftType, QueueType, RevType, FootprintType

\* A lane with another draft, another list or another queue in order.
LEMMA RedraftKeeps ==
    ASSUME NEW l, LaneOK(l), NEW d \in DraftType
    PROVE  Moves(l, [l EXCEPT !.draft = d])
  <1> DEFINE n == [l EXCEPT !.draft = d]
  <1>1. n \in LaneType /\ n.fp = l.fp /\ n.queue = l.queue
    BY DEF LaneOK, LaneType, DraftType
  <1>2. QED BY <1>1 DEF LaneOK, Moves, Sends

LEMMA ReseenKeeps ==
    ASSUME NEW l, LaneOK(l), NEW S \in SUBSET Names
    PROVE  Moves(l, [l EXCEPT !.seen = S]) /\ [l EXCEPT !.seen = S].queue = l.queue
  <1> DEFINE n == [l EXCEPT !.seen = S]
  <1>1. n \in LaneType /\ n.fp = l.fp /\ n.queue = l.queue
    BY DEF LaneOK, LaneType
  <1>2. QED BY <1>1 DEF LaneOK, Moves, Sends

LEMMA RequeueKeeps ==
    ASSUME NEW l, LaneOK(l), NEW q \in QueueType, QueueOK(q), Sends(l.queue.flight, q.flight),
           ~l.fp.stored => ~q.timer
    PROVE  Moves(l, [l EXCEPT !.queue = q]) /\ [l EXCEPT !.queue = q].queue = q
  <1> DEFINE n == [l EXCEPT !.queue = q]
  <1>1. n \in LaneType /\ n.fp = l.fp /\ n.queue = q
    BY DEF LaneOK, LaneType, QueueType
  <1>2. QED BY <1>1 DEF LaneOK, Moves

LEMMA FlushedKeeps ==
    ASSUME NEW l, LaneOK(l)
    PROVE  Moves(l, Flushed(l))
  <1> DEFINE q == Queue!Flush(l.queue)
  <1>1. l.queue \in QueueType /\ QueueOK(l.queue)
    BY LaneParts DEF LaneOK
  <1>2. q \in QueueType /\ QueueOK(q) /\ Sends(l.queue.flight, q.flight) /\ ~q.timer
    BY <1>1, FlushKeeps
  <1>3. Flushed(l) = [l EXCEPT !.queue = q]
    BY DEF Flushed
  <1> HIDE DEF q
  <1>4. QED BY <1>2, <1>3, RequeueKeeps

LEMMA StageKeeps ==
    ASSUME NEW l, LaneOK(l), NEW urgency \in Urgencies
    PROVE  /\ Moves(l, Stage(l, urgency))
           /\ urgency # "now" \/ ~l.fp.stored => Stage(l, urgency).queue.flight = l.queue.flight
  <1>1. l.queue \in QueueType /\ QueueOK(l.queue) /\ l.draft \in DraftType
    BY LaneParts DEF LaneOK
  <1>2. CASE Valid(l)
    <2> DEFINE how == IF l.fp.stored THEN urgency ELSE "hold"
               q == Queue!Edited(l.queue, Goal(l), how)
    <2>1. Goal(l) \in EnvType
      BY <1>1, <1>2 DEF Valid, Goal, EnvType, DraftType
    <2>2. how \in Urgencies /\ (~l.fp.stored => how = "hold") /\ (l.fp.stored => how = urgency)
      BY DEF Urgencies
    <2> HIDE DEF how
    <2>3. /\ q \in QueueType /\ QueueOK(q) /\ Sends(l.queue.flight, q.flight)
          /\ how # "now" => q.flight = l.queue.flight
          /\ q.timer => how = "debounce"
      BY <1>1, <2>1, <2>2, EditedKeeps
    <2>4. Stage(l, urgency) = [l EXCEPT !.queue = q]
      BY <1>2 DEF Stage, how
    <2> HIDE DEF q
    <2>5. QED BY <2>2, <2>3, <2>4, RequeueKeeps
  <1>3. CASE ~Valid(l)
    <2> DEFINE q == Queue!MarkInvalid(l.queue)
    <2>1. q \in QueueType /\ QueueOK(q) /\ q.flight = l.queue.flight /\ ~q.timer
      BY <1>1, MarkInvalidKeeps
    <2>2. Stage(l, urgency) = [l EXCEPT !.queue = q]
      BY <1>3 DEF Stage
    <2> HIDE DEF q
    <2>3. QED BY <2>1, <2>2, RequeueKeeps DEF Sends
  <1>4. QED BY <1>2, <1>3

\* The names of a list are names.
LEMMA NamesOfList ==
    ASSUME NEW list \in Seq(EnvType)
    PROVE  /\ NamesOf(list) \in Seq(Names) /\ Len(NamesOf(list)) = Len(list)
           /\ \A i \in 1 .. Len(list) : NamesOf(list)[i] = list[i].name
           /\ ToSet(NamesOf(list)) \in SUBSET Names
  <1>1. NamesOf(list) = [i \in 1 .. Len(list) |-> list[i].name]
    BY DEF NamesOf
  <1>2. \A i \in 1 .. Len(list) : list[i] \in EnvType
    OBVIOUS
  <1>3. \A i \in 1 .. Len(list) : list[i].name \in Names
    BY <1>2 DEF EnvType
  <1>4. QED BY <1>1, <1>3 DEF ToSet

LEMMA NoticeKeeps ==
    ASSUME NEW l, LaneOK(l), NEW list \in Seq(EnvType)
    PROVE  Moves(l, Notice(l, list)) /\ Notice(l, list).queue.flight = l.queue.flight
  <1> DEFINE S == ToSet(NamesOf(list))
             n == [l EXCEPT !.seen = S]
  <1>1. S \in SUBSET Names
    BY NamesOfList
  <1>2. Notice(l, list) = IF Valid(n) # Valid(l) THEN Stage(n, "debounce") ELSE n
    BY DEF Notice
  <1> HIDE DEF S
  <1>3. Moves(l, n) /\ n.queue = l.queue
    BY <1>1, ReseenKeeps
  <1> HIDE DEF n
  <1>4. LaneOK(n) /\ "debounce" \in Urgencies
    BY <1>3 DEF Moves, Urgencies
  <1>5. Moves(n, Stage(n, "debounce")) /\ Stage(n, "debounce").queue.flight = n.queue.flight
    BY <1>4, StageKeeps
  <1>6. QED BY <1>2, <1>3, <1>5, MovesOn

LEMMA SalvagedKeeps ==
    ASSUME NEW l, LaneOK(l)
    PROVE  Moves(l, Salvaged(l))
  <1> DEFINE acked == l.queue.acked.goal
             wrong == l.draft.name = NoName \/ l.draft.name \in l.seen \ Ours(l.fp)
             d == [name |-> IF wrong THEN acked.name ELSE l.draft.name, val |-> l.draft.val, bad |-> FALSE]
             next == [l EXCEPT !.draft = d]
  <1>1. l.draft \in DraftType /\ acked \in GoalType
    BY LaneParts
  <1>2. d \in DraftType
    BY <1>1 DEF DraftType, GoalType, EnvType, NoGoal
  <1>3. next = [l EXCEPT !.draft = [name |-> IF wrong THEN acked.name ELSE @.name, val |-> @.val, bad |-> FALSE]]
    BY DEF LaneOK, LaneType
  <1>4. Salvaged(l) = IF Goal(next) = acked THEN next ELSE Stage(next, "now")
    BY <1>3 DEF Salvaged
  <1> HIDE DEF d
  <1>5. Moves(l, next)
    BY <1>2, RedraftKeeps
  <1> HIDE DEF next, acked
  <1>6. LaneOK(next) /\ "now" \in Urgencies
    BY <1>5 DEF Moves, Urgencies
  <1>7. Moves(next, Stage(next, "now"))
    BY <1>6, StageKeeps
  <1>8. QED BY <1>4, <1>5, <1>7, MovesOn

\* The first place of what a sequence holds.
LEMMA PlaceIsThere ==
    ASSUME NEW S, NEW seq \in Seq(S), NEW e \in ToSet(seq)
    PROVE  PlaceOf(seq, e) \in 1 .. Len(seq) /\ seq[PlaceOf(seq, e)] = e
  <1>1. \E i \in DOMAIN seq : seq[i] = e
    BY DEF ToSet
  <1>2. PlaceOf(seq, e) \in DOMAIN seq /\ seq[PlaceOf(seq, e)] = e
    BY <1>1 DEF PlaceOf
  <1>3. QED BY <1>2

\* A listed environment is at its place.
LEMMA ListedPlace ==
    ASSUME NEW list \in Seq(EnvType), NEW name, Has(list, name)
    PROVE  LET i == PlaceOf(NamesOf(list), name)
           IN  i \in 1 .. Len(list) /\ list[i].name = name /\ list[i] \in EnvType
  <1>1. name \in ToSet(NamesOf(list))
    BY DEF Has, NamesOf, ToSet
  <1>2. QED BY <1>1, NamesOfList, PlaceIsThere

\* A lane as it is opened.
LEMMA OpenedIsOK ==
    ASSUME NEW to \in Destinations \ {Empty, Closed}, NEW list \in Seq(EnvType)
    PROVE  LET l == OpenLane(to, list)
           IN  LaneOK(l) /\ l.queue.flight = Queue!NoFlight
  <1> DEFINE stored == to.to = "stored"
             known == stored /\ Has(list, to.name)
             val == IF known THEN Content(list, to.name) ELSE 0
             index == IF known THEN PlaceOf(NamesOf(list), to.name) - 1 ELSE Len(list)
             goal == [name |-> to.name, val |-> val]
             l == OpenLane(to, list)
  <1>1. /\ stored => to.name \in Names
        /\ ~stored => to.name = NoName
        /\ stored \in BOOLEAN
    BY DEF Destinations, New, Empty, Closed
  <1>2. val \in Vals /\ index \in Nat
    <2>1. CASE known
      <3> DEFINE i == PlaceOf(NamesOf(list), to.name)
      <3>1. i \in 1 .. Len(list) /\ list[i] \in EnvType
        BY <2>1, ListedPlace
      <3>2. val = list[i].val /\ index = i - 1
        BY <2>1 DEF Content
      <3> HIDE DEF i, val, index
      <3>3. QED BY <3>1, <3>2 DEF EnvType
    <2>2. CASE ~known
      BY <2>2, EnvAssumption
    <2>3. QED BY <2>1, <2>2
  <1> DEFINE fp == IF stored THEN StoredFootprint(to.name, index) ELSE NewFootprint
             draft == [name |-> to.name, val |-> val, bad |-> FALSE]
             q == Queue!CreateQueue(IF stored THEN goal ELSE NoGoal)
             seen == ToSet(NamesOf(list))
  <1>3. l = [used |-> TRUE, fp |-> fp, draft |-> draft, queue |-> q, seen |-> seen]
    BY DEF OpenLane
  <1> HIDE DEF val, index, l
  <1>4. fp \in FootprintType /\ FootprintOK(fp)
    BY <1>1, <1>2 DEF FootprintType, FootprintOK, StoredFootprint, NewFootprint
  <1>5. draft \in DraftType
    BY <1>1, <1>2 DEF DraftType
  <1>6. seen \in SUBSET Names
    BY NamesOfList
  <1>7. /\ q \in QueueType /\ QueueOK(q) /\ q.flight = Queue!NoFlight /\ ~q.timer
    <2>1. (IF stored THEN goal ELSE NoGoal) \in GoalType
      BY <1>1, <1>2 DEF GoalType, EnvType
    <2>2. QED
      BY <2>1, NoFlightType DEF Queue!CreateQueue, QueueType, QueueOK, RevType
  <1> HIDE DEF fp, draft, q, seen
  <1>8. l \in LaneType /\ l.queue = q /\ l.fp = fp
    BY <1>3, <1>4, <1>5, <1>6, <1>7 DEF LaneType, DraftType, QueueType
  <1>9. QED BY <1>4, <1>7, <1>8 DEF LaneOK, l

-----------------------------------------------------------------------------
(* What lane, session and list share: each operator keeps it well-formed. *)

\* A job as it is queued.
LEMMA JobIsOK ==
    ASSUME NEW kind \in {"sync", "cleanup", "delete"}, NEW i \in Lanes, NEW goal \in GoalType,
           NEW fp, FootprintOK(fp), kind = "sync" => goal # NoGoal
    PROVE  LET job == Job(kind, i, goal, fp)
           IN  /\ job \in JobType /\ JobOK(job) /\ job.state = "queued"
               /\ job.kind = kind /\ job.lane = i /\ job.goal = goal /\ job.fp = fp
  <1> DEFINE job == Job(kind, i, goal, fp)
  <1>1. fp \in FootprintType /\ <<>> \in Seq(StepType) /\ 0 \in Int
    BY DEF FootprintOK
  <1>2. job = [kind |-> kind, lane |-> i, goal |-> goal, fp |-> fp, state |-> "queued",
               steps |-> <<>>, index |-> 0, activated |-> NoName]
    BY DEF Job
  <1>3. job \in JobType
    BY <1>1, <1>2 DEF JobType
  <1>4. QED BY <1>2, <1>3 DEF JobOK

\* A lane may take the place of lane i: it comes by a step of its own, or its
\* write has just settled.
Fits(u, i, l) ==
    /\ i \in Lanes /\ u.lanes[i].used /\ LaneOK(l)
    /\ \/ FlightOf(u, i) /\ Moves(u.lanes[i], l)
       \/ /\ Syncs(u.tail, i) = {}
          /\ l.queue.flight = Queue!NoFlight \/ l.queue.flight # u.lanes[i].queue.flight
          /\ \A k \in DOMAIN u.tail : u.tail[k].kind = "delete" => u.tail[k].lane # i
    /\ u.pane.lane = i /\ u.pane.confirm # "none" => l.fp.stored
    /\ u.pane.lane = i /\ u.pane.phase = "closing" /\ ~l.fp.stored => l.queue.flight = Queue!NoFlight

Rearmed(u, i, l) ==
    IF i = u.pane.lane THEN l.queue.timer /\ (u.pane.armed \/ l.queue.head # u.lanes[i].queue.head)
    ELSE u.pane.armed
PutInPane(u, i, l) == [u.pane EXCEPT !.armed = Rearmed(u, i, l)]
PutInLanes(u, i, l) == [u.lanes EXCEPT ![i] = l]
PutInNames(u, i, l) ==
    Rekeyed(u.byName, i, [stored |-> u.lanes[i].fp.stored, name |-> u.lanes[i].fp.name],
                         [stored |-> l.fp.stored, name |-> l.fp.name])

LEMMA PutParts ==
    ASSUME NEW u, Shape(u), NEW i \in Lanes, NEW l
    PROVE  /\ IsUi(Put(u, i, l))
           /\ Put(u, i, l).lanes = PutInLanes(u, i, l)
           /\ Put(u, i, l).byName = PutInNames(u, i, l)
           /\ Put(u, i, l).tail =
                IF l.queue.flight \notin {u.lanes[i].queue.flight, Queue!NoFlight}
                THEN Append(u.tail, Job("sync", i, l.queue.flight.goal, l.fp)) ELSE u.tail
           /\ Put(u, i, l).pane = PutInPane(u, i, l)
           /\ Put(u, i, l).envs = u.envs
  <1>1. u = [lanes |-> u.lanes, byName |-> u.byName, tail |-> u.tail, pane |-> u.pane, envs |-> u.envs]
    BY DEF Shape, IsUi
  <1> DEFINE p == Put(u, i, l)
             A == PutInLanes(u, i, l)
             B == PutInNames(u, i, l)
             T == IF l.queue.flight \notin {u.lanes[i].queue.flight, Queue!NoFlight}
                  THEN Append(u.tail, Job("sync", i, l.queue.flight.goal, l.fp)) ELSE u.tail
             N == PutInPane(u, i, l)
  <1>2. p = [u EXCEPT !.lanes = A, !.byName = B, !.tail = T, !.pane = N]
    BY <1>1, Zenon DEF Put, Rearmed, PutInLanes, PutInNames, PutInPane
  <1> HIDE DEF A, B, T, N, p
  <1>3. p = [lanes |-> A, byName |-> B, tail |-> T, pane |-> N, envs |-> u.envs]
    BY <1>1, <1>2
  <1>4. p.lanes = A /\ p.byName = B /\ p.tail = T /\ p.pane = N /\ p.envs = u.envs /\ IsUi(p)
    BY <1>3 DEF IsUi
  <1>5. QED BY <1>4 DEF A, B, T, N, p

\* The pane after a lane's step: only its timer can differ.
LEMMA PutPane ==
    ASSUME NEW u, Sound(u), NEW i \in Lanes, NEW l, LaneOK(l)
    PROVE  LET p == Put(u, i, l).pane
           IN  /\ p \in PaneType /\ p.phase = u.pane.phase /\ p.lane = u.pane.lane
               /\ p.confirm = u.pane.confirm /\ p.leaving = u.pane.leaving
               /\ p.armed => IF i = u.pane.lane THEN l.queue.timer ELSE u.pane.armed
  <1>1. Shape(u) /\ u.pane \in PaneType /\ u.pane.armed \in BOOLEAN
    BY DEF Sound, Shape, PaneType
  <1>2. l.queue.timer \in BOOLEAN
    BY LaneParts
  <1> DEFINE armed == Rearmed(u, i, l)
  <1>3. Put(u, i, l).pane = [u.pane EXCEPT !.armed = armed]
    <2>1. Put(u, i, l).pane = PutInPane(u, i, l)
      BY <1>1, PutParts
    <2>2. QED BY <2>1, Zenon DEF PutInPane
  <1>4. armed \in BOOLEAN /\ (armed => IF i = u.pane.lane THEN l.queue.timer ELSE u.pane.armed)
    BY <1>1, <1>2 DEF Rearmed
  <1> HIDE DEF armed
  <1>5. QED BY <1>1, <1>3, <1>4 DEF PaneType

\* The jobs after it: those there were, and perhaps a write.
LEMMA PutTail ==
    ASSUME NEW u, Sound(u), NEW i, NEW l, Fits(u, i, l)
    PROVE  LET p == Put(u, i, l)
           IN  \/ /\ p.tail = u.tail
                  /\ l.queue.flight \in {u.lanes[i].queue.flight, Queue!NoFlight}
               \/ \E job \in JobType :
                    /\ p.tail = Append(u.tail, job)
                    /\ JobOK(job) /\ job.state = "queued" /\ job.kind = "sync" /\ job.lane = i
                    /\ job.goal = l.queue.flight.goal /\ job.fp = l.fp
                    /\ l.queue.flight \notin {u.lanes[i].queue.flight, Queue!NoFlight}
  <1> DEFINE p == Put(u, i, l)
             job == Job("sync", i, l.queue.flight.goal, l.fp)
  <1>1. i \in Lanes /\ LaneOK(l) /\ Shape(u)
    BY DEF Fits, Sound
  <1>2. p.tail = IF l.queue.flight \notin {u.lanes[i].queue.flight, Queue!NoFlight}
                 THEN Append(u.tail, job) ELSE u.tail
    BY <1>1, PutParts
  <1>3. CASE l.queue.flight \notin {u.lanes[i].queue.flight, Queue!NoFlight}
    <2>1. l.queue.flight.goal \in GoalType /\ l.queue.flight.goal # NoGoal /\ FootprintOK(l.fp)
      BY <1>1, <1>3, LaneParts DEF LaneOK, QueueOK
    <2>2. /\ job \in JobType /\ JobOK(job) /\ job.state = "queued" /\ job.kind = "sync"
          /\ job.lane = i /\ job.goal = l.queue.flight.goal /\ job.fp = l.fp
      BY <1>1, <2>1, JobIsOK
    <2> HIDE DEF job, p
    <2>3. QED BY <1>2, <1>3, <2>2 DEF p
  <1>4. CASE l.queue.flight \in {u.lanes[i].queue.flight, Queue!NoFlight}
    BY <1>2, <1>4
  <1>5. QED BY <1>3, <1>4

LEMMA PutShape ==
    ASSUME NEW u, Sound(u), NEW i, NEW l, Fits(u, i, l)
    PROVE  /\ Shape(Put(u, i, l))
           /\ \A j \in Lanes : Put(u, i, l).lanes[j] = IF j = i THEN l ELSE u.lanes[j]
           /\ \A n \in Names : Put(u, i, l).byName[n] \in {u.byName[n], i, NoLane}
  <1> DEFINE p == Put(u, i, l)
  <1>1. i \in Lanes /\ LaneOK(l) /\ Shape(u) /\ l \in LaneType
    BY DEF Fits, Sound, LaneOK
  <1>2. /\ IsUi(p)
        /\ p.lanes = PutInLanes(u, i, l)
        /\ p.envs = u.envs
        /\ p.byName = PutInNames(u, i, l)
    BY <1>1, PutParts
  <1>3. p.pane \in PaneType
    BY <1>1, PutPane
  <1>4. p.tail = u.tail \/ \E job \in JobType : p.tail = Append(u.tail, job) /\ JobOK(job) /\ job.state = "queued"
    BY PutTail
  <1> HIDE DEF p
  <1>5. /\ p.lanes \in [Lanes -> LaneType \cup {Unused}]
        /\ \A j \in Lanes : p.lanes[j].used => LaneOK(p.lanes[j])
    BY <1>1, <1>2 DEF Shape, PutInLanes
  <1>6. /\ p.byName \in [Names -> Lanes \cup {NoLane}]
        /\ \A n \in Names : p.byName[n] \in {u.byName[n], i, NoLane}
    BY <1>1, <1>2 DEF Rekeyed, Shape, PutInNames
  <1>7. /\ p.tail \in Seq(JobType)
        /\ \A k \in DOMAIN p.tail : JobOK(p.tail[k]) /\ (p.tail[k].state # "queued" => k = 1)
    <2>1. u.tail \in Seq(JobType) /\ \A k \in DOMAIN u.tail : JobOK(u.tail[k]) /\ (u.tail[k].state # "queued" => k = 1)
      BY <1>1 DEF Shape
    <2>2. CASE p.tail = u.tail
      BY <2>1, <2>2
    <2>3. ASSUME NEW job \in JobType, p.tail = Append(u.tail, job), JobOK(job), job.state = "queued"
          PROVE  /\ p.tail \in Seq(JobType)
                 /\ \A k \in DOMAIN p.tail : JobOK(p.tail[k]) /\ (p.tail[k].state # "queued" => k = 1)
      <3>1. p.tail \in Seq(JobType) /\ Len(p.tail) = Len(u.tail) + 1
        BY <2>1, <2>3
      <3>2. \A k \in 1 .. Len(p.tail) : p.tail[k] = IF k <= Len(u.tail) THEN u.tail[k] ELSE job
        BY <2>1, <2>3
      <3>3. QED BY <2>1, <2>3, <3>1, <3>2
    <2>4. QED BY <1>4, <2>2, <2>3
  <1>8. p.envs \in Seq(EnvType)
    BY <1>1, <1>2 DEF Shape
  <1>9. Shape(p)
    BY <1>2, <1>3, <1>5, <1>6, <1>7, <1>8 DEF Shape
  <1>10. \A j \in Lanes : p.lanes[j] = IF j = i THEN l ELSE u.lanes[j]
    BY <1>1, <1>2 DEF PutInLanes, Shape
  <1>11. QED BY <1>6, <1>9, <1>10 DEF p

LEMMA JobParts ==
    ASSUME NEW tl \in Seq(JobType), NEW k \in DOMAIN tl
    PROVE  /\ tl[k] \in JobType /\ tl[k].lane \in Lanes /\ tl[k].goal \in GoalType
           /\ tl[k].kind \in {"sync", "cleanup", "delete"} /\ tl[k].fp \in FootprintType
           /\ tl[k].steps \in Seq(StepType) /\ tl[k].activated \in Names \cup {NoName}
           /\ tl[k].state \in {"queued", "running", "failed"}
  <1>1. tl[k] \in JobType
    OBVIOUS
  <1>2. QED BY <1>1 DEF JobType

\* The tail with one job more.
LEMMA OneJobMore ==
    ASSUME NEW tl \in Seq(JobType), NEW job \in JobType
    PROVE  LET t == Append(tl, job)
           IN  /\ t \in Seq(JobType) /\ DOMAIN tl = 1 .. Len(tl) /\ DOMAIN t = 1 .. Len(tl) + 1
               /\ \A k \in DOMAIN tl : k \in DOMAIN t /\ k < Len(tl) + 1 /\ t[k] = tl[k]
               /\ t[Len(tl) + 1] = job
               /\ \A k \in DOMAIN t : k \in DOMAIN tl \/ k = Len(tl) + 1
               /\ \A j : Syncs(t, j) = IF job.kind = "sync" /\ job.lane = j THEN Syncs(tl, j) \cup {Len(tl) + 1}
                                       ELSE Syncs(tl, j)
  <1> DEFINE t == Append(tl, job)
  <1>1. /\ t \in Seq(JobType) /\ DOMAIN tl = 1 .. Len(tl) /\ DOMAIN t = 1 .. Len(tl) + 1
        /\ Len(tl) \in Nat
    OBVIOUS
  <1>2. \A k \in 1 .. Len(tl) : k \in 1 .. Len(tl) + 1 /\ k < Len(tl) + 1 /\ t[k] = tl[k]
    OBVIOUS
  <1>3. t[Len(tl) + 1] = job
    OBVIOUS
  <1> HIDE DEF t
  <1>4. \A k \in DOMAIN t : k \in DOMAIN tl \/ k = Len(tl) + 1
    BY <1>1
  <1>5. ASSUME NEW j
        PROVE  Syncs(t, j) = IF job.kind = "sync" /\ job.lane = j THEN Syncs(tl, j) \cup {Len(tl) + 1}
                             ELSE Syncs(tl, j)
    BY <1>1, <1>2, <1>3 DEF Syncs
  <1>6. QED BY <1>1, <1>2, <1>3, <1>4, <1>5 DEF t

LEMMA PutLinked ==
    ASSUME NEW u, Sound(u), NEW i, NEW l, Fits(u, i, l)
    PROVE  Linked(Put(u, i, l)) /\ PaneOK(Put(u, i, l))
  <1> DEFINE p == Put(u, i, l)
  <1>1. /\ i \in Lanes /\ LaneOK(l) /\ l.used = TRUE
        /\ u.lanes \in [Lanes -> LaneType \cup {Unused}] /\ u.byName \in [Names -> Lanes \cup {NoLane}]
        /\ u.pane \in PaneType /\ u.tail \in Seq(JobType) /\ Linked(u) /\ PaneOK(u) /\ Shape(u)
    BY LaneParts DEF Fits, Sound, Shape
  <1>2. /\ \A j \in Lanes : p.lanes[j] = IF j = i THEN l ELSE u.lanes[j]
        /\ \A n \in Names : p.byName[n] \in {u.byName[n], i, NoLane}
    BY PutShape
  <1>3. /\ p.pane.phase = u.pane.phase /\ p.pane.lane = u.pane.lane
        /\ p.pane.confirm = u.pane.confirm
        /\ p.pane.armed => IF i = u.pane.lane THEN l.queue.timer ELSE u.pane.armed
    BY <1>1, PutPane
  <1>4. \A k \in DOMAIN p.tail : p.tail[k].lane = i \/ (k \in DOMAIN u.tail /\ p.tail[k] = u.tail[k])
    <2>1. CASE p.tail = u.tail
      BY <2>1
    <2>2. ASSUME NEW job \in JobType, p.tail = Append(u.tail, job), job.lane = i
          PROVE  \A k \in DOMAIN p.tail : p.tail[k].lane = i \/ (k \in DOMAIN u.tail /\ p.tail[k] = u.tail[k])
      <3> HIDE DEF p
      <3>1. QED BY <1>1, <2>2, OneJobMore
    <2>3. QED BY <2>1, <2>2, PutTail
  <1>5. u.pane.lane \in Lanes \cup {NoLane} /\ NoLane \notin Lanes
    BY <1>1, EnvAssumption DEF PaneType, NoLane
  <1>6. \A k \in DOMAIN u.tail : u.tail[k].lane \in Lanes
    BY <1>1, JobParts
  <1>7. /\ u.pane.lane = i /\ u.pane.confirm # "none" => l.fp.stored
        /\ u.pane.lane = i /\ u.pane.phase = "closing" /\ ~l.fp.stored => l.queue.flight = Queue!NoFlight
    BY DEF Fits
  <1> HIDE DEF p
  <1>9. Linked(p)
    <2>1. \A n \in Names : p.byName[n] # NoLane => p.lanes[p.byName[n]].used
      BY <1>1, <1>2 DEF Linked
    <2>2. p.pane.lane # NoLane => p.lanes[p.pane.lane].used
      BY <1>1, <1>2, <1>3, <1>5 DEF Linked
    <2>3. \A k \in DOMAIN p.tail : p.lanes[p.tail[k].lane].used
      BY <1>1, <1>2, <1>4, <1>6 DEF Linked
    <2>4. QED BY <2>1, <2>2, <2>3 DEF Linked
  <1>10. PaneOK(p)
    BY <1>1, <1>2, <1>3, <1>5, <1>7 DEF PaneOK
  <1>11. QED BY <1>9, <1>10 DEF p

LEMMA PutPaneJobs ==
    ASSUME NEW u, Sound(u), NEW i, NEW l, Fits(u, i, l)
    PROVE  PaneJobs(Put(u, i, l))
  <1> DEFINE p == Put(u, i, l)
  <1>1. /\ i \in Lanes /\ LaneOK(l) /\ Shape(u)
        /\ u.lanes \in [Lanes -> LaneType \cup {Unused}]
        /\ u.tail \in Seq(JobType) /\ PaneJobs(u)
    BY DEF Fits, Sound, Shape
  <1>2. \A j \in Lanes : p.lanes[j] = IF j = i THEN l ELSE u.lanes[j]
    BY <1>1, PutShape
  <1>3. /\ p.pane.phase = u.pane.phase /\ p.pane.lane = u.pane.lane
        /\ p.pane.confirm = u.pane.confirm
    BY <1>1, PutPane
  \* Seen by the old jobs, the pane's lane has the footprint it had.
  <1>4. ASSUME NEW k \in DOMAIN u.tail, u.tail[k].kind = "delete"
        PROVE  /\ p.pane.phase = "open" /\ p.pane.confirm = "deleting"
               /\ u.tail[k].lane = p.pane.lane /\ u.tail[k].fp = p.lanes[p.pane.lane].fp
               /\ \A m \in Syncs(u.tail, p.pane.lane) : k < m
    <2>1. /\ u.pane.phase = "open" /\ u.pane.confirm = "deleting"
          /\ u.tail[k].lane = u.pane.lane /\ u.tail[k].fp = u.lanes[u.pane.lane].fp
          /\ \A m \in Syncs(u.tail, u.pane.lane) : k < m
      BY <1>1, <1>4 DEF PaneJobs
    <2>2. u.tail[k].lane \in Lanes
      BY <1>1, JobParts
    <2>3. u.pane.lane = i => l.fp = u.lanes[i].fp
      BY <1>4, <2>1 DEF Fits, Moves
    <2>4. QED BY <1>2, <1>3, <2>1, <2>2, <2>3
  <1>5. \A k \in DOMAIN u.tail : u.tail[k].kind = "cleanup" => p.pane.phase = "closing"
    BY <1>1, <1>3 DEF PaneJobs
  <1>6. \A k, m \in DOMAIN u.tail : u.tail[k].kind # "sync" /\ u.tail[m].kind = u.tail[k].kind => m = k
    BY <1>1 DEF PaneJobs
  <1> HIDE DEF p
  <1>7. CASE p.tail = u.tail
    BY <1>4, <1>5, <1>6, <1>7 DEF PaneJobs, p
  <1>8. ASSUME NEW job \in JobType, p.tail = Append(u.tail, job), job.kind = "sync"
        PROVE  PaneJobs(p)
    <2> DEFINE t == p.tail
               new == Len(u.tail) + 1
    <2>1. /\ \A k \in DOMAIN u.tail : k \in DOMAIN t /\ k < new /\ t[k] = u.tail[k]
          /\ t[new] = job
          /\ \A k \in DOMAIN t : k \in DOMAIN u.tail \/ k = new
          /\ \A j : Syncs(t, j) \subseteq Syncs(u.tail, j) \cup {new}
      BY <1>1, <1>8, OneJobMore
    <2> HIDE DEF t, new
    <2>2. ASSUME NEW k \in DOMAIN t
          PROVE  /\ t[k].kind = "cleanup" => p.pane.phase = "closing"
                 /\ t[k].kind = "delete" =>
                      /\ p.pane.phase = "open" /\ p.pane.confirm = "deleting"
                      /\ t[k].lane = p.pane.lane /\ t[k].fp = p.lanes[p.pane.lane].fp
                      /\ \A m \in Syncs(t, p.pane.lane) : k < m
                 /\ \A m \in DOMAIN t : t[k].kind # "sync" /\ t[m].kind = t[k].kind => m = k
      <3>1. CASE k = new
        BY <1>8, <2>1, <3>1
      <3>2. CASE k \in DOMAIN u.tail
        <4>1. t[k] = u.tail[k] /\ k < new
          BY <2>1, <3>2
        <4>2. t[k].kind = "cleanup" => p.pane.phase = "closing"
          BY <1>5, <3>2, <4>1
        <4>3. t[k].kind = "delete" =>
                /\ p.pane.phase = "open" /\ p.pane.confirm = "deleting"
                /\ t[k].lane = p.pane.lane /\ t[k].fp = p.lanes[p.pane.lane].fp
                /\ \A m \in Syncs(t, p.pane.lane) : k < m
          BY <1>4, <2>1, <3>2, <4>1 DEF p
        <4>4. \A m \in DOMAIN t : t[k].kind # "sync" /\ t[m].kind = t[k].kind => m = k
          BY <1>6, <1>8, <2>1, <3>2, <4>1
        <4>5. QED BY <4>2, <4>3, <4>4
      <3>3. QED BY <2>1, <3>1, <3>2
    <2>3. QED BY <2>2 DEF PaneJobs, t
  <1>9. QED BY <1>7, <1>8, PutTail DEF p

\* Every lane has the job its flight asks for.
LEMMA PutFlights ==
    ASSUME NEW u, Sound(u), NEW i, NEW l, Fits(u, i, l), NEW j \in Lanes, j # i => FlightOf(u, j)
    PROVE  FlightOf(Put(u, i, l), j)
  <1> DEFINE p == Put(u, i, l)
  <1>1. /\ i \in Lanes /\ LaneOK(l) /\ Shape(u) /\ u.lanes[i].used
        /\ u.lanes \in [Lanes -> LaneType \cup {Unused}] /\ u.tail \in Seq(JobType)
    BY DEF Fits, Sound, Shape
  <1>2. p.lanes[j] = IF j = i THEN l ELSE u.lanes[j]
    BY <1>1, PutShape
  <1> HIDE DEF p
  <1>3. CASE p.tail = u.tail /\ l.queue.flight \in {u.lanes[i].queue.flight, Queue!NoFlight}
    <2>1. CASE j # i
      BY <1>2, <1>3, <2>1 DEF FlightOf, p
    <2>2. CASE j = i
      <3>1. CASE FlightOf(u, i) /\ Moves(u.lanes[i], l)
        BY <1>1, <1>2, <1>3, <2>2, <3>1 DEF FlightOf, Moves, Sends, p
      <3>2. CASE /\ Syncs(u.tail, i) = {}
                 /\ l.queue.flight = Queue!NoFlight \/ l.queue.flight # u.lanes[i].queue.flight
        BY <1>2, <1>3, <2>2, <3>2 DEF FlightOf, p
      <3>3. QED BY <3>1, <3>2 DEF Fits
    <2>3. QED BY <2>1, <2>2
  <1>4. ASSUME NEW job \in JobType, p.tail = Append(u.tail, job),
               job.kind = "sync", job.lane = i, job.goal = l.queue.flight.goal, job.fp = l.fp,
               l.queue.flight \notin {u.lanes[i].queue.flight, Queue!NoFlight}
        PROVE  FlightOf(p, j)
    <2> DEFINE t == p.tail
               new == Len(u.tail) + 1
    <2>1. /\ \A k \in DOMAIN u.tail : k \in DOMAIN t /\ t[k] = u.tail[k]
          /\ t[new] = job /\ new \in DOMAIN t
          /\ Syncs(t, i) = Syncs(u.tail, i) \cup {new}
          /\ j # i => Syncs(t, j) = Syncs(u.tail, j)
      BY <1>1, <1>4, OneJobMore
    <2> HIDE DEF t, new
    <2>2. CASE j # i
      BY <1>2, <2>1, <2>2 DEF FlightOf, t
    <2>3. CASE j = i
      <3>1. Syncs(u.tail, i) = {}
        BY <1>1, <1>4 DEF Fits, FlightOf, Moves, Sends
      <3>2. QED BY <1>2, <1>4, <2>1, <2>3, <3>1 DEF FlightOf, t
    <2>4. QED BY <2>2, <2>3
  <1>5. QED BY <1>3, <1>4, PutTail DEF p

LEMMA PutKeeps ==
    ASSUME NEW u, Sound(u), NEW i, NEW l, Fits(u, i, l),
           \A j \in Lanes : j # i => FlightOf(u, j)
    PROVE  WellFormed(Put(u, i, l))
  BY PutShape, PutLinked, PutPaneJobs, PutFlights DEF WellFormed, Sound

\* A lane's own step keeps everything together.
LEMMA OwnStep ==
    ASSUME NEW u, WellFormed(u), NEW i \in Lanes, u.lanes[i].used, NEW l, Moves(u.lanes[i], l),
           u.pane.phase = "closing" /\ u.pane.lane = i /\ ~l.fp.stored =>
             l.queue.flight = u.lanes[i].queue.flight
    PROVE  WellFormed(Put(u, i, l))
  <1>1. Sound(u) /\ PaneOK(u) /\ \A j \in Lanes : FlightOf(u, j)
    BY DEF WellFormed, Sound
  <1>2. LaneOK(l) /\ l.fp = u.lanes[i].fp
    BY DEF Moves
  <1>3. Fits(u, i, l)
    BY <1>1, <1>2 DEF Fits, PaneOK
  <1>4. QED BY <1>1, <1>3, PutKeeps

\* All there is but the pane: no clean-up and no delete is on the tail.
OnlySyncs(tl) == \A k \in DOMAIN tl : tl[k].kind = "sync"
Bare(u) == Shape(u) /\ Linked(u) /\ OnlySyncs(u.tail) /\ \A j \in Lanes : FlightOf(u, j)

\* What differs in the list only is as well-formed.
LEMMA RelistKeeps ==
    ASSUME NEW u, NEW v, WellFormed(u), IsUi(v), v.lanes = u.lanes, v.byName = u.byName,
           v.tail = u.tail, v.pane = u.pane, v.envs \in Seq(EnvType)
    PROVE  WellFormed(v)
  <1>1. Shape(v)
    BY DEF WellFormed, Sound, Shape
  <1>2. Linked(v) /\ PaneOK(v) /\ PaneJobs(v)
    BY DEF WellFormed, Sound, Linked, PaneOK, PaneJobs
  <1>3. \A j \in Lanes : FlightOf(v, j)
    BY DEF WellFormed, FlightOf
  <1>4. QED BY <1>1, <1>2, <1>3 DEF WellFormed, Sound

LEMMA SetEnvsKeeps ==
    ASSUME NEW u, WellFormed(u), NEW list \in Seq(EnvType)
    PROVE  WellFormed(SetEnvs(u, list))
  <1> DEFINE v == [u EXCEPT !.envs = list]
             i == u.pane.lane
             l == Notice(u.lanes[i], list)
  <1>1. IsUi(u) /\ i \in Lanes \cup {NoLane} /\ (i # NoLane => u.lanes[i].used /\ LaneOK(u.lanes[i]))
    BY DEF WellFormed, Sound, Shape, Linked, PaneType
  <1>2. /\ IsUi(v) /\ v.lanes = u.lanes /\ v.byName = u.byName
        /\ v.tail = u.tail /\ v.pane = u.pane /\ v.envs = list
    BY <1>1 DEF IsUi
  <1>3. SetEnvs(u, list) = IF i = NoLane THEN v ELSE Put(v, i, l)
    BY <1>2 DEF SetEnvs
  <1> HIDE DEF v, l
  <1>4. WellFormed(v)
    BY <1>2, RelistKeeps
  <1>5. CASE i = NoLane
    BY <1>3, <1>4, <1>5
  <1>6. CASE i # NoLane
    <2>1. Moves(u.lanes[i], l) /\ l.queue.flight = u.lanes[i].queue.flight
      BY <1>1, <1>6, NoticeKeeps DEF l
    <2>2. WellFormed(Put(v, i, l))
      BY <1>1, <1>2, <1>4, <1>6, <2>1, OwnStep
    <2>3. QED BY <1>3, <1>6, <2>2
  <1>7. QED BY <1>5, <1>6

\* What is swept is what nothing refers to.
LEMMA SweptParts ==
    ASSUME NEW u, Shape(u)
    PROVE  /\ IsUi(Swept(u)) /\ Swept(u).byName = u.byName /\ Swept(u).tail = u.tail
           /\ Swept(u).pane = u.pane /\ Swept(u).envs = u.envs
           /\ Swept(u).lanes \in [Lanes -> LaneType \cup {Unused}]
           /\ \A j \in Lanes : Swept(u).lanes[j] = IF j \in Reached(u) THEN u.lanes[j] ELSE Unused
  <1> DEFINE f == [j \in Lanes |-> IF j \in Reached(u) THEN u.lanes[j] ELSE Unused]
             s == Swept(u)
  <1>1. IsUi(u) /\ u.lanes \in [Lanes -> LaneType \cup {Unused}]
    BY DEF Shape
  <1>2. s = [u EXCEPT !.lanes = f]
    BY DEF Swept
  <1>3. f \in [Lanes -> LaneType \cup {Unused}]
    BY <1>1
  <1>4. \A j \in Lanes : f[j] = IF j \in Reached(u) THEN u.lanes[j] ELSE Unused
    OBVIOUS
  <1> HIDE DEF f, s
  <1>5. IsUi(s) /\ s.byName = u.byName /\ s.tail = u.tail /\ s.pane = u.pane /\ s.envs = u.envs /\ s.lanes = f
    BY <1>1, <1>2 DEF IsUi
  <1>6. QED BY <1>3, <1>4, <1>5 DEF s

\* What is referred to is not swept, and stays as it was.
LEMMA SweptKeeps ==
    ASSUME NEW u, Shape(u), Linked(u), \A j \in Lanes : FlightOf(u, j)
    PROVE  /\ Shape(Swept(u)) /\ Linked(Swept(u)) /\ \A j \in Lanes : FlightOf(Swept(u), j)
           /\ PaneOK(u) => PaneOK(Swept(u))
           /\ PaneJobs(u) => PaneJobs(Swept(u))
  <1> DEFINE s == Swept(u)
  <1>1. /\ IsUi(s) /\ s.byName = u.byName /\ s.tail = u.tail
        /\ s.pane = u.pane /\ s.envs = u.envs
        /\ s.lanes \in [Lanes -> LaneType \cup {Unused}]
        /\ \A j \in Lanes : s.lanes[j] = IF j \in Reached(u) THEN u.lanes[j] ELSE Unused
    BY SweptParts
  <1> HIDE DEF s
  <1>2. ~Unused.used
    BY DEF Unused
  <1>3. Shape(s)
    BY <1>1, <1>2 DEF Shape
  <1>4. /\ \A n \in Names : u.byName[n] \in Reached(u)
        /\ u.pane.lane \in Reached(u)
        /\ \A k \in DOMAIN u.tail : u.tail[k].lane \in Reached(u)
    BY DEF Reached
  <1>5. /\ \A n \in Names : u.byName[n] \in Lanes \cup {NoLane}
        /\ u.pane.lane \in Lanes \cup {NoLane}
        /\ \A k \in DOMAIN u.tail : u.tail[k].lane \in Lanes
    BY JobParts DEF Shape, PaneType
  <1>6. Linked(s)
    BY <1>1, <1>4, <1>5 DEF Linked
  <1>7. \A j \in Lanes : FlightOf(s, j)
    BY <1>1, <1>2 DEF FlightOf
  <1>8. u.pane.lane # NoLane => s.lanes[u.pane.lane] = u.lanes[u.pane.lane]
    BY <1>1, <1>4, <1>5
  <1>9. PaneOK(u) => PaneOK(s)
    BY <1>1, <1>8 DEF PaneOK
  <1>10. ASSUME PaneJobs(u) PROVE PaneJobs(s)
    <2>1. \A k \in DOMAIN u.tail : s.lanes[u.tail[k].lane] = u.lanes[u.tail[k].lane]
      BY <1>1, <1>4, <1>5
    <2>2. QED BY <1>1, <1>10, <2>1 DEF PaneJobs
  <1>11. QED BY <1>3, <1>6, <1>7, <1>9, <1>10 DEF s

\* A pane that shows a lane, or nothing.
LEMMA ShowingParts ==
    ASSUME NEW i \in Lanes \cup {NoLane}
    PROVE  /\ Showing(i) \in PaneType /\ Showing(i).phase = "open" /\ Showing(i).lane = i
           /\ Showing(i).confirm = "none" /\ Showing(i).armed = FALSE
  BY DEF Showing, NoPane, PaneType, Destinations

\* With only writes on the tail, any lane can be shown.
LEMMA ShownIsWell ==
    ASSUME NEW o, Bare(o), NEW i \in Lanes \cup {NoLane}, i # NoLane => o.lanes[i].used,
           NEW v, IsUi(v), v.lanes = o.lanes, v.byName = o.byName, v.tail = o.tail,
           v.envs = o.envs, v.pane = Showing(i)
    PROVE  WellFormed(v)
  <1>0. /\ v.pane \in PaneType /\ v.pane.phase = "open" /\ v.pane.lane = i
        /\ v.pane.confirm = "none" /\ v.pane.armed = FALSE
    BY ShowingParts
  <1>1. Shape(v)
    BY <1>0 DEF Bare, Shape
  <1>2. Linked(v)
    BY <1>0 DEF Bare, Linked
  <1>3. PaneOK(v)
    BY <1>0 DEF PaneOK
  <1>4. \A k \in DOMAIN v.tail : v.tail[k].kind = "sync"
    BY DEF Bare, OnlySyncs
  <1>5. PaneJobs(v)
    BY <1>4 DEF PaneJobs
  <1>6. \A j \in Lanes : FlightOf(v, j)
    BY DEF Bare, FlightOf
  <1>7. QED BY <1>1, <1>2, <1>3, <1>5, <1>6 DEF WellFormed, Sound

\* The pane as it is left, before what nothing refers to is swept.
Blank(u) == [u EXCEPT !.pane.lane = NoLane, !.pane.armed = FALSE]

LEMMA BlankKeeps ==
    ASSUME NEW u, Bare(u)
    PROVE  /\ Bare(Blank(u)) /\ Blank(u).lanes = u.lanes /\ Blank(u).byName = u.byName
           /\ Blank(u).tail = u.tail /\ Blank(u).envs = u.envs /\ Blank(u).pane.lane = NoLane
  <1> DEFINE n == [u.pane EXCEPT !.lane = NoLane, !.armed = FALSE]
             v == Blank(u)
  <1>1. IsUi(u) /\ u.pane \in PaneType
    BY DEF Bare, Shape
  <1>2. n \in PaneType /\ n.lane = NoLane
    BY <1>1 DEF PaneType
  <1>3. v = [u EXCEPT !.pane = n]
    BY <1>1 DEF Blank, IsUi
  <1> HIDE DEF n, v
  <1>4. IsUi(v) /\ v.lanes = u.lanes /\ v.byName = u.byName /\ v.tail = u.tail /\ v.envs = u.envs /\ v.pane = n
    BY <1>1, <1>3 DEF IsUi
  <1>5. Shape(v) /\ Linked(v)
    BY <1>2, <1>4 DEF Bare, Shape, Linked
  <1>6. OnlySyncs(v.tail) /\ \A j \in Lanes : FlightOf(v, j)
    BY <1>4 DEF Bare, FlightOf
  <1>7. QED BY <1>2, <1>4, <1>5, <1>6 DEF Bare, v

\* What a pane leaves behind.
LEMMA UnshownKeeps ==
    ASSUME NEW u, Bare(u)
    PROVE  /\ Bare(Unshown(u)) /\ Unshown(u).byName = u.byName /\ Unshown(u).tail = u.tail
           /\ Unshown(u).envs = u.envs
           /\ \A j \in Lanes : Unshown(u).lanes[j].used => u.lanes[j].used
  <1> DEFINE v == Blank(u)
             s == Swept(v)
  <1>0. s = Unshown(u)
    BY DEF Blank, Unshown
  <1>1. /\ Bare(v) /\ v.lanes = u.lanes /\ v.byName = u.byName
        /\ v.tail = u.tail /\ v.envs = u.envs
    BY BlankKeeps
  <1> HIDE DEF v
  <1>2. Shape(v) /\ Linked(v) /\ \A j \in Lanes : FlightOf(v, j)
    BY <1>1 DEF Bare
  <1>3. Shape(s) /\ Linked(s) /\ \A j \in Lanes : FlightOf(s, j)
    BY <1>2, SweptKeeps
  <1>4. /\ s.byName = v.byName /\ s.tail = v.tail /\ s.envs = v.envs
        /\ \A j \in Lanes : s.lanes[j] = IF j \in Reached(v) THEN v.lanes[j] ELSE Unused
    BY <1>2, SweptParts
  <1> HIDE DEF s
  <1>5. \A j \in Lanes : s.lanes[j].used => u.lanes[j].used
    BY <1>1, <1>4 DEF Unused
  <1>6. Bare(s)
    BY <1>1, <1>3, <1>4 DEF Bare, OnlySyncs
  <1>7. QED BY <1>0, <1>1, <1>4, <1>5, <1>6

\* A lane opened where none was.
LEMMA OpenedIsWell ==
    ASSUME NEW o, Bare(o), NEW i \in Lanes, ~o.lanes[i].used, NEW l, LaneOK(l),
           l.queue.flight = Queue!NoFlight,
           NEW v, IsUi(v), v.lanes \in [Lanes -> LaneType \cup {Unused}],
           \A j \in Lanes : v.lanes[j] = IF j = i THEN l ELSE o.lanes[j],
           v.byName \in [Names -> Lanes \cup {NoLane}],
           \A n \in Names : v.byName[n] \in {o.byName[n], i},
           v.tail = o.tail, v.envs = o.envs, v.pane = Showing(i)
    PROVE  WellFormed(v)
  <1>0. i \in Lanes \cup {NoLane}
    OBVIOUS
  <1>1. /\ v.pane \in PaneType /\ v.pane.phase = "open" /\ v.pane.lane = i
        /\ v.pane.confirm = "none" /\ v.pane.armed = FALSE
    <2>1. /\ Showing(i) \in PaneType /\ Showing(i).phase = "open" /\ Showing(i).lane = i
          /\ Showing(i).confirm = "none" /\ Showing(i).armed = FALSE
      BY <1>0, ShowingParts
    <2>2. QED BY <2>1
  <1>2. /\ Shape(o) /\ Linked(o) /\ OnlySyncs(o.tail)
        /\ \A j \in Lanes : FlightOf(o, j)
        /\ o.tail \in Seq(JobType)
    BY DEF Bare, Shape
  <1>3. l.used = TRUE
    BY LaneParts
  <1>5. Shape(v)
    BY <1>1, <1>2 DEF Shape
  <1>6. \A k \in DOMAIN v.tail : v.tail[k].lane \in Lanes \ {i} /\ o.lanes[v.tail[k].lane].used
    BY <1>2, JobParts DEF Linked
  <1>7. Linked(v)
    <2>1. \A n \in Names : v.byName[n] # NoLane => v.lanes[v.byName[n]].used
      BY <1>2, <1>3 DEF Linked
    <2>2. QED BY <1>1, <1>3, <1>6, <2>1 DEF Linked
  <1>8. PaneOK(v)
    BY <1>1 DEF PaneOK
  <1>9. PaneJobs(v)
    BY <1>2 DEF PaneJobs, OnlySyncs
  <1>10. Syncs(v.tail, i) = {}
    BY <1>6 DEF Syncs
  <1>11. \A j \in Lanes : FlightOf(v, j)
    BY <1>2, <1>10 DEF FlightOf
  <1>12. QED BY <1>5, <1>7, <1>8, <1>9, <1>11 DEF WellFormed, Sound

LEMMA AttachKeeps ==
    ASSUME NEW u, Bare(u), NEW to \in Destinations \ {Closed}, CanOpen(u, to)
    PROVE  WellFormed(Attach(u, to))
  <1> DEFINE out == Unshown(u)
             hit == to.to = "stored" /\ out.byName[to.name] # NoLane
             i == IF hit THEN out.byName[to.name] ELSE CHOOSE j \in Lanes : ~out.lanes[j].used
             bare == [out EXCEPT !.pane = Showing(NoLane)]
             shown == [out EXCEPT !.pane = Showing(i)]
             l == OpenLane(to, u.envs)
             map == IF to.to = "stored" THEN [out.byName EXCEPT ![to.name] = i] ELSE out.byName
             all == [out.lanes EXCEPT ![i] = l]
             opened == [out EXCEPT !.pane = Showing(i),
                                   !.lanes = [@ EXCEPT ![i] = l],
                                   !.byName = IF to.to = "stored" THEN [@ EXCEPT ![to.name] = i] ELSE @]
  <1>1. /\ Bare(out) /\ out.byName = u.byName /\ out.tail = u.tail /\ out.envs = u.envs
        /\ IsUi(out) /\ u.envs \in Seq(EnvType) /\ out.byName \in [Names -> Lanes \cup {NoLane}]
        /\ Linked(out) /\ out.lanes \in [Lanes -> LaneType \cup {Unused}]
    BY UnshownKeeps DEF Bare, Shape
  <1>2. Attach(u, to) = IF to.to = "empty" THEN bare ELSE IF hit THEN SetEnvs(shown, u.envs) ELSE opened
    BY Zenon DEF Attach
  <1>3. /\ to.to \in {"stored", "new", "empty"}
        /\ to.to = "stored" => to.name \in Names
        /\ to.to # "empty" => to \in Destinations \ {Empty, Closed}
    BY DEF Destinations, New, Empty, Closed
  <1>c. (to.to = "stored" /\ u.byName[to.name] = NoLane) \/ to.to = "new" => \E j \in Lanes : ~out.lanes[j].used
    BY DEF CanOpen
  <1> HIDE DEF out
  <1>4. CASE to.to = "empty"
    <2> DEFINE p == Showing(NoLane)
    <2> HIDE DEF p
    <2>1. /\ IsUi(bare) /\ bare.lanes = out.lanes /\ bare.byName = out.byName /\ bare.tail = out.tail
          /\ bare.envs = out.envs /\ bare.pane = p
      BY <1>1 DEF IsUi, p
    <2> HIDE DEF bare
    <2>2. WellFormed(bare)
      BY <1>1, <2>1, ShownIsWell DEF p
    <2>3. QED BY <1>2, <1>4, <2>2
  <1>5. CASE to.to # "empty" /\ hit
    <2> DEFINE p == Showing(i)
    <2>1. i \in Lanes /\ i # NoLane /\ out.lanes[i].used
      BY <1>1, <1>3, <1>5, EnvAssumption DEF Linked, NoLane
    <2> HIDE DEF i, p
    <2>2. /\ IsUi(shown) /\ shown.lanes = out.lanes /\ shown.byName = out.byName /\ shown.tail = out.tail
          /\ shown.envs = out.envs /\ shown.pane = p
      BY <1>1 DEF IsUi, p
    <2> HIDE DEF shown
    <2>3. WellFormed(shown)
      BY <1>1, <2>1, <2>2, ShownIsWell DEF p
    <2>4. WellFormed(SetEnvs(shown, u.envs))
      BY <1>1, <2>3, SetEnvsKeeps
    <2>5. QED BY <1>2, <1>5, <2>4
  <1>6. CASE to.to # "empty" /\ ~hit
    <2> DEFINE p == Showing(i)
    <2>1. \E j \in Lanes : ~out.lanes[j].used
      BY <1>1, <1>3, <1>6, <1>c
    <2>2. i \in Lanes /\ ~out.lanes[i].used
      BY <1>6, <2>1
    <2>3. LaneOK(l) /\ l.queue.flight = Queue!NoFlight
      BY <1>1, <1>3, <1>6, OpenedIsOK
    <2>4. map \in [Names -> Lanes \cup {NoLane}] /\ \A n \in Names : map[n] \in {out.byName[n], i}
      <3> HIDE DEF i
      <3>1. QED BY <1>1, <1>3, <2>2
    <2> HIDE DEF i, l, p
    <2>5. /\ all \in [Lanes -> LaneType \cup {Unused}]
          /\ \A j \in Lanes : all[j] = IF j = i THEN l ELSE out.lanes[j]
      BY <1>1, <2>2, <2>3 DEF LaneOK
    <2>6. opened = [out EXCEPT !.pane = p, !.lanes = all, !.byName = map]
      BY <1>1 DEF IsUi, p
    <2> HIDE DEF opened, map, all
    <2>7. /\ IsUi(opened) /\ opened.lanes = all /\ opened.byName = map /\ opened.tail = out.tail
          /\ opened.envs = out.envs /\ opened.pane = p
      BY <1>1, <2>6 DEF IsUi
    <2>8. WellFormed(opened)
      BY <1>1, <2>2, <2>3, <2>4, <2>5, <2>7, OpenedIsWell DEF p
    <2>9. QED BY <1>2, <1>6, <2>8
  <1>7. QED BY <1>4, <1>5, <1>6

\* While nothing is being left or deleted, only writes are on the tail.
LEMMA BareWhen ==
    ASSUME NEW u, WellFormed(u), u.pane.phase # "closing", u.pane.confirm # "deleting"
    PROVE  Bare(u)
  <1>1. Shape(u) /\ Linked(u) /\ PaneJobs(u) /\ u.tail \in Seq(JobType) /\ \A j \in Lanes : FlightOf(u, j)
    BY DEF WellFormed, Sound, Shape
  <1>2. ASSUME NEW k \in DOMAIN u.tail PROVE u.tail[k].kind = "sync"
    <2>1. u.tail[k].kind \in {"sync", "cleanup", "delete"}
      BY <1>1, JobParts
    <2>2. QED BY <1>1, <2>1 DEF PaneJobs
  <1>3. QED BY <1>1, <1>2 DEF Bare, OnlySyncs

LEMMA NoPaneParts ==
    /\ NoPane \in PaneType /\ NoPane.phase = "closed" /\ NoPane.lane = NoLane
    /\ NoPane.confirm = "none" /\ NoPane.armed = FALSE
  BY DEF NoPane, PaneType, Destinations

\* A pane that is left shows something else, or closes.
LEMMA LeftKeeps ==
    ASSUME NEW u, Bare(u), NEW to \in Destinations, CanOpen(u, to)
    PROVE  WellFormed(Left(u, to))
  <1>1. CASE to.to # "closed"
    <2>1. to \in Destinations \ {Closed}
      BY <1>1 DEF Closed
    <2>2. Left(u, to) = Attach(u, to)
      BY <1>1 DEF Left
    <2>3. QED BY <2>1, <2>2, AttachKeeps
  <1>2. CASE to.to = "closed"
    <2> DEFINE v == [u EXCEPT !.pane = NoPane]
    <2>1. Left(u, to) = v
      BY <1>2 DEF Left
    <2>2. /\ IsUi(v) /\ v.lanes = u.lanes /\ v.byName = u.byName /\ v.tail = u.tail
          /\ v.envs = u.envs /\ v.pane = NoPane
      <3> DEFINE p == NoPane
      <3> HIDE DEF p
      <3>1. v = [u EXCEPT !.pane = p]
        BY DEF p
      <3>2. IsUi(u)
        BY DEF Bare, Shape
      <3> HIDE DEF v
      <3>3. IsUi(v) /\ v.lanes = u.lanes /\ v.byName = u.byName /\ v.tail = u.tail /\ v.envs = u.envs /\ v.pane = p
        BY <3>1, <3>2 DEF IsUi
      <3>4. QED BY <3>3 DEF p
    <2> HIDE DEF v
    <2>3. /\ v.pane \in PaneType /\ v.pane.phase = "closed" /\ v.pane.lane = NoLane
          /\ v.pane.confirm = "none" /\ v.pane.armed = FALSE
      BY <2>2, NoPaneParts
    <2>4. Shape(v) /\ Linked(v) /\ PaneOK(v)
      BY <2>2, <2>3 DEF Bare, Shape, Linked, PaneOK
    <2>5. PaneJobs(v) /\ \A j \in Lanes : FlightOf(v, j)
      BY <2>2 DEF Bare, OnlySyncs, PaneJobs, FlightOf
    <2>6. QED BY <2>1, <2>4, <2>5 DEF WellFormed, Sound
  <1>3. QED BY <1>1, <1>2

\* Who takes names out of the Map breaks nothing.
LEMMA UnnamedKeeps ==
    ASSUME NEW u, NEW v, WellFormed(u), IsUi(v), v.lanes = u.lanes, v.tail = u.tail, v.pane = u.pane,
           v.envs = u.envs, v.byName \in [Names -> Lanes \cup {NoLane}],
           \A n \in Names : v.byName[n] \in {u.byName[n], NoLane}
    PROVE  WellFormed(v)
  <1>1. Shape(v)
    BY DEF WellFormed, Sound, Shape
  <1>2. Linked(v) /\ PaneOK(v) /\ PaneJobs(v)
    BY DEF WellFormed, Sound, Linked, PaneOK, PaneJobs
  <1>3. \A j \in Lanes : FlightOf(v, j)
    BY DEF WellFormed, FlightOf
  <1>4. QED BY <1>1, <1>2, <1>3 DEF WellFormed, Sound

Idle(u, i) == LET q == u.lanes[i].queue IN q.flight = Queue!NoFlight /\ ~q.sendOnSettle

LEMMA RetiredKeeps ==
    ASSUME NEW u, WellFormed(u)
    PROVE  WellFormed(Retired(u))
  <1> DEFINE map == [n \in Names |-> IF u.byName[n] # NoLane /\ Idle(u, u.byName[n]) THEN NoLane ELSE u.byName[n]]
             v == [u EXCEPT !.byName = map]
  <1>1. IsUi(u) /\ u.byName \in [Names -> Lanes \cup {NoLane}]
    BY DEF WellFormed, Sound, Shape
  <1>2. Retired(u) = IF u.pane.phase # "closed" THEN u ELSE v
    BY Zenon DEF Retired, Idle
  <1>3. map \in [Names -> Lanes \cup {NoLane}] /\ \A n \in Names : map[n] \in {u.byName[n], NoLane}
    BY <1>1
  <1> HIDE DEF map
  <1>4. /\ IsUi(v) /\ v.lanes = u.lanes /\ v.byName = map /\ v.tail = u.tail
        /\ v.envs = u.envs /\ v.pane = u.pane
    BY <1>1 DEF IsUi
  <1> HIDE DEF v
  <1>5. WellFormed(v)
    BY <1>3, <1>4, UnnamedKeeps
  <1>6. QED BY <1>2, <1>5

\* What a chain of operators ends in is the next state.
LEMMA BecomeKeeps ==
    ASSUME NEW u, WellFormed(u), Become(u)
    PROVE  WellFormed(Ui)'
  <1> DEFINE r == Retired(u)
             s == Swept(r)
  <1>1. WellFormed(r)
    BY RetiredKeeps
  <1>2. Become(u) <=> /\ lanes' = s.lanes /\ byName' = s.byName /\ tail' = s.tail
                      /\ pane' = s.pane /\ envs' = s.envs
    BY DEF Become
  <1> HIDE DEF r
  <1>3. WellFormed(s)
    BY <1>1, SweptKeeps DEF WellFormed, Sound
  <1> HIDE DEF s
  <1>4. IsUi(s)
    BY <1>3 DEF WellFormed, Sound, Shape
  <1>5. Ui' = s
    BY <1>2, <1>4 DEF Ui, IsUi
  <1>6. QED BY <1>3, <1>5

\* The parts of something well-formed.
LEMMA WellParts ==
    ASSUME NEW u, WellFormed(u)
    PROVE  /\ Sound(u) /\ Shape(u) /\ Linked(u) /\ PaneOK(u) /\ PaneJobs(u) /\ IsUi(u)
           /\ \A j \in Lanes : FlightOf(u, j)
           /\ u.lanes \in [Lanes -> LaneType \cup {Unused}]
           /\ \A j \in Lanes : u.lanes[j].used => LaneOK(u.lanes[j])
           /\ u.byName \in [Names -> Lanes \cup {NoLane}]
           /\ u.tail \in Seq(JobType)
           /\ \A k \in DOMAIN u.tail : JobOK(u.tail[k]) /\ (u.tail[k].state # "queued" => k = 1)
           /\ u.pane \in PaneType /\ u.envs \in Seq(EnvType)
           /\ u.pane.lane \in Lanes \cup {NoLane} /\ NoLane \notin Lanes
           /\ u.pane.lane # NoLane => u.pane.lane \in Lanes /\ u.lanes[u.pane.lane].used
  BY EnvAssumption DEF WellFormed, Sound, Shape, Linked, PaneType, NoLane

\* A clean-up or a delete is queued by a pane that waits for nothing yet, and becomes its.
Waits(u, p, job) ==
    /\ p \in PaneType /\ p.lane = u.pane.lane /\ p.armed = u.pane.armed
    /\ \/ job.kind = "cleanup" /\ p.phase = "closing" /\ p.confirm = "none"
          /\ (u.lanes[p.lane].fp.stored \/ u.lanes[p.lane].queue.flight = Queue!NoFlight)
       \/ /\ job.kind = "delete" /\ p.phase = "open" /\ p.confirm = "deleting"
          /\ u.lanes[p.lane].fp.stored
          /\ job.fp = u.lanes[p.lane].fp /\ Syncs(u.tail, p.lane) = {}

LEMMA WaitKeeps ==
    ASSUME NEW u, WellFormed(u), Bare(u), u.pane.lane # NoLane,
           NEW job \in JobType, JobOK(job), job.state = "queued", job.lane = u.pane.lane,
           NEW p, Waits(u, p, job),
           NEW v, IsUi(v), v.lanes = u.lanes, v.byName = u.byName, v.envs = u.envs,
           v.tail = Append(u.tail, job), v.pane = p
    PROVE  WellFormed(v)
  <1> DEFINE t == v.tail
             new == Len(u.tail) + 1
  <1>1. /\ Shape(u) /\ Linked(u) /\ PaneOK(u)
        /\ \A j \in Lanes : FlightOf(u, j)
        /\ u.tail \in Seq(JobType)
        /\ \A k \in DOMAIN u.tail : JobOK(u.tail[k]) /\ (u.tail[k].state # "queued" => k = 1)
        /\ u.pane.lane \in Lanes /\ u.lanes[u.pane.lane].used /\ OnlySyncs(u.tail)
    BY WellParts DEF Bare
  <1>2. /\ t \in Seq(JobType) /\ new \in DOMAIN t
        /\ \A k \in DOMAIN u.tail : k \in DOMAIN t /\ t[k] = u.tail[k]
        /\ t[new] = job
        /\ \A k \in DOMAIN t : k \in DOMAIN u.tail \/ k = new
        /\ \A j : Syncs(t, j) = Syncs(u.tail, j)
    <2>1. job.kind # "sync"
      BY DEF Waits
    <2>2. QED BY <1>1, <2>1, OneJobMore
  <1> HIDE DEF t, new
  <1>3. \A k \in DOMAIN t : JobOK(t[k]) /\ (t[k].state # "queued" => k = 1)
    BY <1>1, <1>2
  <1>p. /\ IsUi(v) /\ v.tail = t /\ v.lanes = u.lanes /\ v.byName = u.byName /\ v.envs = u.envs
        /\ v.pane \in PaneType /\ v.pane.lane = u.pane.lane
    <2>1. p \in PaneType /\ p.lane = u.pane.lane
      BY DEF Waits
    <2>2. QED BY <2>1 DEF t
  <1>4. Shape(v)
    <2>1. /\ u.lanes \in [Lanes -> LaneType \cup {Unused}]
          /\ \A i \in Lanes : u.lanes[i].used => LaneOK(u.lanes[i])
          /\ u.byName \in [Names -> Lanes \cup {NoLane}]
          /\ u.envs \in Seq(EnvType)
      BY ONLY <1>1 DEF Shape
    <2>2. t \in Seq(JobType)
      BY ONLY <1>2
    <2>3. QED BY ONLY <1>3, <1>p, <2>1, <2>2 DEF Shape
  <1>5. Linked(v)
    <2>1. \A e \in Names : u.byName[e] # NoLane => u.lanes[u.byName[e]].used
      BY ONLY <1>1 DEF Linked
    <2>2. ASSUME NEW k \in DOMAIN t PROVE u.lanes[t[k].lane].used
      <3>1. CASE k \in DOMAIN u.tail
        <4>1. t[k] = u.tail[k] /\ u.lanes[u.tail[k].lane].used
          BY ONLY <1>1, <1>2, <3>1 DEF Linked
        <4>2. QED BY ONLY <4>1
      <3>2. CASE k = new
        <4>1. t[k].lane = u.pane.lane
          BY <1>2, <3>2
        <4>2. QED BY ONLY <1>1, <4>1
      <3>3. QED BY ONLY <1>2, <3>1, <3>2
    <2>3. QED BY ONLY <1>1, <1>p, <2>1, <2>2 DEF Linked
  <1>6. PaneOK(v)
    <2>1. u.pane.lane \in Lanes /\ u.pane.lane # NoLane
      BY <1>1
    <2>2. p.armed => u.lanes[u.pane.lane].queue.timer
      BY ONLY <1>1, Waits(u, p, job) DEF PaneOK, Waits
    <2>3. v.pane = p /\ v.lanes = u.lanes
      BY <1>p
    <2>4. QED BY ONLY <2>1, <2>2, <2>3, Waits(u, p, job) DEF PaneOK, Waits
  <1>7. PaneJobs(v)
    <2>1. \A k \in DOMAIN t : t[k].kind # "sync" => k = new
      BY <1>1, <1>2 DEF OnlySyncs
    <2>2. job.kind = "delete" => Syncs(t, v.pane.lane) = {} /\ job.fp = v.lanes[v.pane.lane].fp
      BY <1>2 DEF Waits
    <2>3. QED BY <1>2, <2>1, <2>2 DEF PaneJobs, Waits, t
  <1>8. \A j \in Lanes : FlightOf(v, j)
    <2>1. ASSUME NEW j \in Lanes PROVE FlightOf(v, j)
      BY <1>1, <1>2 DEF FlightOf, t
    <2>2. QED BY <2>1
  <1>9. QED BY <1>4, <1>5, <1>6, <1>7, <1>8 DEF WellFormed, Sound

\* A pane that is left goes, or waits for its clean-up.
LEMMA LeaveNowKeeps ==
    ASSUME NEW u, WellFormed(u), u.pane.phase = "open", u.pane.confirm = "none", u.pane.lane # NoLane,
           NEW goal \in GoalType, NEW fp, FootprintOK(fp), NEW to \in Destinations, CanOpen(u, to),
           u.lanes[u.pane.lane].fp.stored \/ u.lanes[u.pane.lane].queue.flight = Queue!NoFlight
    PROVE  WellFormed(LeaveNow(u, goal, fp, to))
  <1>1. /\ IsUi(u) /\ u.pane \in PaneType /\ u.pane.lane \in Lanes
    BY WellParts
  <1>2. Bare(u)
    BY BareWhen
  <1>3. CASE fp.strays = <<>>
    BY <1>2, <1>3, LeftKeeps DEF LeaveNow
  <1>4. CASE fp.strays # <<>>
    <2> DEFINE job == Job("cleanup", u.pane.lane, goal, fp)
               p == [u.pane EXCEPT !.phase = "closing", !.leaving = to]
               v == LeaveNow(u, goal, fp, to)
    <2>1. /\ job \in JobType /\ JobOK(job) /\ job.state = "queued" /\ job.lane = u.pane.lane
          /\ job.kind = "cleanup"
      BY <1>1, JobIsOK
    <2>2. /\ p \in PaneType /\ p.phase = "closing" /\ p.lane = u.pane.lane /\ p.armed = u.pane.armed
          /\ p.confirm = "none"
      BY <1>1 DEF PaneType
    <2>3. v = [u EXCEPT !.tail = Append(u.tail, job), !.pane = p]
      BY <1>1, <1>4 DEF LeaveNow, IsUi
    <2> HIDE DEF job, p, v
    <2>4. /\ IsUi(v) /\ v.lanes = u.lanes /\ v.byName = u.byName /\ v.envs = u.envs
          /\ v.tail = Append(u.tail, job) /\ v.pane = p
      BY <1>1, <2>3 DEF IsUi
    <2>5. Waits(u, p, job)
      BY <2>1, <2>2 DEF Waits
    <2>6. WellFormed(v)
      BY <1>2, <2>1, <2>4, <2>5, WaitKeeps
    <2>7. QED BY <2>6 DEF v
  <1>5. QED BY <1>3, <1>4

-----------------------------------------------------------------------------
(* What the user does. *)

\* What one lane's step of its own makes of everything.
LEMMA LaneStepKeeps ==
    ASSUME WellFormed(Ui), pane.lane # NoLane, NEW l, Moves(Shown, l),
           pane.phase = "closing" /\ ~l.fp.stored => l.queue.flight = Shown.queue.flight
    PROVE  /\ WellFormed(Put(Ui, pane.lane, l))
           /\ LaneSteps(l) => WellFormed(Ui)'
  <1> DEFINE u == Ui
             p == Put(u, pane.lane, l)
  <1>1. u.pane = pane /\ u.lanes = lanes
    BY DEF Ui
  <1>2. pane.lane \in Lanes /\ u.lanes[pane.lane].used
    BY <1>1, WellParts
  <1> HIDE DEF u
  <1>3. Moves(u.lanes[pane.lane], l) /\ WellFormed(u) /\ u.pane.lane = pane.lane
    BY <1>1 DEF u, Shown
  <1>4. WellFormed(p)
    <2>1. u.pane.phase = "closing" /\ u.pane.lane = pane.lane /\ ~l.fp.stored =>
            l.queue.flight = u.lanes[pane.lane].queue.flight
      BY <1>1 DEF Shown
    <2>2. QED BY <1>2, <1>3, <2>1, OwnStep
  <1>5. LaneSteps(l) => Become(p)
    BY DEF LaneSteps, u
  <1> HIDE DEF p
  <1>6. LaneSteps(l) => WellFormed(Ui)'
    BY <1>4, <1>5, BecomeKeeps
  <1>7. QED BY <1>4, <1>6 DEF p, u

\* The lane shown exists.
LEMMA ShownIsOK ==
    ASSUME WellFormed(Ui), pane.lane # NoLane
    PROVE  /\ LaneOK(Shown) /\ pane.lane \in Lanes /\ pane \in PaneType
           /\ Shown.draft \in DraftType /\ Shown.queue \in QueueType /\ Shown.fp \in FootprintType
           /\ FootprintOK(Shown.fp) /\ QueueOK(Shown.queue)
           /\ Shown.queue.head.goal \in GoalType /\ Shown.queue.acked.goal \in GoalType
  <1>1. Ui.pane = pane /\ Ui.lanes = lanes
    BY DEF Ui
  <1>2. /\ pane.lane \in Lanes /\ Ui.lanes[pane.lane].used
        /\ LaneOK(Ui.lanes[pane.lane]) /\ Ui.pane \in PaneType
    BY <1>1, WellParts
  <1>3. LaneOK(Shown)
    BY <1>1, <1>2 DEF Shown
  <1>4. QED BY <1>1, <1>2, <1>3, LaneParts DEF LaneOK

LEMMA RenameKeeps ==
    ASSUME WellFormed(Ui), NEW name \in Names \cup {NoName}, Rename(name)
    PROVE  WellFormed(Ui)'
  <1> DEFINE d == [Shown.draft EXCEPT !.name = name]
             n == [Shown EXCEPT !.draft = d]
             l == Stage(n, "now")
  <1>1. pane.lane # NoLane /\ pane.phase = "open"
    BY DEF Rename, Editable, IsShown
  <1>2. LaneOK(Shown) /\ d \in DraftType
    BY <1>1, ShownIsOK DEF DraftType
  <1>3. LaneSteps(l)
    <2>1. n = [Shown EXCEPT !.draft.name = name]
      BY <1>2 DEF LaneOK, LaneType
    <2>2. QED BY <2>1 DEF Rename
  <1> HIDE DEF d
  <1>4. Moves(Shown, n)
    BY <1>2, RedraftKeeps
  <1> HIDE DEF n
  <1>5. LaneOK(n) /\ "now" \in Urgencies
    BY <1>4 DEF Moves, Urgencies
  <1>6. Moves(n, l)
    BY <1>5, StageKeeps
  <1> HIDE DEF l
  <1>7. Moves(Shown, l)
    BY <1>4, <1>6, MovesOn
  <1>8. QED BY <1>1, <1>3, <1>7, LaneStepKeeps

LEMMA EditContentKeeps ==
    ASSUME WellFormed(Ui), NEW val \in Vals, NEW bad \in BOOLEAN, EditContent(val, bad)
    PROVE  WellFormed(Ui)'
  <1> DEFINE d == [Shown.draft EXCEPT !.val = val, !.bad = bad]
             n == [Shown EXCEPT !.draft = d]
             l == Stage(n, "now")
  <1>1. pane.lane # NoLane /\ pane.phase = "open"
    BY DEF EditContent, Editable, IsShown
  <1>2. LaneOK(Shown) /\ d \in DraftType
    BY <1>1, ShownIsOK DEF DraftType
  <1>3. LaneSteps(l)
    <2>1. n = [Shown EXCEPT !.draft.val = val, !.draft.bad = bad]
      BY <1>2 DEF LaneOK, LaneType, DraftType
    <2>2. QED BY <2>1 DEF EditContent
  <1> HIDE DEF d
  <1>4. Moves(Shown, n)
    BY <1>2, RedraftKeeps
  <1> HIDE DEF n
  <1>5. LaneOK(n) /\ "now" \in Urgencies
    BY <1>4 DEF Moves, Urgencies
  <1>6. Moves(n, l)
    BY <1>5, StageKeeps
  <1> HIDE DEF l
  <1>7. Moves(Shown, l)
    BY <1>4, <1>6, MovesOn
  <1>8. QED BY <1>1, <1>3, <1>7, LaneStepKeeps

\* The timer, a retry and a creation flush the lane shown.
LEMMA FlushStepKeeps ==
    ASSUME WellFormed(Ui), TimerFires \/ Retry \/ Create
    PROVE  WellFormed(Ui)'
  <1>0. Ui.pane = pane /\ Ui.lanes = lanes
    BY DEF Ui
  <1>1. pane.lane # NoLane /\ LaneSteps(Flushed(Shown))
    BY <1>0, WellParts DEF TimerFires, Retry, Create, Editable, IsShown, PaneOK
  <1>2. LaneOK(Shown) /\ Moves(Shown, Flushed(Shown))
    BY <1>1, ShownIsOK, FlushedKeeps
  <1>3. pane.phase = "closing" => Shown.fp.stored
    <2>1. CASE TimerFires
      BY <1>0, <1>2, <2>1, WellParts DEF TimerFires, PaneOK, LaneOK, Shown
    <2>2. CASE Retry \/ Create
      BY <2>2 DEF Retry, Create, Editable, IsShown
    <2>3. QED BY <2>1, <2>2
  <1>4. pane.phase = "closing" /\ ~Flushed(Shown).fp.stored => Flushed(Shown).queue.flight = Shown.queue.flight
    BY <1>2, <1>3 DEF Moves
  <1> DEFINE l == Flushed(Shown)
  <1> HIDE DEF l
  <1>5. QED BY <1>1, <1>2, <1>4, LaneStepKeeps

LEMMA TargetsAreDestinations ==
    Targets \subseteq Destinations
  BY DEF Targets, Destinations, Stored

LEMMA UiParts ==
    /\ Ui.lanes = lanes /\ Ui.byName = byName /\ Ui.tail = tail /\ Ui.pane = pane /\ Ui.envs = envs
    /\ IsUi(Ui)
  BY DEF Ui, IsUi

LEMMA OpenEditorKeeps ==
    ASSUME WellFormed(Ui), NEW to \in Targets, OpenEditor(to)
    PROVE  WellFormed(Ui)'
  <1> DEFINE u == Ui
             v == Attach(u, to)
  <1>1. u.pane.phase = "closed" /\ to # Closed /\ CanOpen(u, to) /\ Become(v)
    BY UiParts DEF OpenEditor
  <1>2. to \in Destinations \ {Closed}
    BY <1>1, TargetsAreDestinations
  <1> HIDE DEF u
  <1>3. Bare(u)
    BY <1>1, BareWhen, WellParts DEF PaneOK, u
  <1>4. WellFormed(v)
    BY <1>1, <1>2, <1>3, AttachKeeps
  <1> HIDE DEF v
  <1>5. QED BY <1>1, <1>4, BecomeKeeps

LEMMA LeaveEmptyKeeps ==
    ASSUME WellFormed(Ui), NEW to \in Targets, LeaveEmpty(to)
    PROVE  WellFormed(Ui)'
  <1> DEFINE u == Ui
             v == Left(u, to)
  <1>1. u.pane.phase = "open" /\ u.pane.lane = NoLane /\ CanOpen(u, to) /\ Become(v)
    BY UiParts DEF LeaveEmpty
  <1>2. to \in Destinations
    BY TargetsAreDestinations
  <1> HIDE DEF u
  <1>3. Bare(u)
    BY <1>1, BareWhen, WellParts DEF PaneOK, u
  <1>4. WellFormed(v)
    BY <1>1, <1>2, <1>3, LeftKeeps
  <1> HIDE DEF v
  <1>5. QED BY <1>1, <1>4, BecomeKeeps

\* Replacing an environment, or adding one, keeps a list a list.
LEMMA ReplaceKeeps ==
    ASSUME NEW list \in Seq(EnvType), NEW name, NEW env \in EnvType
    PROVE  ReplaceEnv(list, name, env) \in Seq(EnvType)
  <1>1. CASE Has(list, name)
    <2> DEFINE i == PlaceOf(NamesOf(list), name)
    <2>1. i \in 1 .. Len(list)
      BY <1>1, ListedPlace
    <2>2. ReplaceEnv(list, name, env) = [list EXCEPT ![i] = env]
      BY <1>1 DEF ReplaceEnv
    <2> HIDE DEF i
    <2>3. QED BY <2>1, <2>2
  <1>2. CASE ~Has(list, name)
    BY <1>2 DEF ReplaceEnv
  <1>3. QED BY <1>1, <1>2

LEMMA LeaveStoredKeeps ==
    ASSUME WellFormed(Ui), NEW to \in Targets, LeaveStored(to)
    PROVE  WellFormed(Ui)'
  <1> DEFINE m == IF Valid(Shown) THEN Shown ELSE Salvaged(Shown)
             l == Flushed(m)
             put == Put(Ui, pane.lane, l)
             gone == LeaveNow(put, l.queue.acked.goal, l.fp, to)
             list == ReplaceEnv(envs, l.fp.name, l.queue.head.goal)
             v == IF Queue!Owed(l.queue) THEN SetEnvs(gone, list) ELSE gone
  <1>1. /\ pane.lane # NoLane /\ pane.phase = "open" /\ pane.confirm = "none" /\ Shown.fp.stored
        /\ CanOpen(put, to) /\ Become(v)
    BY DEF LeaveStored, Editable, IsShown
  <1>2. to \in Destinations
    BY TargetsAreDestinations
  <1>3. LaneOK(Shown) /\ Moves(Shown, Salvaged(Shown)) /\ Moves(Shown, Shown) /\ pane.lane \in Lanes
    BY <1>1, ShownIsOK, SalvagedKeeps DEF Moves, Sends
  <1>4. Moves(Shown, m) /\ LaneOK(m)
    BY <1>3 DEF Moves
  <1> HIDE DEF m
  <1>5. Moves(Shown, l)
    BY <1>4, FlushedKeeps, MovesOn
  <1> HIDE DEF l
  <1>6. /\ LaneOK(l) /\ l.fp = Shown.fp /\ FootprintOK(l.fp) /\ l.queue.acked.goal \in GoalType
        /\ l.queue.head.goal \in GoalType
    BY <1>5, LaneParts DEF Moves, LaneOK
  <1>7. /\ WellFormed(put) /\ put.pane.phase = "open" /\ put.pane.confirm = "none"
        /\ put.pane.lane = pane.lane /\ put.lanes[pane.lane].fp.stored /\ put.envs = envs
    <2>1. WellFormed(put)
      BY <1>1, <1>5, LaneStepKeeps
    <2>2. Sound(Ui) /\ Shape(Ui)
      BY WellParts
    <2>3. /\ put.pane.phase = Ui.pane.phase /\ put.pane.lane = Ui.pane.lane
          /\ put.pane.confirm = Ui.pane.confirm
      BY <1>3, <1>6, <2>2, PutPane
    <2>4. put.lanes = PutInLanes(Ui, pane.lane, l) /\ put.envs = Ui.envs
      BY <1>3, <2>2, PutParts
    <2>5. Ui.lanes \in [Lanes -> LaneType \cup {Unused}]
      BY WellParts
    <2> HIDE DEF put
    <2>6. put.lanes[pane.lane] = l
      BY <1>3, <2>4, <2>5 DEF PutInLanes
    <2>7. QED BY <1>1, <1>6, <2>1, <2>3, <2>4, <2>6, UiParts
  <1>8. WellFormed(gone)
    <2> HIDE DEF put
    <2>1. QED BY <1>1, <1>2, <1>6, <1>7, LeaveNowKeeps
  <1>9. Queue!Owed(l.queue) => list \in Seq(EnvType)
    <2>1. envs \in Seq(EnvType)
      BY UiParts, WellParts
    <2>2. Queue!Owed(l.queue) => l.queue.head.goal \in EnvType
      BY <1>6 DEF Queue!Owed, GoalType
    <2>3. QED BY <2>1, <2>2, ReplaceKeeps
  <1> HIDE DEF gone, list
  <1>10. WellFormed(v)
    BY <1>8, <1>9, SetEnvsKeeps
  <1> HIDE DEF v
  <1>11. QED BY <1>1, <1>10, BecomeKeeps

LEMMA LeaveNewKeeps ==
    ASSUME WellFormed(Ui), NEW to \in Targets, LeaveNew(to)
    PROVE  WellFormed(Ui)'
  <1> DEFINE u == Ui
             v == LeaveNow(u, NoGoal, Shown.fp, to)
  <1>1. /\ pane.lane # NoLane /\ u.pane.phase = "open" /\ u.pane.confirm = "none" /\ u.pane.lane # NoLane
        /\ u.lanes[u.pane.lane].queue.flight = Queue!NoFlight
        /\ CanOpen(u, to) /\ Become(v)
    BY UiParts DEF LeaveNew, Editable, IsShown, Shown
  <1>2. to \in Destinations /\ NoGoal \in GoalType
    BY TargetsAreDestinations DEF GoalType
  <1>3. FootprintOK(Shown.fp)
    BY <1>1, ShownIsOK
  <1> DEFINE fp == Shown.fp
  <1> HIDE DEF u, fp
  <1>4. WellFormed(LeaveNow(u, NoGoal, fp, to))
    BY <1>1, <1>2, <1>3, LeaveNowKeeps DEF u, fp
  <1>5. WellFormed(v)
    BY <1>4 DEF fp
  <1> HIDE DEF v
  <1>6. QED BY <1>1, <1>5, BecomeKeeps

\* The dialog: what differs is only whether it asks.
LEMMA AskingKeeps ==
    ASSUME NEW u, WellFormed(u), NEW confirm \in {"none", "asking"}, u.pane.confirm # "deleting",
           confirm = "asking" => u.pane.phase = "open" /\ u.pane.lane # NoLane /\ u.lanes[u.pane.lane].fp.stored
    PROVE  WellFormed([u EXCEPT !.pane.confirm = confirm])
  <1> DEFINE p == [u.pane EXCEPT !.confirm = confirm]
             v == [u EXCEPT !.pane.confirm = confirm]
  <1>1. IsUi(u) /\ u.pane \in PaneType /\ Shape(u) /\ Linked(u) /\ PaneOK(u) /\ PaneJobs(u)
    BY WellParts
  <1>2. /\ p \in PaneType /\ p.phase = u.pane.phase /\ p.lane = u.pane.lane /\ p.armed = u.pane.armed
        /\ p.confirm = confirm
    BY <1>1 DEF PaneType
  <1>3. v = [u EXCEPT !.pane = p]
    BY <1>1 DEF IsUi
  <1> HIDE DEF p, v
  <1>4. /\ IsUi(v) /\ v.lanes = u.lanes /\ v.byName = u.byName /\ v.tail = u.tail
        /\ v.envs = u.envs /\ v.pane = p
    BY <1>1, <1>3 DEF IsUi
  <1>5. Shape(v) /\ Linked(v)
    BY <1>1, <1>2, <1>4 DEF Shape, Linked
  <1>6. PaneOK(v)
    BY <1>1, <1>2, <1>4 DEF PaneOK
  <1>7. PaneJobs(v)
    BY <1>1, <1>2, <1>4 DEF PaneJobs
  <1>8. \A j \in Lanes : FlightOf(v, j)
    <2>1. \A j \in Lanes : FlightOf(u, j)
      BY WellParts
    <2>2. QED BY <1>4, <2>1 DEF FlightOf
  <1>9. QED BY <1>5, <1>6, <1>7, <1>8 DEF WellFormed, Sound, v

LEMMA RequestDeleteKeeps ==
    ASSUME WellFormed(Ui), RequestDelete
    PROVE  WellFormed(Ui)'
  <1> DEFINE l == Flushed(Shown)
             put == Put(Ui, pane.lane, l)
             v == [put EXCEPT !.pane.confirm = "asking"]
  <1>1. /\ pane.lane # NoLane /\ pane.phase = "open" /\ pane.confirm = "none" /\ Shown.fp.stored
        /\ Become(v)
    BY DEF RequestDelete, Editable, IsShown
  <1>2. LaneOK(Shown) /\ Moves(Shown, l) /\ pane.lane \in Lanes
    BY <1>1, ShownIsOK, FlushedKeeps
  <1> HIDE DEF l
  <1>3. LaneOK(l) /\ l.fp = Shown.fp
    BY <1>2 DEF Moves
  <1>4. WellFormed(put)
    BY <1>1, <1>2, LaneStepKeeps
  <1>5. /\ put.pane.phase = "open" /\ put.pane.lane = pane.lane /\ put.pane.confirm = "none"
        /\ put.lanes[pane.lane].fp.stored
    <2>1. Sound(Ui) /\ Shape(Ui) /\ Ui.lanes \in [Lanes -> LaneType \cup {Unused}]
      BY WellParts
    <2>2. /\ put.pane.phase = Ui.pane.phase /\ put.pane.lane = Ui.pane.lane
          /\ put.pane.confirm = Ui.pane.confirm
      BY <1>2, <1>3, <2>1, PutPane
    <2>3. put.lanes = PutInLanes(Ui, pane.lane, l)
      BY <1>2, <2>1, PutParts
    <2> HIDE DEF put
    <2>4. put.lanes[pane.lane] = l
      BY <1>2, <2>1, <2>3 DEF PutInLanes
    <2>5. QED BY <1>1, <1>3, <2>2, <2>4, UiParts
  <1> HIDE DEF put
  <1>6. WellFormed(v)
    BY <1>1, <1>4, <1>5, AskingKeeps
  <1> HIDE DEF v
  <1>7. QED BY <1>1, <1>6, BecomeKeeps

LEMMA CancelDeleteKeeps ==
    ASSUME WellFormed(Ui), CancelDelete
    PROVE  WellFormed(Ui)'
  <1> DEFINE u == Ui
             v == [u EXCEPT !.pane.confirm = "none"]
  <1>1. u.pane.confirm = "asking" /\ Become(v)
    BY UiParts DEF CancelDelete
  <1> HIDE DEF u
  <1>2. WellFormed(v)
    BY <1>1, AskingKeeps DEF u
  <1> HIDE DEF v
  <1>3. QED BY <1>1, <1>2, BecomeKeeps

\* The lane is idle, so that no write of its is before the delete.
LEMMA ConfirmDeleteKeeps ==
    ASSUME WellFormed(Ui), ConfirmDelete
    PROVE  WellFormed(Ui)'
  <1> DEFINE u == Ui
             i == pane.lane
             fp == Shown.fp
             job == Job("delete", i, NoGoal, fp)
             p == [u.pane EXCEPT !.confirm = "deleting"]
             v == [u EXCEPT !.pane.confirm = "deleting", !.tail = Append(@, Job("delete", pane.lane, NoGoal, Shown.fp))]
  <1>1. /\ u.pane.confirm = "asking" /\ Become(v) /\ Shown.queue.flight = Queue!NoFlight
        /\ u.pane.lane = pane.lane /\ Shown = u.lanes[pane.lane]
    BY UiParts DEF ConfirmDelete, Shown, Queue!IsIdle
  <1>2. /\ IsUi(u) /\ u.pane \in PaneType /\ PaneOK(u) /\ \A j \in Lanes : FlightOf(u, j)
    BY WellParts
  <1>3. u.pane.phase = "open" /\ i # NoLane /\ fp.stored
    BY <1>1, <1>2 DEF PaneOK
  <1>4. i \in Lanes /\ u.lanes[i].used /\ FootprintOK(fp)
    BY <1>1, <1>3, ShownIsOK, WellParts
  <1>5. v = [u EXCEPT !.tail = Append(u.tail, job), !.pane = p]
    BY <1>2 DEF IsUi
  <1>6. /\ job \in JobType /\ JobOK(job) /\ job.state = "queued" /\ job.lane = i
        /\ job.kind = "delete" /\ job.fp = fp
    BY <1>4, JobIsOK DEF GoalType
  <1>7. /\ p \in PaneType /\ p.phase = "open" /\ p.lane = i /\ p.armed = u.pane.armed
        /\ p.confirm = "deleting"
    BY <1>1, <1>2, <1>3 DEF PaneType
  <1>8. Bare(u)
    BY <1>1, <1>3, BareWhen
  <1>9. Syncs(u.tail, i) = {}
    BY <1>1, <1>2, <1>4 DEF FlightOf
  <1> HIDE DEF job, p, v, u
  <1>10. /\ IsUi(v) /\ v.lanes = u.lanes /\ v.byName = u.byName /\ v.envs = u.envs
         /\ v.tail = Append(u.tail, job) /\ v.pane = p
    BY <1>2, <1>5 DEF IsUi
  <1>11. Waits(u, p, job)
    BY <1>1, <1>3, <1>6, <1>7, <1>9 DEF Waits
  <1>12. WellFormed(v)
    BY <1>1, <1>3, <1>6, <1>8, <1>10, <1>11, WaitKeeps DEF u
  <1>13. QED BY <1>1, <1>12, BecomeKeeps

-----------------------------------------------------------------------------
(* The plan of a write (envSync.ts). *)

LEMMA LeastNumber ==
    ASSUME NEW T \in SUBSET Nat, T # {}
    PROVE  \E x \in T : \A y \in T : x <= y
  <1> DEFINE R == {p \in Nat \X Nat : p[1] < p[2]}
  <1>1. IsWellFoundedOn(R, Nat)
    BY NatLessThanWellFounded DEF OpToRel
  <1>2. PICK x \in T : \A y \in T : ~(<<y, x>> \in R)
    <2> HIDE DEF R
    <2>1. QED BY <1>1, WFMin
  <1>3. \A y \in T : ~(y < x)
    BY <1>2
  <1>4. QED BY <1>3

Ascends(f) == \A j, k \in DOMAIN f : j < k => f[j] < f[k]
HasOrder(S) == IsFiniteSet(S) /\ \E f \in [1 .. Cardinality(S) -> S] : Ascends(f)

\* Places can be listed in their order: with x the largest, the list of the others and x.
LEMMA OneMoreOrdered ==
    ASSUME NEW x \in Nat \ {0}, NEW S \in SUBSET (1 .. x), x \in S, HasOrder(S \ {x})
    PROVE  HasOrder(S)
  <1> DEFINE R == S \ {x}
             n == Cardinality(R)
  <1>1. IsFiniteSet(R) /\ n \in Nat
    BY FS_CardinalityType DEF HasOrder
  <1>2. IsFiniteSet(S) /\ Cardinality(S) = n + 1
    <2>1. R \cup {x} = S /\ x \notin R
      OBVIOUS
    <2> HIDE DEF R
    <2>2. IsFiniteSet(R \cup {x}) /\ Cardinality(R \cup {x}) = n + 1
      BY <1>1, <2>1, FS_AddElement
    <2>3. QED BY <2>1, <2>2
  <1>3. PICK g \in [1 .. n -> R] : Ascends(g)
    BY DEF HasOrder
  <1> DEFINE f == [k \in 1 .. n + 1 |-> IF k = n + 1 THEN x ELSE g[k]]
  <1> HIDE DEF n
  <1>4. \A k \in 1 .. n : g[k] \in S /\ g[k] < x
    <2>1. \A r \in R : r \in S /\ r < x
      OBVIOUS
    <2> HIDE DEF R
    <2>2. QED BY <1>3, <2>1
  <1>5. f \in [1 .. n + 1 -> S]
    BY <1>1, <1>4
  <1>6. Ascends(f)
    BY <1>1, <1>3, <1>4 DEF Ascends
  <1>7. QED BY <1>2, <1>5, <1>6 DEF HasOrder

LEMMA EveryOrder ==
    ASSUME NEW n \in Nat, NEW S \in SUBSET (1 .. n)
    PROVE  HasOrder(S)
  <1> DEFINE T == {m \in Nat : \E Z \in SUBSET (1 .. m) : ~HasOrder(Z)}
  <1>1. ASSUME T # {} PROVE FALSE
    <2>1. PICK x \in T : \A y \in T : x <= y
      BY <1>1, LeastNumber
    <2>2. PICK Z \in SUBSET (1 .. x) : ~HasOrder(Z)
      BY <2>1
    <2>3. x \in Nat /\ (x # 0 => x - 1 \in Nat /\ x - 1 \notin T)
      BY <2>1
    <2>4. CASE x = 0
      <3>1. Z = {}
        BY <2>2, <2>4
      <3>2. IsFiniteSet({}) /\ Cardinality({}) = 0
        BY FS_EmptySet
      <3>3. [k \in 1 .. 0 |-> 0] \in [1 .. 0 -> {}] /\ Ascends([k \in 1 .. 0 |-> 0])
        BY DEF Ascends
      <3>4. QED BY <2>2, <3>1, <3>2, <3>3 DEF HasOrder
    <2>5. CASE x # 0 /\ x \notin Z
      <3>1. Z \in SUBSET (1 .. x - 1)
        BY <2>2, <2>3, <2>5
      <3>2. QED BY <2>2, <2>3, <2>5, <3>1
    <2>6. CASE x # 0 /\ x \in Z
      <3>1. Z \ {x} \in SUBSET (1 .. x - 1)
        BY <2>2, <2>3, <2>6
      <3>2. HasOrder(Z \ {x})
        BY <2>3, <2>6, <3>1
      <3>3. QED BY <2>2, <2>3, <2>6, <3>2, OneMoreOrdered
    <2>7. QED BY <2>4, <2>5, <2>6
  <1>2. QED BY <1>1

\* The places at which a sequence has something of a set.
Places(seq, S) == {i \in DOMAIN seq : seq[i] \in S}

\* What is kept of a sequence: its places in the set, in their order.
LEMMA KeptOrdered ==
    ASSUME NEW A, NEW seq \in Seq(A), NEW S
    PROVE  \E n \in Nat : \E f \in Surjection(1 .. n, Places(seq, S)) :
             Ascends(f) /\ Kept(seq, S) = [k \in 1 .. n |-> seq[f[k]]]
  <1> DEFINE places == {i \in DOMAIN seq : seq[i] \in S}
             n == Cardinality(places)
             order == CHOOSE f \in [1 .. n -> places] : \A j, k \in DOMAIN f : j < k => f[j] < f[k]
             kept == [k \in DOMAIN order |-> seq[order[k]]]
  <1>1. Kept(seq, S) = kept
    BY DEF Kept
  <1>2. /\ IsFiniteSet(places) /\ n \in Nat
        /\ \E f \in [1 .. n -> places] : \A j, k \in DOMAIN f : j < k => f[j] < f[k]
    <2>1. places \in SUBSET (1 .. Len(seq)) /\ Len(seq) \in Nat
      OBVIOUS
    <2> HIDE DEF places
    <2>2. HasOrder(places)
      BY <2>1, EveryOrder
    <2>3. QED BY <2>2, FS_CardinalityType DEF HasOrder, Ascends
  <1>3. order \in [1 .. n -> places] /\ \A j, k \in DOMAIN order : j < k => order[j] < order[k]
    <2> HIDE DEF n, places
    <2>1. QED BY <1>2
  <1>4. \A i \in places : i \in Nat
    OBVIOUS
  <1>p. places = Places(seq, S)
    BY DEF Places
  <1> HIDE DEF order, places, n
  <1>5. order \in Surjection(1 .. n, places)
    <2>1. \A j, k \in 1 .. n : order[j] = order[k] => j = k
      <3>1. SUFFICES ASSUME NEW j \in 1 .. n, NEW k \in 1 .. n, order[j] = order[k] PROVE j = k
        OBVIOUS
      <3>2. order[j] \in Nat /\ order[k] \in Nat /\ DOMAIN order = 1 .. n
        BY <1>3, <1>4
      <3>3. ~(j < k) /\ ~(k < j)
        BY ONLY <1>3, <3>1, <3>2
      <3>4. QED BY ONLY <3>1, <3>3
    <2>2. order \in Injection(1 .. n, places)
      BY <1>3, <2>1 DEF Injection, IsInjective
    <2>3. Cardinality(1 .. n) = n
      BY <1>2, FS_Interval
    <2>4. QED BY <1>2, <2>2, <2>3, FS_Injection DEF n
  <1>6. Ascends(order) /\ kept = [k \in 1 .. n |-> seq[order[k]]]
    BY <1>3 DEF Ascends
  <1>7. QED BY <1>1, <1>2, <1>5, <1>6, <1>p

\* What is kept of a sequence is a sequence of what it has in common with the set.
LEMMA KeptParts ==
    ASSUME NEW A, NEW seq \in Seq(A), NEW S
    PROVE  /\ Kept(seq, S) \in Seq(A)
           /\ ToSet(Kept(seq, S)) = ToSet(seq) \cap S
  <1>1. PICK n \in Nat : \E f \in Surjection(1 .. n, Places(seq, S)) :
             Ascends(f) /\ Kept(seq, S) = [k \in 1 .. n |-> seq[f[k]]]
    BY KeptOrdered
  <1>2. PICK f \in Surjection(1 .. n, Places(seq, S)) : Kept(seq, S) = [k \in 1 .. n |-> seq[f[k]]]
    BY <1>1
  <1> DEFINE kept == [k \in 1 .. n |-> seq[f[k]]]
  <1>3. /\ \A k \in 1 .. n : f[k] \in DOMAIN seq /\ seq[f[k]] \in A /\ seq[f[k]] \in S
        /\ \A i \in DOMAIN seq : seq[i] \in S => \E k \in 1 .. n : f[k] = i
    BY DEF Surjection, Places
  <1>4. kept \in Seq(A)
    BY <1>3
  <1>5. ToSet(kept) = {seq[f[k]] : k \in 1 .. n}
    BY DEF ToSet
  <1> HIDE DEF kept
  <1>6. ToSet(kept) = ToSet(seq) \cap S
    <2>1. ASSUME NEW x \in ToSet(kept) PROVE x \in ToSet(seq) \cap S
      <3>1. PICK k \in 1 .. n : x = seq[f[k]]
        BY <1>5, <2>1
      <3>2. f[k] \in DOMAIN seq /\ seq[f[k]] \in S
        BY <1>3
      <3>3. QED BY <3>1, <3>2 DEF ToSet
    <2>2. ASSUME NEW x \in ToSet(seq) \cap S PROVE x \in ToSet(kept)
      <3>1. PICK i \in DOMAIN seq : x = seq[i] /\ seq[i] \in S
        BY <2>2 DEF ToSet
      <3>2. QED BY <1>3, <1>5, <3>1
    <2>3. QED BY <2>1, <2>2
  <1>7. QED BY <1>2, <1>4, <1>6 DEF kept

\* A name put at a place among others.
LEMMA InsertParts ==
    ASSUME NEW A, NEW seq \in Seq(A), NEW i \in 1 .. Len(seq) + 1, NEW e \in A
    PROVE  InsertAt(seq, i, e) \in Seq(A) /\ e \in ToSet(InsertAt(seq, i, e))
  <1> DEFINE a == SubSeq(seq, 1, i - 1)
             b == SubSeq(seq, i, Len(seq))
             z == (a \o <<e>>) \o b
  <1>1. a \in Seq(A) /\ b \in Seq(A) /\ Len(a) = i - 1 /\ Len(b) \in Nat
    OBVIOUS
  <1>2. z = InsertAt(seq, i, e)
    BY DEF InsertAt
  <1> HIDE DEF a, b
  <1>3. z \in Seq(A) /\ i \in DOMAIN z /\ z[i] = e
    BY <1>1
  <1> HIDE DEF z
  <1>4. QED BY <1>2, <1>3 DEF ToSet

\* What a command writes; the command of a name, of an order, of a goal.
DeleteSteps(names) == [i \in DOMAIN names |-> [op |-> "delete", name |-> names[i]]]

LEMMA DeletesAreSteps ==
    ASSUME NEW names \in Seq(Names)
    PROVE  DeleteSteps(names) \in Seq(StepType)
  <1>1. \A i \in 1 .. Len(names) : [op |-> "delete", name |-> names[i]] \in StepType
    <2>1. ASSUME NEW i \in 1 .. Len(names) PROVE [op |-> "delete", name |-> names[i]] \in StepType
      <3>1. names[i] \in Names
        OBVIOUS
      <3>2. QED BY <3>1 DEF StepType
    <2>2. QED BY <2>1
  <1> DEFINE f == [i \in 1 .. Len(names) |-> [op |-> "delete", name |-> names[i]]]
  <1>2. f = DeleteSteps(names)
    BY DEF DeleteSteps
  <1>3. f \in [1 .. Len(names) -> StepType]
    BY <1>1
  <1> HIDE DEF f
  <1>4. QED BY <1>2, <1>3

LEMMA OneStep ==
    /\ \A goal \in EnvType : <<[op |-> "upsert", goal |-> goal]>> \in Seq(StepType)
    /\ \A name \in Names : <<[op |-> "activate", name |-> name]>> \in Seq(StepType)
    /\ \A names \in Seq(Names) : <<[op |-> "reorder", names |-> names]>> \in Seq(StepType)
    /\ <<[op |-> "deactivate"]>> \in Seq(StepType)
    /\ <<>> \in Seq(StepType)
  <1>1. \A goal \in EnvType : [op |-> "upsert", goal |-> goal] \in StepType
    BY DEF StepType
  <1>2. \A name \in Names : [op |-> "activate", name |-> name] \in StepType
    BY DEF StepType
  <1>3. \A names \in Seq(Names) : [op |-> "reorder", names |-> names] \in StepType
    BY DEF StepType
  <1>4. [op |-> "deactivate"] \in StepType
    BY DEF StepType
  <1>5. \A x \in StepType : <<x>> \in Seq(StepType)
    OBVIOUS
  <1>6. <<>> \in Seq(StepType)
    OBVIOUS
  <1>7. QED BY <1>1, <1>2, <1>3, <1>4, <1>5, <1>6, Zenon

\* A plan as a job takes it over.
PlanOK(plan) ==
    plan.steps \in Seq(StepType) /\ plan.index \in Int /\ plan.activated \in Names \cup {NoName}

LEMMA FootprintNamesType ==
    ASSUME NEW fp, FootprintOK(fp)
    PROVE  FootprintNames(fp) \in Seq(Names) /\ Ours(fp) = ToSet(FootprintNames(fp))
  BY DEF FootprintOK, FootprintType, FootprintNames, Ours

\* What the plan deletes of the names: what is the footprint's and not the target's.
LEMMA GoneParts ==
    ASSUME NEW fp, FootprintOK(fp), NEW target, NEW names
    PROVE  /\ Gone(fp, target, names) \in Seq(Names)
           /\ ToSet(Gone(fp, target, names)) = Ours(fp) \cap (ToSet(names) \ {target})
  <1> DEFINE seq == FootprintNames(fp)
             S == ToSet(names) \ {target}
  <1>1. seq \in Seq(Names) /\ Gone(fp, target, names) = Kept(seq, S) /\ Ours(fp) = ToSet(seq)
    BY FootprintNamesType DEF Gone
  <1> HIDE DEF seq
  <1>2. Kept(seq, S) \in Seq(Names) /\ ToSet(Kept(seq, S)) = ToSet(seq) \cap S
    BY <1>1, KeptParts
  <1>3. QED BY <1>1, <1>2

LEMMA WithoutType ==
    ASSUME NEW A, NEW seq \in Seq(A), NEW gone
    PROVE  Without(seq, gone) \in Seq(A) /\ ToSet(Without(seq, gone)) = ToSet(seq) \ gone
  <1> DEFINE S == ToSet(seq) \ gone
  <1>1. Without(seq, gone) = Kept(seq, S) /\ ToSet(seq) \cap S = ToSet(seq) \ gone
    BY DEF Without
  <1> HIDE DEF S
  <1>2. QED BY <1>1, KeptParts

LEMMA PlanWriteType ==
    ASSUME NEW goal \in EnvType, NEW fp, FootprintOK(fp), NEW names \in Seq(Names),
           NEW act \in Names \cup {NoName}
    PROVE  PlanOK(PlanWrite(goal, fp, names, act)) /\ PlanWrite(goal, fp, names, act).index \in Nat
  <1> DEFINE target == goal.name
             base == IF target \in ToSet(names) THEN names ELSE Append(names, target)
             isOurs == act = target \/ act \in Ours(fp)
             activated == IF ~fp.stored \/ isOurs THEN target ELSE NoName
             gone == Gone(fp, target, base)
             rest == Without(base, ToSet(gone))
             others == Without(rest, {target})
             want == IF fp.stored THEN Placed(others, fp, target) ELSE rest
             s1 == <<[op |-> "upsert", goal |-> goal]>>
             s2 == IF activated \notin {NoName, act} THEN <<[op |-> "activate", name |-> activated]>> ELSE <<>>
             s3 == DeleteSteps(gone)
             s4 == IF want # rest THEN <<[op |-> "reorder", names |-> want]>> ELSE <<>>
             plan == [steps |-> s1 \o s2 \o s3 \o s4, index |-> PlaceOf(want, target) - 1, activated |-> activated]
  <1>1. PlanWrite(goal, fp, names, act) = plan
    BY Zenon DEF PlanWrite, DeleteSteps
  <1>2. target \in Names /\ fp.stored \in BOOLEAN /\ fp.index \in Nat
    BY DEF EnvType, FootprintOK, FootprintType
  <1> HIDE DEF target
  <1>3. base \in Seq(Names) /\ target \in ToSet(base)
    <2>1. CASE target \in ToSet(names)
      BY <2>1
    <2>2. CASE target \notin ToSet(names)
      <3> DEFINE b == Append(names, target)
      <3>1. b \in Seq(Names) /\ Len(names) + 1 \in DOMAIN b /\ b[Len(names) + 1] = target
        BY <1>2
      <3>2. base = b
        BY <2>2
      <3> HIDE DEF b
      <3>3. QED BY <3>1, <3>2 DEF ToSet
    <2>3. QED BY <2>1, <2>2
  <1> HIDE DEF base
  <1>4. gone \in Seq(Names) /\ target \notin ToSet(gone)
    BY GoneParts
  <1> HIDE DEF gone
  <1>5. rest \in Seq(Names) /\ target \in ToSet(rest)
    BY <1>3, <1>4, WithoutType
  <1> HIDE DEF rest
  <1>6. others \in Seq(Names)
    BY <1>5, WithoutType
  <1> HIDE DEF others
  <1>7. want \in Seq(Names) /\ target \in ToSet(want)
    <2>1. CASE fp.stored
      <3> DEFINE i == 1 + (IF fp.index < Len(others) THEN fp.index ELSE Len(others))
      <3>1. i \in 1 .. Len(others) + 1
        BY <1>2, <1>6
      <3>2. want = InsertAt(others, i, target)
        BY <2>1 DEF Placed
      <3> HIDE DEF i, want
      <3>3. QED BY <1>2, <1>6, <3>1, <3>2, InsertParts
    <2>2. CASE ~fp.stored
      BY <1>5, <2>2
    <2>3. QED BY <2>1, <2>2
  <1> HIDE DEF want
  <1>8. PlaceOf(want, target) \in 1 .. Len(want)
    BY <1>7, PlaceIsThere
  <1>9. activated \in Names \cup {NoName}
    BY <1>2
  <1> HIDE DEF activated
  <1>10. s1 \in Seq(StepType) /\ s2 \in Seq(StepType) /\ s3 \in Seq(StepType) /\ s4 \in Seq(StepType)
    <2>1. s1 \in Seq(StepType)
      BY OneStep
    <2>2. s2 \in Seq(StepType)
      BY <1>9, OneStep
    <2>3. s3 \in Seq(StepType)
      BY <1>4, DeletesAreSteps
    <2>4. s4 \in Seq(StepType)
      BY <1>7, OneStep
    <2>5. QED BY <2>1, <2>2, <2>3, <2>4
  <1> HIDE DEF s1, s2, s3, s4
  <1>11. s1 \o s2 \o s3 \o s4 \in Seq(StepType)
    BY <1>10
  <1>12. plan.steps \in Seq(StepType) /\ plan.index \in Nat /\ plan.activated \in Names \cup {NoName}
    BY <1>8, <1>9, <1>11
  <1> HIDE DEF plan
  <1>13. QED BY <1>1, <1>12 DEF PlanOK

\* What a sync has planned: with a goal, also its place.
LEMMA PlanSyncType ==
    ASSUME NEW goal \in GoalType, NEW fp, FootprintOK(fp), NEW names \in Seq(Names),
           NEW act \in Names \cup {NoName}
    PROVE  /\ PlanOK(PlanSync(goal, fp, names, act))
           /\ goal # NoGoal => PlanSync(goal, fp, names, act).index \in Nat
  <1>1. CASE IsPlain(goal, fp)
    <2>1. goal \in EnvType /\ fp.index \in Nat
      BY <1>1 DEF IsPlain, GoalType, FootprintOK, FootprintType
    <2> DEFINE steps == <<[op |-> "upsert", goal |-> goal]>>
    <2>2. steps \in Seq(StepType)
      BY <2>1, OneStep
    <2>3. PlanSync(goal, fp, names, act) = [steps |-> steps, index |-> fp.index, activated |-> NoName]
      BY <1>1 DEF PlanSync
    <2> HIDE DEF steps
    <2>4. QED BY <2>1, <2>2, <2>3 DEF PlanOK
  <1>2. CASE ~IsPlain(goal, fp) /\ goal = NoGoal
    <2> DEFINE gone == Gone(fp, act, names)
               steps == DeleteSteps(gone)
    <2>1. PlanSync(goal, fp, names, act) = [steps |-> steps, index |-> -1, activated |-> NoName]
      BY <1>2, Zenon DEF PlanSync, PlanSweep, DeleteSteps
    <2>2. gone \in Seq(Names)
      BY GoneParts
    <2> HIDE DEF gone
    <2>3. steps \in Seq(StepType)
      BY <2>2, DeletesAreSteps
    <2> HIDE DEF steps
    <2>4. QED BY <1>2, <2>1, <2>3 DEF PlanOK
  <1>3. CASE ~IsPlain(goal, fp) /\ goal # NoGoal
    <2>1. goal \in EnvType
      BY <1>3 DEF GoalType
    <2>2. PlanSync(goal, fp, names, act) = PlanWrite(goal, fp, names, act)
      BY <1>3 DEF PlanSync
    <2>3. QED BY <2>1, <2>2, PlanWriteType
  <1>4. QED BY <1>1, <1>2, <1>3

LEMMA PlanDeleteType ==
    ASSUME NEW fp, FootprintOK(fp), NEW names, NEW act
    PROVE  PlanOK(PlanDelete(fp, names, act))
  <1> DEFINE gone == Gone(fp, NoName, names)
             s1 == IF act \in Ours(fp) THEN <<[op |-> "deactivate"]>> ELSE <<>>
             s2 == DeleteSteps(gone)
  <1>1. PlanDelete(fp, names, act) = [steps |-> s1 \o s2, index |-> -1, activated |-> NoName]
    BY Zenon DEF PlanDelete, DeleteSteps
  <1>2. gone \in Seq(Names)
    BY GoneParts
  <1> HIDE DEF gone
  <1>3. s1 \in Seq(StepType) /\ s2 \in Seq(StepType)
    <2>1. s1 \in Seq(StepType)
      BY OneStep
    <2>2. QED BY <1>2, <2>1, DeletesAreSteps
  <1> HIDE DEF s1, s2
  <1>4. s1 \o s2 \in Seq(StepType)
    BY <1>3
  <1>5. QED BY <1>1, <1>4 DEF PlanOK

-----------------------------------------------------------------------------
(* Core's store: each command leaves every name there at most once. *)

Store(list) == list \in Seq(EnvType) /\ IsInjective(NamesOf(list))

\* A list is a store when no name is in it twice.
LEMMA StoreMeans ==
    ASSUME NEW list \in Seq(EnvType)
    PROVE  Store(list) <=> \A i, j \in 1 .. Len(list) : list[i].name = list[j].name => i = j
  <1>1. DOMAIN NamesOf(list) = 1 .. Len(list) /\ \A i \in 1 .. Len(list) : NamesOf(list)[i] = list[i].name
    BY DEF NamesOf
  <1>2. QED BY <1>1 DEF Store, IsInjective

LEMMA UpsertKeeps ==
    ASSUME NEW list, Store(list), NEW env \in EnvType
    PROVE  Store(Upsert(list, env))
  <1>1. list \in Seq(EnvType) /\ \A i, j \in 1 .. Len(list) : list[i].name = list[j].name => i = j
    BY StoreMeans DEF Store
  <1>2. CASE Has(list, env.name)
    <2> DEFINE f == [i \in 1 .. Len(list) |-> IF list[i].name = env.name THEN env ELSE list[i]]
    <2>1. Upsert(list, env) = f
      BY <1>1, <1>2 DEF Upsert
    <2>2. f \in Seq(EnvType) /\ Len(f) = Len(list)
      BY <1>1
    <2>3. \A i \in 1 .. Len(f) : f[i].name = list[i].name
      BY <1>1, <2>2
    <2> HIDE DEF f
    <2>4. QED BY <1>1, <2>1, <2>2, <2>3, StoreMeans
  <1>3. CASE ~Has(list, env.name)
    <2> DEFINE f == Append(list, env)
    <2>1. Upsert(list, env) = f
      BY <1>3 DEF Upsert
    <2>2. /\ f \in Seq(EnvType) /\ Len(f) = Len(list) + 1 /\ Len(list) \in Nat
          /\ \A i \in 1 .. Len(f) : f[i] = IF i = Len(f) THEN env ELSE list[i]
      BY <1>1
    <2>3. \A i \in 1 .. Len(list) : list[i].name # env.name
      BY <1>1, <1>3 DEF Has
    <2> HIDE DEF f
    <2>4. QED BY <1>1, <2>1, <2>2, <2>3, StoreMeans
  <1>4. QED BY <1>2, <1>3

LEMMA RemoveKeeps ==
    ASSUME NEW list, Store(list), NEW p \in 1 .. Len(list)
    PROVE  Store(RemoveAt(list, p))
  <1>1. list \in Seq(EnvType) /\ \A i, j \in 1 .. Len(list) : list[i].name = list[j].name => i = j
    BY StoreMeans DEF Store
  <1> DEFINE f == RemoveAt(list, p)
             a == SubSeq(list, 1, p - 1)
             b == SubSeq(list, p + 1, Len(list))
  <1>2. /\ a \in Seq(EnvType) /\ b \in Seq(EnvType)
        /\ Len(a) = p - 1 /\ Len(b) = Len(list) - p
        /\ \A i \in 1 .. Len(a) : a[i] = list[i]
        /\ \A i \in 1 .. Len(b) : b[i] = list[i + p]
    BY <1>1
  <1>3. f = a \o b
    BY DEF RemoveAt
  <1> HIDE DEF a, b, f
  <1>4. /\ f \in Seq(EnvType) /\ Len(f) = Len(list) - 1
        /\ \A i \in 1 .. Len(f) : f[i] = IF i < p THEN list[i] ELSE list[i + 1]
    <2>1. Len(list) \in Nat /\ p \in Nat /\ p >= 1 /\ p <= Len(list)
      BY <1>1
    <2> DEFINE T == EnvType
    <2> HIDE DEF T
    <2>0. a \in Seq(T) /\ b \in Seq(T)
      BY <1>2 DEF T
    <2>t. f \in Seq(T) /\ Len(f) = Len(a) + Len(b) /\ Len(a) \in Nat /\ Len(b) \in Nat
      BY <1>3, <2>0
    <2>2. f \in Seq(EnvType) /\ Len(f) = Len(a) + Len(b)
      BY <2>t DEF T
    <2>3. \A i \in 1 .. Len(f) : f[i] = IF i <= Len(a) THEN a[i] ELSE b[i - Len(a)]
      BY <1>3, <2>0, <2>t
    <2>4. ASSUME NEW i \in 1 .. Len(f) PROVE f[i] = IF i < p THEN list[i] ELSE list[i + 1]
      <3>1. CASE i < p
        BY <1>2, <2>1, <2>2, <2>3, <3>1
      <3>2. CASE ~(i < p)
        <4>1. i - Len(a) \in 1 .. Len(b) /\ (i - Len(a)) + p = i + 1 /\ ~(i <= Len(a))
          BY <1>2, <2>1, <2>2, <3>2
        <4>2. QED BY <1>2, <2>3, <3>2, <4>1
      <3>3. QED BY <3>1, <3>2
    <2>5. QED BY <1>2, <2>1, <2>2, <2>4
  <1>5. Store(f)
    <2> DEFINE len == Len(list)
    <2>1. ASSUME NEW i \in 1 .. Len(f), NEW j \in 1 .. Len(f), f[i].name = f[j].name
          PROVE  i = j
      <3> DEFINE x == IF i < p THEN i ELSE i + 1
                 y == IF j < p THEN j ELSE j + 1
      <3>1. len \in Nat /\ Len(f) = len - 1 /\ p \in 1 .. len
        BY <1>1, <1>4
      <3>2. x \in 1 .. len /\ y \in 1 .. len /\ (x = y => i = j)
        BY ONLY <3>1, <2>1
      <3>3. f[i] = list[x] /\ f[j] = list[y]
        BY ONLY <1>4, <2>1
      <3> HIDE DEF x, y
      <3>4. QED BY ONLY <1>1, <2>1, <3>2, <3>3 DEF len
    <2>2. QED BY Zenon, <1>4, <2>1, StoreMeans
  <1>6. QED BY <1>5 DEF f

\* A function onto as many as there are is one to one.
LEMMA ReorderKeeps ==
    ASSUME NEW list, Store(list), NEW names \in Seq(Names), Len(names) = Len(list),
           ToSet(names) = ToSet(NamesOf(list))
    PROVE  Store(Reordered(list, names))
  <1> DEFINE n == Len(list)
             old == NamesOf(list)
             S == ToSet(old)
             f == [i \in 1 .. n |-> [name |-> names[i], val |-> Content(list, names[i])]]
  <1>1. list \in Seq(EnvType) /\ n \in Nat
    BY DEF Store
  <1>2. /\ old \in Seq(Names) /\ Len(old) = n /\ IsInjective(old)
    BY <1>1, NamesOfList DEF Store
  <1> HIDE DEF old
  <1>3. old \in Surjection(1 .. n, S) /\ old \in Injection(1 .. n, S)
    BY <1>2 DEF Surjection, Injection, ToSet
  <1>4. names \in Surjection(1 .. n, S)
    <2>1. DOMAIN names = 1 .. n /\ S = ToSet(names)
      BY DEF old
    <2>2. ToSet(names) = {names[i] : i \in 1 .. n}
      BY <2>1 DEF ToSet
    <2> HIDE DEF S, n
    <2>3. names = [i \in 1 .. n |-> names[i]]
      BY <2>1
    <2>4. QED BY <2>1, <2>2, <2>3 DEF Surjection
  <1>5. IsFiniteSet(1 .. n) /\ Cardinality(1 .. n) = n
    <2>1. 1 \in Int /\ n \in Int /\ ~(1 > n + 1) /\ (n \in Nat)
      BY <1>1
    <2> HIDE DEF n
    <2>2. IsFiniteSet(1 .. n) /\ Cardinality(1 .. n) = IF 1 > n THEN 0 ELSE n - 1 + 1
      BY ONLY <2>1, FS_Interval
    <2>3. QED BY ONLY <2>1, <2>2
  <1> HIDE DEF S
  <1>6. Cardinality(S) = Cardinality(1 .. n)
    BY <1>3, <1>5, FS_Surjection
  <1>7. names \in Injection(1 .. n, S)
    BY <1>4, <1>5, <1>6, FS_Surjection
  <1>8. \A i \in 1 .. n : Content(list, names[i]) \in Vals
    <2>1. ASSUME NEW i \in 1 .. n PROVE Content(list, names[i]) \in Vals
      <3>1. names[i] \in ToSet(NamesOf(list))
        <4>1. i \in DOMAIN names
          BY <1>1
        <4>2. names[i] \in ToSet(names)
          BY <4>1 DEF ToSet
        <4>3. QED BY <4>2
      <3>2. Has(list, names[i])
        BY <3>1 DEF Has, NamesOf, ToSet
      <3>3. LET p == PlaceOf(NamesOf(list), names[i]) IN list[p] \in EnvType
        BY <1>1, <3>2, ListedPlace
      <3>4. QED BY <3>3 DEF Content, EnvType
    <2>2. QED BY <2>1
  <1>9. f \in Seq(EnvType) /\ Len(f) = n /\ \A i \in 1 .. n : f[i].name = names[i]
    <2>1. \A i \in 1 .. n : names[i] \in Names
      BY <1>1
    <2>2. \A i \in 1 .. n : [name |-> names[i], val |-> Content(list, names[i])] \in EnvType
      BY <1>8, <2>1 DEF EnvType
    <2>3. f \in [1 .. n -> EnvType]
      BY <2>2
    <2>4. QED BY <1>1, <2>3
  <1>10. f = Reordered(list, names)
    BY <1>1 DEF Reordered
  <1> HIDE DEF f
  <1>11. \A i, j \in 1 .. n : names[i] = names[j] => i = j
    BY <1>7 DEF Injection, IsInjective
  <1> HIDE DEF n
  <1>12. QED BY <1>9, <1>10, <1>11, StoreMeans

\* A command that is not refused.
LEMMA StoreAfterKeeps ==
    ASSUME NEW list, Store(list), NEW act \in Names \cup {NoName},
           NEW step \in StepType, ~Refused(list, act, step)
    PROVE  Store(StoreAfter(list, step)) /\ ActiveAfter(act, step) \in Names \cup {NoName}
  <1>1. CASE step.op = "upsert"
    <2>1. step.goal \in EnvType
      BY <1>1 DEF StepType
    <2>2. StoreAfter(list, step) = Upsert(list, step.goal) /\ ActiveAfter(act, step) = act
      BY <1>1 DEF StoreAfter, ActiveAfter
    <2>3. QED BY <2>1, <2>2, UpsertKeeps
  <1>2. CASE step.op = "activate"
    <2>1. step.name \in Names
      BY <1>2 DEF StepType
    <2>2. StoreAfter(list, step) = list /\ ActiveAfter(act, step) = step.name
      BY <1>2 DEF StoreAfter, ActiveAfter
    <2>3. QED BY <2>1, <2>2
  <1>3. CASE step.op = "delete" /\ Has(list, step.name)
    <2> DEFINE p == PlaceOf(NamesOf(list), step.name)
    <2>1. p \in 1 .. Len(list)
      BY <1>3, ListedPlace DEF Store
    <2>2. StoreAfter(list, step) = RemoveAt(list, p) /\ ActiveAfter(act, step) = act
      BY <1>3 DEF StoreAfter, ActiveAfter
    <2> HIDE DEF p
    <2>3. QED BY <2>1, <2>2, RemoveKeeps
  <1>4. CASE step.op = "delete" /\ ~Has(list, step.name)
    BY <1>4 DEF StoreAfter, ActiveAfter
  <1>5. CASE step.op = "deactivate"
    BY <1>5 DEF StoreAfter, ActiveAfter
  <1>6. CASE step.op = "reorder"
    <2>1. step.names \in Seq(Names)
      BY <1>6 DEF StepType
    <2>2. Len(step.names) = Len(list) /\ ToSet(step.names) = ToSet(NamesOf(list))
      BY <1>6 DEF Refused
    <2>3. StoreAfter(list, step) = Reordered(list, step.names) /\ ActiveAfter(act, step) = act
      BY <1>6 DEF StoreAfter, ActiveAfter
    <2>4. QED BY <2>1, <2>2, <2>3, ReorderKeeps
  <1>7. step.op \in {"upsert", "activate", "delete", "deactivate", "reorder"}
    BY DEF StepType
  <1>8. QED BY <1>1, <1>2, <1>3, <1>4, <1>5, <1>6, <1>7

-----------------------------------------------------------------------------
(* The tail. *)

\* The first job goes on: what it is for stays as it is.
LEMMA RejobKeeps ==
    ASSUME NEW u, WellFormed(u), u.tail # <<>>,
           NEW job \in JobType, JobOK(job), job.kind = u.tail[1].kind, job.lane = u.tail[1].lane,
           job.goal = u.tail[1].goal, job.fp = u.tail[1].fp,
           NEW v, IsUi(v), v.lanes = u.lanes, v.byName = u.byName, v.pane = u.pane, v.envs = u.envs,
           v.tail = [u.tail EXCEPT ![1] = job]
    PROVE  WellFormed(v)
  <1> DEFINE t == v.tail
  <1>1. /\ Shape(u) /\ Linked(u) /\ PaneOK(u) /\ PaneJobs(u) /\ u.tail \in Seq(JobType)
        /\ \A k \in DOMAIN u.tail : JobOK(u.tail[k]) /\ (u.tail[k].state # "queued" => k = 1)
        /\ \A j \in Lanes : FlightOf(u, j)
    BY WellParts
  <1>2. /\ t \in Seq(JobType) /\ DOMAIN t = DOMAIN u.tail /\ 1 \in DOMAIN t
        /\ \A k \in DOMAIN t : t[k] = IF k = 1 THEN job ELSE u.tail[k]
    BY <1>1
  <1> HIDE DEF t
  <1>3. \A k \in DOMAIN t : /\ t[k].kind = u.tail[k].kind /\ t[k].lane = u.tail[k].lane
                            /\ t[k].goal = u.tail[k].goal /\ t[k].fp = u.tail[k].fp
                            /\ JobOK(t[k]) /\ (t[k].state # "queued" => k = 1)
    BY <1>1, <1>2
  <1>4. \A j : Syncs(t, j) = Syncs(u.tail, j)
    BY <1>2, <1>3 DEF Syncs
  <1>p. /\ IsUi(v) /\ v.tail = t /\ v.lanes = u.lanes /\ v.byName = u.byName /\ v.envs = u.envs
        /\ v.pane = u.pane
    BY DEF t
  <1>5. Shape(v)
    <2>1. /\ u.lanes \in [Lanes -> LaneType \cup {Unused}]
          /\ \A i \in Lanes : u.lanes[i].used => LaneOK(u.lanes[i])
          /\ u.byName \in [Names -> Lanes \cup {NoLane}]
          /\ u.pane \in PaneType /\ u.envs \in Seq(EnvType)
      BY ONLY <1>1 DEF Shape
    <2>2. \A k \in DOMAIN t : JobOK(t[k]) /\ (t[k].state # "queued" => k = 1)
      BY ONLY <1>3
    <2>3. QED BY ONLY <1>2, <1>p, <2>1, <2>2 DEF Shape
  <1>6. Linked(v) /\ PaneOK(v)
    <2>1. \A k \in DOMAIN t : u.lanes[t[k].lane].used
      <3>1. \A k \in DOMAIN u.tail : u.lanes[u.tail[k].lane].used
        BY ONLY <1>1 DEF Linked
      <3>2. \A k \in DOMAIN t : k \in DOMAIN u.tail /\ t[k].lane = u.tail[k].lane
        BY ONLY <1>2, <1>3
      <3>3. QED BY ONLY <3>1, <3>2
    <2>2. Linked(v)
      BY ONLY <1>1, <1>p, <2>1 DEF Linked
    <2>3. PaneOK(v)
      BY ONLY <1>1, <1>p DEF PaneOK
    <2>4. QED BY <2>2, <2>3
  <1>7. PaneJobs(v)
    BY <1>1, <1>2, <1>3, <1>4 DEF PaneJobs, t
  <1>8. \A j \in Lanes : FlightOf(v, j)
    <2> HIDE DEF FlightOf
    <2>1. ASSUME NEW j \in Lanes PROVE FlightOf(v, j)
      <3>1. FlightOf(u, j) /\ Syncs(t, j) = Syncs(u.tail, j)
        BY <1>1, <1>4
      <3>2. ASSUME NEW k \in DOMAIN u.tail
            PROVE  k \in DOMAIN t /\ t[k].goal = u.tail[k].goal /\ t[k].fp = u.tail[k].fp
        BY ONLY <1>2, <1>3, <3>2
      <3>3. v.tail = t /\ v.lanes = u.lanes
        BY <1>p
      <3>4. QED BY ONLY <3>1, <3>2, <3>3 DEF FlightOf
    <2>2. QED BY <2>1
  <1>9. QED BY <1>5, <1>6, <1>7, <1>8 DEF WellFormed, Sound

\* The first job, when there is one.
LEMMA HeadParts ==
    ASSUME WellFormed(Ui), tail # <<>>
    PROVE  /\ tail \in Seq(JobType) /\ 1 \in DOMAIN tail /\ Head(tail) = tail[1]
           /\ Head(tail) \in JobType /\ JobOK(Head(tail)) /\ FootprintOK(Head(tail).fp)
           /\ Head(tail).kind \in {"sync", "cleanup", "delete"} /\ Head(tail).lane \in Lanes
           /\ Head(tail).goal \in GoalType /\ Head(tail).steps \in Seq(StepType)
           /\ Head(tail).activated \in Names \cup {NoName}
  <1>1. tail \in Seq(JobType) /\ \A k \in DOMAIN tail : JobOK(tail[k])
    BY WellParts, UiParts
  <1>2. 1 \in DOMAIN tail /\ Head(tail) = tail[1]
    BY <1>1
  <1>3. QED BY <1>1, <1>2, JobParts DEF JobOK

LEMMA JobStartsKeeps ==
    ASSUME WellFormed(Ui), StoreOK, JobStarts
    PROVE  WellFormed(Ui)'
  <1> DEFINE was == Head(tail)
             plan == IF was.kind = "delete" THEN PlanDelete(was.fp, NamesOf(store), active)
                     ELSE PlanSync(was.goal, was.fp, NamesOf(store), active)
             job == [was EXCEPT !.state = "running", !.steps = plan.steps,
                                !.index = plan.index, !.activated = plan.activated]
             u == Ui
             v == Ui'
  <1>1. /\ tail # <<>> /\ UNCHANGED <<lanes, byName, pane, envs>>
        /\ tail' = [tail EXCEPT ![1] = [@ EXCEPT !.state = "running", !.steps = plan.steps,
                                                 !.index = plan.index, !.activated = plan.activated]]
    BY DEF JobStarts
  <1>2. /\ tail \in Seq(JobType) /\ 1 \in DOMAIN tail /\ was = tail[1] /\ was \in JobType /\ JobOK(was)
        /\ FootprintOK(was.fp) /\ was.goal \in GoalType /\ was.kind \in {"sync", "cleanup", "delete"}
    BY <1>1, HeadParts
  <1>3. NamesOf(store) \in Seq(Names) /\ active \in Names \cup {NoName}
    BY NamesOfList DEF StoreOK
  <1>4. PlanOK(plan) /\ (was.kind = "sync" => plan.index \in Nat)
    <2>1. CASE was.kind = "delete"
      BY <1>2, <2>1, PlanDeleteType
    <2>2. CASE was.kind # "delete"
      <3>1. was.kind = "sync" => was.goal # NoGoal
        BY <1>2 DEF JobOK
      <3>2. plan = PlanSync(was.goal, was.fp, NamesOf(store), active)
        BY <2>2
      <3>3. QED BY <1>2, <1>3, <3>1, <3>2, PlanSyncType
    <2>3. QED BY <2>1, <2>2
  <1>5. tail' = [tail EXCEPT ![1] = job]
    BY <1>1, <1>2
  <1> HIDE DEF plan, was
  <1>6. job \in JobType
    BY <1>2, <1>4 DEF PlanOK, JobType
  <1>7. /\ job.kind = was.kind /\ job.lane = was.lane /\ job.goal = was.goal /\ job.fp = was.fp
        /\ job.index = plan.index
    BY <1>2 DEF JobType
  <1> HIDE DEF job
  <1>8. JobOK(job)
    BY <1>2, <1>4, <1>6, <1>7 DEF JobOK
  <1>9. /\ IsUi(v) /\ v.lanes = u.lanes /\ v.byName = u.byName /\ v.pane = u.pane /\ v.envs = u.envs
        /\ v.tail = [u.tail EXCEPT ![1] = job] /\ u.tail = tail
    BY <1>1, <1>5 DEF Ui, IsUi
  <1> HIDE DEF u, v
  <1>10. WellFormed(v)
    BY <1>1, <1>2, <1>6, <1>7, <1>8, <1>9, RejobKeeps DEF u
  <1>11. QED BY <1>10 DEF v

\* A command done or refused.
LEMMA JobGoesOnKeeps ==
    ASSUME WellFormed(Ui), JobStep \/ JobFails
    PROVE  WellFormed(Ui)'
  <1> DEFINE done == tail' = [tail EXCEPT ![1].steps = Tail(@)]
             was == Head(tail)
             steps == IF done THEN Tail(was.steps) ELSE was.steps
             state == IF done THEN was.state ELSE "failed"
             job == [was EXCEPT !.state = state, !.steps = steps]
             u == Ui
             v == Ui'
  <1>1. /\ tail # <<>> /\ was.steps # <<>> /\ was.state = "running" /\ UNCHANGED <<lanes, byName, pane, envs>>
        /\ done \/ tail' = [tail EXCEPT ![1].state = "failed"]
    BY DEF JobStep, JobFails, Running
  <1>2. /\ tail \in Seq(JobType) /\ 1 \in DOMAIN tail /\ was = tail[1] /\ was \in JobType /\ JobOK(was)
        /\ was.steps \in Seq(StepType)
    BY <1>1, HeadParts
  <1>3. steps \in Seq(StepType) /\ state \in {"running", "failed"} /\ (state = "running" => was.state = "running")
    <2>1. Tail(was.steps) \in Seq(StepType)
      BY <1>1, <1>2
    <2>2. QED BY <1>1, <1>2, <2>1
  <1>4. tail' = [tail EXCEPT ![1] = job]
    <2>1. CASE done
      <3>1. steps = Tail(was.steps) /\ state = was.state
        BY <2>1
      <3> HIDE DEF steps, state
      <3>2. job = [was EXCEPT !.steps = Tail(@)]
        BY <1>2, <3>1 DEF JobType
      <3>3. QED BY <1>2, <2>1, <3>2
    <2>2. CASE ~done /\ tail' = [tail EXCEPT ![1].state = "failed"]
      <3>1. steps = was.steps /\ state = "failed"
        BY <2>2
      <3> HIDE DEF steps, state
      <3>2. job = [was EXCEPT !.state = "failed"]
        BY <1>2, <3>1 DEF JobType
      <3>3. QED BY <1>2, <2>2, <3>2
    <2>3. QED BY <1>1, <2>1, <2>2
  <1> HIDE DEF steps, state, was
  <1>5. job \in JobType
    BY <1>2, <1>3 DEF JobType
  <1>6. /\ job.kind = was.kind /\ job.lane = was.lane /\ job.goal = was.goal /\ job.fp = was.fp
        /\ job.index = was.index /\ job.state = state
    BY <1>2 DEF JobType
  <1> HIDE DEF job
  <1>7. JobOK(job)
    BY <1>2, <1>3, <1>5, <1>6 DEF JobOK
  <1>8. /\ IsUi(v) /\ v.lanes = u.lanes /\ v.byName = u.byName /\ v.pane = u.pane /\ v.envs = u.envs
        /\ v.tail = [u.tail EXCEPT ![1] = job] /\ u.tail = tail
    BY <1>1, <1>4 DEF Ui, IsUi
  <1> HIDE DEF u, v
  <1>9. WellFormed(v)
    BY <1>1, <1>2, <1>5, <1>6, <1>7, <1>8, RejobKeeps DEF u
  <1>10. QED BY <1>9 DEF v

\* The tail without its first job.
LEMMA ShiftParts ==
    ASSUME NEW tl \in Seq(JobType), tl # <<>>
    PROVE  /\ Tail(tl) \in Seq(JobType)
           /\ \A k \in DOMAIN Tail(tl) : k \in Nat /\ k # 0 /\ k + 1 \in DOMAIN tl /\ Tail(tl)[k] = tl[k + 1]
           /\ \A j : \A k \in DOMAIN Tail(tl) : k \in Syncs(Tail(tl), j) <=> k + 1 \in Syncs(tl, j)
           /\ \A j : \A k \in Syncs(tl, j) : k # 1 => k - 1 \in Syncs(Tail(tl), j) /\ k \in Nat
           /\ \A j : \A k \in Syncs(Tail(tl), j) : k \in DOMAIN Tail(tl)
  <1> DEFINE t == Tail(tl)
  <1>1. /\ t \in Seq(JobType) /\ Len(t) = Len(tl) - 1 /\ DOMAIN t = 1 .. Len(t) /\ DOMAIN tl = 1 .. Len(tl)
        /\ Len(tl) \in Nat /\ Len(tl) # 0
    OBVIOUS
  <1>2. \A k \in 1 .. Len(t) : t[k] = tl[k + 1]
    BY <1>1
  <1> HIDE DEF t
  <1>3. \A k \in DOMAIN t : k \in Nat /\ k # 0 /\ k + 1 \in DOMAIN tl /\ t[k] = tl[k + 1]
    BY <1>1, <1>2
  <1>4. \A j : \A k \in DOMAIN t : k \in Syncs(t, j) <=> k + 1 \in Syncs(tl, j)
    BY <1>3 DEF Syncs
  <1>5. ASSUME NEW j, NEW k \in Syncs(tl, j), k # 1 PROVE k - 1 \in Syncs(t, j) /\ k \in Nat
    <2>1. k \in Nat /\ k - 1 \in DOMAIN t /\ (k - 1) + 1 = k
      BY <1>1, <1>5 DEF Syncs
    <2>2. QED BY <1>4, <1>5, <2>1
  <1>6. \A j : \A k \in Syncs(t, j) : k \in DOMAIN t
    BY DEF Syncs
  <1>7. QED BY <1>1, <1>3, <1>4, <1>5, <1>6 DEF t

\* The first job is over; only its lane may not have the job its flight asks for.
LEMMA RestKeeps ==
    ASSUME WellFormed(Ui), tail # <<>>
    PROVE  /\ Sound(Rest) /\ Rest.lanes = lanes /\ Rest.byName = byName /\ Rest.tail = Tail(tail)
           /\ Rest.pane = pane /\ Rest.envs = envs
           /\ \A j \in Lanes : (Head(tail).kind = "sync" /\ Head(tail).lane = j) \/ FlightOf(Rest, j)
  <1> DEFINE u == Ui
             r == Rest
             t == Tail(tail)
  <1>1. /\ u.lanes = lanes /\ u.byName = byName /\ u.tail = tail /\ u.pane = pane /\ u.envs = envs /\ IsUi(u)
        /\ IsUi(r) /\ r.lanes = lanes /\ r.byName = byName /\ r.tail = t /\ r.pane = pane /\ r.envs = envs
    <2>1. /\ u.lanes = lanes /\ u.byName = byName /\ u.tail = tail /\ u.pane = pane /\ u.envs = envs /\ IsUi(u)
      BY UiParts
    <2>2. r = [u EXCEPT !.tail = t]
      BY DEF Rest
    <2> HIDE DEF u, r, t
    <2>3. QED BY <2>1, <2>2 DEF IsUi
  <1>2. /\ Shape(u) /\ Linked(u) /\ PaneOK(u) /\ PaneJobs(u) /\ u.tail \in Seq(JobType)
        /\ \A k \in DOMAIN u.tail : JobOK(u.tail[k]) /\ (u.tail[k].state # "queued" => k = 1)
        /\ \A j \in Lanes : FlightOf(u, j)
    BY WellParts
  <1> HIDE DEF u, r
  <1>3. /\ t \in Seq(JobType)
        /\ \A k \in DOMAIN t : k \in Nat /\ k # 0 /\ k + 1 \in DOMAIN tail /\ t[k] = tail[k + 1]
        /\ \A j : \A k \in DOMAIN t : k \in Syncs(t, j) <=> k + 1 \in Syncs(tail, j)
        /\ \A j : \A k \in Syncs(tail, j) : k # 1 => k - 1 \in Syncs(t, j) /\ k \in Nat
        /\ \A j : \A k \in Syncs(t, j) : k \in DOMAIN t
    BY <1>1, <1>2, ShiftParts
  <1>4. 1 \in DOMAIN tail /\ Head(tail) = tail[1]
    BY HeadParts
  <1> HIDE DEF t
  <1>5. Shape(r)
    <2>1. \A k \in DOMAIN t : JobOK(t[k]) /\ t[k].state = "queued"
      BY <1>1, <1>2, <1>3
    <2>2. QED BY <1>1, <1>2, <1>3, <2>1 DEF Shape
  <1>6. Linked(r) /\ PaneOK(r)
    BY <1>1, <1>2, <1>3 DEF Linked, PaneOK
  <1>7. PaneJobs(r)
    <2>1. ASSUME NEW k \in DOMAIN t
          PROVE  /\ t[k].kind = "cleanup" => pane.phase = "closing"
                 /\ t[k].kind = "delete" =>
                      /\ pane.phase = "open" /\ pane.confirm = "deleting"
                      /\ t[k].lane = pane.lane /\ t[k].fp = lanes[pane.lane].fp
                      /\ \A m \in Syncs(t, pane.lane) : k < m
                 /\ \A m \in DOMAIN t : t[k].kind # "sync" /\ t[m].kind = t[k].kind => m = k
      <3>1. k + 1 \in DOMAIN tail /\ t[k] = tail[k + 1] /\ k \in Nat
        BY <1>3
      <3>2. t[k].kind = "cleanup" => pane.phase = "closing"
        BY <1>1, <1>2, <3>1 DEF PaneJobs
      <3>3. t[k].kind = "delete" =>
              /\ pane.phase = "open" /\ pane.confirm = "deleting"
              /\ t[k].lane = pane.lane /\ t[k].fp = lanes[pane.lane].fp
              /\ \A m \in Syncs(tail, pane.lane) : k + 1 < m
        BY <1>1, <1>2, <3>1 DEF PaneJobs
      <3>4. ASSUME t[k].kind = "delete", NEW m \in Syncs(t, pane.lane) PROVE k < m
        <4>1. m \in DOMAIN t /\ m \in Nat /\ m + 1 \in Syncs(tail, pane.lane)
          BY <1>3
        <4>2. k + 1 < m + 1
          BY <3>3, <3>4, <4>1
        <4>3. QED BY <3>1, <4>1, <4>2
      <3>5. ASSUME NEW m \in DOMAIN t, t[k].kind # "sync", t[m].kind = t[k].kind PROVE m = k
        <4>1. m + 1 \in DOMAIN tail /\ t[m] = tail[m + 1] /\ m \in Nat
          BY <1>3
        <4>2. m + 1 = k + 1
          BY <1>1, <1>2, <3>1, <3>5, <4>1 DEF PaneJobs
        <4>3. QED BY <3>1, <4>1, <4>2
      <3>6. QED BY <3>2, <3>3, <3>4, <3>5
    <2>2. QED BY <1>1, <2>1 DEF PaneJobs
  <1>8. ASSUME NEW j \in Lanes, ~(Head(tail).kind = "sync" /\ Head(tail).lane = j)
        PROVE  FlightOf(r, j)
    <2>1. 1 \notin Syncs(tail, j)
      BY <1>4, <1>8 DEF Syncs
    <2>2. CASE lanes[j].used /\ lanes[j].queue.flight = Queue!NoFlight
      <3>1. Syncs(tail, j) = {}
        BY <1>1, <1>2, <2>2 DEF FlightOf
      <3>2. Syncs(t, j) = {}
        BY <1>3, <3>1
      <3>3. QED BY <1>1, <2>2, <3>2 DEF FlightOf
    <2>3. CASE lanes[j].used /\ lanes[j].queue.flight # Queue!NoFlight
      <3>1. PICK k \in DOMAIN tail : /\ Syncs(tail, j) = {k}
                                     /\ tail[k].goal = lanes[j].queue.flight.goal /\ tail[k].fp = lanes[j].fp
        BY <1>1, <1>2, <2>3 DEF FlightOf
      <3>2. k # 1 /\ k \in Nat /\ k - 1 \in Syncs(t, j)
        BY <1>3, <2>1, <3>1
      <3>3. k - 1 \in DOMAIN t /\ t[k - 1] = tail[(k - 1) + 1] /\ (k - 1) + 1 = k
        BY <1>3, <3>2
      <3>4. \A m \in Syncs(t, j) : m = k - 1
        <4>1. ASSUME NEW m \in Syncs(t, j) PROVE m = k - 1
          <5>1. m \in DOMAIN t /\ m \in Nat /\ m + 1 \in Syncs(tail, j)
            BY <1>3
          <5>2. m + 1 = k
            BY <3>1, <5>1
          <5>3. QED BY <3>2, <5>1, <5>2
        <4>2. QED BY <4>1
      <3>5. Syncs(t, j) = {k - 1}
        BY <3>2, <3>4
      <3>6. PICK m \in DOMAIN t : m = k - 1
        BY <3>3
      <3>7. t[m] = tail[k] /\ Syncs(t, j) = {m}
        BY <3>3, <3>5, <3>6
      <3>8. t[m].goal = lanes[j].queue.flight.goal /\ t[m].fp = lanes[j].fp
        BY <3>1, <3>7
      <3>9. QED BY <1>1, <2>3, <3>7, <3>8 DEF FlightOf
    <2>4. CASE ~lanes[j].used
      BY <1>1, <2>4 DEF FlightOf
    <2>5. QED BY <2>2, <2>3, <2>4
  <1>9. QED BY <1>1, <1>5, <1>6, <1>7, <1>8 DEF Sound, r, t

\* The lane whose write is the first job.
LEMMA WriterParts ==
    ASSUME WellFormed(Ui), tail # <<>>, Head(tail).kind = "sync"
    PROVE  LET i == Head(tail).lane
           IN  /\ i \in Lanes /\ i # NoLane /\ lanes[i].used /\ LaneOK(lanes[i])
               /\ lanes[i].queue.flight # Queue!NoFlight
               /\ Head(tail).goal = lanes[i].queue.flight.goal /\ Head(tail).fp = lanes[i].fp
               /\ Head(tail).goal \in EnvType
               /\ Syncs(Tail(tail), i) = {}
               /\ \A k \in DOMAIN Tail(tail) : Tail(tail)[k].kind = "delete" => Tail(tail)[k].lane # i
               /\ pane.lane = i /\ ~lanes[i].fp.stored => pane.phase # "closing" /\ pane.confirm = "none"
  <1> DEFINE i == Head(tail).lane
             u == Ui
             t == Tail(tail)
  <1>1. /\ tail \in Seq(JobType) /\ 1 \in DOMAIN tail /\ Head(tail) = tail[1] /\ JobOK(Head(tail))
        /\ i \in Lanes /\ Head(tail).goal \in GoalType
    BY HeadParts
  <1>2. /\ PaneOK(u) /\ PaneJobs(u) /\ FlightOf(u, i) /\ Linked(u) /\ u.lanes = lanes /\ u.pane = pane /\ u.tail = tail
        /\ \A j \in Lanes : u.lanes[j].used => LaneOK(u.lanes[j])
    BY <1>1, WellParts, UiParts
  <1> HIDE DEF u
  <1>3. lanes[i].used /\ LaneOK(lanes[i]) /\ i # NoLane
    BY <1>1, <1>2, EnvAssumption DEF Linked, NoLane
  <1>4. 1 \in Syncs(tail, i)
    BY <1>1 DEF Syncs
  <1>5. lanes[i].queue.flight # Queue!NoFlight
    BY <1>2, <1>3, <1>4 DEF FlightOf
  <1>6. PICK k \in DOMAIN tail : /\ Syncs(tail, i) = {k}
                                 /\ tail[k].goal = lanes[i].queue.flight.goal /\ tail[k].fp = lanes[i].fp
    BY <1>2, <1>3, <1>5 DEF FlightOf
  <1>7. k = 1 /\ Head(tail).goal = lanes[i].queue.flight.goal /\ Head(tail).fp = lanes[i].fp
    BY <1>1, <1>4, <1>6
  <1>8. Head(tail).goal \in EnvType
    BY <1>1 DEF JobOK, GoalType
  <1>9. /\ \A m \in DOMAIN t : m \in Nat /\ m # 0 /\ m + 1 \in DOMAIN tail /\ t[m] = tail[m + 1]
        /\ \A m \in Syncs(t, i) : m \in DOMAIN t
        /\ \A m \in DOMAIN t : m \in Syncs(t, i) <=> m + 1 \in Syncs(tail, i)
    BY <1>1, ShiftParts
  <1> HIDE DEF t, i
  <1>10. Syncs(t, i) = {}
    <2>1. ASSUME NEW m \in Syncs(t, i) PROVE FALSE
      <3>1. m \in Nat /\ m # 0 /\ m + 1 \in Syncs(tail, i)
        BY <1>9
      <3>2. m + 1 = 1
        BY <1>6, <1>7, <3>1
      <3>3. QED BY <3>1, <3>2
    <2>2. QED BY <2>1
  <1>11. ASSUME NEW m \in DOMAIN t, t[m].kind = "delete", t[m].lane = i PROVE FALSE
    <2>1. m \in Nat /\ m # 0 /\ m + 1 \in DOMAIN tail /\ t[m] = tail[m + 1]
      BY <1>9
    <2>2. i = pane.lane /\ \A n \in Syncs(tail, i) : m + 1 < n
      BY <1>2, <1>11, <2>1 DEF PaneJobs
    <2>3. QED BY <1>4, <2>1, <2>2
  <1>12. pane.lane = i /\ ~lanes[i].fp.stored => pane.phase # "closing" /\ pane.confirm = "none"
    BY <1>2, <1>5 DEF PaneOK
  <1>13. QED BY <1>1, <1>3, <1>5, <1>7, <1>8, <1>10, <1>11, <1>12 DEF i, t

\* Its lane takes what it has learnt, and may send again.
LEMMA SettlePut ==
    ASSUME WellFormed(Ui), tail # <<>>, Head(tail).kind = "sync", NEW l, LaneOK(l),
           l.queue.flight = Queue!NoFlight \/ l.queue.flight # lanes[Head(tail).lane].queue.flight,
           lanes[Head(tail).lane].fp.stored => l.fp.stored
    PROVE  WellFormed(Put(Rest, Head(tail).lane, l))
  <1> DEFINE i == Head(tail).lane
             r == Rest
  <1>1. /\ i \in Lanes /\ lanes[i].used /\ Syncs(Tail(tail), i) = {}
        /\ \A k \in DOMAIN Tail(tail) : Tail(tail)[k].kind = "delete" => Tail(tail)[k].lane # i
        /\ pane.lane = i /\ ~lanes[i].fp.stored => pane.phase # "closing" /\ pane.confirm = "none"
    BY WriterParts
  <1>2. /\ Sound(r) /\ r.lanes = lanes /\ r.tail = Tail(tail) /\ r.pane = pane
        /\ \A j \in Lanes : (Head(tail).kind = "sync" /\ Head(tail).lane = j) \/ FlightOf(r, j)
    BY RestKeeps
  <1>3. l.queue.flight = Queue!NoFlight \/ l.queue.flight # lanes[i].queue.flight
    OBVIOUS
  <1>4. lanes[i].fp.stored => l.fp.stored
    OBVIOUS
  <1>5. \A j \in Lanes : j # i => FlightOf(r, j)
    BY <1>2
  <1> HIDE DEF i, r
  <1>6. Fits(r, i, l)
    BY <1>1, <1>2, <1>3, <1>4 DEF Fits
  <1>7. QED BY <1>2, <1>5, <1>6, PutKeeps DEF i, r

\* Sending acknowledges nothing.
LEMMA TrySendAcked ==
    ASSUME NEW q \in QueueType
    PROVE  Queue!TrySend(q).acked = q.acked
  <1>1. q.sendOnSettle \in BOOLEAN
    BY DEF QueueType
  <1>2. CASE ~Queue!Owed(q)
    <2>1. Queue!TrySend(q) = [q EXCEPT !.sendOnSettle = FALSE]
      BY <1>2 DEF Queue!TrySend
    <2>2. QED BY <2>1 DEF QueueType
  <1>3. CASE Queue!Owed(q) /\ q.flight # Queue!NoFlight
    <2> DEFINE late == q.flight.rev # q.head.rev
    <2>1. Queue!TrySend(q) = [q EXCEPT !.sendOnSettle = late]
      BY <1>3 DEF Queue!TrySend
    <2> HIDE DEF late
    <2>2. QED BY <2>1 DEF QueueType
  <1>4. CASE Queue!Owed(q) /\ q.flight = Queue!NoFlight
    <2>1. Queue!TrySend(q) = [q EXCEPT !.flight = q.head, !.sendOnSettle = FALSE, !.timer = FALSE]
      BY <1>4 DEF Queue!TrySend
    <2>2. QED BY <2>1 DEF QueueType
  <1>5. QED BY <1>2, <1>3, <1>4

\* A write that succeeded is what is acknowledged, also when the rest is flushed at once.
LEMMA SettledAcked ==
    ASSUME NEW q \in QueueType
    PROVE  /\ Queue!Settled(q, TRUE).acked = q.flight
           /\ Queue!Flush(q).acked = q.acked
  <1> DEFINE n == [q EXCEPT !.acked = q.flight, !.flight = Queue!NoFlight, !.failed = FALSE]
             m == [q EXCEPT !.timer = FALSE]
  <1>1. n \in QueueType /\ n.acked = q.flight
    BY NoFlightType DEF QueueType
  <1>2. m \in QueueType /\ m.acked = q.acked
    BY DEF QueueType
  <1>3. Queue!Settled(q, TRUE) = IF n.sendOnSettle THEN Queue!TrySend(n) ELSE n
    BY DEF Queue!Settled
  <1>4. Queue!Flush(q) = Queue!TrySend(m)
    BY DEF Queue!Flush
  <1> HIDE DEF n, m
  <1>5. QED BY <1>1, <1>2, <1>3, <1>4, TrySendAcked

\* A lane with the footprint and the queue that a settled write leaves.
Resettled(l, fp, q) == [l EXCEPT !.fp = fp, !.queue = q]

LEMMA ResettledKeeps ==
    ASSUME NEW l, LaneOK(l), NEW fp, FootprintOK(fp), NEW q \in QueueType, QueueOK(q),
           ~fp.stored => ~q.timer
    PROVE  /\ LaneOK(Resettled(l, fp, q))
           /\ Resettled(l, fp, q).fp = fp /\ Resettled(l, fp, q).queue = q
  <1> DEFINE n == [l EXCEPT !.fp = fp, !.queue = q]
  <1>1. n \in LaneType /\ n.fp = fp /\ n.queue = q
    BY DEF LaneOK, LaneType, QueueType, FootprintOK
  <1>2. n = Resettled(l, fp, q)
    BY DEF Resettled
  <1> HIDE DEF n
  <1>3. QED BY <1>1, <1>2 DEF LaneOK

LEMMA WriteSettlesKeeps ==
    ASSUME WellFormed(Ui), WriteSettles
    PROVE  WellFormed(Ui)'
  <1> DEFINE job == Head(tail)
             i == job.lane
             l == lanes[i]
             fp == AfterSync(l.fp, job.goal, TRUE, job.index)
             q == Queue!Settled(l.queue, TRUE)
             next == [l EXCEPT !.fp = fp, !.queue = q]
             created == ~l.fp.stored
             now == IF created THEN Flushed(next) ELSE next
             put == Put(Rest, i, now)
             v == IF created /\ i = pane.lane THEN Attach(put, Stored(job.goal.name)) ELSE put
  <1>1. /\ tail # <<>> /\ job.kind = "sync" /\ job.state = "running" /\ Become(v)
    <2>1. Become(v)
      BY Zenon DEF WriteSettles
    <2> HIDE DEF v
    <2>2. JobEnded /\ Head(tail).kind = "sync" /\ Head(tail).state = "running"
      BY Zenon DEF WriteSettles
    <2>3. QED BY ONLY <2>1, <2>2 DEF JobEnded, job
  <1>2. /\ i \in Lanes /\ i # NoLane /\ LaneOK(l) /\ l.queue.flight # Queue!NoFlight /\ job.goal \in EnvType
        /\ pane.lane = i /\ ~l.fp.stored => pane.phase # "closing" /\ pane.confirm = "none"
        /\ job.goal = l.queue.flight.goal
    BY Zenon, <1>1, WriterParts
  <1>3. job.index \in Nat
    <2> HIDE DEF v
    <2>1. job.kind = "sync" /\ job.state = "running" /\ JobOK(job)
      BY Zenon, <1>1, HeadParts
    <2> HIDE DEF job
    <2>2. QED BY ONLY <2>1 DEF JobOK
  <1>4. job.goal.name \in Names
    BY <1>2 DEF EnvType
  <1>5. FootprintOK(fp) /\ fp.stored /\ fp.name = job.goal.name
    BY <1>3, <1>4 DEF AfterSync, StoredFootprint, FootprintOK, FootprintType
  <1>6. /\ l.queue \in QueueType /\ QueueOK(l.queue)
        /\ q \in QueueType /\ QueueOK(q) /\ q.acked = l.queue.flight
        /\ q.flight = Queue!NoFlight \/ q.flight # l.queue.flight
    <2>1. l.queue \in QueueType /\ QueueOK(l.queue)
      BY <1>2, LaneParts DEF LaneOK
    <2>2. QED BY <1>2, <2>1, SettledKeeps, SettledAcked
  <1> HIDE DEF fp, q
  <1>7. LaneOK(next) /\ next.fp = fp /\ next.queue = q
    <2>1. next = Resettled(l, fp, q)
      BY DEF Resettled
    <2> HIDE DEF l, next
    <2>2. QED BY <1>2, <1>5, <1>6, <2>1, ResettledKeeps
  <1> HIDE DEF next
  <1>8. /\ LaneOK(Flushed(next)) /\ Flushed(next).fp = fp
        /\ Flushed(next).queue.flight = Queue!NoFlight \/ Flushed(next).queue.flight # l.queue.flight
    <2> DEFINE f == Queue!Flush(q)
    <2>1. Moves(next, Flushed(next))
      BY <1>7, FlushedKeeps
    <2>2. f \in QueueType /\ QueueOK(f) /\ f.acked = q.acked
      BY <1>6, FlushKeeps, SettledAcked
    <2>3. Flushed(next).queue = f
      <3> HIDE DEF f
      <3>1. Flushed(next) = [next EXCEPT !.queue = f]
        BY <1>7 DEF Flushed, f
      <3>2. QED BY <1>7, <3>1 DEF LaneOK, LaneType
    <2> HIDE DEF f
    <2>4. f.acked.rev \in Nat /\ f.flight.rev \in Nat
      BY <2>2 DEF QueueType, RevType
    <2>5. f.flight = Queue!NoFlight \/ f.flight # l.queue.flight
      <3>1. f.flight # Queue!NoFlight => f.acked.rev < f.flight.rev
        BY ONLY <2>2 DEF QueueOK
      <3>2. f.acked = l.queue.flight
        BY ONLY <1>6, <2>2
      <3>3. f.flight = f.acked => ~(f.acked.rev < f.flight.rev)
        BY ONLY <2>4
      <3>4. QED BY ONLY <3>1, <3>2, <3>3
    <2>6. QED BY <1>7, <2>1, <2>3, <2>5 DEF Moves
  <1>9. /\ LaneOK(now) /\ now.fp = fp
        /\ now.queue.flight = Queue!NoFlight \/ now.queue.flight # l.queue.flight
    BY <1>6, <1>7, <1>8
  <1> HIDE DEF now
  <1>10. WellFormed(put)
    BY <1>1, <1>5, <1>9, SettlePut
  <1>11. ASSUME created, i = pane.lane
         PROVE  WellFormed(Attach(put, Stored(job.goal.name)))
    <2> DEFINE to == Stored(job.goal.name)
    <2>1. Sound(Rest) /\ Shape(Rest) /\ Rest.lanes = lanes /\ Rest.pane = pane /\ Rest.byName = byName
      BY <1>1, RestKeeps DEF Sound
    <2>2. put.pane.phase = pane.phase /\ put.pane.confirm = pane.confirm
      <3>1. put.pane.phase = Rest.pane.phase /\ put.pane.confirm = Rest.pane.confirm
        BY <1>2, <1>9, <2>1, PutPane
      <3>2. QED BY <2>1, <3>1
    <2>3. put.byName = PutInNames(Rest, i, now)
      BY <1>2, <2>1, PutParts
    <2>4. put.byName[job.goal.name] = i
      <3> HIDE DEF put
      <3>1. now.fp.stored = TRUE /\ l.fp.stored = FALSE
        BY <1>2, <1>5, <1>9, <1>11, LaneParts DEF FootprintOK, FootprintType
      <3>2. Rest.lanes[i].fp.stored = FALSE
        BY <2>1, <3>1
      <3>3. put.byName = [n \in Names |-> IF now.fp.stored /\ n = now.fp.name THEN i
                                          ELSE IF FALSE /\ n = Rest.lanes[i].fp.name /\ Rest.byName[n] = i THEN NoLane
                                          ELSE Rest.byName[n]]
        BY Zenon, <2>3, <3>1, <3>2 DEF PutInNames, Rekeyed
      <3>4. QED BY <1>4, <1>5, <1>9, <3>1, <3>3
    <2>5. Bare(put)
      <3>1. put.pane.phase # "closing" /\ put.pane.confirm # "deleting"
        BY <1>2, <1>11, <2>2
      <3> HIDE DEF put
      <3>2. QED BY <1>10, <3>1, BareWhen
    <2>6. to \in Destinations \ {Closed} /\ CanOpen(put, to)
      <3>1. to \in Destinations /\ to # Closed
        BY <1>4 DEF Stored, Destinations, Closed
      <3>2. to.to = "stored" /\ to.name = job.goal.name
        BY DEF Stored
      <3> HIDE DEF put, to
      <3>3. QED BY <1>2, <2>4, <3>1, <3>2 DEF CanOpen
    <2> HIDE DEF put, to
    <2>7. QED BY <2>5, <2>6, AttachKeeps DEF to
  <1> HIDE DEF put
  <1>12. WellFormed(v)
    BY <1>10, <1>11
  <1> HIDE DEF v
  <1>13. QED BY <1>1, <1>12, BecomeKeeps

\* After a failure the footprint has perhaps one stray more.
LEMMA FailedFootprint ==
    ASSUME NEW fp, FootprintOK(fp), NEW goal \in EnvType
    PROVE  LET f == AfterSync(fp, goal, FALSE, 0)
           IN  FootprintOK(f) /\ f.stored = fp.stored
  <1> DEFINE f == AfterSync(fp, goal, FALSE, 0)
             strays == Append(fp.strays, goal.name)
  <1>1. fp \in FootprintType /\ goal.name \in Names /\ (fp.stored => fp.name \in Names)
    BY DEF FootprintOK, EnvType
  <1>2. strays \in Seq(Names)
    BY <1>1 DEF FootprintType
  <1>3. f = IF goal.name \in Ours(fp) THEN fp ELSE [fp EXCEPT !.strays = strays]
    BY DEF AfterSync
  <1> HIDE DEF f, strays
  <1>4. f \in FootprintType /\ f.stored = fp.stored /\ f.name = fp.name
    BY <1>1, <1>2, <1>3 DEF FootprintType
  <1>5. QED BY Zenon, <1>1, <1>4 DEF FootprintOK, f

LEMMA WriteFailsKeeps ==
    ASSUME WellFormed(Ui), WriteFails
    PROVE  WellFormed(Ui)'
  <1> DEFINE job == Head(tail)
             i == job.lane
             l == lanes[i]
             fp == AfterSync(l.fp, job.goal, FALSE, 0)
             q == Queue!Settled(l.queue, FALSE)
             next == [l EXCEPT !.fp = fp, !.queue = q]
             put == Put(Rest, i, next)
             acked == next.queue.acked.goal
             head == next.queue.head.goal
             reverts == i # pane.lane /\ next.queue.flight = Queue!NoFlight /\ acked # NoGoal
             name == IF head = NoGoal THEN acked.name ELSE head.name
             list == ReplaceEnv(envs, name, acked)
             v == IF reverts THEN SetEnvs(put, list) ELSE put
  <1>1. tail # <<>> /\ job.kind = "sync" /\ Become(v)
    BY Zenon DEF WriteFails, JobEnded
  <1>2. /\ i \in Lanes /\ LaneOK(l) /\ l.queue.flight # Queue!NoFlight /\ job.goal \in EnvType
    BY Zenon, <1>1, WriterParts
  <1>3. FootprintOK(fp) /\ fp.stored = l.fp.stored
    BY <1>2, FailedFootprint DEF LaneOK
  <1>4. /\ q \in QueueType /\ QueueOK(q) /\ (q.timer => l.queue.timer)
        /\ q.flight = Queue!NoFlight \/ q.flight # l.queue.flight
    <2>1. l.queue \in QueueType /\ QueueOK(l.queue)
      BY <1>2, LaneParts DEF LaneOK
    <2>2. QED BY <1>2, <2>1, SettledKeeps
  <1> HIDE DEF fp, q
  <1>5. LaneOK(next) /\ next.fp = fp /\ next.queue = q
    <2>1. next = Resettled(l, fp, q)
      BY DEF Resettled
    <2>2. ~fp.stored => ~q.timer
      BY <1>2, <1>3, <1>4 DEF LaneOK
    <2> HIDE DEF l, next
    <2>3. QED BY <1>2, <1>3, <1>4, <2>1, <2>2, ResettledKeeps
  <1> HIDE DEF next
  <1>6. WellFormed(put)
    BY <1>1, <1>3, <1>4, <1>5, SettlePut
  <1>7. acked \in GoalType
    BY <1>5, LaneParts
  <1>8. reverts => list \in Seq(EnvType)
    <2>1. envs \in Seq(EnvType)
      BY UiParts, WellParts
    <2>2. reverts => acked \in EnvType
      BY <1>7 DEF GoalType
    <2> HIDE DEF acked, name
    <2>3. QED BY <2>1, <2>2, ReplaceKeeps
  <1> HIDE DEF put, list, reverts
  <1>9. WellFormed(v)
    BY <1>6, <1>8, SetEnvsKeeps
  <1> HIDE DEF v
  <1>10. QED BY <1>1, <1>9, BecomeKeeps

\* Behind what a pane waits for, only writes are queued.
LEMMA BareRest ==
    ASSUME WellFormed(Ui), tail # <<>>, Head(tail).kind # "sync"
    PROVE  Bare(Rest)
  <1> DEFINE r == Rest
             t == Tail(tail)
             u == Ui
  <1>1. /\ Sound(r) /\ Shape(r) /\ Linked(r) /\ r.tail = t /\ \A j \in Lanes : FlightOf(r, j)
    BY RestKeeps DEF Sound
  <1>2. PaneJobs(u) /\ u.tail = tail /\ u.pane = pane
    BY WellParts, UiParts
  <1>3. tail \in Seq(JobType) /\ 1 \in DOMAIN tail /\ Head(tail) = tail[1]
        /\ Head(tail).kind \in {"sync", "cleanup", "delete"}
    BY HeadParts
  <1>4. /\ t \in Seq(JobType)
        /\ \A k \in DOMAIN t : k \in Nat /\ k # 0 /\ k + 1 \in DOMAIN tail /\ t[k] = tail[k + 1]
    BY <1>3, ShiftParts
  <1> HIDE DEF r, t, u
  <1>5. ASSUME NEW k \in DOMAIN t PROVE t[k].kind = "sync"
    <2>1. k \in Nat /\ k # 0 /\ k + 1 \in DOMAIN tail /\ t[k] = tail[k + 1]
      BY <1>4
    <2>2. t[k].kind \in {"sync", "cleanup", "delete"}
      BY <1>4, JobParts
    <2>3. t[k].kind # tail[1].kind
      BY <1>2, <1>3, <2>1 DEF PaneJobs
    <2>4. ~(t[k].kind = "cleanup" /\ tail[1].kind = "delete") /\ ~(t[k].kind = "delete" /\ tail[1].kind = "cleanup")
      BY <1>2, <1>3, <2>1 DEF PaneJobs
    <2>5. QED BY <1>3, <2>2, <2>3, <2>4
  <1>6. QED BY <1>1, <1>5 DEF Bare, OnlySyncs, r

LEMMA CleanupSettlesKeeps ==
    ASSUME WellFormed(Ui), CleanupSettles
    PROVE  WellFormed(Ui)'
  <1> DEFINE r == Rest
             to == pane.leaving
             v == Left(r, to)
  <1>1. tail # <<>> /\ Head(tail).kind = "cleanup" /\ CanOpen(r, to) /\ Become(v)
    BY DEF CleanupSettles, JobEnded
  <1>2. Bare(r)
    BY <1>1, BareRest
  <1>3. to \in Destinations
    BY WellParts, UiParts DEF PaneType
  <1> HIDE DEF r, to
  <1>4. WellFormed(v)
    BY <1>1, <1>2, <1>3, LeftKeeps
  <1> HIDE DEF v
  <1>5. QED BY <1>1, <1>4, BecomeKeeps

LEMMA NeighborType ==
    ASSUME NEW list \in Seq(EnvType), NEW name
    PROVE  Neighbor(list, name) \in Destinations \ {Closed}
  <1> DEFINE names == NamesOf(list)
             i == IF name \in ToSet(names) THEN PlaceOf(names, name) ELSE 0
             j == IF i < Len(names) THEN i + 1 ELSE i - 1
  <1>1. Neighbor(list, name) = IF i = 0 \/ Len(names) = 1 THEN Empty ELSE Stored(names[j])
    BY DEF Neighbor
  <1>2. names \in Seq(Names)
    BY NamesOfList
  <1> HIDE DEF names
  <1>3. i = 0 \/ i \in 1 .. Len(names)
    BY <1>2, PlaceIsThere
  <1> HIDE DEF i
  <1>4. i # 0 /\ Len(names) # 1 => j \in 1 .. Len(names) /\ names[j] \in Names
    <2>1. \A k \in 1 .. Len(names) : names[k] \in Names
      BY <1>2
    <2>2. Len(names) \in Nat
      BY <1>2
    <2>3. ASSUME i # 0, Len(names) # 1 PROVE j \in 1 .. Len(names)
      <3>1. i \in Nat /\ i >= 1 /\ i <= Len(names)
        BY <1>3, <2>2, <2>3
      <3>2. CASE i < Len(names)
        BY <2>2, <3>1, <3>2
      <3>3. CASE ~(i < Len(names))
        <4>1. i = Len(names) /\ j = i - 1
          BY <2>2, <3>1, <3>3
        <4>2. QED BY <2>2, <2>3, <3>1, <4>1
      <3>4. QED BY <3>2, <3>3
    <2>4. QED BY <2>1, <2>3
  <1>5. QED BY <1>1, <1>4 DEF Destinations, Stored, Empty, Closed

LEMMA DeleteSettlesKeeps ==
    ASSUME WellFormed(Ui), DeleteSettles
    PROVE  WellFormed(Ui)'
  <1> DEFINE r == Rest
             job == Head(tail)
             to == Neighbor(envs, job.fp.name)
             map == [n \in Names |-> IF n = job.fp.name /\ r.byName[n] = job.lane THEN NoLane ELSE r.byName[n]]
             f == [r EXCEPT !.byName = map]
             v == Attach(f, to)
  <1>1. tail # <<>> /\ job.kind = "delete"
    BY DEF DeleteSettles, JobEnded
  <1>2. CanOpen(f, to) /\ Become(v)
    <2>1. f = [Rest EXCEPT !.byName = [n \in Names |-> IF n = job.fp.name /\ @[n] = job.lane THEN NoLane ELSE @[n]]]
      OBVIOUS
    <2>2. QED BY <2>1 DEF DeleteSettles
  <1>3. Bare(r)
    BY <1>1, BareRest
  <1>4. to \in Destinations \ {Closed}
    <2>1. envs \in Seq(EnvType)
      BY WellParts, UiParts
    <2>2. QED BY <2>1, NeighborType
  <1> HIDE DEF r, to, job
  <1>5. IsUi(r) /\ r.byName \in [Names -> Lanes \cup {NoLane}] /\ Shape(r)
    BY <1>3 DEF Bare, Shape
  <1>6. map \in [Names -> Lanes \cup {NoLane}] /\ \A n \in Names : map[n] \in {r.byName[n], NoLane}
    BY <1>5
  <1> HIDE DEF map
  <1>7. /\ IsUi(f) /\ f.lanes = r.lanes /\ f.byName = map /\ f.tail = r.tail /\ f.pane = r.pane /\ f.envs = r.envs
    BY <1>5 DEF IsUi
  <1> HIDE DEF f
  <1>8. Bare(f)
    <2>1. Shape(f)
      BY <1>5, <1>6, <1>7 DEF Shape
    <2>2. Linked(f)
      BY <1>3, <1>6, <1>7 DEF Bare, Linked
    <2>3. OnlySyncs(f.tail) /\ \A j \in Lanes : FlightOf(f, j)
      BY <1>3, <1>7 DEF Bare, FlightOf
    <2>4. QED BY <2>1, <2>2, <2>3 DEF Bare
  <1>9. WellFormed(v)
    BY <1>2, <1>4, <1>8, AttachKeeps
  <1> HIDE DEF v
  <1>10. QED BY <1>2, <1>9, BecomeKeeps

LEMMA DeleteFailsKeeps ==
    ASSUME WellFormed(Ui), DeleteFails
    PROVE  WellFormed(Ui)'
  <1> DEFINE r == Rest
             p == [r.pane EXCEPT !.confirm = "asking"]
             v == [r EXCEPT !.pane.confirm = "asking"]
  <1>1. tail # <<>> /\ Head(tail).kind = "delete" /\ Become(v)
    BY DEF DeleteFails, JobEnded
  <1>2. Bare(r) /\ Sound(r) /\ r.pane = pane
    BY <1>1, BareRest, RestKeeps
  <1>3. pane.phase = "open" /\ pane.confirm = "deleting"
    <2>1. PaneJobs(Ui) /\ 1 \in DOMAIN Ui.tail /\ Ui.tail[1].kind = "delete"
      BY <1>1, HeadParts, WellParts, UiParts
    <2>2. QED BY <2>1, UiParts DEF PaneJobs
  <1> HIDE DEF r
  <1>4. IsUi(r) /\ r.pane \in PaneType /\ Shape(r) /\ Linked(r) /\ PaneOK(r)
    BY <1>2 DEF Sound, Shape
  <1>5. /\ p \in PaneType /\ p.phase = r.pane.phase /\ p.lane = r.pane.lane /\ p.armed = r.pane.armed
        /\ p.confirm = "asking"
    BY <1>4 DEF PaneType
  <1>6. v = [r EXCEPT !.pane = p]
    BY <1>4 DEF IsUi
  <1> HIDE DEF p, v
  <1>7. /\ IsUi(v) /\ v.lanes = r.lanes /\ v.byName = r.byName /\ v.tail = r.tail /\ v.pane = p /\ v.envs = r.envs
    BY <1>4, <1>6 DEF IsUi
  <1>8. Shape(v) /\ Linked(v)
    BY <1>4, <1>5, <1>7 DEF Shape, Linked
  <1>9. PaneOK(v)
    BY <1>2, <1>3, <1>4, <1>5, <1>7 DEF PaneOK
  <1>10. PaneJobs(v) /\ \A j \in Lanes : FlightOf(v, j)
    BY <1>2, <1>7 DEF Bare, OnlySyncs, PaneJobs, FlightOf
  <1>11. WellFormed(v)
    BY <1>8, <1>9, <1>10 DEF WellFormed, Sound
  <1>12. QED BY <1>1, <1>11, BecomeKeeps DEF v

-----------------------------------------------------------------------------
(* The invariant holds; what lanes and tail know of each other. *)

LEMMA ShowListKeeps ==
    ASSUME WellFormed(Ui), CallsOK, NEW r \in refreshes, ShowList(r)
    PROVE  WellFormed(Ui)'
  <1> DEFINE v == SetEnvs(Ui, r.list)
  <1>1. r.list \in Seq(EnvType) /\ Become(v)
    BY DEF CallsOK, ShowList
  <1>2. WellFormed(v)
    BY <1>1, SetEnvsKeeps
  <1> HIDE DEF v
  <1>3. QED BY <1>1, <1>2, BecomeKeeps

\* Initially nothing is shown, queued or on its way.
LEMMA InitEnv ==
    Init => EnvInv
  <1> SUFFICES ASSUME Init PROVE EnvInv
    OBVIOUS
  <1>1. /\ Ui.lanes = [i \in Lanes |-> Unused] /\ Ui.byName = [n \in Names |-> NoLane] /\ Ui.tail = <<>>
        /\ Ui.pane = NoPane /\ Ui.envs = Initial /\ IsUi(Ui)
    BY UiParts DEF Init
  <1> DEFINE u == Ui
  <1> HIDE DEF u
  <1>2. /\ \A i \in Lanes : u.lanes[i] = Unused /\ ~u.lanes[i].used
        /\ \A n \in Names : u.byName[n] = NoLane
        /\ u.lanes \in [Lanes -> LaneType \cup {Unused}] /\ u.byName \in [Names -> Lanes \cup {NoLane}]
        /\ u.tail = <<>> /\ DOMAIN u.tail = {} /\ u.tail \in Seq(JobType)
        /\ u.pane = NoPane /\ u.envs \in Seq(EnvType) /\ IsUi(u)
    BY <1>1, EnvAssumption DEF Unused, u
  <1>3. Shape(u)
    BY <1>2, NoPaneParts DEF Shape
  <1>4. Linked(u) /\ PaneOK(u) /\ PaneJobs(u)
    BY <1>2, NoPaneParts DEF Linked, PaneOK, PaneJobs
  <1>5. \A j \in Lanes : FlightOf(u, j)
    BY <1>2 DEF FlightOf
  <1>6. WellFormed(Ui)
    BY <1>3, <1>4, <1>5 DEF WellFormed, Sound, u
  <1>7. StoreOK
    BY EnvAssumption DEF Init, StoreOK
  <1>8. CallsOK
    BY DEF Init, CallsOK
  <1>9. QED BY <1>6, <1>7, <1>8 DEF EnvInv

\* What the store and the calls are, after an action that leaves them alone.
Aside == <<store, active, refreshes, selects>>

LEMMA AsideKeeps ==
    ASSUME StoreOK, CallsOK, UNCHANGED Aside
    PROVE  StoreOK' /\ CallsOK'
  BY DEF Aside, StoreOK, CallsOK

LEMMA UserKeeps ==
    ASSUME EnvInv, UserNext \/ TimerFires
    PROVE  EnvInv'
  <1>1. WellFormed(Ui) /\ StoreOK /\ CallsOK
    BY DEF EnvInv
  <1>2. ASSUME NEW n \in Names \cup {NoName}, Rename(n) PROVE EnvInv'
    <2>1. UNCHANGED Aside
      BY <1>2 DEF Rename, LaneSteps, Aside, core
    <2>2. QED BY <1>1, <1>2, <2>1, RenameKeeps, AsideKeeps DEF EnvInv
  <1>3. ASSUME NEW v \in Vals, NEW bad \in BOOLEAN, EditContent(v, bad) PROVE EnvInv'
    <2>1. UNCHANGED Aside
      BY <1>3 DEF EditContent, LaneSteps, Aside, core
    <2>2. QED BY <1>1, <1>3, <2>1, EditContentKeeps, AsideKeeps DEF EnvInv
  <1>4. ASSUME TimerFires \/ Retry \/ Create PROVE EnvInv'
    <2>1. UNCHANGED Aside
      BY <1>4 DEF TimerFires, Retry, Create, LaneSteps, Aside, core
    <2>2. QED BY <1>1, <1>4, <2>1, FlushStepKeeps, AsideKeeps DEF EnvInv
  <1>5. ASSUME NEW n \in Names \cup {NoName}, SelectEnv(n) PROVE EnvInv'
    <2>1. Ui' = Ui /\ UNCHANGED <<store, active, refreshes>>
      BY <1>5 DEF SelectEnv, Ui, core
    <2>2. selects' = selects \cup {[name |-> n, checked |-> FALSE]}
      BY <1>5 DEF SelectEnv
    <2>3. StoreOK' /\ CallsOK'
      <3>1. [name |-> n, checked |-> FALSE] \in [name : Names \cup {NoName}, checked : BOOLEAN]
        OBVIOUS
      <3>2. StoreOK'
        BY <1>1, <2>1 DEF StoreOK
      <3>3. CallsOK'
        BY <1>1, <2>1, <2>2, <3>1 DEF CallsOK
      <3>4. QED BY <3>2, <3>3
    <2>4. QED BY <1>1, <2>1, <2>3 DEF EnvInv
  <1>6. ASSUME NEW to \in Targets, OpenEditor(to) PROVE EnvInv'
    <2>1. UNCHANGED Aside
      BY <1>6 DEF OpenEditor, Aside, core
    <2>2. QED BY <1>1, <1>6, <2>1, OpenEditorKeeps, AsideKeeps DEF EnvInv
  <1>7. ASSUME NEW to \in Targets, LeaveEmpty(to) PROVE EnvInv'
    <2>1. UNCHANGED Aside
      BY <1>7 DEF LeaveEmpty, Aside, core
    <2>2. QED BY <1>1, <1>7, <2>1, LeaveEmptyKeeps, AsideKeeps DEF EnvInv
  <1>8. ASSUME NEW to \in Targets, LeaveStored(to) PROVE EnvInv'
    <2>1. UNCHANGED Aside
      BY <1>8 DEF LeaveStored, Aside, core
    <2>2. QED BY <1>1, <1>8, <2>1, LeaveStoredKeeps, AsideKeeps DEF EnvInv
  <1>9. ASSUME NEW to \in Targets, LeaveNew(to) PROVE EnvInv'
    <2>1. UNCHANGED Aside
      BY <1>9 DEF LeaveNew, Aside, core
    <2>2. QED BY <1>1, <1>9, <2>1, LeaveNewKeeps, AsideKeeps DEF EnvInv
  <1>10. ASSUME RequestDelete PROVE EnvInv'
    <2>1. UNCHANGED Aside
      BY <1>10 DEF RequestDelete, Aside, core
    <2>2. QED BY <1>1, <1>10, <2>1, RequestDeleteKeeps, AsideKeeps DEF EnvInv
  <1>11. ASSUME CancelDelete PROVE EnvInv'
    <2>1. UNCHANGED Aside
      BY <1>11 DEF CancelDelete, Aside, core
    <2>2. QED BY <1>1, <1>11, <2>1, CancelDeleteKeeps, AsideKeeps DEF EnvInv
  <1>12. ASSUME ConfirmDelete PROVE EnvInv'
    <2>1. UNCHANGED Aside
      BY <1>12 DEF ConfirmDelete, Aside, core
    <2>2. QED BY <1>1, <1>12, <2>1, ConfirmDeleteKeeps, AsideKeeps DEF EnvInv
  <1>13. QED
    BY <1>2, <1>3, <1>4, <1>5, <1>6, <1>7, <1>8, <1>9, <1>10, <1>11, <1>12 DEF UserNext

LEMMA TailKeeps ==
    ASSUME EnvInv, TailNext
    PROVE  EnvInv'
  <1>1. WellFormed(Ui) /\ StoreOK /\ CallsOK
    BY DEF EnvInv
  <1>2. ASSUME NEW bump \in BOOLEAN, NEW select \in Names \cup {NoName, "keep"},
               refreshes' = refreshes \cup {Refresh(bump, select)}, UNCHANGED <<store, active, selects>>
        PROVE  StoreOK' /\ CallsOK'
    <2>1. Refresh(bump, select) \in [read : BOOLEAN, list : Seq(EnvType), bump : BOOLEAN,
                                     select : Names \cup {NoName, "keep"}]
      BY DEF Refresh
    <2>2. StoreOK'
      BY <1>1, <1>2 DEF StoreOK
    <2>3. CallsOK'
      BY <1>1, <1>2, <2>1 DEF CallsOK
    <2>4. QED BY <2>2, <2>3
  <1>3. ASSUME JobStarts PROVE EnvInv'
    <2>1. UNCHANGED Aside
      BY <1>3 DEF JobStarts, Aside, core
    <2>2. QED BY <1>1, <1>3, <2>1, JobStartsKeeps, AsideKeeps DEF EnvInv
  <1>4. ASSUME JobStep PROVE EnvInv'
    <2> DEFINE step == Head(Head(tail).steps)
    <2>1. /\ tail # <<>> /\ Head(tail).steps # <<>> /\ ~Refused(store, active, step)
          /\ store' = StoreAfter(store, step) /\ active' = ActiveAfter(active, step)
          /\ UNCHANGED <<refreshes, selects>>
      BY <1>4 DEF JobStep, Running
    <2>2. step \in StepType
      <3>1. Head(tail).steps \in Seq(StepType)
        BY <1>1, <2>1, HeadParts
      <3>2. QED BY <2>1, <3>1
    <2> HIDE DEF step
    <2>3. Store(store) /\ active \in Names \cup {NoName}
      BY <1>1 DEF StoreOK, Store
    <2>4. Store(store') /\ active' \in Names \cup {NoName}
      BY <2>1, <2>2, <2>3, StoreAfterKeeps
    <2>5. StoreOK' /\ CallsOK'
      BY <1>1, <2>1, <2>4 DEF StoreOK, Store, CallsOK
    <2>6. QED BY <1>1, <1>4, <2>5, JobGoesOnKeeps DEF EnvInv
  <1>5. ASSUME JobFails PROVE EnvInv'
    <2>1. UNCHANGED Aside
      BY <1>5 DEF JobFails, Aside, core
    <2>2. QED BY <1>1, <1>5, <2>1, JobGoesOnKeeps, AsideKeeps DEF EnvInv
  <1>6. ASSUME tail # <<>> PROVE Activating(Head(tail).activated) \in Names \cup {NoName, "keep"}
    <2>1. Head(tail).activated \in Names \cup {NoName}
      BY <1>1, <1>6, HeadParts
    <2>2. QED BY <2>1 DEF Activating
  <1>7. ASSUME WriteSettles PROVE EnvInv'
    <2>1. /\ tail # <<>> /\ refreshes' = refreshes \cup {Refresh(TRUE, Activating(Head(tail).activated))}
          /\ UNCHANGED <<store, active, selects>>
      BY <1>7 DEF WriteSettles, JobEnded, core
    <2>2. QED BY <1>1, <1>2, <1>6, <1>7, <2>1, WriteSettlesKeeps DEF EnvInv
  <1>8. ASSUME WriteFails PROVE EnvInv'
    <2>1. UNCHANGED Aside
      BY <1>8 DEF WriteFails, Aside, core
    <2>2. QED BY <1>1, <1>8, <2>1, WriteFailsKeeps, AsideKeeps DEF EnvInv
  <1>9. ASSUME CleanupSettles PROVE EnvInv'
    <2>1. /\ tail # <<>> /\ UNCHANGED <<store, active, selects>>
          /\ \/ refreshes' = refreshes
             \/ refreshes' = refreshes \cup {Refresh(TRUE, Activating(Head(tail).activated))}
      BY <1>9 DEF CleanupSettles, JobEnded, core
    <2>2. refreshes' = refreshes => UNCHANGED Aside
      BY <2>1 DEF Aside
    <2>3. StoreOK' /\ CallsOK'
      BY <1>1, <1>2, <1>6, <2>1, <2>2, AsideKeeps
    <2>4. QED BY <1>1, <1>9, <2>3, CleanupSettlesKeeps DEF EnvInv
  <1>10. ASSUME DeleteSettles PROVE EnvInv'
    <2>1. PICK select \in {NoName, "keep"} : refreshes' = refreshes \cup {Refresh(TRUE, select)}
      BY <1>10 DEF DeleteSettles
    <2>2. UNCHANGED <<store, active, selects>>
      BY <1>10 DEF DeleteSettles, core
    <2>3. QED BY <1>1, <1>2, <1>10, <2>1, <2>2, DeleteSettlesKeeps DEF EnvInv
  <1>11. ASSUME DeleteFails PROVE EnvInv'
    <2>1. UNCHANGED Aside
      BY <1>11 DEF DeleteFails, Aside, core
    <2>2. QED BY <1>1, <1>11, <2>1, DeleteFailsKeeps, AsideKeeps DEF EnvInv
  <1>12. QED
    BY <1>3, <1>4, <1>5, <1>7, <1>8, <1>9, <1>10, <1>11 DEF TailNext

LEMMA CallsKeep ==
    ASSUME EnvInv, ListNext \/ SelectNext
    PROVE  EnvInv'
  <1> DEFINE RefreshType == [read : BOOLEAN, list : Seq(EnvType), bump : BOOLEAN,
                             select : Names \cup {NoName, "keep"}]
             SelectType == [name : Names \cup {NoName}, checked : BOOLEAN]
  <1>1. WellFormed(Ui) /\ StoreOK /\ refreshes \subseteq RefreshType /\ selects \subseteq SelectType /\ CallsOK
    BY DEF EnvInv, CallsOK
  <1>2. ASSUME NEW r \in refreshes, ReadList(r) PROVE EnvInv'
    <2> DEFINE n == [r EXCEPT !.read = TRUE, !.list = store]
    <2>1. /\ refreshes' = (refreshes \ {r}) \cup {n} /\ UNCHANGED <<store, active, selects>> /\ Ui' = Ui
      BY <1>2 DEF ReadList, core, Ui
    <2>2. n \in RefreshType
      BY <1>1 DEF StoreOK
    <2> HIDE DEF n
    <2>3. StoreOK'
      BY <1>1, <2>1 DEF StoreOK
    <2>4. CallsOK'
      BY <1>1, <2>1, <2>2 DEF CallsOK
    <2>5. QED BY <1>1, <2>1, <2>3, <2>4 DEF EnvInv
  <1>3. ASSUME NEW r \in refreshes, ShowList(r) PROVE EnvInv'
    <2> DEFINE n == Refresh(FALSE, "keep")
               s == [name |-> r.select, checked |-> FALSE]
    <2>1. /\ refreshes' \subseteq refreshes \cup {n} /\ UNCHANGED <<store, active>>
          /\ selects' \subseteq selects \cup (IF r.select = "keep" THEN {} ELSE {s})
      BY <1>3 DEF ShowList, core
    <2>2. n \in RefreshType
      BY DEF Refresh
    <2>3. r.select = "keep" \/ s \in SelectType
      BY <1>1
    <2> HIDE DEF n, s
    <2>4. StoreOK'
      BY <1>1, <2>1 DEF StoreOK
    <2>5. CallsOK'
      BY <1>1, <2>1, <2>2, <2>3 DEF CallsOK
    <2>6. QED BY <1>1, <1>3, <2>4, <2>5, ShowListKeeps DEF EnvInv
  <1>4. ASSUME NEW s \in selects, CheckSelect(s) PROVE EnvInv'
    <2> DEFINE n == [s EXCEPT !.checked = TRUE]
    <2>1. /\ selects' \subseteq selects \cup {n} /\ UNCHANGED <<store, active, refreshes>> /\ Ui' = Ui
      BY <1>4 DEF CheckSelect, core, Ui
    <2>2. n \in SelectType
      BY <1>1
    <2> HIDE DEF n
    <2>3. StoreOK'
      BY <1>1, <2>1 DEF StoreOK
    <2>4. CallsOK'
      BY <1>1, <2>1, <2>2 DEF CallsOK
    <2>5. QED BY <1>1, <2>1, <2>3, <2>4 DEF EnvInv
  <1>5. ASSUME NEW s \in selects, WriteSelect(s) PROVE EnvInv'
    <2>1. /\ selects' \subseteq selects /\ UNCHANGED <<store, refreshes>> /\ active' = s.name /\ Ui' = Ui
      BY <1>5 DEF WriteSelect, Ui
    <2>2. s.name \in Names \cup {NoName}
      BY <1>1
    <2>3. StoreOK'
      BY <1>1, <2>1, <2>2 DEF StoreOK
    <2>4. CallsOK'
      BY <1>1, <2>1 DEF CallsOK
    <2>5. QED BY <1>1, <2>1, <2>3, <2>4 DEF EnvInv
  <1>6. QED BY <1>2, <1>3, <1>4, <1>5 DEF ListNext, SelectNext

\* What the lanes, the pane, the tail and the Map know of each other stays true: EnvInv is
\* inductive.
THEOREM Invariance ==
    Spec => []EnvInv
  <1>1. Init => EnvInv
    BY InitEnv
  <1>2. EnvInv /\ [Next]_vars => EnvInv'
    <2> SUFFICES ASSUME EnvInv, [Next]_vars PROVE EnvInv'
      OBVIOUS
    <2>1. CASE UserNext \/ TimerFires
      BY <2>1, UserKeeps
    <2>2. CASE TailNext
      BY <2>2, TailKeeps
    <2>3. CASE ListNext \/ SelectNext
      BY <2>3, CallsKeep
    <2>4. CASE UNCHANGED vars
      BY <2>4 DEF vars, EnvInv, StoreOK, CallsOK, Ui
    <2>5. QED BY <2>1, <2>2, <2>3, <2>4 DEF Next
  <1>3. QED BY <1>1, <1>2, PTL DEF Spec

\* Only what is acknowledged as the last edit has the status of something saved.
LEMMA SavedMeans ==
    ASSUME NEW q \in QueueType, QueueOK(q), Queue!QueueStatus(q) = "saved"
    PROVE  q.acked = q.head
  <1>1. q.head.rev \in Nat /\ q.acked.rev \in Nat
    BY DEF QueueType, RevType
  <1>2. CASE q.head.rev = q.acked.rev
    BY <1>1, <1>2 DEF QueueOK
  <1>3. CASE q.head.rev # q.acked.rev
    <2>1. q.head.goal = NoGoal \/ Queue!Owed(q)
      BY <1>3 DEF Queue!Owed
    <2>2. ~(q.head.goal = NoGoal /\ Queue!Owed(q))
      BY DEF Queue!Owed
    <2>3. Queue!QueueStatus(q) \in {"invalid", "saving", "failed", "held"}
      BY <1>3, <2>1, <2>2 DEF Queue!QueueStatus
    <2>4. QED BY <2>3
  <1>4. QED BY <1>2, <1>3

\* What a lane believes of its writes is what the tail will do: a lane writes exactly when one
\* job of its is queued, with the footprint that the lane still has; a delete is its pane's, and
\* no write of its lane is before it; what has the status of something saved is the last edit.
THEOREM LanesMatch ==
    Spec => []LanesMatchTail
  <1>1. EnvInv => LanesMatchTail
    <2> SUFFICES ASSUME EnvInv PROVE LanesMatchTail
      OBVIOUS
    <2> DEFINE u == Ui
    <2>1. /\ u.lanes = lanes /\ u.byName = byName /\ u.tail = tail /\ u.pane = pane /\ u.envs = envs
      BY UiParts
    <2>2. /\ Linked(u) /\ PaneJobs(u) /\ \A j \in Lanes : FlightOf(u, j)
          /\ lanes \in [Lanes -> LaneType \cup {Unused}]
          /\ \A j \in Lanes : lanes[j].used => LaneOK(lanes[j])
          /\ byName \in [Names -> Lanes \cup {NoLane}]
          /\ tail \in Seq(JobType) /\ pane \in PaneType /\ envs \in Seq(EnvType)
      BY <2>1, WellParts DEF EnvInv
    <2> HIDE DEF u
    <2>3. \A i : SyncJobs(i) = Syncs(tail, i)
      BY DEF SyncJobs, Syncs
    <2>4. TypeOK
      <3>1. /\ pane.phase \in {"closed", "open", "closing"} /\ pane.lane \in Lanes \cup {NoLane}
            /\ pane.confirm \in {"none", "asking", "deleting"} /\ pane.armed \in BOOLEAN
        BY <2>2 DEF PaneType
      <3>2. \A k \in DOMAIN tail : tail[k].kind \in {"sync", "cleanup", "delete"} /\ tail[k].goal \in GoalType
        BY <2>2, JobParts
      <3>3. \A n \in Names : byName[n] # NoLane => lanes[byName[n]].used
        BY <2>1, <2>2 DEF Linked
      <3>4. QED BY <2>2, <3>1, <3>2, <3>3 DEF TypeOK, EnvInv, StoreOK
    <2>5. FlightIsQueued
      BY <2>1, <2>2, <2>3 DEF FlightIsQueued, FlightOf
    <2>6. DeleteKnowsItsNames
      BY <2>1, <2>2, <2>3 DEF DeleteKnowsItsNames, PaneJobs, Shown
    <2>7. SavedIsLastEdit
      <3>1. ASSUME NEW i \in Lanes, lanes[i].used, Queue!QueueStatus(lanes[i].queue) = "saved"
            PROVE  lanes[i].queue.acked = lanes[i].queue.head
        <4>1. lanes[i].queue \in QueueType /\ QueueOK(lanes[i].queue)
          BY <2>2, <3>1, LaneParts DEF LaneOK
        <4>2. QED BY <3>1, <4>1, SavedMeans
      <3>2. QED BY <3>1 DEF SavedIsLastEdit
    <2>8. QED BY <2>4, <2>5, <2>6, <2>7 DEF LanesMatchTail
  <1>2. QED BY <1>1, Invariance, PTL

-----------------------------------------------------------------------------
(* The order of the elements of a sequence. *)

\* One element of a sequence is before another.
Before(s, c, d) == \E i, j \in DOMAIN s : i < j /\ s[i] = c /\ s[j] = d

LEMMA KeptOrder ==
    ASSUME NEW A, NEW seq \in Seq(A), NEW S
    PROVE  /\ IsInjective(seq) => IsInjective(Kept(seq, S))
           /\ \A c, d : Before(Kept(seq, S), c, d) <=> Before(seq, c, d) /\ c \in S /\ d \in S
  <1>1. PICK n \in Nat : \E f \in Surjection(1 .. n, Places(seq, S)) :
             Ascends(f) /\ Kept(seq, S) = [k \in 1 .. n |-> seq[f[k]]]
    BY KeptOrdered
  <1>2. PICK f \in Surjection(1 .. n, Places(seq, S)) :
             Ascends(f) /\ Kept(seq, S) = [k \in 1 .. n |-> seq[f[k]]]
    BY <1>1
  <1> DEFINE kept == Kept(seq, S)
  <1>3. /\ DOMAIN f = 1 .. n
        /\ \A k \in 1 .. n : f[k] \in DOMAIN seq /\ f[k] \in Nat /\ seq[f[k]] \in S
        /\ \A i \in DOMAIN seq : seq[i] \in S => \E k \in 1 .. n : f[k] = i
    BY DEF Surjection, Places
  <1>4. \A j, k \in 1 .. n : j < k <=> f[j] < f[k]
    <2>1. \A j, k \in 1 .. n : j < k => f[j] < f[k]
      BY <1>2, <1>3 DEF Ascends
    <2>2. ASSUME NEW j \in 1 .. n, NEW k \in 1 .. n, f[j] < f[k] PROVE j < k
      <3>1. j \in Int /\ k \in Int /\ f[j] \in Int /\ f[k] \in Int
        BY <1>3
      <3>2. k < j => f[k] < f[j]
        BY <2>1
      <3>3. QED BY <2>2, <3>1, <3>2
    <2>3. QED BY <2>1, <2>2
  <1>5. DOMAIN kept = 1 .. n /\ \A k \in 1 .. n : kept[k] = seq[f[k]]
    BY <1>2
  <1> HIDE DEF kept
  <1>6. ASSUME IsInjective(seq) PROVE IsInjective(kept)
    <2>1. \A j, k \in 1 .. n : f[j] = f[k] => j = k
      BY <1>3, <1>4
    <2>2. QED BY <1>3, <1>5, <1>6, <2>1 DEF IsInjective
  <1>7. ASSUME NEW c, NEW d, Before(kept, c, d) PROVE Before(seq, c, d) /\ c \in S /\ d \in S
    BY <1>3, <1>4, <1>5, <1>7 DEF Before
  <1>8. ASSUME NEW c, NEW d, Before(seq, c, d), c \in S, d \in S PROVE Before(kept, c, d)
    <2>1. PICK i, j \in DOMAIN seq : i < j /\ seq[i] = c /\ seq[j] = d
      BY <1>8 DEF Before
    <2>2. PICK k \in 1 .. n : f[k] = i
      BY <1>3, <1>8, <2>1
    <2>3. PICK m \in 1 .. n : f[m] = j
      BY <1>3, <1>8, <2>1
    <2>4. k < m /\ kept[k] = c /\ kept[m] = d
      BY <1>4, <1>5, <2>1, <2>2, <2>3
    <2>5. QED BY <1>5, <2>4 DEF Before
  <1>9. QED BY <1>6, <1>7, <1>8 DEF kept

LEMMA WithoutOrder ==
    ASSUME NEW A, NEW seq \in Seq(A), NEW gone
    PROVE  /\ IsInjective(seq) => IsInjective(Without(seq, gone))
           /\ \A c, d : Before(Without(seq, gone), c, d) <=> Before(seq, c, d) /\ c \notin gone /\ d \notin gone
  <1> DEFINE S == ToSet(seq) \ gone
  <1>1. \A c, d : Before(seq, c, d) => c \in ToSet(seq) /\ d \in ToSet(seq)
    BY DEF Before, ToSet
  <1>2. Without(seq, gone) = Kept(seq, S) /\ \A c \in ToSet(seq) : c \in S <=> c \notin gone
    BY DEF Without
  <1> HIDE DEF S
  <1>3. QED BY <1>1, <1>2, KeptOrder

\* Two sequences of the same elements in the same order are one.
LEMMA SameSequence ==
    ASSUME NEW A, NEW s \in Seq(A), NEW t \in Seq(A), IsInjective(s), IsInjective(t),
           ToSet(s) = ToSet(t), \A c, d : Before(s, c, d) <=> Before(t, c, d)
    PROVE  s = t
  <1> DEFINE n == Len(s)
             m == Len(t)
             S == ToSet(s)
  <1>1. /\ n \in Nat /\ m \in Nat /\ DOMAIN s = 1 .. n /\ DOMAIN t = 1 .. m
        /\ s = [i \in 1 .. n |-> s[i]] /\ t = [i \in 1 .. m |-> t[i]]
    OBVIOUS
  <1>2. S = {s[i] : i \in 1 .. n} /\ S = {t[i] : i \in 1 .. m}
    BY <1>1 DEF ToSet
  <1> HIDE DEF n, m, S
  <1>3. n = m
    <2>1. s \in Surjection(1 .. n, S) /\ t \in Surjection(1 .. m, S)
      BY <1>1, <1>2 DEF Surjection
    <2>2. s \in Injection(1 .. n, S) /\ t \in Injection(1 .. m, S)
      BY <2>1 DEF Surjection, Injection
    <2>3. \A k \in Nat : IsFiniteSet(1 .. k) /\ Cardinality(1 .. k) = k
      <3>1. ASSUME NEW k \in Nat PROVE IsFiniteSet(1 .. k) /\ Cardinality(1 .. k) = k
        <4>1. 1 \in Int /\ k \in Int
          OBVIOUS
        <4>2. QED BY <4>1, FS_Interval
      <3>2. QED BY <3>1
    <2>4. Cardinality(S) = n /\ Cardinality(S) = m
      <3>1. Cardinality(S) = Cardinality(1 .. n)
        BY <1>1, <2>1, <2>2, <2>3, FS_Surjection
      <3>2. Cardinality(S) = Cardinality(1 .. m)
        BY <1>1, <2>1, <2>2, <2>3, FS_Surjection
      <3>3. QED BY <1>1, <2>3, <3>1, <3>2
    <2>5. QED BY <2>4
  <1> DEFINE T == {k \in 1 .. n : s[k] # t[k]}
  <1>4. ASSUME T # {} PROVE FALSE
    <2>1. T \in SUBSET Nat
      BY <1>1
    <2>2. PICK k \in T : \A j \in T : k <= j
      BY <1>4, <2>1, LeastNumber
    <2>3. k \in 1 .. n /\ k \in Nat /\ s[k] # t[k] /\ \A j \in 1 .. n : j < k => s[j] = t[j]
      BY <2>1, <2>2
    <2>4. PICK j \in 1 .. n : t[j] = s[k]
      BY <1>2, <1>3, <2>3
    <2>5. PICK i \in 1 .. n : s[i] = t[k]
      BY <1>2, <1>3, <2>3
    <2>6. k < j
      <3>1. j # k
        BY <2>3, <2>4
      <3>2. j < k => s[j] = s[k]
        BY <2>3, <2>4
      <3>3. s[j] = s[k] => j = k
        BY <1>1, <2>3 DEF IsInjective
      <3>4. QED BY <2>3, <3>1, <3>2, <3>3
    <2>7. k < i
      <3>1. i # k
        BY <2>3, <2>5
      <3>2. i < k => t[i] = t[k]
        BY <2>3, <2>5
      <3>3. t[i] = t[k] => i = k
        BY <1>1, <1>3, <2>3 DEF IsInjective
      <3>4. QED BY <2>3, <3>1, <3>2, <3>3
    <2>8. Before(s, s[k], t[k])
      BY <1>1, <2>3, <2>5, <2>7 DEF Before
    <2>9. PICK p, q \in 1 .. n : p < q /\ t[p] = s[k] /\ t[q] = t[k]
      <3>1. Before(t, s[k], t[k])
        BY <2>8
      <3>2. QED BY <1>1, <1>3, <3>1 DEF Before
    <2>10. p = j /\ q = k
      BY <1>1, <1>3, <2>3, <2>4, <2>9 DEF IsInjective
    <2>11. QED BY <2>6, <2>9, <2>10
  <1>5. QED
    <2>1. \A k \in 1 .. n : s[k] = t[k]
      BY <1>4
    <2>2. QED BY <1>1, <1>3, <2>1

\* A sequence and what it is without the element at p.
OneLess(s, p, f) ==
    /\ p \in 1 .. Len(s) /\ Len(f) = Len(s) - 1
    /\ \A i \in 1 .. Len(s) - 1 : f[i] = IF i < p THEN s[i] ELSE s[i + 1]

LEMMA OneLessOrder ==
    ASSUME NEW A, NEW s \in Seq(A), NEW f \in Seq(A), NEW p, OneLess(s, p, f)
    PROVE  /\ IsInjective(s) <=> IsInjective(f) /\ s[p] \notin ToSet(f)
           /\ ToSet(s) = ToSet(f) \cup {s[p]}
           /\ IsInjective(s) =>
                \A c, d : Before(f, c, d) <=> Before(s, c, d) /\ c # s[p] /\ d # s[p]
  <1> DEFINE n == Len(s)
  <1>1. n \in Nat /\ p \in Nat /\ p >= 1 /\ p <= n /\ DOMAIN s = 1 .. n
    BY DEF OneLess
  <1>5. DOMAIN f = 1 .. n - 1 /\ \A i \in 1 .. n - 1 : f[i] = IF i < p THEN s[i] ELSE s[i + 1]
    BY <1>1 DEF OneLess
  <1> HIDE DEF n
  <1> DEFINE up(i) == IF i < p THEN i ELSE i + 1
  <1>6. /\ \A i \in 1 .. n - 1 : up(i) \in 1 .. n /\ up(i) # p /\ up(i) \in Int /\ i \in Int /\ f[i] = s[up(i)]
        /\ \A i \in 1 .. n : i # p => \E j \in 1 .. n - 1 : up(j) = i
        /\ \A i, j \in 1 .. n - 1 : i < j <=> up(i) < up(j)
        /\ \A i, j \in 1 .. n - 1 : up(i) = up(j) => i = j
    <2>1. \A i \in 1 .. n - 1 : up(i) \in 1 .. n /\ up(i) # p /\ up(i) \in Int /\ i \in Int
      BY <1>1
    <2>2. ASSUME NEW i \in 1 .. n, i # p PROVE \E j \in 1 .. n - 1 : up(j) = i
      <3>1. CASE i < p
        <4>1. i \in 1 .. n - 1 /\ up(i) = i
          BY <1>1, <3>1
        <4>2. QED BY <4>1
      <3>2. CASE ~(i < p)
        <4>1. i - 1 \in 1 .. n - 1 /\ up(i - 1) = i
          BY <1>1, <2>2, <3>2
        <4>2. QED BY <4>1
      <3>3. QED BY <3>1, <3>2
    <2>3. \A i, j \in 1 .. n - 1 : (i < j <=> up(i) < up(j)) /\ (up(i) = up(j) => i = j)
      BY <1>1
    <2>4. \A i \in 1 .. n - 1 : f[i] = s[up(i)]
      BY <1>5
    <2> HIDE DEF up
    <2>5. QED BY <2>1, <2>2, <2>3, <2>4
  <1> HIDE DEF up
  <1>7. ASSUME IsInjective(s) PROVE \A i \in 1 .. n : s[i] = s[p] => i = p
    BY <1>1, <1>7 DEF IsInjective
  <1>8. ASSUME IsInjective(s) PROVE IsInjective(f) /\ s[p] \notin ToSet(f)
    <2>1. IsInjective(f)
      BY <1>1, <1>5, <1>6, <1>8 DEF IsInjective
    <2>2. \A i \in 1 .. n - 1 : f[i] # s[p]
      BY <1>6, <1>7, <1>8
    <2>3. QED BY <1>5, <2>1, <2>2 DEF ToSet
  <1>i. ASSUME IsInjective(f), s[p] \notin ToSet(f) PROVE IsInjective(s)
    <2>1. \A i \in 1 .. n : i # p => \E k \in 1 .. n - 1 : up(k) = i /\ f[k] = s[i] /\ f[k] # s[p]
      <3>1. \A k \in 1 .. n - 1 : f[k] # s[p]
        BY <1>5, <1>i DEF ToSet
      <3>2. QED BY <1>6, <3>1
    <2>2. \A k, m \in 1 .. n - 1 : f[k] = f[m] => k = m
      BY <1>5, <1>i DEF IsInjective
    <2>3. ASSUME NEW i \in 1 .. n, NEW j \in 1 .. n, s[i] = s[j] PROVE i = j
      <3>1. i = p <=> j = p
        BY <2>1, <2>3
      <3>2. CASE i # p
        <4>1. PICK k \in 1 .. n - 1 : up(k) = i /\ f[k] = s[i]
          BY <2>1, <3>2
        <4>2. PICK m \in 1 .. n - 1 : up(m) = j /\ f[m] = s[j]
          BY <2>1, <3>1, <3>2
        <4>3. k = m
          BY <2>2, <2>3, <4>1, <4>2
        <4>4. QED BY <4>1, <4>2, <4>3
      <3>3. QED BY <3>1, <3>2
    <2>4. QED BY <1>1, <2>3 DEF IsInjective
  <1>9. ToSet(s) = ToSet(f) \cup {s[p]}
    <2>1. ASSUME NEW e \in ToSet(f) \cup {s[p]} PROVE e \in ToSet(s)
      <3>1. CASE e = s[p]
        BY <1>1, <3>1 DEF ToSet
      <3>2. CASE e \in ToSet(f)
        <4>1. PICK k \in 1 .. n - 1 : f[k] = e
          BY <1>5, <3>2 DEF ToSet
        <4>2. up(k) \in 1 .. n /\ s[up(k)] = e
          BY <1>6, <4>1
        <4>3. QED BY <1>1, <4>2 DEF ToSet
      <3>3. QED BY <2>1, <3>1, <3>2
    <2>2. ASSUME NEW e \in ToSet(s), e # s[p] PROVE e \in ToSet(f)
      <3>1. PICK i \in 1 .. n : s[i] = e
        BY <1>1, <2>2 DEF ToSet
      <3>2. PICK j \in 1 .. n - 1 : up(j) = i
        BY <1>6, <2>2, <3>1
      <3>3. f[j] = e
        BY <1>6, <3>1, <3>2
      <3>4. QED BY <1>5, <3>3 DEF ToSet
    <2>3. QED BY <2>1, <2>2
  <1>10. ASSUME IsInjective(s), NEW c, NEW d, Before(f, c, d) PROVE Before(s, c, d) /\ c # s[p] /\ d # s[p]
    <2>1. PICK i, j \in 1 .. n - 1 : i < j /\ f[i] = c /\ f[j] = d
      BY <1>5, <1>10 DEF Before
    <2>2. up(i) < up(j) /\ s[up(i)] = c /\ s[up(j)] = d /\ up(i) \in 1 .. n /\ up(j) \in 1 .. n
      BY <1>6, <2>1
    <2>3. QED BY <1>1, <1>6, <1>7, <1>10, <2>2 DEF Before
  <1>11. ASSUME IsInjective(s), NEW c, NEW d, Before(s, c, d), c # s[p], d # s[p] PROVE Before(f, c, d)
    <2>1. PICK i, j \in 1 .. n : i < j /\ s[i] = c /\ s[j] = d
      BY <1>1, <1>11 DEF Before
    <2>2. PICK k \in 1 .. n - 1 : up(k) = i
      BY <1>6, <1>11, <2>1
    <2>3. PICK m \in 1 .. n - 1 : up(m) = j
      BY <1>6, <1>11, <2>1
    <2>4. k < m /\ f[k] = c /\ f[m] = d
      BY <1>6, <2>1, <2>2, <2>3
    <2>5. QED BY <1>5, <2>4 DEF Before
  <1>12. QED BY <1>8, <1>9, <1>10, <1>11, <1>i

\* A sequence without one of its elements, with one more, and with one more at the end.
LEMMA RemoveOrder ==
    ASSUME NEW A, NEW s \in Seq(A), IsInjective(s), NEW p \in 1 .. Len(s)
    PROVE  /\ RemoveAt(s, p) \in Seq(A) /\ OneLess(s, p, RemoveAt(s, p))
           /\ IsInjective(RemoveAt(s, p))
           /\ ToSet(RemoveAt(s, p)) = ToSet(s) \ {s[p]}
           /\ \A c, d : Before(RemoveAt(s, p), c, d) <=> Before(s, c, d) /\ c # s[p] /\ d # s[p]
  <1> DEFINE f == RemoveAt(s, p)
             n == Len(s)
             a == SubSeq(s, 1, p - 1)
             b == SubSeq(s, p + 1, n)
  <1>1. n \in Nat /\ p \in Nat /\ p >= 1 /\ p <= n /\ DOMAIN s = 1 .. n
    OBVIOUS
  <1>2. /\ a \in Seq(A) /\ b \in Seq(A)
        /\ Len(a) = p - 1 /\ Len(b) = n - p
        /\ \A i \in 1 .. Len(a) : a[i] = s[i]
        /\ \A i \in 1 .. Len(b) : b[i] = s[i + p]
    <2>0. \A i \in 1 .. n : s[i] \in A
      BY <1>1
    <2>1. /\ a \in Seq(A) /\ Len(a) = p - 1
          /\ \A i \in 1 .. p - 1 : a[i] = s[i]
      <3>1. p - 1 \in Int /\ 1 \in Int /\ \A i \in 1 .. p - 1 : s[i] \in A
        BY <1>1, <2>0
      <3>2. /\ a \in Seq(A) /\ Len(a) = IF 1 <= p - 1 THEN (p - 1) - 1 + 1 ELSE 0
            /\ \A i \in 1 .. (p - 1) - 1 + 1 : a[i] = s[1 + i - 1]
        BY <3>1, SubSeqProperties
      <3> HIDE DEF a
      <3>3. QED BY <1>1, <3>2
    <2>2. b \in Seq(A) /\ Len(b) = n - p /\ \A i \in 1 .. n - p : b[i] = s[i + p]
      <3>1. p + 1 \in Int /\ n \in Int /\ \A i \in p + 1 .. n : s[i] \in A
        BY <1>1, <2>0
      <3>2. /\ b \in Seq(A) /\ Len(b) = IF p + 1 <= n THEN n - (p + 1) + 1 ELSE 0
            /\ \A i \in 1 .. n - (p + 1) + 1 : b[i] = s[(p + 1) + i - 1]
        BY <3>1, SubSeqProperties
      <3> HIDE DEF b, n
      <3>3. Len(b) = n - p
        BY <1>1, <3>2
      <3>4. \A i \in 1 .. n - p : i \in 1 .. n - (p + 1) + 1 /\ (p + 1) + i - 1 = i + p
        BY <1>1
      <3>5. QED BY <3>2, <3>3, <3>4
    <2> HIDE DEF a, b, n
    <2>3. QED BY <2>1, <2>2
  <1>3. f = a \o b
    BY DEF RemoveAt
  <1> HIDE DEF a, b, f, n
  <1>4. /\ f \in Seq(A) /\ Len(f) = Len(a) + Len(b)
        /\ \A i \in 1 .. Len(a) + Len(b) : f[i] = IF i <= Len(a) THEN a[i] ELSE b[i - Len(a)]
    <2>1. a \in Seq(A) /\ b \in Seq(A)
      BY <1>2
    <2>2. QED BY <1>3, <2>1, ConcatProperties
  <1>5. /\ Len(f) = n - 1 /\ DOMAIN f = 1 .. n - 1
        /\ \A i \in 1 .. n - 1 : f[i] = IF i < p THEN s[i] ELSE s[i + 1]
    <2>1. Len(f) = n - 1 /\ DOMAIN f = 1 .. n - 1
      BY <1>1, <1>2, <1>4
    <2>2. ASSUME NEW i \in 1 .. n - 1 PROVE f[i] = IF i < p THEN s[i] ELSE s[i + 1]
      <3>1. CASE i < p
        BY <1>1, <1>2, <1>4, <2>1, <3>1
      <3>2. CASE ~(i < p)
        <4>1. i - Len(a) \in 1 .. Len(b) /\ (i - Len(a)) + p = i + 1 /\ ~(i <= Len(a))
          BY <1>1, <1>2, <3>2
        <4>2. QED BY <1>2, <1>4, <2>1, <3>2, <4>1
      <3>3. QED BY <3>1, <3>2
    <2>3. QED BY <2>1, <2>2
  <1>6. OneLess(s, p, f)
    BY <1>5 DEF OneLess, n
  <1>7. QED BY <1>4, <1>6, OneLessOrder DEF f

LEMMA InsertOrder ==
    ASSUME NEW A, NEW s \in Seq(A), IsInjective(s), NEW p \in 1 .. Len(s) + 1, NEW e \in A, e \notin ToSet(s)
    PROVE  /\ InsertAt(s, p, e) \in Seq(A) /\ OneLess(InsertAt(s, p, e), p, s) /\ InsertAt(s, p, e)[p] = e
           /\ Len(InsertAt(s, p, e)) = Len(s) + 1
           /\ IsInjective(InsertAt(s, p, e))
           /\ \A c, d : c # e /\ d # e => (Before(InsertAt(s, p, e), c, d) <=> Before(s, c, d))
  <1> DEFINE z == InsertAt(s, p, e)
             n == Len(s)
             a == SubSeq(s, 1, p - 1)
             b == SubSeq(s, p, n)
             ae == a \o <<e>>
  <1>1. n \in Nat /\ p \in Nat /\ p >= 1 /\ p <= n + 1 /\ DOMAIN s = 1 .. n
    OBVIOUS
  <1>2. /\ a \in Seq(A) /\ b \in Seq(A)
        /\ Len(a) = p - 1 /\ Len(b) = n - p + 1
        /\ \A i \in 1 .. p - 1 : a[i] = s[i]
        /\ \A i \in 1 .. n - p + 1 : b[i] = s[p + i - 1]
    <2>0. \A i \in 1 .. n : s[i] \in A
      BY <1>1
    <2>1. /\ a \in Seq(A) /\ Len(a) = p - 1
          /\ \A i \in 1 .. p - 1 : a[i] = s[i]
      <3>1. p - 1 \in Int /\ 1 \in Int /\ \A i \in 1 .. p - 1 : s[i] \in A
        BY <1>1, <2>0
      <3>2. /\ a \in Seq(A) /\ Len(a) = IF 1 <= p - 1 THEN (p - 1) - 1 + 1 ELSE 0
            /\ \A i \in 1 .. (p - 1) - 1 + 1 : a[i] = s[1 + i - 1]
        BY <3>1, SubSeqProperties
      <3> HIDE DEF a
      <3>3. QED BY <1>1, <3>2
    <2>2. b \in Seq(A) /\ Len(b) = n - p + 1 /\ \A i \in 1 .. n - p + 1 : b[i] = s[p + i - 1]
      <3>1. p \in Int /\ n \in Int /\ \A i \in p .. n : s[i] \in A
        BY <1>1, <2>0
      <3>2. /\ b \in Seq(A) /\ Len(b) = IF p <= n THEN n - p + 1 ELSE 0
            /\ \A i \in 1 .. n - p + 1 : b[i] = s[p + i - 1]
        BY <3>1, SubSeqProperties
      <3> HIDE DEF b, n
      <3>3. QED BY <1>1, <3>2
    <2> HIDE DEF a, b, n
    <2>3. QED BY <2>1, <2>2
  <1>3. z = ae \o b
    BY DEF InsertAt
  <1> HIDE DEF a, b, n, z
  <1>4. ae \in Seq(A) /\ Len(ae) = p /\ ae[p] = e /\ \A i \in 1 .. p - 1 : ae[i] = s[i]
    <2>1. ae = Append(a, e)
      BY <1>2
    <2>2. /\ ae \in Seq(A) /\ Len(ae) = Len(a) + 1
          /\ \A i \in 1 .. Len(a) : ae[i] = a[i]
          /\ ae[Len(a) + 1] = e
      BY <1>2, <2>1, AppendProperties
    <2> HIDE DEF ae
    <2>3. Len(a) + 1 = p
      BY <1>1, <1>2
    <2>4. QED BY <1>2, <2>2, <2>3
  <1> HIDE DEF ae
  <1>5. /\ z \in Seq(A) /\ Len(z) = p + Len(b)
        /\ \A i \in 1 .. p + Len(b) : z[i] = IF i <= p THEN ae[i] ELSE b[i - p]
    <2>1. ae \in Seq(A) /\ b \in Seq(A)
      BY <1>2, <1>4
    <2>2. /\ z \in Seq(A) /\ Len(z) = Len(ae) + Len(b)
          /\ \A i \in 1 .. Len(ae) + Len(b) : z[i] = IF i <= Len(ae) THEN ae[i] ELSE b[i - Len(ae)]
      BY <1>3, <2>1, ConcatProperties
    <2>3. QED BY <1>4, <2>2
  <1>6. Len(z) = n + 1 /\ p + Len(b) = n + 1
    BY <1>1, <1>2, <1>5
  <1>7. z[p] = e
    BY <1>1, <1>4, <1>5, <1>6
  <1>8. ASSUME NEW i \in 1 .. n PROVE s[i] = IF i < p THEN z[i] ELSE z[i + 1]
    <2>1. CASE i < p
      <3>1. i \in 1 .. p + Len(b) /\ i <= p /\ i \in 1 .. p - 1
        BY <1>1, <1>6, <2>1
      <3>2. QED BY <1>4, <1>5, <2>1, <3>1
    <2>2. CASE ~(i < p)
      <3>1. i + 1 \in 1 .. p + Len(b) /\ ~(i + 1 <= p) /\ (i + 1) - p \in 1 .. n - p + 1 /\ p + ((i + 1) - p) - 1 = i
        BY <1>1, <1>6, <2>2
      <3>2. z[i + 1] = b[(i + 1) - p]
        BY <1>5, <3>1
      <3>3. b[(i + 1) - p] = s[i]
        BY <1>2, <3>1
      <3>4. QED BY <2>2, <3>2, <3>3
    <2>3. QED BY <2>1, <2>2
  <1>9. OneLess(z, p, s)
    <2>1. (n + 1) - 1 = n /\ p \in 1 .. n + 1
      BY <1>1
    <2>2. QED BY <1>6, <1>8, <2>1 DEF OneLess, n
  <1>10. IsInjective(z)
    BY <1>5, <1>7, <1>9, OneLessOrder
  <1>11. \A c, d : c # e /\ d # e => (Before(z, c, d) <=> Before(s, c, d))
    BY <1>5, <1>7, <1>9, <1>10, OneLessOrder
  <1>12. QED BY <1>5, <1>6, <1>7, <1>9, <1>10, <1>11 DEF z, n

LEMMA AppendOrder ==
    ASSUME NEW A, NEW s \in Seq(A), NEW e \in A
    PROVE  /\ Append(s, e) \in Seq(A) /\ OneLess(Append(s, e), Len(s) + 1, s)
           /\ Append(s, e)[Len(s) + 1] = e /\ ToSet(Append(s, e)) = ToSet(s) \cup {e}
           /\ IsInjective(s) /\ e \notin ToSet(s) =>
                /\ IsInjective(Append(s, e))
                /\ \A c, d : c # e /\ d # e => (Before(Append(s, e), c, d) <=> Before(s, c, d))
  <1> DEFINE z == Append(s, e)
             n == Len(s)
  <1>1. n \in Nat
    OBVIOUS
  <1>2. z \in Seq(A) /\ Len(z) = n + 1 /\ z[n + 1] = e /\ \A i \in 1 .. n : z[i] = s[i]
    BY AppendProperties
  <1> HIDE DEF z
  <1>3. OneLess(z, n + 1, s)
    <2> HIDE DEF n
    <2>1. (n + 1) - 1 = n /\ n + 1 \in 1 .. n + 1 /\ \A i \in 1 .. n : i < n + 1
      BY <1>1
    <2>2. QED BY <1>2, <2>1 DEF OneLess, n
  <1>4. /\ IsInjective(z) <=> IsInjective(s) /\ e \notin ToSet(s)
        /\ ToSet(z) = ToSet(s) \cup {e}
        /\ IsInjective(z) => \A c, d : Before(s, c, d) <=> Before(z, c, d) /\ c # e /\ d # e
    <2>1. s \in Seq(A) /\ z \in Seq(A) /\ z[n + 1] = e
      BY <1>2
    <2> HIDE DEF n
    <2>2. QED BY <1>3, <2>1, OneLessOrder
  <1>5. QED BY <1>2, <1>3, <1>4 DEF z

-----------------------------------------------------------------------------
(* What a command does to the names and to what is stored under them. *)

Named(names, name) == IF name \in ToSet(names) THEN names ELSE Append(names, name)

LEMMA ContentIs ==
    ASSUME NEW list, Store(list), NEW i \in 1 .. Len(list)
    PROVE  Content(list, list[i].name) = list[i].val
  <1>1. list \in Seq(EnvType) /\ \A j, k \in 1 .. Len(list) : list[j].name = list[k].name => j = k
    BY StoreMeans DEF Store
  <1>2. DOMAIN NamesOf(list) = 1 .. Len(list) /\ \A j \in 1 .. Len(list) : NamesOf(list)[j] = list[j].name
    BY <1>1, NamesOfList
  <1> DEFINE p == PlaceOf(NamesOf(list), list[i].name)
  <1>3. p \in 1 .. Len(list) /\ NamesOf(list)[p] = list[i].name
    BY <1>2 DEF PlaceOf
  <1>4. Content(list, list[i].name) = list[p].val
    BY DEF Content
  <1> HIDE DEF p
  <1>5. p = i
    BY <1>1, <1>2, <1>3
  <1>6. QED BY <1>4, <1>5

LEMMA HasMeans ==
    ASSUME NEW list \in Seq(EnvType), NEW n
    PROVE  /\ Has(list, n) <=> \E i \in 1 .. Len(list) : list[i].name = n
           /\ Has(list, n) <=> n \in ToSet(NamesOf(list))
  BY DEF Has, NamesOf, ToSet

LEMMA UpsertSays ==
    ASSUME NEW list, Store(list), NEW env \in EnvType
    PROVE  /\ NamesOf(Upsert(list, env)) = Named(NamesOf(list), env.name)
           /\ Content(Upsert(list, env), env.name) = env.val
           /\ \A n : Has(list, n) /\ n # env.name => Content(Upsert(list, env), n) = Content(list, n)
  <1> DEFINE new == Upsert(list, env)
  <1>1. list \in Seq(EnvType) /\ Store(new) /\ new \in Seq(EnvType)
    BY UpsertKeeps DEF Store
  <1>2. /\ DOMAIN NamesOf(list) = 1 .. Len(list) /\ \A j \in 1 .. Len(list) : NamesOf(list)[j] = list[j].name
        /\ NamesOf(list) \in Seq(Names) /\ Len(NamesOf(list)) = Len(list)
    BY <1>1, NamesOfList
  <1>3. /\ DOMAIN NamesOf(new) = 1 .. Len(new) /\ \A j \in 1 .. Len(new) : NamesOf(new)[j] = new[j].name
        /\ NamesOf(new) \in Seq(Names) /\ Len(NamesOf(new)) = Len(new)
    BY <1>1, NamesOfList
  <1>4. Has(list, env.name) <=> env.name \in ToSet(NamesOf(list))
    BY <1>1, HasMeans
  <1>5. CASE Has(list, env.name)
    <2>1. /\ Len(new) = Len(list)
          /\ \A i \in 1 .. Len(list) : new[i] = IF list[i].name = env.name THEN env ELSE list[i]
      BY <1>1, <1>5 DEF Upsert
    <2>2. \A i \in 1 .. Len(list) : new[i].name = list[i].name
      BY <2>1
    <2> HIDE DEF new
    <2>3. NamesOf(new) = NamesOf(list)
      BY <1>2, <1>3, <2>1, <2>2
    <2>4. PICK k \in 1 .. Len(list) : list[k].name = env.name
      BY <1>1, <1>5, HasMeans
    <2>5. Content(new, env.name) = env.val
      <3>1. new[k] = env /\ k \in 1 .. Len(new)
        BY <2>1, <2>4
      <3>2. Content(new, new[k].name) = new[k].val
        BY <1>1, <3>1, ContentIs
      <3>3. QED BY <3>1, <3>2
    <2>6. ASSUME NEW n, Has(list, n), n # env.name PROVE Content(new, n) = Content(list, n)
      <3>1. PICK i \in 1 .. Len(list) : list[i].name = n
        BY <1>1, <2>6, HasMeans
      <3>2. new[i] = list[i] /\ i \in 1 .. Len(new)
        BY <2>1, <2>6, <3>1
      <3>3. Content(new, new[i].name) = new[i].val /\ Content(list, list[i].name) = list[i].val
        BY <1>1, <3>2, ContentIs
      <3>4. QED BY <3>1, <3>2, <3>3
    <2>7. QED BY <1>4, <1>5, <2>3, <2>5, <2>6 DEF Named, new
  <1>6. CASE ~Has(list, env.name)
    <2>1. new = Append(list, env)
      BY <1>6 DEF Upsert
    <2>2. /\ Len(new) = Len(list) + 1 /\ Len(list) \in Nat /\ new[Len(list) + 1] = env
          /\ \A i \in 1 .. Len(list) : new[i] = list[i]
      BY <1>1, <2>1, AppendProperties
    <2> HIDE DEF new
    <2>3. NamesOf(new) = Append(NamesOf(list), env.name)
      <3>1. env.name \in Names
        BY DEF EnvType
      <3> DEFINE m == Append(NamesOf(list), env.name)
      <3>2. /\ m \in Seq(Names) /\ Len(m) = Len(list) + 1 /\ m[Len(list) + 1] = env.name
            /\ \A i \in 1 .. Len(list) : m[i] = NamesOf(list)[i]
        BY <1>2, <3>1, AppendProperties
      <3> HIDE DEF m
      <3>3. \A i \in 1 .. Len(list) + 1 : m[i] = NamesOf(new)[i]
        BY <1>2, <1>3, <2>2, <3>2
      <3>4. QED BY <1>3, <2>2, <3>2, <3>3 DEF m
    <2>5. Content(new, env.name) = env.val
      <3>1. Len(list) + 1 \in 1 .. Len(new)
        BY <2>2
      <3>2. Content(new, new[Len(list) + 1].name) = new[Len(list) + 1].val
        BY <1>1, <3>1, ContentIs
      <3>3. QED BY <2>2, <3>2
    <2>6. ASSUME NEW n, Has(list, n), n # env.name PROVE Content(new, n) = Content(list, n)
      <3>1. PICK i \in 1 .. Len(list) : list[i].name = n
        BY <1>1, <2>6, HasMeans
      <3>2. new[i] = list[i] /\ i \in 1 .. Len(new)
        BY <2>2, <3>1
      <3>3. Content(new, new[i].name) = new[i].val /\ Content(list, list[i].name) = list[i].val
        BY <1>1, <3>2, ContentIs
      <3>4. QED BY <3>1, <3>2, <3>3
    <2>7. QED BY <1>4, <1>6, <2>3, <2>5, <2>6 DEF Named, new
  <1>7. QED BY <1>5, <1>6

LEMMA RemoveSays ==
    ASSUME NEW list, Store(list), NEW name, Has(list, name)
    PROVE  LET new == RemoveAt(list, PlaceOf(NamesOf(list), name))
           IN  /\ ToSet(NamesOf(new)) = ToSet(NamesOf(list)) \ {name}
               /\ \A c, d : Before(NamesOf(new), c, d) <=> Before(NamesOf(list), c, d) /\ c # name /\ d # name
               /\ \A n : Has(list, n) /\ n # name => Content(new, n) = Content(list, n)
  <1> DEFINE p == PlaceOf(NamesOf(list), name)
             new == RemoveAt(list, p)
             old == NamesOf(list)
  <1>1. list \in Seq(EnvType)
    BY DEF Store
  <1>2. /\ DOMAIN old = 1 .. Len(list) /\ \A j \in 1 .. Len(list) : old[j] = list[j].name
        /\ old \in Seq(Names) /\ Len(old) = Len(list) /\ IsInjective(old)
    BY <1>1, NamesOfList DEF Store
  <1>3. p \in 1 .. Len(list) /\ old[p] = name
    BY <1>1, <1>2, HasMeans DEF PlaceOf
  <1> HIDE DEF p
  <1>4. IsInjective(list)
    BY <1>1, StoreMeans DEF IsInjective
  <1>5. new \in Seq(EnvType) /\ OneLess(list, p, new)
    BY <1>1, <1>3, <1>4, RemoveOrder
  <1>6. Store(new)
    BY <1>3, RemoveKeeps
  <1> HIDE DEF new
  <1>7. /\ DOMAIN NamesOf(new) = 1 .. Len(new) /\ \A j \in 1 .. Len(new) : NamesOf(new)[j] = new[j].name
        /\ NamesOf(new) \in Seq(Names) /\ Len(NamesOf(new)) = Len(new)
    BY <1>5, NamesOfList
  <1>8. OneLess(old, p, NamesOf(new))
    <2>1. /\ Len(new) = Len(list) - 1 /\ Len(list) \in Nat
          /\ \A i \in 1 .. Len(list) - 1 : new[i] = IF i < p THEN list[i] ELSE list[i + 1]
      BY <1>1, <1>5 DEF OneLess
    <2>2. \A i \in 1 .. Len(list) - 1 : i \in 1 .. Len(new) /\ i \in 1 .. Len(list) /\ i + 1 \in 1 .. Len(list)
      BY <2>1
    <2>3. \A i \in 1 .. Len(list) - 1 : NamesOf(new)[i] = IF i < p THEN old[i] ELSE old[i + 1]
      BY <1>2, <1>7, <2>1, <2>2
    <2>4. QED BY <1>2, <1>3, <1>7, <2>1, <2>3 DEF OneLess
  <1>9. /\ IsInjective(NamesOf(new)) /\ old[p] \notin ToSet(NamesOf(new))
        /\ ToSet(old) = ToSet(NamesOf(new)) \cup {old[p]}
        /\ \A c, d : Before(NamesOf(new), c, d) <=> Before(old, c, d) /\ c # old[p] /\ d # old[p]
    <2> HIDE DEF old
    <2>1. QED BY <1>2, <1>7, <1>8, OneLessOrder
  <1>10. ASSUME NEW n, Has(list, n), n # name PROVE Content(new, n) = Content(list, n)
    <2>1. PICK i \in 1 .. Len(list) : list[i].name = n
      BY <1>1, <1>10, HasMeans
    <2>2. PICK k \in 1 .. Len(new) : new[k].name = n
      <3>1. n \in ToSet(NamesOf(new))
        BY <1>1, <1>3, <1>9, <1>10, HasMeans
      <3>2. QED BY <1>7, <3>1 DEF ToSet
    <2>3. PICK j \in 1 .. Len(list) : new[k] = list[j]
      <3>1. Len(new) = Len(list) - 1 /\ Len(list) \in Nat /\ p \in Nat
        BY <1>1, <1>3, <1>5 DEF OneLess
      <3>2. k \in 1 .. Len(list) /\ k + 1 \in 1 .. Len(list)
        BY <3>1
      <3>3. QED BY <1>5, <3>1, <3>2 DEF OneLess
    <2>4. Content(new, new[k].name) = new[k].val /\ Content(list, list[j].name) = list[j].val
      BY <1>6, ContentIs
    <2>5. QED BY <2>2, <2>3, <2>4
  <1>11. QED BY <1>3, <1>9, <1>10 DEF old, new, p

LEMMA ReorderSays ==
    ASSUME NEW list, Store(list), NEW names \in Seq(Names), Len(names) = Len(list),
           ToSet(names) = ToSet(NamesOf(list))
    PROVE  /\ NamesOf(Reordered(list, names)) = names
           /\ \A n : Has(list, n) => Content(Reordered(list, names), n) = Content(list, n)
  <1> DEFINE new == Reordered(list, names)
  <1>1. list \in Seq(EnvType) /\ Store(new) /\ new \in Seq(EnvType)
    BY ReorderKeeps DEF Store
  <1>2. /\ Len(new) = Len(list) /\ DOMAIN names = 1 .. Len(list) /\ names = [i \in 1 .. Len(list) |-> names[i]]
        /\ \A i \in 1 .. Len(list) : new[i].name = names[i] /\ new[i].val = Content(list, names[i])
    BY <1>1 DEF Reordered
  <1>3. NamesOf(new) = [i \in 1 .. Len(list) |-> new[i].name]
    BY <1>1, <1>2 DEF NamesOf
  <1> HIDE DEF new
  <1>4. NamesOf(new) = names
    BY <1>2, <1>3
  <1>5. ASSUME NEW n, Has(list, n) PROVE Content(new, n) = Content(list, n)
    <2>1. n \in ToSet(names)
      BY <1>1, <1>5, HasMeans
    <2>2. PICK i \in 1 .. Len(list) : names[i] = n
      BY <1>2, <2>1 DEF ToSet
    <2>3. Content(new, new[i].name) = new[i].val
      BY <1>1, <1>2, ContentIs
    <2>4. QED BY <1>2, <2>2, <2>3
  <1>6. QED BY <1>4, <1>5 DEF new

-----------------------------------------------------------------------------
(* What is left of a job's plan. *)

Deletes(steps) == {steps[k].name : k \in {k \in DOMAIN steps : steps[k].op = "delete"}}
Mine(job) == Ours(job.fp) \cup {job.goal.name}

\* Its steps touch nothing but what is the job's own.
StepsAreMine(job, names) ==
    \A k \in DOMAIN job.steps :
        LET step == job.steps[k]
        IN  /\ step.op = "upsert" => step.goal = job.goal
            /\ step.op = "delete" => step.name \in Ours(job.fp)
            /\ step.op = "reorder" =>
                 \A c, d \in Names \ Mine(job) : Before(step.names, c, d) <=> Before(names, c, d)

LEMMA StepsAfter ==
    ASSUME NEW R \in Seq(StepType), R # <<>>
    PROVE  /\ Tail(R) \in Seq(StepType) /\ Len(Tail(R)) = Len(R) - 1
           /\ 1 \in DOMAIN R /\ R[1] \in StepType /\ Head(R) = R[1] /\ Len(R) \in Nat
           /\ DOMAIN Tail(R) = 1 .. Len(R) - 1
           /\ \A k \in DOMAIN Tail(R) : k \in Nat /\ k # 0 /\ k + 1 \in DOMAIN R /\ Tail(R)[k] = R[k + 1]
           /\ Deletes(R) = Deletes(Tail(R)) \cup (IF R[1].op = "delete" THEN {R[1].name} ELSE {})
  <1> DEFINE T == Tail(R)
             one == IF R[1].op = "delete" THEN {R[1].name} ELSE {}
  <1>1. /\ T \in Seq(StepType) /\ Len(T) = Len(R) - 1 /\ DOMAIN T = 1 .. Len(R) - 1
        /\ DOMAIN R = 1 .. Len(R) /\ Len(R) \in Nat /\ Len(R) # 0 /\ Head(R) = R[1]
    OBVIOUS
  <1>2. \A k \in 1 .. Len(R) - 1 : T[k] = R[k + 1]
    BY <1>1
  <1>3. R[1] \in StepType /\ 1 \in DOMAIN R
    BY <1>1
  <1> HIDE DEF T
  <1>4. \A k \in DOMAIN T : k \in Nat /\ k # 0 /\ k + 1 \in DOMAIN R /\ T[k] = R[k + 1]
    BY <1>1, <1>2
  <1>5. \A k \in DOMAIN R : k # 1 => k - 1 \in DOMAIN T /\ T[k - 1] = R[k]
    BY <1>1, <1>2
  <1>6. ASSUME NEW n \in Deletes(R) PROVE n \in Deletes(T) \cup one
    <2>1. PICK k \in DOMAIN R : R[k].op = "delete" /\ n = R[k].name
      BY <1>6 DEF Deletes
    <2>2. CASE k = 1
      BY <2>1, <2>2
    <2>3. CASE k # 1
      <3>1. k - 1 \in DOMAIN T /\ T[k - 1] = R[k]
        BY <1>5, <2>3
      <3>2. PICK m \in DOMAIN T : T[m] = R[k]
        BY <3>1
      <3>3. QED BY <2>1, <3>2 DEF Deletes
    <2>4. QED BY <2>2, <2>3
  <1>7. ASSUME NEW n \in Deletes(T) \cup one PROVE n \in Deletes(R)
    <2>1. CASE n \in Deletes(T)
      <3>1. PICK k \in DOMAIN T : T[k].op = "delete" /\ n = T[k].name
        BY <2>1 DEF Deletes
      <3>2. PICK m \in DOMAIN R : R[m] = T[k]
        BY <1>4
      <3>3. QED BY <3>1, <3>2 DEF Deletes
    <2>2. CASE n \in one
      BY <1>3, <2>2 DEF Deletes
    <2>3. QED BY <1>7, <2>1, <2>2
  <1>8. Deletes(R) = Deletes(T) \cup one
    BY <1>6, <1>7
  <1>9. QED BY <1>1, <1>3, <1>4, <1>8 DEF T

\* One command of a plan leaves the others' names, order and contents alone.
Spares(mine, list, next) ==
    /\ \A n : n \notin mine => (n \in ToSet(NamesOf(next)) <=> n \in ToSet(NamesOf(list)))
    /\ \A c, d \in Names \ mine : Before(NamesOf(next), c, d) <=> Before(NamesOf(list), c, d)
    /\ \A n : n \notin mine /\ Has(list, n) => Content(next, n) = Content(list, n)

LEMMA StepSpares ==
    ASSUME NEW list, Store(list), NEW act, NEW mine, NEW step \in StepType, ~Refused(list, act, step),
           step.op = "upsert" => step.goal.name \in mine,
           step.op = "delete" => step.name \in mine,
           step.op = "reorder" =>
              \A c, d \in Names \ mine : Before(step.names, c, d) <=> Before(NamesOf(list), c, d)
    PROVE  Spares(mine, list, StoreAfter(list, step))
  <1> DEFINE next == StoreAfter(list, step)
             N == NamesOf(list)
  <1>0. list \in Seq(EnvType) /\ N \in Seq(Names) /\ IsInjective(N)
    BY NamesOfList DEF Store
  <1>1. CASE step.op = "upsert"
    <2>1. step.goal \in EnvType /\ step.goal.name \in Names /\ step.goal.name \in mine
      BY <1>1 DEF StepType, EnvType
    <2>2. next = Upsert(list, step.goal)
      BY <1>1 DEF StoreAfter
    <2> HIDE DEF next, N
    <2>3. /\ NamesOf(next) = Named(N, step.goal.name)
          /\ \A n : Has(list, n) /\ n # step.goal.name => Content(next, n) = Content(list, n)
      BY <2>1, <2>2, UpsertSays DEF N
    <2>4. CASE step.goal.name \in ToSet(N)
      BY <2>1, <2>3, <2>4 DEF Named, Spares, next, N
    <2>5. CASE step.goal.name \notin ToSet(N)
      <3>1. NamesOf(next) = Append(N, step.goal.name)
        BY <2>3, <2>5 DEF Named
      <3>2. /\ ToSet(NamesOf(next)) = ToSet(N) \cup {step.goal.name}
            /\ \A c, d : c # step.goal.name /\ d # step.goal.name => (Before(NamesOf(next), c, d) <=> Before(N, c, d))
        BY <1>0, <2>1, <2>5, <3>1, AppendOrder
      <3>3. QED BY <2>1, <2>3, <3>2 DEF Spares, next, N
    <2>6. QED BY <2>4, <2>5
  <1>2. CASE step.op = "delete" /\ Has(list, step.name)
    <2>1. next = RemoveAt(list, PlaceOf(NamesOf(list), step.name))
      BY <1>2 DEF StoreAfter
    <2> HIDE DEF next
    <2>2. /\ ToSet(NamesOf(next)) = ToSet(NamesOf(list)) \ {step.name}
          /\ \A c, d : Before(NamesOf(next), c, d) <=> Before(NamesOf(list), c, d) /\ c # step.name /\ d # step.name
          /\ \A n : Has(list, n) /\ n # step.name => Content(next, n) = Content(list, n)
      BY <1>2, <2>1, RemoveSays
    <2>3. step.name \in mine
      BY <1>2
    <2>4. QED BY <2>2, <2>3 DEF Spares, next
  <1>3. CASE step.op = "reorder"
    <2>1. step.names \in Seq(Names)
      BY <1>3 DEF StepType
    <2>2. Len(step.names) = Len(list) /\ ToSet(step.names) = ToSet(NamesOf(list))
      BY <1>3 DEF Refused
    <2>3. next = Reordered(list, step.names)
      BY <1>3 DEF StoreAfter
    <2> HIDE DEF next
    <2>4. NamesOf(next) = step.names /\ \A n : Has(list, n) => Content(next, n) = Content(list, n)
      BY <2>1, <2>2, <2>3, ReorderSays
    <2>5. QED BY <1>3, <2>2, <2>4 DEF Spares, next
  <1>4. CASE ~(step.op = "upsert" \/ step.op = "reorder" \/ (step.op = "delete" /\ Has(list, step.name)))
    <2>1. next = list
      BY <1>4 DEF StoreAfter, StepType
    <2>2. QED BY <2>1 DEF Spares
  <1>5. QED BY <1>1, <1>2, <1>3, <1>4

\* One environment of a store is before another when its name is.
LEMMA BeforeByName ==
    ASSUME NEW list, Store(list), NEW e, NEW f
    PROVE  Before(list, e, f) <=> e \in ToSet(list) /\ f \in ToSet(list) /\ Before(NamesOf(list), e.name, f.name)
  <1>1. list \in Seq(EnvType) /\ \A j, k \in 1 .. Len(list) : list[j].name = list[k].name => j = k
    BY StoreMeans DEF Store
  <1>2. /\ DOMAIN NamesOf(list) = 1 .. Len(list) /\ \A j \in 1 .. Len(list) : NamesOf(list)[j] = list[j].name
        /\ DOMAIN list = 1 .. Len(list)
    BY <1>1, NamesOfList
  <1>3. ASSUME Before(list, e, f)
        PROVE  e \in ToSet(list) /\ f \in ToSet(list) /\ Before(NamesOf(list), e.name, f.name)
    BY <1>2, <1>3 DEF Before, ToSet
  <1>4. ASSUME e \in ToSet(list), f \in ToSet(list), Before(NamesOf(list), e.name, f.name)
        PROVE  Before(list, e, f)
    <2>1. PICK i \in 1 .. Len(list) : list[i] = e
      BY <1>2, <1>4 DEF ToSet
    <2>2. PICK j \in 1 .. Len(list) : list[j] = f
      BY <1>2, <1>4 DEF ToSet
    <2>3. PICK k, m \in 1 .. Len(list) : k < m /\ NamesOf(list)[k] = e.name /\ NamesOf(list)[m] = f.name
      BY <1>2, <1>4 DEF Before
    <2>4. k = i /\ m = j
      BY <1>1, <1>2, <2>1, <2>2, <2>3
    <2>5. QED BY <1>2, <2>1, <2>2, <2>3, <2>4 DEF Before
  <1>5. QED BY <1>3, <1>4

\* So the others stay as they are.
LEMMA SparedAreSame ==
    ASSUME NEW list, Store(list), NEW next, Store(next), NEW mine, Spares(mine, list, next)
    PROVE  Kept(next, {env \in ToSet(next) : env.name \notin mine})
             = Kept(list, {env \in ToSet(list) : env.name \notin mine})
  <1> DEFINE S == {env \in ToSet(list) : env.name \notin mine}
             T == {env \in ToSet(next) : env.name \notin mine}
  <1>1. list \in Seq(EnvType) /\ next \in Seq(EnvType)
    BY DEF Store
  <1>2. IsInjective(list) /\ IsInjective(next)
    BY <1>1, StoreMeans DEF IsInjective
  <1>3. ASSUME NEW one, NEW two, Store(one), Store(two), NEW e \in ToSet(one), e.name \notin mine,
               e.name \in ToSet(NamesOf(two)), Content(one, e.name) = Content(two, e.name)
        PROVE  e \in ToSet(two)
    <2>1. one \in Seq(EnvType) /\ two \in Seq(EnvType)
      BY <1>3 DEF Store
    <2>2. PICK i \in 1 .. Len(one) : one[i] = e
      BY <1>3, <2>1 DEF ToSet
    <2>3. PICK j \in 1 .. Len(two) : two[j].name = e.name
      BY <1>3, <2>1, HasMeans
    <2>4. Content(one, one[i].name) = one[i].val /\ Content(two, two[j].name) = two[j].val
      BY <1>3, ContentIs
    <2>5. one[i] \in EnvType /\ two[j] \in EnvType
      BY <2>1
    <2>6. two[j] = e
      <3>1. two[j].name = one[i].name /\ two[j].val = one[i].val
        BY <1>3, <2>2, <2>3, <2>4
      <3>2. \A r \in EnvType : r = [name |-> r.name, val |-> r.val]
        BY DEF EnvType
      <3>3. two[j] = [name |-> two[j].name, val |-> two[j].val] /\ one[i] = [name |-> one[i].name, val |-> one[i].val]
        BY <2>5, <3>2
      <3>4. QED BY <2>2, <3>1, <3>3
    <2>7. QED BY <2>1, <2>6 DEF ToSet
  <1>4. \A e \in ToSet(list) : e.name \in ToSet(NamesOf(list)) /\ Has(list, e.name) /\ e.name \in Names
    <2>1. ASSUME NEW e \in ToSet(list)
          PROVE  e.name \in ToSet(NamesOf(list)) /\ Has(list, e.name) /\ e.name \in Names
      <3>1. PICK i \in 1 .. Len(list) : list[i] = e
        BY <1>1 DEF ToSet
      <3>2. e \in EnvType
        BY <1>1, <3>1
      <3>3. QED BY <1>1, <3>1, <3>2, HasMeans DEF EnvType
    <2>2. QED BY <2>1
  <1>5. \A e \in ToSet(next) : e.name \in ToSet(NamesOf(next))
    BY <1>1 DEF ToSet, NamesOf
  <1>6. S = T
    <2>1. ASSUME NEW e \in S PROVE e \in T
      <3>1. e.name \in ToSet(NamesOf(next)) /\ Content(list, e.name) = Content(next, e.name)
        BY <1>4 DEF Spares
      <3>2. QED BY <1>3, <3>1
    <2>2. ASSUME NEW e \in T PROVE e \in S
      <3>1. e.name \in ToSet(NamesOf(list)) /\ Has(list, e.name)
        BY <1>1, <1>5, HasMeans DEF Spares
      <3>2. Content(list, e.name) = Content(next, e.name)
        BY <3>1 DEF Spares
      <3>3. QED BY <1>3, <3>1, <3>2
    <2>3. QED BY <2>1, <2>2
  <1>7. \A e \in S : e \in ToSet(list) /\ e \in ToSet(next) /\ e.name \in Names \ mine
    BY <1>4, <1>6
  <1> HIDE DEF S, T
  <1>8. \A e, f : e \in S /\ f \in S => (Before(list, e, f) <=> Before(next, e, f))
    <2>1. ASSUME NEW e \in S, NEW f \in S PROVE Before(list, e, f) <=> Before(next, e, f)
      <3>1. Before(NamesOf(list), e.name, f.name) <=> Before(NamesOf(next), e.name, f.name)
        BY <1>7 DEF Spares
      <3>2. QED BY <1>7, <3>1, BeforeByName
    <2>2. QED BY <2>1
  <1> DEFINE a == Kept(next, T)
             b == Kept(list, S)
  <1>9. /\ a \in Seq(EnvType) /\ b \in Seq(EnvType) /\ IsInjective(a) /\ IsInjective(b)
        /\ ToSet(a) = ToSet(next) \cap T /\ ToSet(b) = ToSet(list) \cap S
        /\ \A c, d : Before(a, c, d) <=> Before(next, c, d) /\ c \in T /\ d \in T
        /\ \A c, d : Before(b, c, d) <=> Before(list, c, d) /\ c \in S /\ d \in S
    BY <1>1, <1>2, KeptParts, KeptOrder
  <1> HIDE DEF a, b
  <1>10. ToSet(a) = ToSet(b)
    BY <1>6, <1>7, <1>9
  <1>11. \A c, d : Before(a, c, d) <=> Before(b, c, d)
    BY <1>6, <1>8, <1>9
  <1>12. a = b
    BY <1>9, <1>10, <1>11, SameSequence
  <1>13. QED BY <1>12 DEF a, b, S, T

-----------------------------------------------------------------------------
(* What is left of a write's plan ends as it was meant to. *)

Begun(steps) == steps = <<>> \/ steps[1].op # "upsert"

StepsInOrder(job) ==
    \A k \in DOMAIN job.steps :
        LET step == job.steps[k]
        IN  /\ step.op = "upsert" => k = 1
            /\ step.op = "delete" => step.name # job.goal.name
            /\ step.op = "reorder" => k = Len(job.steps)

Reorders(steps) == steps # <<>> /\ steps[Len(steps)].op = "reorder"

\* The names as the plan's last step leaves them.
Wanted(steps, now) ==
    IF Reorders(steps) THEN steps[Len(steps)].names ELSE Without(now, Deletes(steps))

AtItsPlace(job, want) ==
    /\ job.index = PlaceOf(want, job.goal.name) - 1
    /\ job.fp.stored => job.index = IF job.fp.index < Len(want) THEN job.fp.index ELSE Len(want) - 1

EndsWell(job, now) ==
    /\ StepsInOrder(job)
    /\ job.goal.name \in ToSet(now)
    /\ (Ours(job.fp) \ {job.goal.name}) \cap ToSet(now) \subseteq Deletes(job.steps)
    /\ ~IsPlain(job.goal, job.fp) => AtItsPlace(job, Wanted(job.steps, now))

\* The names once the goal is among them.
Now(job, names) == IF Begun(job.steps) THEN names ELSE Named(names, job.goal.name)

LEMMA WithoutSame ==
    ASSUME NEW s \in Seq(Names), NEW t \in Seq(Names), IsInjective(s), IsInjective(t), NEW C, NEW D,
           ToSet(s) \ C = ToSet(t) \ D,
           \A c, d : (Before(s, c, d) /\ c \notin C /\ d \notin C) <=> (Before(t, c, d) /\ c \notin D /\ d \notin D)
    PROVE  Without(s, C) = Without(t, D)
  <1> DEFINE a == Without(s, C)
             b == Without(t, D)
  <1>1. /\ a \in Seq(Names) /\ b \in Seq(Names) /\ ToSet(a) = ToSet(s) \ C /\ ToSet(b) = ToSet(t) \ D
        /\ IsInjective(a) /\ IsInjective(b)
        /\ \A c, d : Before(a, c, d) <=> Before(s, c, d) /\ c \notin C /\ d \notin C
        /\ \A c, d : Before(b, c, d) <=> Before(t, c, d) /\ c \notin D /\ d \notin D
    BY WithoutType, WithoutOrder
  <1> HIDE DEF a, b
  <1>2. ToSet(a) = ToSet(b) /\ \A c, d : Before(a, c, d) <=> Before(b, c, d)
    BY <1>1
  <1>3. a = b
    BY <1>1, <1>2, SameSequence
  <1>4. QED BY <1>3 DEF a, b

LEMMA WithoutNone ==
    ASSUME NEW s \in Seq(Names), IsInjective(s)
    PROVE  Without(s, {}) = s
  <1> DEFINE a == Without(s, {})
  <1>1. /\ a \in Seq(Names) /\ ToSet(a) = ToSet(s) \ {} /\ IsInjective(a)
        /\ \A c, d : Before(a, c, d) <=> Before(s, c, d) /\ c \notin {} /\ d \notin {}
    BY WithoutType, WithoutOrder
  <1> HIDE DEF a
  <1>2. ToSet(a) = ToSet(s) /\ \A c, d : Before(a, c, d) <=> Before(s, c, d)
    BY <1>1
  <1>3. a = s
    BY <1>1, <1>2, SameSequence
  <1>4. QED BY <1>3 DEF a

\* A job with one step less.
Continues(job, rest) ==
    /\ rest.steps = Tail(job.steps) /\ rest.goal = job.goal /\ rest.fp = job.fp /\ rest.index = job.index

LEMMA MineGoesOn ==
    ASSUME NEW list, NEW next, NEW job, job.steps \in Seq(StepType), job.steps # <<>>,
           StepsAreMine(job, NamesOf(list)), Spares(Mine(job), list, next), NEW rest, Continues(job, rest)
    PROVE  StepsAreMine(rest, NamesOf(next))
  <1>1. Mine(rest) = Mine(job) /\ rest.steps = Tail(job.steps) /\ rest.goal = job.goal /\ rest.fp = job.fp
    BY DEF Mine, Continues
  <1>2. ASSUME NEW k \in DOMAIN rest.steps
        PROVE  /\ rest.steps[k].op = "upsert" => rest.steps[k].goal = rest.goal
               /\ rest.steps[k].op = "delete" => rest.steps[k].name \in Ours(rest.fp)
               /\ rest.steps[k].op = "reorder" =>
                    \A c, d \in Names \ Mine(rest) :
                        Before(rest.steps[k].names, c, d) <=> Before(NamesOf(next), c, d)
    <2>1. PICK m \in DOMAIN job.steps : rest.steps[k] = job.steps[m]
      BY <1>1, <1>2, StepsAfter
    <2> DEFINE step == job.steps[m]
    <2>2. /\ step.op = "upsert" => step.goal = job.goal
          /\ step.op = "delete" => step.name \in Ours(job.fp)
          /\ step.op = "reorder" =>
               \A c, d \in Names \ Mine(job) : Before(step.names, c, d) <=> Before(NamesOf(list), c, d)
      BY DEF StepsAreMine
    <2> HIDE DEF step
    <2>3. \A c, d \in Names \ Mine(job) : Before(NamesOf(next), c, d) <=> Before(NamesOf(list), c, d)
      BY DEF Spares
    <2>4. rest.steps[k] = step
      BY <2>1 DEF step
    <2>5. QED BY <1>1, <2>2, <2>3, <2>4
  <1>3. QED BY <1>2 DEF StepsAreMine

\* What the first step leaves of the order of the others.
LEMMA OrderGoesOn ==
    ASSUME NEW job, job.steps \in Seq(StepType), job.steps # <<>>, StepsInOrder(job),
           NEW rest, Continues(job, rest)
    PROVE  /\ StepsInOrder(rest) /\ Begun(rest.steps)
           /\ job.steps[1].op = "reorder" => rest.steps = <<>>
           /\ rest.steps = <<>> => ~Reorders(rest.steps) /\ Deletes(rest.steps) = {}
           /\ job.steps[1].op # "reorder" => (Reorders(rest.steps) <=> Reorders(job.steps))
           /\ Reorders(rest.steps) => rest.steps[Len(rest.steps)] = job.steps[Len(job.steps)]
  <1> DEFINE R == job.steps
             T == rest.steps
  <1>1. /\ T \in Seq(StepType) /\ Len(T) = Len(R) - 1 /\ Len(R) \in Nat /\ 1 \in DOMAIN R
        /\ DOMAIN T = 1 .. Len(R) - 1
        /\ \A k \in DOMAIN T : k \in Nat /\ k # 0 /\ k + 1 \in DOMAIN R /\ T[k] = R[k + 1]
    BY StepsAfter DEF Continues
  <1>2. \A k \in DOMAIN R : /\ R[k].op = "upsert" => k = 1
                            /\ R[k].op = "delete" => R[k].name # job.goal.name
                            /\ R[k].op = "reorder" => k = Len(R)
    BY DEF StepsInOrder
  <1>g. rest.goal = job.goal
    BY DEF Continues
  <1> HIDE DEF R, T
  <1>3. ASSUME NEW k \in DOMAIN T
        PROVE  /\ T[k].op # "upsert"
               /\ T[k].op = "delete" => T[k].name # job.goal.name
               /\ T[k].op = "reorder" => k = Len(T)
    <2>1. k \in Nat /\ k # 0 /\ k + 1 \in DOMAIN R /\ T[k] = R[k + 1]
      BY <1>1
    <2>2. PICK m \in DOMAIN R : m = k + 1
      BY <2>1
    <2>3. T[k] = R[m] /\ m # 1
      BY <2>1, <2>2
    <2>4. m = Len(R) => k = Len(T)
      BY <1>1, <2>1, <2>2
    <2>5. QED BY <1>2, <2>3, <2>4
  <1>4. StepsInOrder(rest)
    BY <1>3, <1>g DEF StepsInOrder, T
  <1>5. T = <<>> \/ 1 \in DOMAIN T
    BY <1>1
  <1>6. Begun(T)
    BY <1>3, <1>5 DEF Begun
  <1>7. R[1].op = "reorder" => T = <<>>
    <2>1. R[1].op = "reorder" => Len(R) = 1
      BY <1>1, <1>2
    <2>2. T \in Seq(StepType) /\ (Len(R) = 1 => Len(T) = 0)
      BY <1>1
    <2>3. T \in Seq(StepType) /\ Len(T) = 0 => T = <<>>
      OBVIOUS
    <2>4. QED BY <2>1, <2>2, <2>3
  <1>8. T = <<>> => ~Reorders(T) /\ Deletes(T) = {}
    BY DEF Reorders, Deletes
  <1>9. CASE T = <<>>
    <2>1. Len(R) = 1
      <3>1. Len(T) = 0
        BY <1>9
      <3>2. QED BY <1>1, <3>1
    <2>2. R[1].op # "reorder" => ~Reorders(R)
      BY <2>1 DEF Reorders
    <2>3. QED BY <1>4, <1>6, <1>7, <1>8, <1>9, <2>2 DEF R, T
  <1>10. CASE T # <<>>
    <2>1. Len(T) \in DOMAIN T /\ Len(T) + 1 = Len(R)
      <3>1. Len(T) \in Nat /\ Len(T) # 0 /\ DOMAIN T = 1 .. Len(T)
        BY <1>1, <1>10
      <3>2. QED BY <1>1, <3>1
    <2>2. T[Len(T)] = R[Len(R)]
      BY <1>1, <2>1
    <2>3. R # <<>>
      BY <1>1
    <2>4. Reorders(T) <=> Reorders(R)
      BY <1>10, <2>2, <2>3 DEF Reorders
    <2>5. QED BY <1>4, <1>6, <1>7, <1>10, <2>2, <2>4 DEF R, T
  <1>11. QED BY <1>9, <1>10

\* The step that writes the goal.
LEMMA UpsertGoesOn ==
    ASSUME NEW list, Store(list), NEW job, job.steps \in Seq(StepType), job.steps # <<>>, job.goal \in EnvType,
           job.steps[1].op = "upsert", job.steps[1].goal = job.goal, EndsWell(job, Named(NamesOf(list), job.goal.name)),
           NEW rest, Continues(job, rest)
    PROVE  LET next == StoreAfter(list, job.steps[1])
           IN  EndsWell(rest, NamesOf(next)) /\ Content(next, job.goal.name) = job.goal.val
  <1> DEFINE next == StoreAfter(list, job.steps[1])
             now == Named(NamesOf(list), job.goal.name)
  <1>1. next = Upsert(list, job.goal)
    BY DEF StoreAfter
  <1> HIDE DEF next, now
  <1>2. NamesOf(next) = now /\ Content(next, job.goal.name) = job.goal.val
    BY <1>1, UpsertSays DEF now
  <1>3. Deletes(rest.steps) = Deletes(job.steps)
    BY StepsAfter DEF Continues
  <1>4. rest.goal = job.goal /\ rest.fp = job.fp /\ rest.index = job.index
    BY DEF Continues
  <1>5. /\ StepsInOrder(job) /\ job.goal.name \in ToSet(now)
        /\ (Ours(job.fp) \ {job.goal.name}) \cap ToSet(now) \subseteq Deletes(job.steps)
        /\ ~IsPlain(job.goal, job.fp) => AtItsPlace(job, Wanted(job.steps, now))
    BY DEF EndsWell, now
  <1>6. /\ StepsInOrder(rest) /\ (Reorders(rest.steps) <=> Reorders(job.steps))
        /\ Reorders(rest.steps) => rest.steps[Len(rest.steps)] = job.steps[Len(job.steps)]
    BY <1>5, OrderGoesOn
  <1>7. Wanted(rest.steps, now) = Wanted(job.steps, now)
    BY <1>3, <1>6 DEF Wanted
  <1>8. EndsWell(rest, now)
    BY <1>3, <1>4, <1>5, <1>6, <1>7 DEF EndsWell, AtItsPlace
  <1>9. QED BY <1>2, <1>8 DEF next

\* A step on the names of others, or of the store's order.
LEMMA LaterStepGoesOn ==
    ASSUME NEW list, Store(list), NEW act, NEW job, job.steps \in Seq(StepType), job.steps # <<>>,
           job.steps[1].op # "upsert", ~Refused(list, act, job.steps[1]), Store(StoreAfter(list, job.steps[1])),
           EndsWell(job, NamesOf(list)), NEW rest, Continues(job, rest)
    PROVE  LET next == StoreAfter(list, job.steps[1])
           IN  EndsWell(rest, NamesOf(next)) /\ Content(next, job.goal.name) = Content(list, job.goal.name)
  <1> DEFINE step == job.steps[1]
             next == StoreAfter(list, step)
             N == NamesOf(list)
             M == NamesOf(next)
  <1>1. /\ list \in Seq(EnvType) /\ N \in Seq(Names) /\ IsInjective(N)
        /\ next \in Seq(EnvType) /\ M \in Seq(Names) /\ IsInjective(M)
    BY NamesOfList DEF Store
  <1>2. /\ step \in StepType
        /\ Deletes(job.steps) = Deletes(rest.steps) \cup (IF step.op = "delete" THEN {step.name} ELSE {})
        /\ 1 \in DOMAIN job.steps
    BY StepsAfter DEF Continues
  <1>3. rest.goal = job.goal /\ rest.fp = job.fp /\ rest.index = job.index
    BY DEF Continues
  <1>4. /\ StepsInOrder(job) /\ job.goal.name \in ToSet(N)
        /\ (Ours(job.fp) \ {job.goal.name}) \cap ToSet(N) \subseteq Deletes(job.steps)
        /\ ~IsPlain(job.goal, job.fp) => AtItsPlace(job, Wanted(job.steps, N))
    BY DEF EndsWell
  <1>5. /\ StepsInOrder(rest)
        /\ step.op = "reorder" => rest.steps = <<>>
        /\ rest.steps = <<>> => ~Reorders(rest.steps) /\ Deletes(rest.steps) = {}
        /\ step.op # "reorder" => (Reorders(rest.steps) <=> Reorders(job.steps))
        /\ Reorders(rest.steps) => rest.steps[Len(rest.steps)] = job.steps[Len(job.steps)]
    BY <1>4, OrderGoesOn
  <1>6. step.op = "delete" => step.name # job.goal.name
    BY <1>2, <1>4 DEF StepsInOrder
  <1>7. Has(list, job.goal.name)
    BY <1>1, <1>4, HasMeans
  <1>8. SUFFICES /\ job.goal.name \in ToSet(M) /\ Content(next, job.goal.name) = Content(list, job.goal.name)
                 /\ (Ours(job.fp) \ {job.goal.name}) \cap ToSet(M) \subseteq Deletes(rest.steps)
                 /\ Wanted(rest.steps, M) = Wanted(job.steps, N)
    <2> HIDE DEF next, step, N, M
    <2>1. EndsWell(rest, M)
      BY <1>3, <1>4, <1>5, <1>8 DEF EndsWell, AtItsPlace
    <2>2. QED BY <1>8, <2>1 DEF next, step, M
  <1>9. CASE step.op = "delete" /\ Has(list, step.name)
    <2>1. next = RemoveAt(list, PlaceOf(NamesOf(list), step.name))
      BY <1>9 DEF StoreAfter
    <2> HIDE DEF next, step
    <2>2. /\ ToSet(M) = ToSet(N) \ {step.name}
          /\ \A c, d : Before(M, c, d) <=> Before(N, c, d) /\ c # step.name /\ d # step.name
          /\ \A n : Has(list, n) /\ n # step.name => Content(next, n) = Content(list, n)
      BY <1>9, <2>1, RemoveSays
    <2> HIDE DEF N, M
    <2>3. Without(M, Deletes(rest.steps)) = Without(N, Deletes(job.steps))
      <3> DEFINE C == Deletes(rest.steps)
                 D == Deletes(job.steps)
      <3>1. D = C \cup {step.name}
        BY <1>2, <1>9
      <3> HIDE DEF C, D
      <3>2. ToSet(M) \ C = ToSet(N) \ D
        BY <2>2, <3>1
      <3>3. \A c, d : (Before(M, c, d) /\ c \notin C /\ d \notin C) <=> (Before(N, c, d) /\ c \notin D /\ d \notin D)
        BY <2>2, <3>1
      <3>4. Without(M, C) = Without(N, D)
        <4>1. M \in Seq(Names) /\ N \in Seq(Names) /\ IsInjective(M) /\ IsInjective(N)
          BY <1>1
        <4>2. QED BY <3>2, <3>3, <4>1, WithoutSame
      <3>5. QED BY <3>4 DEF C, D
    <2>4. Wanted(rest.steps, M) = Wanted(job.steps, N)
      BY <1>5, <1>9, <2>3 DEF Wanted
    <2>5. QED BY <1>2, <1>4, <1>6, <1>7, <1>9, <2>2, <2>4
  <1>10. CASE step.op = "reorder"
    <2>1. step.names \in Seq(Names)
      BY <1>2, <1>10 DEF StepType
    <2>2. Len(step.names) = Len(list) /\ ToSet(step.names) = ToSet(N)
      BY <1>10 DEF Refused
    <2>3. next = Reordered(list, step.names)
      BY <1>10 DEF StoreAfter
    <2>4. M = step.names /\ \A n : Has(list, n) => Content(next, n) = Content(list, n)
      BY <2>1, <2>2, <2>3, ReorderSays
    <2>5. Deletes(job.steps) = {} /\ rest.steps = <<>> /\ Deletes(rest.steps) = {} /\ ~Reorders(rest.steps)
      BY <1>2, <1>5, <1>10
    <2>6. Wanted(job.steps, N) = step.names
      <3>1. Len(job.steps) = 1
        BY <1>2, <1>4, <1>10 DEF StepsInOrder
      <3>2. QED BY <1>10, <3>1 DEF Wanted, Reorders
    <2>7. Wanted(rest.steps, M) = M
      BY <1>1, <2>5, WithoutNone DEF Wanted
    <2>8. QED BY <1>4, <1>7, <2>2, <2>4, <2>5, <2>6, <2>7
  <1>11. CASE ~(step.op = "reorder" \/ (step.op = "delete" /\ Has(list, step.name)))
    <2>1. next = list
      BY <1>2, <1>11 DEF StoreAfter, StepType
    <2>2. ToSet(N) \ Deletes(rest.steps) = ToSet(N) \ Deletes(job.steps)
      BY <1>1, <1>2, <1>11, HasMeans
    <2>3. Without(N, Deletes(rest.steps)) = Without(N, Deletes(job.steps))
      BY <2>2 DEF Without
    <2>4. Wanted(rest.steps, N) = Wanted(job.steps, N)
      BY <1>5, <1>11, <2>3 DEF Wanted
    <2>5. (Ours(job.fp) \ {job.goal.name}) \cap ToSet(N) \subseteq Deletes(rest.steps)
      BY <1>4, <2>2
    <2>6. QED BY <1>4, <2>1, <2>4, <2>5
  <1>12. QED BY <1>9, <1>10, <1>11

-----------------------------------------------------------------------------
(* What the plans are, step by step. *)

LEMMA ConcatSteps ==
    ASSUME NEW a \in Seq(StepType), NEW b \in Seq(StepType)
    PROVE  /\ a \o b \in Seq(StepType) /\ Len(a \o b) = Len(a) + Len(b)
           /\ Len(a) \in Nat /\ Len(b) \in Nat
           /\ DOMAIN a = 1 .. Len(a) /\ DOMAIN b = 1 .. Len(b) /\ DOMAIN (a \o b) = 1 .. Len(a) + Len(b)
           /\ \A k \in 1 .. Len(a) : (a \o b)[k] = a[k]
           /\ \A k \in 1 .. Len(a) + Len(b) : k > Len(a) => k - Len(a) \in 1 .. Len(b) /\ (a \o b)[k] = b[k - Len(a)]
           /\ Deletes(a \o b) = Deletes(a) \cup Deletes(b)
  <1> DEFINE c == a \o b
             n == Len(a)
             m == Len(b)
  <1>1. n \in Nat /\ m \in Nat /\ DOMAIN a = 1 .. n /\ DOMAIN b = 1 .. m
    OBVIOUS
  <1>2. /\ c \in Seq(StepType) /\ Len(c) = n + m
        /\ \A k \in 1 .. n + m : c[k] = IF k <= n THEN a[k] ELSE b[k - n]
    BY ConcatProperties
  <1>3. DOMAIN c = 1 .. n + m
    BY <1>2
  <1> HIDE DEF c, n, m
  <1>4. \A k \in 1 .. n : c[k] = a[k] /\ k \in 1 .. n + m
    BY <1>1, <1>2
  <1>5. \A k \in 1 .. n + m : k > n => k - n \in 1 .. m /\ c[k] = b[k - n]
    BY <1>1, <1>2
  <1>6. \A k \in 1 .. m : n + k \in 1 .. n + m /\ c[n + k] = b[k]
    <2>1. \A k \in 1 .. m : n + k \in 1 .. n + m /\ ~(n + k <= n) /\ (n + k) - n = k
      BY <1>1
    <2>2. QED BY <1>2, <2>1
  <1>7. ASSUME NEW x \in Deletes(c) PROVE x \in Deletes(a) \cup Deletes(b)
    <2>1. PICK k \in 1 .. n + m : c[k].op = "delete" /\ x = c[k].name
      BY <1>3, <1>7 DEF Deletes
    <2>2. CASE k > n
      <3>1. PICK i \in 1 .. m : c[k] = b[i]
        BY <1>5, <2>2
      <3>2. QED BY <1>1, <2>1, <3>1 DEF Deletes
    <2>3. CASE ~(k > n)
      <3>1. k \in 1 .. n
        BY <1>1, <2>3
      <3>2. QED BY <1>1, <1>4, <2>1, <3>1 DEF Deletes
    <2>4. QED BY <2>2, <2>3
  <1>8. ASSUME NEW x \in Deletes(a) \cup Deletes(b) PROVE x \in Deletes(c)
    <2>1. CASE x \in Deletes(a)
      <3>1. PICK k \in 1 .. n : a[k].op = "delete" /\ x = a[k].name
        BY <1>1, <2>1 DEF Deletes
      <3>2. QED BY <1>3, <1>4, <3>1 DEF Deletes
    <2>2. CASE x \in Deletes(b)
      <3>1. PICK k \in 1 .. m : b[k].op = "delete" /\ x = b[k].name
        BY <1>1, <2>2 DEF Deletes
      <3>2. PICK i \in 1 .. n + m : c[i] = b[k]
        BY <1>6
      <3>3. QED BY <1>3, <3>1, <3>2 DEF Deletes
    <2>3. QED BY <1>8, <2>1, <2>2
  <1>9. Deletes(c) = Deletes(a) \cup Deletes(b)
    BY <1>7, <1>8
  <1>10. QED BY <1>1, <1>2, <1>3, <1>4, <1>5, <1>9 DEF c, n, m

\* A plan that writes: the goal first, its order last, the names to delete between.
WriteParts(s1, s2, s3, s4) ==
    /\ s1 \in Seq(StepType) /\ Len(s1) = 1 /\ s1[1].op = "upsert"
    /\ s2 \in Seq(StepType) /\ \A k \in DOMAIN s2 : s2[k].op = "activate"
    /\ s3 \in Seq(StepType) /\ \A k \in DOMAIN s3 : s3[k].op = "delete"
    /\ s4 \in Seq(StepType) /\ (s4 = <<>> \/ (Len(s4) = 1 /\ s4[1].op = "reorder"))

WriteSteps(s1, s3, s4, R) ==
    /\ R \in Seq(StepType) /\ R # <<>> /\ R[1] = s1[1]
    /\ Deletes(R) = Deletes(s3)
    /\ \A k \in DOMAIN R : /\ R[k].op = "upsert" => k = 1
                           /\ R[k].op = "reorder" => k = Len(R) /\ s4 # <<>> /\ R[k] = s4[1]
    /\ Reorders(R) <=> s4 # <<>>
    /\ s4 # <<>> => R[Len(R)] = s4[1]

LEMMA PlanShape ==
    ASSUME NEW s1, NEW s2, NEW s3, NEW s4, WriteParts(s1, s2, s3, s4)
    PROVE  WriteSteps(s1, s3, s4, ((s1 \o s2) \o s3) \o s4)
  <1> DEFINE R == ((s1 \o s2) \o s3) \o s4
  <1> SUFFICES WriteSteps(s1, s3, s4, R)
    OBVIOUS
  <1>0. /\ s1 \in Seq(StepType) /\ Len(s1) = 1 /\ s1[1].op = "upsert"
        /\ s2 \in Seq(StepType) /\ \A k \in DOMAIN s2 : s2[k].op = "activate"
        /\ s3 \in Seq(StepType) /\ \A k \in DOMAIN s3 : s3[k].op = "delete"
        /\ s4 \in Seq(StepType) /\ (s4 = <<>> \/ (Len(s4) = 1 /\ s4[1].op = "reorder"))
    BY DEF WriteParts
  <1> DEFINE q == s1 \o s2
             r == q \o s3
  <1>1. /\ q \in Seq(StepType) /\ Len(q) = 1 + Len(s2) /\ Len(s2) \in Nat /\ Deletes(q) = {} /\ q[1] = s1[1]
        /\ \A k \in 1 .. Len(q) : k # 1 => q[k].op = "activate"
    <2>0. s1 \in Seq(StepType) /\ s2 \in Seq(StepType)
      BY <1>0
    <2>1. /\ q \in Seq(StepType) /\ Len(q) = Len(s1) + Len(s2) /\ Len(s2) \in Nat
          /\ Deletes(q) = Deletes(s1) \cup Deletes(s2)
          /\ DOMAIN s1 = 1 .. Len(s1) /\ DOMAIN s2 = 1 .. Len(s2)
          /\ \A k \in 1 .. Len(s1) : q[k] = s1[k]
          /\ \A k \in 1 .. Len(s1) + Len(s2) : k > Len(s1) => k - Len(s1) \in 1 .. Len(s2) /\ q[k] = s2[k - Len(s1)]
      BY <2>0, ConcatSteps
    <2> HIDE DEF q
    <2>2. Deletes(s1) = {} /\ Deletes(s2) = {}
      BY <1>0, <2>1 DEF Deletes
    <2>3. ASSUME NEW k \in 1 .. Len(q), k # 1 PROVE q[k].op = "activate"
      <3>1. k \in 1 .. Len(s1) + Len(s2) /\ k > Len(s1)
        BY <1>0, <2>1, <2>3
      <3>2. PICK i \in DOMAIN s2 : q[k] = s2[i]
        BY <2>1, <3>1
      <3>3. QED BY <1>0, <3>2
    <2>4. QED BY <1>0, <2>1, <2>2, <2>3
  <1> HIDE DEF q
  <1>2. /\ r \in Seq(StepType) /\ Len(r) \in Nat /\ Len(r) >= 1 /\ Deletes(r) = Deletes(s3) /\ r[1] = s1[1]
        /\ \A k \in 1 .. Len(r) : k # 1 => r[k].op \in {"activate", "delete"}
    <2>0. q \in Seq(StepType) /\ s3 \in Seq(StepType)
      BY <1>0, <1>1
    <2>1. /\ r \in Seq(StepType) /\ Len(r) = Len(q) + Len(s3) /\ Len(s3) \in Nat /\ Len(q) \in Nat
          /\ Deletes(r) = Deletes(q) \cup Deletes(s3)
          /\ DOMAIN s3 = 1 .. Len(s3)
          /\ \A k \in 1 .. Len(q) : r[k] = q[k]
          /\ \A k \in 1 .. Len(q) + Len(s3) : k > Len(q) => k - Len(q) \in 1 .. Len(s3) /\ r[k] = s3[k - Len(q)]
      BY <2>0, ConcatSteps
    <2> HIDE DEF r
    <2>2. 1 \in 1 .. Len(q)
      BY <1>1
    <2>3. ASSUME NEW k \in 1 .. Len(r), k # 1 PROVE r[k].op \in {"activate", "delete"}
      <3>1. CASE k > Len(q)
        <4>1. PICK i \in DOMAIN s3 : r[k] = s3[i]
          BY <2>1, <3>1
        <4>2. QED BY <1>0, <4>1
      <3>2. CASE ~(k > Len(q))
        <4>1. k \in 1 .. Len(q)
          BY <2>1, <3>2
        <4>2. QED BY <1>1, <2>1, <2>3, <4>1
      <3>3. QED BY <3>1, <3>2
    <2>4. QED BY <1>1, <2>1, <2>2, <2>3
  <1>3. R = r \o s4
    BY DEF q
  <1> HIDE DEF r, R
  <1>4. /\ R \in Seq(StepType) /\ Len(R) = Len(r) + Len(s4) /\ Len(s4) \in Nat
        /\ Deletes(R) = Deletes(r) \cup Deletes(s4)
        /\ DOMAIN s4 = 1 .. Len(s4) /\ DOMAIN R = 1 .. Len(r) + Len(s4)
        /\ \A k \in 1 .. Len(r) : R[k] = r[k]
        /\ \A k \in 1 .. Len(r) + Len(s4) : k > Len(r) => k - Len(r) \in 1 .. Len(s4) /\ R[k] = s4[k - Len(r)]
    BY <1>0, <1>2, <1>3, ConcatSteps
  <1>5. 1 \in 1 .. Len(r) /\ R[1] = s1[1] /\ 1 \in DOMAIN R
    BY <1>2, <1>4
  <1>6. ASSUME NEW k \in 1 .. Len(r) PROVE R[k].op \notin {"reorder"} /\ (R[k].op = "upsert" => k = 1)
    BY <1>0, <1>2, <1>4, <1>5
  <1>7. CASE s4 = <<>>
    <2>1. Len(s4) = 0 /\ Deletes(s4) = {}
      BY <1>7 DEF Deletes
    <2>2. DOMAIN R = 1 .. Len(r) /\ Len(R) = Len(r)
      BY <1>2, <1>4, <2>1
    <2>3. Len(R) \in 1 .. Len(r)
      BY <1>2, <2>2
    <2>4. ~Reorders(R)
      BY <1>6, <2>3 DEF Reorders
    <2>5. QED BY <1>2, <1>4, <1>5, <1>6, <1>7, <2>1, <2>2, <2>4 DEF WriteSteps
  <1>8. CASE s4 # <<>>
    <2>1. Len(s4) = 1 /\ s4[1].op = "reorder"
      BY <1>0, <1>8
    <2>2. Deletes(s4) = {}
      BY <1>4, <2>1 DEF Deletes
    <2>3. Len(R) = Len(r) + 1 /\ R[Len(r) + 1] = s4[1]
      <3>1. Len(r) + 1 \in 1 .. Len(r) + Len(s4) /\ Len(r) + 1 > Len(r) /\ (Len(r) + 1) - Len(r) = 1
        BY <1>2, <2>1
      <3>2. QED BY <1>4, <2>1, <3>1
    <2>4. R # <<>> /\ Reorders(R)
      BY <1>5, <2>1, <2>3 DEF Reorders
    <2>5. ASSUME NEW k \in DOMAIN R
          PROVE  /\ R[k].op = "upsert" => k = 1
                 /\ R[k].op = "reorder" => k = Len(R) /\ R[k] = s4[1]
      <3>1. k \in 1 .. Len(r) \/ k = Len(r) + 1
        BY <1>2, <1>4, <2>1
      <3>2. QED BY <1>6, <2>1, <2>3, <3>1
    <2>6. QED BY <1>2, <1>4, <1>5, <1>8, <2>2, <2>3, <2>4, <2>5 DEF WriteSteps
  <1>9. QED BY <1>7, <1>8

LEMMA DeletesOfSteps ==
    ASSUME NEW names \in Seq(Names)
    PROVE  /\ Deletes(DeleteSteps(names)) = ToSet(names)
           /\ \A k \in DOMAIN DeleteSteps(names) : DeleteSteps(names)[k].op = "delete"
  <1> DEFINE s == DeleteSteps(names)
  <1>1. DOMAIN s = DOMAIN names /\ \A k \in DOMAIN s : s[k].op = "delete" /\ s[k].name = names[k]
    BY DEF DeleteSteps
  <1> HIDE DEF s
  <1>2. Deletes(s) = ToSet(names)
    BY <1>1 DEF Deletes, ToSet
  <1>3. QED BY <1>1, <1>2 DEF s

LEMMA NamedParts ==
    ASSUME NEW names \in Seq(Names), IsInjective(names), NEW name \in Names
    PROVE  /\ Named(names, name) \in Seq(Names) /\ IsInjective(Named(names, name))
           /\ ToSet(Named(names, name)) = ToSet(names) \cup {name}
           /\ \A c, d : c # name /\ d # name => (Before(Named(names, name), c, d) <=> Before(names, c, d))
  <1>1. CASE name \in ToSet(names)
    BY <1>1 DEF Named
  <1>2. CASE name \notin ToSet(names)
    <2>1. Named(names, name) = Append(names, name)
      BY <1>2 DEF Named
    <2>2. QED BY <1>2, <2>1, AppendOrder
  <1>3. QED BY <1>1, <1>2

\* Where the goal is put among the names that stay.
LEMMA PlacedParts ==
    ASSUME NEW others \in Seq(Names), IsInjective(others), NEW fp, FootprintOK(fp),
           NEW name \in Names, name \notin ToSet(others)
    PROVE  LET want == Placed(others, fp, name)
               index == PlaceOf(want, name) - 1
           IN  /\ want \in Seq(Names)
               /\ index = IF fp.index < Len(want) THEN fp.index ELSE Len(want) - 1
               /\ \A c, d : c # name /\ d # name => (Before(want, c, d) <=> Before(others, c, d))
  <1> DEFINE want == Placed(others, fp, name)
             n == Len(others)
             i == 1 + (IF fp.index < n THEN fp.index ELSE n)
             p == PlaceOf(want, name)
  <1>1. fp.index \in Nat /\ n \in Nat
    BY DEF FootprintOK, FootprintType
  <1>2. i \in 1 .. n + 1 /\ i \in Nat
    BY <1>1
  <1>3. want = InsertAt(others, i, name)
    BY DEF Placed
  <1> HIDE DEF i, want
  <1>4. /\ want \in Seq(Names) /\ want[i] = name /\ Len(want) = n + 1 /\ IsInjective(want)
        /\ \A c, d : c # name /\ d # name => (Before(want, c, d) <=> Before(others, c, d))
    BY <1>2, <1>3, InsertOrder
  <1>5. p = i
    <2>1. i \in DOMAIN want
      BY <1>1, <1>2, <1>4
    <2>2. p \in DOMAIN want /\ want[p] = name
      BY <1>4, <2>1 DEF PlaceOf
    <2> HIDE DEF p
    <2>3. QED BY <1>4, <2>1, <2>2 DEF IsInjective
  <1> HIDE DEF p
  <1>6. p - 1 = IF fp.index < Len(want) THEN fp.index ELSE Len(want) - 1
    <2> HIDE DEF n
    <2>1. p - 1 = IF fp.index < n THEN fp.index ELSE n
      BY <1>1, <1>5 DEF i
    <2>2. QED BY <1>1, <1>4, <2>1
  <1>7. QED BY <1>4, <1>6 DEF want, p

\* The plan of a write ends well, on the names as they are when it is made.
LEMMA PlanWriteActs ==
    ASSUME NEW goal \in EnvType, NEW fp, FootprintOK(fp), NEW names \in Seq(Names), IsInjective(names),
           NEW act \in Names \cup {NoName},
           NEW job, job.steps = PlanWrite(goal, fp, names, act).steps,
           job.index = PlanWrite(goal, fp, names, act).index, job.goal = goal, job.fp = fp
    PROVE  StepsAreMine(job, names) /\ EndsWell(job, Named(names, goal.name)) /\ ~Begun(job.steps)
  <1> DEFINE target == goal.name
             base == IF target \in ToSet(names) THEN names ELSE Append(names, target)
             isOurs == act = target \/ act \in Ours(fp)
             activated == IF ~fp.stored \/ isOurs THEN target ELSE NoName
             gone == Gone(fp, target, base)
             rest == Without(base, ToSet(gone))
             others == Without(rest, {target})
             want == IF fp.stored THEN Placed(others, fp, target) ELSE rest
             s1 == <<[op |-> "upsert", goal |-> goal]>>
             s2 == IF activated \notin {NoName, act} THEN <<[op |-> "activate", name |-> activated]>> ELSE <<>>
             s3 == DeleteSteps(gone)
             s4 == IF want # rest THEN <<[op |-> "reorder", names |-> want]>> ELSE <<>>
             R == ((s1 \o s2) \o s3) \o s4
             plan == [steps |-> R, index |-> PlaceOf(want, target) - 1, activated |-> activated]
  <1>1. PlanWrite(goal, fp, names, act) = plan
    BY Zenon DEF PlanWrite, DeleteSteps
  <1>j. job.steps = R /\ job.index = PlaceOf(want, target) - 1 /\ job.goal = goal /\ job.fp = fp
    <2> HIDE DEF R, want
    <2>1. QED BY <1>1
  <1>2. target \in Names /\ fp.stored \in BOOLEAN /\ target = goal.name /\ base = Named(names, target)
    BY DEF EnvType, FootprintOK, FootprintType, Named
  <1>m. Mine(job) = Ours(fp) \cup {target}
    BY <1>j DEF Mine
  <1> HIDE DEF target, R
  <1>3. /\ base \in Seq(Names) /\ IsInjective(base) /\ target \in ToSet(base)
        /\ \A c, d : c # target /\ d # target => (Before(base, c, d) <=> Before(names, c, d))
    BY <1>2, NamedParts
  <1> HIDE DEF base
  <1>4. gone \in Seq(Names) /\ ToSet(gone) = Ours(fp) \cap (ToSet(base) \ {target})
    BY GoneParts
  <1> HIDE DEF gone
  <1>5. /\ rest \in Seq(Names) /\ target \in ToSet(rest) /\ IsInjective(rest)
        /\ \A c, d : Before(rest, c, d) <=> Before(base, c, d) /\ c \notin ToSet(gone) /\ d \notin ToSet(gone)
    BY <1>3, <1>4, WithoutType, WithoutOrder
  <1>r. rest = Without(base, ToSet(gone))
    OBVIOUS
  <1> HIDE DEF rest
  <1>6. /\ others \in Seq(Names) /\ target \notin ToSet(others) /\ IsInjective(others)
        /\ \A c, d : Before(others, c, d) <=> Before(rest, c, d) /\ c # target /\ d # target
    <2>1. /\ others \in Seq(Names) /\ ToSet(others) = ToSet(rest) \ {target} /\ IsInjective(others)
          /\ \A c, d : Before(others, c, d) <=> Before(rest, c, d) /\ c \notin {target} /\ d \notin {target}
      BY <1>5, WithoutType, WithoutOrder
    <2>2. QED BY <2>1
  <1> HIDE DEF others
  <1>7. /\ want \in Seq(Names)
        /\ \A c, d : c # target /\ d # target => (Before(want, c, d) <=> Before(rest, c, d))
        /\ fp.stored => PlaceOf(want, target) - 1 = IF fp.index < Len(want) THEN fp.index ELSE Len(want) - 1
    <2>1. CASE fp.stored
      <3>1. want = Placed(others, fp, target)
        BY <2>1
      <3> HIDE DEF want
      <3>2. /\ want \in Seq(Names)
            /\ PlaceOf(want, target) - 1 = IF fp.index < Len(want) THEN fp.index ELSE Len(want) - 1
            /\ \A c, d : c # target /\ d # target => (Before(want, c, d) <=> Before(others, c, d))
        BY <1>2, <1>6, <3>1, PlacedParts
      <3>3. QED BY <1>6, <3>2
    <2>2. CASE ~fp.stored
      BY <1>5, <2>2
    <2>3. QED BY <2>1, <2>2
  <1> HIDE DEF want
  <1>8. activated \in Names \cup {NoName}
    BY <1>2
  <1> HIDE DEF activated
  <1>9. /\ s1 \in Seq(StepType) /\ Len(s1) = 1 /\ s1[1].op = "upsert" /\ s1[1].goal = goal
    BY OneStep
  <1>10. s2 \in Seq(StepType) /\ \A k \in DOMAIN s2 : s2[k].op = "activate"
    <2>1. s2 \in Seq(StepType)
      BY <1>8, OneStep
    <2>2. QED BY <2>1
  <1>11. s3 \in Seq(StepType) /\ Deletes(s3) = ToSet(gone) /\ \A k \in DOMAIN s3 : s3[k].op = "delete"
    BY <1>4, DeletesAreSteps, DeletesOfSteps
  <1>12. /\ s4 \in Seq(StepType) /\ (s4 = <<>> <=> want = rest)
         /\ s4 = <<>> \/ (Len(s4) = 1 /\ s4[1].op = "reorder")
         /\ s4 # <<>> => s4[1].names = want
    <2>1. CASE want = rest
      BY <2>1, OneStep
    <2>2. CASE want # rest
      <3>1. s4 = <<[op |-> "reorder", names |-> want]>>
        BY <2>2
      <3> HIDE DEF s4
      <3>2. s4 \in Seq(StepType)
        BY <1>7, <3>1, OneStep
      <3>3. Len(s4) = 1 /\ s4[1].op = "reorder" /\ s4[1].names = want /\ s4 # <<>>
        BY <3>1
      <3>4. QED BY <2>2, <3>2, <3>3
    <2>3. QED BY <2>1, <2>2
  <1>s. R = ((s1 \o s2) \o s3) \o s4
    BY DEF R
  <1> HIDE DEF s1, s2, s3, s4
  <1>13. /\ R \in Seq(StepType) /\ R # <<>> /\ R[1] = s1[1]
         /\ Deletes(R) = ToSet(gone)
         /\ \A k \in DOMAIN R : /\ R[k].op = "upsert" => k = 1
                                /\ R[k].op = "reorder" => k = Len(R) /\ s4 # <<>> /\ R[k] = s4[1]
         /\ Reorders(R) <=> s4 # <<>>
         /\ s4 # <<>> => R[Len(R)] = s4[1]
    <2>1. WriteParts(s1, s2, s3, s4) /\ Deletes(s3) = ToSet(gone)
      BY <1>9, <1>10, <1>11, <1>12 DEF WriteParts
    <2>2. WriteSteps(s1, s3, s4, R)
      BY <1>s, <2>1, PlanShape
    <2>3. QED BY <2>1, <2>2 DEF WriteSteps
  <1>14. \A k \in DOMAIN R : R[k].op = "delete" => R[k].name \in ToSet(gone)
    <2>1. \A k \in DOMAIN R : R[k].op = "delete" => R[k].name \in Deletes(R)
      BY DEF Deletes
    <2>2. QED BY <1>13, <2>1
  <1>15. ~Begun(job.steps)
    BY <1>9, <1>13, <1>j DEF Begun
  <1>16. StepsAreMine(job, names)
    <2>1. ASSUME NEW c \in Names \ Mine(job), NEW d \in Names \ Mine(job)
          PROVE  Before(want, c, d) <=> Before(names, c, d)
      <3>1. c # target /\ d # target /\ c \notin ToSet(gone) /\ d \notin ToSet(gone)
        BY <1>4, <1>m
      <3>2. QED BY <1>3, <1>5, <1>7, <3>1
    <2>2. ASSUME NEW k \in DOMAIN R
          PROVE  /\ R[k].op = "upsert" => R[k].goal = goal
                 /\ R[k].op = "delete" => R[k].name \in Ours(fp)
                 /\ R[k].op = "reorder" => R[k].names = want
      BY <1>4, <1>9, <1>12, <1>13, <1>14
    <2>3. QED BY <1>j, <2>1, <2>2 DEF StepsAreMine
  <1>17. StepsInOrder(job)
    BY <1>4, <1>13, <1>14, <1>2, <1>j DEF StepsInOrder
  <1>18. Wanted(R, base) = want
    BY <1>12, <1>13, <1>r DEF Wanted
  <1>19. AtItsPlace(job, want)
    BY <1>2, <1>7, <1>j DEF AtItsPlace
  <1>20. EndsWell(job, base)
    BY <1>2, <1>3, <1>4, <1>13, <1>17, <1>18, <1>19, <1>j DEF EndsWell
  <1>21. QED BY <1>2, <1>15, <1>16, <1>20

\* What runs: its steps are its own; when it writes, it ends well, and what has been
\* written is there.
ActsOn(job, list) ==
    /\ StepsAreMine(job, NamesOf(list))
    /\ job.kind = "sync" =>
         /\ EndsWell(job, Now(job, NamesOf(list)))
         /\ Begun(job.steps) => Content(list, job.goal.name) = job.goal.val

\* A plan that only lets go of names.
LEMMA PlanSweepActs ==
    ASSUME NEW target, NEW fp, FootprintOK(fp), NEW names, NEW any,
           NEW s \in Seq(StepType), \A k \in DOMAIN s : s[k].op = "deactivate",
           NEW job, job.steps = s \o DeleteSteps(Gone(fp, target, any)), job.fp = fp
    PROVE  StepsAreMine(job, names)
  <1> DEFINE gone == Gone(fp, target, any)
             R == s \o DeleteSteps(gone)
  <1>1. gone \in Seq(Names) /\ ToSet(gone) \subseteq Ours(fp) /\ job.steps = R
    BY GoneParts
  <1> HIDE DEF gone
  <1> DEFINE t == DeleteSteps(gone)
  <1>2. t \in Seq(StepType) /\ Deletes(t) = ToSet(gone) /\ \A k \in DOMAIN t : t[k].op = "delete"
    BY <1>1, DeletesAreSteps, DeletesOfSteps
  <1>3. R = s \o t
    OBVIOUS
  <1> HIDE DEF t, R
  <1>4. /\ R \in Seq(StepType) /\ Len(s) \in Nat /\ Len(t) \in Nat /\ DOMAIN R = 1 .. Len(s) + Len(t)
        /\ DOMAIN s = 1 .. Len(s) /\ DOMAIN t = 1 .. Len(t)
        /\ \A k \in 1 .. Len(s) : R[k] = s[k]
        /\ \A k \in 1 .. Len(s) + Len(t) : k > Len(s) => k - Len(s) \in 1 .. Len(t) /\ R[k] = t[k - Len(s)]
    BY <1>2, <1>3, ConcatSteps
  <1>5. ASSUME NEW k \in DOMAIN R
        PROVE  R[k].op \in {"deactivate", "delete"} /\ (R[k].op = "delete" => R[k].name \in Ours(fp))
    <2>1. CASE k > Len(s)
      <3>1. PICK i \in DOMAIN t : R[k] = t[i]
        BY <1>4, <2>1
      <3>2. t[i].op = "delete" /\ t[i].name \in Deletes(t)
        BY <1>2 DEF Deletes
      <3>3. QED BY <1>1, <1>2, <3>1, <3>2
    <2>2. CASE ~(k > Len(s))
      <3>1. k \in 1 .. Len(s)
        BY <1>4, <2>2
      <3>2. QED BY <1>4, <3>1
    <2>3. QED BY <2>1, <2>2
  <1>6. QED BY <1>1, <1>5 DEF StepsAreMine

LEMMA PlansAct ==
    ASSUME NEW list, Store(list), NEW act \in Names \cup {NoName},
           NEW job, job.goal \in GoalType, FootprintOK(job.fp), job.kind \in {"sync", "cleanup", "delete"},
           job.kind = "sync" => job.goal # NoGoal,
           NEW plan, plan = (IF job.kind = "delete" THEN PlanDelete(job.fp, NamesOf(list), act)
                             ELSE PlanSync(job.goal, job.fp, NamesOf(list), act)),
           job.steps = plan.steps, job.index = plan.index
    PROVE  ActsOn(job, list)
  <1> DEFINE names == NamesOf(list)
             goal == job.goal
             fp == job.fp
  <1>1. names \in Seq(Names) /\ IsInjective(names)
    BY NamesOfList DEF Store
  <1> HIDE DEF names
  <1>2. CASE job.kind = "delete"
    <2> DEFINE s == IF act \in Ours(fp) THEN <<[op |-> "deactivate"]>> ELSE <<>>
    <2>1. s \in Seq(StepType) /\ \A k \in DOMAIN s : s[k].op = "deactivate"
      <3>1. s \in Seq(StepType)
        BY OneStep
      <3>2. QED BY <3>1
    <2>2. plan = [steps |-> s \o DeleteSteps(Gone(fp, NoName, names)), index |-> -1, activated |-> NoName]
      BY <1>2, Zenon DEF PlanDelete, DeleteSteps, names
    <2> HIDE DEF s
    <2>3. job.steps = s \o DeleteSteps(Gone(fp, NoName, names))
      BY <2>2
    <2>4. StepsAreMine(job, names)
      BY <2>1, <2>3, PlanSweepActs
    <2>5. QED BY <1>2, <2>4 DEF ActsOn, names
  <1>3. CASE job.kind # "delete" /\ IsPlain(goal, fp)
    <2> DEFINE R == <<[op |-> "upsert", goal |-> goal]>>
    <2>1. plan = [steps |-> R, index |-> fp.index, activated |-> NoName]
      BY <1>3 DEF PlanSync, names
    <2>2. DOMAIN R = {1} /\ R[1].op = "upsert" /\ R[1].goal = goal /\ R # <<>>
      OBVIOUS
    <2> HIDE DEF R
    <2>3. job.steps = R
      BY <2>1
    <2>4. goal \in EnvType /\ Ours(fp) = {goal.name} /\ goal.name \in Names
      <3>1. goal \in EnvType
        BY <1>3 DEF IsPlain, GoalType
      <3>2. FootprintNames(fp) = <<goal.name>>
        BY <1>3 DEF IsPlain, FootprintNames
      <3>3. QED BY <3>1, <3>2 DEF Ours, ToSet, EnvType
    <2>5. StepsAreMine(job, names)
      BY <2>2, <2>3 DEF StepsAreMine
    <2>6. ~Begun(job.steps)
      BY <2>2, <2>3 DEF Begun
    <2>7. EndsWell(job, Named(names, goal.name))
      <3>1. StepsInOrder(job)
        BY <2>2, <2>3 DEF StepsInOrder
      <3>2. goal.name \in ToSet(Named(names, goal.name))
        BY <1>1, <2>4, NamedParts
      <3>3. QED BY <1>3, <2>4, <3>1, <3>2 DEF EndsWell
    <2>8. QED BY <2>5, <2>6, <2>7 DEF ActsOn, Now, names
  <1>4. CASE job.kind # "delete" /\ ~IsPlain(goal, fp) /\ goal = NoGoal
    <2>1. plan = [steps |-> DeleteSteps(Gone(fp, act, names)), index |-> -1, activated |-> NoName]
      BY <1>4, Zenon DEF PlanSync, PlanSweep, DeleteSteps, names
    <2> DEFINE t == DeleteSteps(Gone(fp, act, names))
    <2>2. t \in Seq(StepType)
      BY GoneParts, DeletesAreSteps
    <2>3. job.steps = t
      BY <2>1
    <2> HIDE DEF t
    <2>4. t = <<>> \o t /\ <<>> \in Seq(StepType) /\ \A k \in DOMAIN <<>> : <<>>[k].op = "deactivate"
      BY <2>2
    <2>5. job.steps = <<>> \o DeleteSteps(Gone(fp, act, names))
      BY <2>3, <2>4 DEF t
    <2>6. StepsAreMine(job, names)
      BY <2>4, <2>5, PlanSweepActs
    <2>7. QED BY <1>4, <2>6 DEF ActsOn, names
  <1>5. CASE job.kind # "delete" /\ ~IsPlain(goal, fp) /\ goal # NoGoal
    <2>1. goal \in EnvType
      BY <1>5 DEF GoalType
    <2>2. plan = PlanWrite(goal, fp, names, act)
      BY <1>5 DEF PlanSync, names
    <2>3. StepsAreMine(job, names) /\ EndsWell(job, Named(names, goal.name)) /\ ~Begun(job.steps)
      BY <1>1, <2>1, <2>2, PlanWriteActs
    <2>4. QED BY <2>3 DEF ActsOn, Now, names
  <1>6. QED BY <1>2, <1>3, <1>4, <1>5

-----------------------------------------------------------------------------
(* But for the job that goes on, the tail only gets jobs that have not begun. *)

IsSeq(s) == \E A : s \in Seq(A)

Extends(old, new) ==
    \A k \in DOMAIN new : (k \in DOMAIN old /\ new[k] = old[k]) \/ new[k].state = "queued"

On(tl, u) == IsUi(u) /\ IsSeq(u.tail) /\ Extends(tl, u.tail)

LEMMA OnSame ==
    ASSUME NEW tl, NEW u, On(tl, u), NEW v, IsUi(v), v.tail = u.tail
    PROVE  On(tl, v)
  BY DEF On

LEMMA OnAppend ==
    ASSUME NEW tl, NEW u, On(tl, u), NEW job, job.state = "queued", NEW v, IsUi(v), v.tail = Append(u.tail, job)
    PROVE  On(tl, v)
  <1>1. PICK A : u.tail \in Seq(A)
    BY DEF On, IsSeq
  <1> DEFINE B == A \cup {job}
             s == u.tail
             t == Append(s, job)
  <1>2. s \in Seq(B) /\ job \in B
    BY <1>1
  <1> HIDE DEF B, s
  <1>3. /\ t \in Seq(B) /\ Len(s) \in Nat /\ DOMAIN s = 1 .. Len(s) /\ DOMAIN t = 1 .. Len(s) + 1
        /\ t[Len(s) + 1] = job /\ \A k \in 1 .. Len(s) : t[k] = s[k]
    BY <1>2, AppendProperties
  <1> HIDE DEF t
  <1>4. ASSUME NEW k \in DOMAIN t PROVE (k \in DOMAIN s /\ t[k] = s[k]) \/ t[k].state = "queued"
    <2>1. k \in 1 .. Len(s) \/ k = Len(s) + 1
      BY <1>3
    <2>2. QED BY <1>3, <2>1
  <1>5. Extends(tl, s)
    BY DEF On, s
  <1>6. Extends(tl, t)
    BY <1>4, <1>5 DEF Extends
  <1>7. v.tail = t
    BY DEF s, t
  <1>8. QED BY <1>3, <1>6, <1>7 DEF On, IsSeq

LEMMA OnPut ==
    ASSUME NEW tl, NEW u, On(tl, u), NEW i, NEW l
    PROVE  On(tl, Put(u, i, l))
  <1>1. u = [lanes |-> u.lanes, byName |-> u.byName, tail |-> u.tail, pane |-> u.pane, envs |-> u.envs]
    BY DEF On, IsUi
  <1> DEFINE p == Put(u, i, l)
             A == PutInLanes(u, i, l)
             B == PutInNames(u, i, l)
             sends == l.queue.flight \notin {u.lanes[i].queue.flight, Queue!NoFlight}
             job == Job("sync", i, l.queue.flight.goal, l.fp)
             T == IF sends THEN Append(u.tail, job) ELSE u.tail
             N == PutInPane(u, i, l)
  <1>2. p = [u EXCEPT !.lanes = A, !.byName = B, !.tail = T, !.pane = N]
    BY <1>1, Zenon DEF Put, Rearmed, PutInLanes, PutInNames, PutInPane
  <1>3. job.state = "queued" /\ (T = Append(u.tail, job) \/ T = u.tail)
    BY DEF Job
  <1> HIDE DEF A, B, T, N, p, job
  <1>4. p = [lanes |-> A, byName |-> B, tail |-> T, pane |-> N, envs |-> u.envs]
    BY <1>1, <1>2
  <1>5. IsUi(p) /\ p.tail = T
    BY <1>4 DEF IsUi
  <1>6. On(tl, p)
    BY <1>3, <1>5, OnSame, OnAppend
  <1>7. QED BY <1>6 DEF p

LEMMA OnSetEnvs ==
    ASSUME NEW tl, NEW u, On(tl, u), NEW list
    PROVE  On(tl, SetEnvs(u, list))
  <1> DEFINE v == [u EXCEPT !.envs = list]
             l == Notice(u.lanes[u.pane.lane], list)
  <1>1. IsUi(v) /\ v.tail = u.tail
    BY DEF On, IsUi
  <1>2. SetEnvs(u, list) = IF u.pane.lane = NoLane THEN v ELSE Put(v, u.pane.lane, l)
    BY DEF SetEnvs
  <1> HIDE DEF v, l
  <1>3. On(tl, v)
    BY <1>1, OnSame
  <1>4. QED BY <1>2, <1>3, OnPut

LEMMA OnUnshown ==
    ASSUME NEW tl, NEW u, On(tl, u)
    PROVE  On(tl, Swept(u)) /\ On(tl, Unshown(u))
  <1>1. ASSUME NEW v, On(tl, v) PROVE On(tl, Swept(v))
    <2> DEFINE f == [j \in Lanes |-> IF j \in Reached(v) THEN v.lanes[j] ELSE Unused]
               s == Swept(v)
    <2>1. s = [v EXCEPT !.lanes = f]
      BY DEF Swept
    <2> HIDE DEF f, s
    <2>2. IsUi(s) /\ s.tail = v.tail
      BY <1>1, <2>1 DEF On, IsUi
    <2>3. On(tl, s)
      BY <1>1, <2>2, OnSame
    <2>4. QED BY <2>3 DEF s
  <1> DEFINE b == Blank(u)
             n == [u.pane EXCEPT !.lane = NoLane, !.armed = FALSE]
  <1>2. b = [u EXCEPT !.pane = n]
    BY DEF Blank, On, IsUi
  <1> HIDE DEF b, n
  <1>3. IsUi(b) /\ b.tail = u.tail
    BY <1>2 DEF On, IsUi
  <1>4. On(tl, b)
    BY <1>3, OnSame
  <1>5. Unshown(u) = Swept(b)
    BY DEF Unshown, Blank, b
  <1>6. QED BY <1>1, <1>4, <1>5

LEMMA OnAttach ==
    ASSUME NEW tl, NEW u, On(tl, u), NEW to
    PROVE  On(tl, Attach(u, to))
  <1> DEFINE out == Unshown(u)
             hit == to.to = "stored" /\ out.byName[to.name] # NoLane
             i == IF hit THEN out.byName[to.name] ELSE CHOOSE j \in Lanes : ~out.lanes[j].used
             A == [out.lanes EXCEPT ![i] = OpenLane(to, u.envs)]
             B == IF to.to = "stored" THEN [out.byName EXCEPT ![to.name] = i] ELSE out.byName
             nothing == Showing(NoLane)
             this == Showing(i)
             empty == [out EXCEPT !.pane = nothing]
             shown == [out EXCEPT !.pane = this]
             opened == [out EXCEPT !.pane = this, !.lanes = A, !.byName = B]
  <1>1. On(tl, out)
    BY OnUnshown
  <1>2. Attach(u, to) = IF to.to = "empty" THEN empty ELSE IF hit THEN SetEnvs(shown, u.envs) ELSE opened
    BY <1>1, Zenon DEF Attach
  <1> HIDE DEF out, hit, i, A, B, nothing, this
  <1>r. out = [lanes |-> out.lanes, byName |-> out.byName, tail |-> out.tail, pane |-> out.pane, envs |-> out.envs]
    BY <1>1 DEF On, IsUi
  <1>3. /\ IsUi(empty) /\ empty.tail = out.tail /\ IsUi(shown) /\ shown.tail = out.tail
        /\ IsUi(opened) /\ opened.tail = out.tail
    <2>1. IsUi(empty) /\ empty.tail = out.tail
      BY <1>r DEF IsUi
    <2>2. IsUi(shown) /\ shown.tail = out.tail
      BY <1>r DEF IsUi
    <2>o. opened = [out EXCEPT !.pane = this, !.lanes = A, !.byName = B]
      OBVIOUS
    <2> HIDE DEF opened
    <2>3. opened = [lanes |-> A, byName |-> B, tail |-> out.tail, pane |-> this, envs |-> out.envs]
      BY <1>r, <2>o
    <2>4. IsUi(opened) /\ opened.tail = out.tail
      BY <2>3 DEF IsUi
    <2>5. QED BY <2>1, <2>2, <2>4
  <1> HIDE DEF empty, shown, opened
  <1>4. On(tl, empty) /\ On(tl, SetEnvs(shown, u.envs)) /\ On(tl, opened)
    BY <1>1, <1>3, OnSame, OnSetEnvs
  <1>5. QED BY <1>2, <1>4

LEMMA OnLeft ==
    ASSUME NEW tl, NEW u, On(tl, u), NEW to
    PROVE  On(tl, Left(u, to))
  <1> DEFINE v == [u EXCEPT !.pane = NoPane]
  <1>1. IsUi(v) /\ v.tail = u.tail
    BY DEF On, IsUi
  <1>2. Left(u, to) = IF to.to = "closed" THEN v ELSE Attach(u, to)
    BY DEF Left
  <1> HIDE DEF v
  <1>3. QED BY <1>1, <1>2, OnSame, OnAttach

LEMMA OnLeaveNow ==
    ASSUME NEW tl, NEW u, On(tl, u), NEW goal, NEW fp, NEW to
    PROVE  On(tl, LeaveNow(u, goal, fp, to))
  <1> DEFINE job == Job("cleanup", u.pane.lane, goal, fp)
             t == Append(u.tail, job)
             n == [u.pane EXCEPT !.phase = "closing", !.leaving = to]
             v == [u EXCEPT !.tail = t, !.pane = n]
  <1>1. LeaveNow(u, goal, fp, to) = IF fp.strays = <<>> THEN Left(u, to) ELSE v
    BY DEF LeaveNow, On, IsUi
  <1>2. job.state = "queued"
    BY DEF Job
  <1> HIDE DEF job, t, n
  <1>r. u = [lanes |-> u.lanes, byName |-> u.byName, tail |-> u.tail, pane |-> u.pane, envs |-> u.envs]
    BY DEF On, IsUi
  <1>v0. v = [u EXCEPT !.tail = t, !.pane = n]
    OBVIOUS
  <1> HIDE DEF v
  <1>3. v = [lanes |-> u.lanes, byName |-> u.byName, tail |-> t, pane |-> n, envs |-> u.envs]
    BY <1>r, <1>v0
  <1>v. IsUi(v) /\ v.tail = t
    BY <1>3 DEF IsUi
  <1>4. QED BY <1>1, <1>2, <1>v, OnAppend, OnLeft DEF t

LEMMA BecomeExtends ==
    ASSUME NEW u, On(tail, u), Become(u)
    PROVE  Extends(tail, tail')
  <1> DEFINE r == Retired(u)
  <1>1. On(tail, r)
    <2> DEFINE map == [n \in Names |-> IF u.byName[n] # NoLane /\ Idle(u, u.byName[n]) THEN NoLane ELSE u.byName[n]]
               v == [u EXCEPT !.byName = map]
    <2>1. Retired(u) = IF u.pane.phase # "closed" THEN u ELSE v
      BY Zenon DEF Retired, Idle
    <2> HIDE DEF map
    <2>2. IsUi(v) /\ v.tail = u.tail
      BY DEF On, IsUi
    <2> HIDE DEF v
    <2>3. QED BY <2>1, <2>2, OnSame
  <1>2. tail' = Swept(r).tail
    BY DEF Become
  <1> HIDE DEF r
  <1>3. On(tail, Swept(r))
    BY <1>1, OnUnshown
  <1>4. QED BY <1>2, <1>3 DEF On

\* The tail as it is, and without its first job.
LEMMA UiOn ==
    ASSUME WellFormed(Ui)
    PROVE  On(tail, Ui) /\ (tail # <<>> => On(tail, Rest))
  <1>1. /\ tail \in Seq(JobType) /\ \A k \in DOMAIN tail : tail[k].state # "queued" => k = 1
    BY WellParts, UiParts
  <1>2. On(tail, Ui)
    BY <1>1, UiParts DEF On, IsSeq, Extends
  <1>3. ASSUME tail # <<>> PROVE On(tail, Rest)
    <2> DEFINE t == Tail(tail)
    <2>1. /\ t \in Seq(JobType)
          /\ \A k \in DOMAIN t : k \in Nat /\ k # 0 /\ k + 1 \in DOMAIN tail /\ t[k] = tail[k + 1]
      BY <1>1, <1>3, ShiftParts
    <2> HIDE DEF t
    <2>2. ASSUME NEW k \in DOMAIN t PROVE t[k].state = "queued"
      <3>1. k \in Nat /\ k # 0 /\ k + 1 \in DOMAIN tail /\ t[k] = tail[k + 1]
        BY <2>1
      <3>2. k + 1 # 1
        BY <3>1
      <3>3. QED BY <1>1, <3>1, <3>2
    <2>3. IsUi(Rest) /\ Rest.tail = t
      <3>1. Rest.tail = t /\ Sound(Rest)
        BY <1>3, RestKeeps DEF t
      <3>2. QED BY <3>1 DEF Sound, Shape
    <2>4. QED BY <2>1, <2>2, <2>3 DEF On, IsSeq, Extends
  <1>4. QED BY <1>2, <1>3

LEMMA OnChanged ==
    ASSUME NEW tl, NEW u, On(tl, u), NEW x
    PROVE  On(tl, [u EXCEPT !.pane.confirm = x]) /\ On(tl, [u EXCEPT !.byName = x])
  <1> DEFINE n == [u.pane EXCEPT !.confirm = x]
             v == [u EXCEPT !.pane = n]
             w == [u EXCEPT !.byName = x]
  <1>1. u = [lanes |-> u.lanes, byName |-> u.byName, tail |-> u.tail, pane |-> u.pane, envs |-> u.envs]
    BY DEF On, IsUi
  <1>2. v = [u EXCEPT !.pane.confirm = x]
    BY <1>1
  <1> HIDE DEF n
  <1>3. IsUi(v) /\ v.tail = u.tail
    BY <1>1 DEF IsUi
  <1>4. IsUi(w) /\ w.tail = u.tail
    BY <1>1 DEF IsUi
  <1> HIDE DEF v, w
  <1>5. On(tl, v) /\ On(tl, w)
    BY <1>3, <1>4, OnSame
  <1>6. QED BY <1>2, <1>5 DEF w

\* What the user does, and the lists that come in, puts nothing before the job that runs.
LEMMA UserExtends ==
    ASSUME WellFormed(Ui), UserNext \/ TimerFires
    PROVE  Extends(tail, tail') /\ UNCHANGED store
  <1>1. On(tail, Ui)
    BY UiOn
  <1>2. ASSUME NEW l, LaneSteps(l) PROVE Extends(tail, tail') /\ UNCHANGED store
    <2>1. On(tail, Put(Ui, pane.lane, l)) /\ Become(Put(Ui, pane.lane, l)) /\ UNCHANGED store
      BY <1>1, <1>2, OnPut DEF LaneSteps, core
    <2>2. QED BY <2>1, BecomeExtends
  <1>3. ASSUME NEW n \in Names \cup {NoName}, Rename(n) PROVE Extends(tail, tail') /\ UNCHANGED store
    <2>1. LaneSteps(Stage([Shown EXCEPT !.draft.name = n], "now"))
      BY <1>3 DEF Rename
    <2>2. QED BY <1>2, <2>1
  <1>4. ASSUME NEW n \in Names \cup {NoName}, SelectEnv(n) PROVE Extends(tail, tail') /\ UNCHANGED store
    BY <1>4 DEF SelectEnv, Extends, core
  <1>5. ASSUME NEW v \in Vals, NEW bad \in BOOLEAN, EditContent(v, bad) PROVE Extends(tail, tail') /\ UNCHANGED store
    <2>1. LaneSteps(Stage([Shown EXCEPT !.draft.val = v, !.draft.bad = bad], "now"))
      BY <1>5 DEF EditContent
    <2>2. QED BY <1>2, <2>1
  <1>6. ASSUME TimerFires \/ Retry \/ Create PROVE Extends(tail, tail') /\ UNCHANGED store
    <2>1. LaneSteps(Flushed(Shown))
      BY <1>6 DEF TimerFires, Retry, Create
    <2>2. QED BY <1>2, <2>1
  <1>7. ASSUME NEW u, On(tail, u), Become(u), UNCHANGED core PROVE Extends(tail, tail') /\ UNCHANGED store
    BY <1>7, BecomeExtends DEF core
  <1>8. ASSUME NEW to \in Targets, OpenEditor(to) PROVE Extends(tail, tail') /\ UNCHANGED store
    <2>1. On(tail, Attach(Ui, to)) /\ Become(Attach(Ui, to)) /\ UNCHANGED core
      BY <1>1, <1>8, OnAttach DEF OpenEditor
    <2>2. QED BY <1>7, <2>1
  <1>9. ASSUME NEW to \in Targets, LeaveEmpty(to) PROVE Extends(tail, tail') /\ UNCHANGED store
    <2>1. On(tail, Left(Ui, to)) /\ Become(Left(Ui, to)) /\ UNCHANGED core
      BY <1>1, <1>9, OnLeft DEF LeaveEmpty
    <2>2. QED BY <1>7, <2>1
  <1>10. ASSUME NEW to \in Targets, LeaveStored(to) PROVE Extends(tail, tail') /\ UNCHANGED store
    <2> DEFINE l == Flushed(IF Valid(Shown) THEN Shown ELSE Salvaged(Shown))
               gone == LeaveNow(Put(Ui, pane.lane, l), l.queue.acked.goal, l.fp, to)
               list == ReplaceEnv(envs, l.fp.name, l.queue.head.goal)
               u == IF Queue!Owed(l.queue) THEN SetEnvs(gone, list) ELSE gone
    <2>1. Become(u) /\ UNCHANGED core
      BY <1>10 DEF LeaveStored
    <2> HIDE DEF l
    <2>2. On(tail, gone)
      BY <1>1, OnPut, OnLeaveNow
    <2> HIDE DEF gone, list
    <2>3. On(tail, u)
      BY <2>2, OnSetEnvs
    <2> HIDE DEF u
    <2>4. QED BY <1>7, <2>1, <2>3
  <1>11. ASSUME NEW to \in Targets, LeaveNew(to) PROVE Extends(tail, tail') /\ UNCHANGED store
    <2> DEFINE u == LeaveNow(Ui, NoGoal, Shown.fp, to)
    <2>1. On(tail, u) /\ Become(u) /\ UNCHANGED core
      BY <1>1, <1>11, OnLeaveNow DEF LeaveNew
    <2> HIDE DEF u
    <2>2. QED BY <1>7, <2>1
  <1>12. ASSUME RequestDelete PROVE Extends(tail, tail') /\ UNCHANGED store
    <2> DEFINE p == Put(Ui, pane.lane, Flushed(Shown))
               u == [p EXCEPT !.pane.confirm = "asking"]
    <2>1. Become(u) /\ UNCHANGED core
      BY <1>12 DEF RequestDelete
    <2>2. On(tail, p)
      BY <1>1, OnPut
    <2> HIDE DEF p
    <2>3. On(tail, u)
      BY <2>2, OnChanged
    <2> HIDE DEF u
    <2>4. QED BY <1>7, <2>1, <2>3
  <1>13. ASSUME CancelDelete PROVE Extends(tail, tail') /\ UNCHANGED store
    <2> DEFINE u == [Ui EXCEPT !.pane.confirm = "none"]
    <2>1. Become(u) /\ UNCHANGED core
      BY <1>13 DEF CancelDelete
    <2>2. On(tail, u)
      BY <1>1, OnChanged
    <2> HIDE DEF u
    <2>3. QED BY <1>7, <2>1, <2>2
  <1>14. ASSUME ConfirmDelete PROVE Extends(tail, tail') /\ UNCHANGED store
    <2> DEFINE job == Job("delete", pane.lane, NoGoal, Shown.fp)
               p == [Ui EXCEPT !.pane.confirm = "deleting"]
               t == Append(tail, job)
               u == [p EXCEPT !.tail = t]
    <2>1. /\ Become([Ui EXCEPT !.pane.confirm = "deleting", !.tail = Append(@, job)])
          /\ UNCHANGED core
      BY <1>14 DEF ConfirmDelete
    <2>2. [Ui EXCEPT !.pane.confirm = "deleting", !.tail = Append(@, job)] = u
      BY UiParts DEF Ui
    <2>3. job.state = "queued"
      BY DEF Job
    <2> HIDE DEF job
    <2>4. On(tail, p)
      BY Zenon, <1>1, OnChanged
    <2>5. p.tail = tail
      BY DEF Ui
    <2> HIDE DEF p, t
    <2>6. p = [lanes |-> p.lanes, byName |-> p.byName, tail |-> p.tail, pane |-> p.pane, envs |-> p.envs]
      BY <2>4 DEF On, IsUi
    <2>7. IsUi(u) /\ u.tail = t
      BY <2>6 DEF IsUi
    <2> HIDE DEF u
    <2>8. On(tail, u)
      BY <2>3, <2>4, <2>5, <2>7, OnAppend DEF t
    <2>9. QED BY <1>7, <2>1, <2>2, <2>8
  <1>15. QED
    BY <1>3, <1>4, <1>5, <1>6, <1>8, <1>9, <1>10, <1>11, <1>12, <1>13, <1>14 DEF UserNext

Settles == WriteSettles \/ WriteFails \/ CleanupSettles \/ DeleteSettles \/ DeleteFails

LEMMA SettlesExtend ==
    ASSUME WellFormed(Ui), Settles
    PROVE  Extends(tail, tail') /\ UNCHANGED store
  <1>1. tail # <<>>
    <2>1. JobEnded
      BY Zenon DEF Settles, WriteSettles, WriteFails, CleanupSettles, DeleteSettles, DeleteFails
    <2>2. QED BY ONLY <2>1 DEF JobEnded
  <1>2. On(tail, Rest)
    BY <1>1, UiOn
  <1>3. ASSUME NEW u, On(tail, u), Become(u), UNCHANGED core PROVE Extends(tail, tail') /\ UNCHANGED store
    <2>1. Extends(tail, tail')
      BY Zenon, <1>3, BecomeExtends
    <2>2. UNCHANGED store
      BY ONLY <1>3 DEF core
    <2>3. QED BY ONLY <2>1, <2>2
  <1>4. CASE WriteSettles
    <2> DEFINE job == Head(tail)
               l == lanes[job.lane]
               next == [l EXCEPT !.fp = AfterSync(@, job.goal, TRUE, job.index), !.queue = Queue!Settled(@, TRUE)]
               created == ~l.fp.stored
               put == Put(Rest, job.lane, IF created THEN Flushed(next) ELSE next)
               u == IF created /\ job.lane = pane.lane THEN Attach(put, Stored(job.goal.name)) ELSE put
    <2>1. Become(u) /\ UNCHANGED core
      BY <1>4 DEF WriteSettles
    <2> HIDE DEF next
    <2>2. On(tail, put)
      BY <1>2, OnPut
    <2> HIDE DEF put
    <2>3. On(tail, u)
      BY <2>2, OnAttach
    <2> HIDE DEF u
    <2>4. QED BY <1>3, <2>1, <2>3
  <1>5. CASE WriteFails
    <2> DEFINE job == Head(tail)
               l == lanes[job.lane]
               next == [l EXCEPT !.fp = AfterSync(@, job.goal, FALSE, 0), !.queue = Queue!Settled(@, FALSE)]
               put == Put(Rest, job.lane, next)
               acked == next.queue.acked.goal
               head == next.queue.head.goal
               reverts == job.lane # pane.lane /\ next.queue.flight = Queue!NoFlight /\ acked # NoGoal
               list == ReplaceEnv(envs, IF head = NoGoal THEN acked.name ELSE head.name, acked)
               u == IF reverts THEN SetEnvs(put, list) ELSE put
    <2>1. Become(u) /\ UNCHANGED core
      BY Zenon, <1>5 DEF WriteFails
    <2> HIDE DEF next
    <2>2. On(tail, put)
      BY <1>2, OnPut
    <2> HIDE DEF put, list, reverts
    <2>3. On(tail, u)
      BY <2>2, OnSetEnvs
    <2> HIDE DEF u
    <2>4. QED BY <1>3, <2>1, <2>3
  <1>6. CASE CleanupSettles
    <2>1. On(tail, Left(Rest, pane.leaving)) /\ Become(Left(Rest, pane.leaving)) /\ UNCHANGED core
      BY <1>2, <1>6, OnLeft DEF CleanupSettles
    <2>2. QED BY <1>3, <2>1
  <1>7. CASE DeleteSettles
    <2> DEFINE job == Head(tail)
               to == Neighbor(envs, job.fp.name)
               map == [n \in Names |-> IF n = job.fp.name /\ Rest.byName[n] = job.lane THEN NoLane ELSE Rest.byName[n]]
               forgot == [Rest EXCEPT !.byName = map]
    <2>1. Become(Attach(forgot, to)) /\ UNCHANGED core
      BY <1>7 DEF DeleteSettles
    <2> HIDE DEF map, to
    <2>2. On(tail, forgot)
      BY <1>2, OnChanged
    <2> HIDE DEF forgot
    <2>3. On(tail, Attach(forgot, to))
      BY <2>2, OnAttach
    <2>4. QED BY <1>3, <2>1, <2>3
  <1>8. CASE DeleteFails
    <2> DEFINE u == [Rest EXCEPT !.pane.confirm = "asking"]
    <2>1. Become(u) /\ UNCHANGED core
      BY <1>8 DEF DeleteFails
    <2>2. On(tail, u)
      BY <1>2, OnChanged
    <2> HIDE DEF u
    <2>3. QED BY <1>3, <2>1, <2>2
  <1>9. \/ WriteSettles \/ WriteFails \/ CleanupSettles \/ DeleteSettles \/ DeleteFails
    BY ONLY Settles DEF Settles
  <1>10. QED BY ONLY <1>4, <1>5, <1>6, <1>7, <1>8, <1>9, Zenon

LEMMA CallsExtend ==
    ASSUME WellFormed(Ui), ListNext \/ SelectNext
    PROVE  Extends(tail, tail') /\ UNCHANGED store
  <1>1. ASSUME NEW r \in refreshes, ReadList(r) PROVE Extends(tail, tail') /\ UNCHANGED store
    BY <1>1 DEF ReadList, Extends, core
  <1>2. ASSUME NEW r \in refreshes, ShowList(r) PROVE Extends(tail, tail') /\ UNCHANGED store
    <2> DEFINE u == SetEnvs(Ui, r.list)
    <2>1. On(tail, u) /\ Become(u) /\ UNCHANGED store
      BY <1>2, UiOn, OnSetEnvs DEF ShowList, core
    <2> HIDE DEF u
    <2>2. QED BY <2>1, BecomeExtends
  <1>3. ASSUME NEW s \in selects, CheckSelect(s) \/ WriteSelect(s) PROVE Extends(tail, tail') /\ UNCHANGED store
    BY <1>3 DEF CheckSelect, WriteSelect, Extends, core
  <1>4. QED BY <1>1, <1>2, <1>3 DEF ListNext, SelectNext

-----------------------------------------------------------------------------
(* What runs acts on the store as it should, up to its end. *)

HeadActs == Running => ActsOn(Head(tail), store)

LEMMA ActsGoesOn ==
    ASSUME NEW list, Store(list), NEW act, NEW job, job.steps \in Seq(StepType), job.steps # <<>>,
           job.kind = "sync" => job.goal \in EnvType, ActsOn(job, list),
           NEW next, next = StoreAfter(list, job.steps[1]), Store(next), ~Refused(list, act, job.steps[1]),
           NEW rest, Continues(job, rest), rest.kind = job.kind
    PROVE  Spares(Mine(job), list, next) /\ ActsOn(rest, next)
  <1> DEFINE step == job.steps[1]
  <1>1. step \in StepType /\ 1 \in DOMAIN job.steps
    BY StepsAfter
  <1>2. rest.goal = job.goal
    BY DEF Continues
  <1>3. StepsAreMine(job, NamesOf(list))
    BY DEF ActsOn
  <1>4. Spares(Mine(job), list, next)
    <2>1. /\ step.op = "upsert" => step.goal = job.goal
          /\ step.op = "delete" => step.name \in Ours(job.fp)
          /\ step.op = "reorder" =>
               \A c, d \in Names \ Mine(job) : Before(step.names, c, d) <=> Before(NamesOf(list), c, d)
      BY <1>1, <1>3 DEF StepsAreMine
    <2> DEFINE mine == Mine(job)
    <2>2. job.goal.name \in mine /\ Ours(job.fp) \subseteq mine
      BY DEF Mine
    <2> HIDE DEF step, mine
    <2>3. Spares(mine, list, StoreAfter(list, step))
      <3>1. /\ step.op = "upsert" => step.goal.name \in mine
            /\ step.op = "delete" => step.name \in mine
            /\ step.op = "reorder" =>
                 \A c, d \in Names \ mine : Before(step.names, c, d) <=> Before(NamesOf(list), c, d)
        BY <2>1, <2>2 DEF mine
      <3>2. step \in StepType /\ ~Refused(list, act, step)
        BY <1>1 DEF step
      <3>3. QED BY <3>1, <3>2, StepSpares
    <2>4. QED BY <2>3 DEF step, mine
  <1>5. StepsAreMine(rest, NamesOf(next))
    BY <1>3, <1>4, MineGoesOn
  <1>6. ASSUME job.kind = "sync"
        PROVE  EndsWell(rest, Now(rest, NamesOf(next))) /\ Content(next, rest.goal.name) = rest.goal.val
    <2>1. /\ EndsWell(job, Now(job, NamesOf(list)))
          /\ Begun(job.steps) => Content(list, job.goal.name) = job.goal.val
      BY <1>6 DEF ActsOn
    <2>2. StepsInOrder(job)
      BY <2>1 DEF EndsWell
    <2>3. Begun(rest.steps)
      BY <2>2, OrderGoesOn
    <2>4. CASE Begun(job.steps)
      <3>1. step.op # "upsert" /\ EndsWell(job, NamesOf(list))
        BY <2>1, <2>4 DEF Begun, Now
      <3>2. EndsWell(rest, NamesOf(next)) /\ Content(next, job.goal.name) = Content(list, job.goal.name)
        BY <3>1, LaterStepGoesOn
      <3>3. QED BY <1>2, <2>1, <2>3, <2>4, <3>2 DEF Now
    <2>5. CASE ~Begun(job.steps)
      <3>1. step.op = "upsert" /\ EndsWell(job, Named(NamesOf(list), job.goal.name))
        BY <2>1, <2>5 DEF Begun, Now
      <3>2. step.goal = job.goal
        BY <1>1, <1>3, <3>1 DEF StepsAreMine
      <3>3. EndsWell(rest, NamesOf(next)) /\ Content(next, job.goal.name) = job.goal.val
        BY <1>6, <3>1, <3>2, UpsertGoesOn
      <3>4. QED BY <1>2, <2>3, <3>3 DEF Now
    <2>6. QED BY <2>4, <2>5
  <1>7. QED BY <1>4, <1>5, <1>6 DEF ActsOn

\* The job that runs is the one that ran, or none does.
LEMMA HeadStays ==
    ASSUME EnvInv', HeadActs, Extends(tail, tail'), UNCHANGED store
    PROVE  HeadActs'
  <1> SUFFICES ASSUME Running' PROVE ActsOn(Head(tail'), store')
    BY DEF HeadActs
  <1>1. tail' # <<>> /\ Head(tail').state = "running"
    BY DEF Running
  <1>2. tail' \in Seq(JobType)
    BY DEF EnvInv, WellFormed, Sound, Shape, Ui
  <1>3. 1 \in DOMAIN tail' /\ Head(tail') = tail'[1]
    BY <1>1, <1>2
  <1>4. 1 \in DOMAIN tail /\ tail'[1] = tail[1]
    BY <1>1, <1>3 DEF Extends
  <1>5. tail # <<>> /\ Head(tail) = tail[1]
    BY <1>4
  <1>6. Running /\ Head(tail') = Head(tail)
    BY <1>1, <1>3, <1>4, <1>5 DEF Running
  <1>7. QED BY <1>6 DEF HeadActs

LEMMA JobStartsActs ==
    ASSUME EnvInv, JobStarts
    PROVE  HeadActs'
  <1> DEFINE was == Head(tail)
             plan == IF was.kind = "delete" THEN PlanDelete(was.fp, NamesOf(store), active)
                     ELSE PlanSync(was.goal, was.fp, NamesOf(store), active)
             job == [was EXCEPT !.state = "running", !.steps = plan.steps,
                                !.index = plan.index, !.activated = plan.activated]
  <1>1. /\ tail # <<>> /\ UNCHANGED store
        /\ tail' = [tail EXCEPT ![1] = [@ EXCEPT !.state = "running", !.steps = plan.steps,
                                                 !.index = plan.index, !.activated = plan.activated]]
    BY DEF JobStarts, core
  <1>2. /\ tail \in Seq(JobType) /\ 1 \in DOMAIN tail /\ was = tail[1] /\ was \in JobType /\ JobOK(was)
        /\ FootprintOK(was.fp) /\ was.goal \in GoalType /\ was.kind \in {"sync", "cleanup", "delete"}
    BY <1>1, HeadParts DEF EnvInv
  <1>3. tail' = [tail EXCEPT ![1] = job]
    BY <1>1, <1>2
  <1>4. was.kind = "sync" => was.goal # NoGoal
    BY <1>2 DEF JobOK
  <1>5. Store(store) /\ active \in Names \cup {NoName}
    BY DEF EnvInv, StoreOK, Store
  <1> HIDE DEF was
  <1>6. plan = (IF was.kind = "delete" THEN PlanDelete(was.fp, NamesOf(store), active)
                ELSE PlanSync(was.goal, was.fp, NamesOf(store), active))
    OBVIOUS
  <1> HIDE DEF plan
  <1>7. job.goal = was.goal /\ job.fp = was.fp /\ job.kind = was.kind /\ job.steps = plan.steps /\ job.index = plan.index
    BY <1>2 DEF JobType
  <1> HIDE DEF job
  <1>8. ActsOn(job, store)
    <2>1. /\ job.goal \in GoalType /\ FootprintOK(job.fp) /\ job.kind \in {"sync", "cleanup", "delete"}
          /\ job.kind = "sync" => job.goal # NoGoal
          /\ plan = (IF job.kind = "delete" THEN PlanDelete(job.fp, NamesOf(store), active)
                     ELSE PlanSync(job.goal, job.fp, NamesOf(store), active))
      BY <1>2, <1>4, <1>6, <1>7
    <2>2. QED BY <1>5, <1>7, <2>1, PlansAct
  <1>9. Head(tail') = job
    BY <1>2, <1>3
  <1>10. QED BY <1>1, <1>8, <1>9 DEF HeadActs

\* A command of the job that runs.
LEMMA JobStepActs ==
    ASSUME EnvInv, HeadActs, JobStep
    PROVE  /\ HeadActs'
           /\ Spares(Mine(Head(tail)), store, store') /\ Store(store) /\ Store(store') /\ tail # <<>>
  <1> DEFINE job == Head(tail)
             step == Head(job.steps)
             rest == [job EXCEPT !.steps = Tail(@)]
  <1>1. /\ tail # <<>> /\ job.steps # <<>> /\ ~Refused(store, active, step) /\ Running
        /\ store' = StoreAfter(store, step) /\ active' = ActiveAfter(active, step)
        /\ tail' = [tail EXCEPT ![1].steps = Tail(@)]
    BY DEF JobStep, Running
  <1>2. /\ tail \in Seq(JobType) /\ 1 \in DOMAIN tail /\ job = tail[1] /\ job \in JobType /\ JobOK(job)
        /\ job.goal \in GoalType /\ job.steps \in Seq(StepType)
    BY <1>1, HeadParts DEF EnvInv
  <1>3. ActsOn(job, store)
    BY <1>1 DEF HeadActs
  <1>4. tail' = [tail EXCEPT ![1] = rest]
    BY <1>1, <1>2
  <1>5. job.kind = "sync" => job.goal \in EnvType
    BY <1>2 DEF JobOK, GoalType
  <1> HIDE DEF job
  <1>6. step \in StepType /\ step = job.steps[1]
    BY <1>1, <1>2, StepsAfter
  <1>7. Continues(job, rest) /\ rest.kind = job.kind
    BY <1>2 DEF Continues, JobType
  <1> HIDE DEF step, rest
  <1>8. Store(store) /\ Store(store')
    <2>1. Store(store) /\ active \in Names \cup {NoName}
      BY DEF EnvInv, StoreOK, Store
    <2>2. QED BY <1>1, <1>6, <2>1, StoreAfterKeeps
  <1>9. Spares(Mine(job), store, store') /\ ActsOn(rest, store')
    BY <1>1, <1>2, <1>3, <1>5, <1>6, <1>7, <1>8, ActsGoesOn
  <1>10. Head(tail') = rest
    BY <1>2, <1>4
  <1>11. QED BY <1>1, <1>8, <1>9, <1>10 DEF HeadActs, job

\* What a running job still has to do is what its plan was for, whatever other steps come between.
THEOREM PlansHold ==
    Spec => [](EnvInv /\ HeadActs)
  <1>1. Init => EnvInv /\ HeadActs
    BY InitEnv DEF Init, HeadActs, Running
  <1>2. EnvInv /\ HeadActs /\ [Next]_vars => (EnvInv /\ HeadActs)'
    <2> SUFFICES ASSUME EnvInv, HeadActs, [Next]_vars PROVE EnvInv' /\ HeadActs'
      OBVIOUS
    <2>1. WellFormed(Ui)
      BY DEF EnvInv
    <2>2. CASE UserNext \/ TimerFires
      BY <2>1, <2>2, UserKeeps, UserExtends, HeadStays
    <2>3. CASE TailNext
      <3>1. EnvInv'
        BY <2>3, TailKeeps
      <3>2. CASE JobStarts
        BY <3>1, <3>2, JobStartsActs
      <3>3. CASE JobStep
        BY <3>1, <3>3, JobStepActs
      <3>4. CASE JobFails
        <4>1. tail \in Seq(JobType) /\ 1 \in DOMAIN tail /\ tail[1] \in JobType /\ tail' = [tail EXCEPT ![1].state = "failed"]
          BY <2>1, <3>4, HeadParts DEF JobFails, Running
        <4>2. Head(tail').state = "failed"
          BY <4>1 DEF JobType
        <4>3. QED BY <3>1, <4>2 DEF HeadActs, Running
      <3>5. CASE Settles
        BY <2>1, <3>1, <3>5, SettlesExtend, HeadStays
      <3>6. QED BY <2>3, <3>2, <3>3, <3>4, <3>5 DEF TailNext, Settles
    <2>4. CASE ListNext \/ SelectNext
      BY <2>1, <2>4, CallsKeep, CallsExtend, HeadStays
    <2>5. CASE UNCHANGED vars
      <3>1. EnvInv'
        BY <2>5 DEF vars, EnvInv, WellFormed, StoreOK, CallsOK, Ui
      <3>2. Extends(tail, tail') /\ UNCHANGED store
        BY <2>5 DEF vars, Extends
      <3>3. QED BY <3>1, <3>2, HeadStays
    <2>6. QED BY <2>2, <2>3, <2>4, <2>5 DEF Next
  <1>3. QED BY <1>1, <1>2, PTL DEF Spec

\* A write that is acknowledged took effect: the store holds its goal, none of the other names
\* that the lane's writes may have left there, and the environment is at its place.
THEOREM WritesTakeEffect ==
    Spec => []WriteTookEffect
  <1>1. EnvInv /\ HeadActs => WriteTookEffect
    <2> SUFFICES ASSUME EnvInv, HeadActs, SyncDone PROVE WriteTookEffect
      BY DEF WriteTookEffect
    <2> DEFINE job == Head(tail)
               N == NamesOf(store)
               n == job.goal.name
    <2>1. tail # <<>> /\ Running /\ job.kind = "sync" /\ job.steps = <<>>
      BY DEF SyncDone, JobEnded, Running
    <2>2. job.index \in Int
      BY <2>1, HeadParts DEF EnvInv, JobType
    <2>3. store \in Seq(EnvType) /\ N \in Seq(Names) /\ IsInjective(N) /\ Len(N) = Len(store)
      BY NamesOfList DEF EnvInv, StoreOK
    <2>4. ActsOn(job, store)
      BY <2>1 DEF HeadActs
    <2> HIDE DEF job
    <2>5. Begun(job.steps) /\ Deletes(job.steps) = {} /\ ~Reorders(job.steps)
      BY <2>1 DEF Begun, Deletes, Reorders
    <2>6. EndsWell(job, N) /\ Content(store, n) = job.goal.val
      BY <2>1, <2>4, <2>5 DEF ActsOn, Now
    <2>7. /\ n \in ToSet(N) /\ (Ours(job.fp) \ {n}) \cap ToSet(N) = {}
          /\ ~IsPlain(job.goal, job.fp) => AtItsPlace(job, Wanted(job.steps, N))
      BY <2>5, <2>6 DEF EndsWell
    <2>8. Wanted(job.steps, N) = N
      BY <2>3, <2>5, WithoutNone DEF Wanted
    <2>9. Has(store, n) /\ \A m \in Ours(job.fp) \ {n} : ~Has(store, m)
      <3>1. \A m : Has(store, m) <=> m \in ToSet(N)
        BY <2>3, HasMeans
      <3>2. QED BY <2>7, <3>1
    <2>10. ASSUME ~IsPlain(job.goal, job.fp)
           PROVE  /\ PlaceOf(N, n) = job.index + 1
                  /\ job.fp.stored => job.index = IF job.fp.index < Len(store) THEN job.fp.index ELSE Len(store) - 1
      <3>1. /\ job.index = PlaceOf(N, n) - 1
            /\ job.fp.stored => job.index = IF job.fp.index < Len(N) THEN job.fp.index ELSE Len(N) - 1
        BY <2>7, <2>8, <2>10 DEF AtItsPlace
      <3>2. PlaceOf(N, n) \in 1 .. Len(N)
        BY <2>3, <2>7, PlaceIsThere
      <3>3. QED BY <2>2, <2>3, <3>1, <3>2
    <2>11. KeepsPlace
      BY <2>10 DEF KeepsPlace, job
    <2>12. QED BY <2>6, <2>9, <2>11 DEF WriteTookEffect, job
  <1>2. QED BY <1>1, PlansHold, PTL

\* A job touches nothing but what is its own: every step leaves the other environments' contents
\* and order, also of a plan that is then dropped half-way.
THEOREM OthersStay ==
    Spec => OthersUntouched
  <1>1. EnvInv /\ HeadActs /\ [Next]_vars =>
          [tail # <<>> /\
             LET mine == Ours(Head(tail).fp) \cup {Head(tail).goal.name}
                 Others(list) == Kept(list, {env \in ToSet(list) : env.name \notin mine})
             IN  Others(store') = Others(store)]_store
    <2> SUFFICES ASSUME EnvInv, HeadActs, [Next]_vars, ~UNCHANGED store
                 PROVE  tail # <<>> /\
                          LET mine == Ours(Head(tail).fp) \cup {Head(tail).goal.name}
                              Others(list) == Kept(list, {env \in ToSet(list) : env.name \notin mine})
                          IN  Others(store') = Others(store)
      OBVIOUS
    <2>1. JobStep
      <3>1. WellFormed(Ui)
        BY DEF EnvInv
      <3>2. ~(UserNext \/ TimerFires) /\ ~Settles /\ ~(ListNext \/ SelectNext)
        BY <3>1, UserExtends, SettlesExtend, CallsExtend
      <3>3. ~JobStarts /\ ~JobFails /\ ~UNCHANGED vars
        BY DEF JobStarts, JobFails, vars, core
      <3>4. QED BY <3>2, <3>3 DEF Next, TailNext, Settles
    <2>2. tail # <<>> /\ Spares(Mine(Head(tail)), store, store') /\ Store(store) /\ Store(store')
      BY <2>1, JobStepActs
    <2> DEFINE mine == Ours(Head(tail).fp) \cup {Head(tail).goal.name}
    <2>3. mine = Mine(Head(tail))
      BY DEF Mine
    <2> HIDE DEF mine
    <2>4. Kept(store', {env \in ToSet(store') : env.name \notin mine})
            = Kept(store, {env \in ToSet(store) : env.name \notin mine})
      BY <2>2, <2>3, SparedAreSame
    <2>5. QED BY <2>2, <2>4 DEF mine
  <1>2. QED BY <1>1, PlansHold, PTL DEF OthersUntouched, Spec
===============================================================================
