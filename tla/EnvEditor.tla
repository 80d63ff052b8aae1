---------------------------------- MODULE EnvEditor ----------------------------------
(***************************************************************************)
(* The environment editor (src/features/envs): lanes that save by          *)
(* themselves (envEditor.ts), the session that shows one of them at a time *)
(* (envSession.ts, useEnvEditor.ts), the tail their writes queue on        *)
(* (envSync.ts), the list of environments they are opened from             *)
(* (WorkflowEnvControl.tsx), and core's store.                             *)
(*                                                                         *)
(* An open field counts as applied when it is left: what the code commits  *)
(* on the way to another intent is an edit just before it.  A draft is     *)
(* `bad` when a variable has an empty or duplicate name; its `val` is then *)
(* what salvage makes of it.                                               *)
(***************************************************************************)
EXTENDS EnvSync

CONSTANTS Initial, \* the store at the start, a sequence of environments
          InitialActive,
          Vals,    \* contents an environment can have
          Lanes,   \* lanes there can be at once, 1 .. n
          Budgets, \* bound: how often the user and the disk may do what can be done for ever
          MaxLists \* bound: envList calls on their way when another is due

EnvType == [name : Names, val : Vals]

\* The store at the start is one core can have loaded; 0 is the content of an empty environment.
ASSUME EnvAssumption ==
    /\ NoName \notin Names /\ InitialActive \in Names \cup {NoName}
    /\ 0 \in Vals /\ 0 \notin Lanes
    /\ Initial \in Seq(EnvType) /\ IsInjective(NamesOf(Initial))

Queue == INSTANCE SaveQueue WITH NoGoal <- NoGoal

VARIABLES
    store, active,  \* core: FileEnvironmentStore and AppState.active_env
    tail,           \* syncTail: the jobs not settled, the first under way
    lanes,          \* each lane's state, Unused when there is none
    byName,         \* the Map of lanes by the name they are stored under
    pane,           \* the session: its phase, the lane shown, the delete dialog, the timer
    envs,           \* the list of environments in WorkflowEnvControl
    refreshes,      \* envList calls of that list on their way
    selects,        \* envActiveSet calls on their way
    left            \* what remains of the budget

core == <<store, active>>
vars == <<store, active, tail, lanes, byName, pane, envs, refreshes, selects, left>>

\* The lane shown when none is.
NoLane == 0
Unused == [used |-> FALSE]

\* Where a pane that is left goes: an environment, a new one, nowhere, or it closes.
Stored(name) == [to |-> "stored", name |-> name]
New == [to |-> "new", name |-> NoName]
Empty == [to |-> "empty", name |-> NoName]
Closed == [to |-> "closed", name |-> NoName]

NoPane == [phase |-> "closed", lane |-> NoLane, confirm |-> "none", armed |-> FALSE, leaving |-> Empty]

Init ==
    /\ store = Initial /\ active = InitialActive
    /\ tail = <<>>
    /\ lanes = [i \in Lanes |-> Unused]
    /\ byName = [n \in Names |-> NoLane]
    /\ pane = NoPane
    /\ envs = Initial
    /\ refreshes = {} /\ selects = {}
    /\ left \in Budgets

------------------------------------------------------------------------------------
\* One lane.

\* parseDraft's verdict, with the names the lane has last seen taken by others.
Valid(l) ==
    /\ ~l.draft.bad
    /\ l.draft.name # NoName
    /\ l.draft.name \notin l.seen \ Ours(l.fp)

Goal(l) == [name |-> l.draft.name, val |-> l.draft.val]

\* stageSave: a new environment is held until it is created.
Stage(l, urgency) ==
    [l EXCEPT !.queue = IF Valid(l) THEN Queue!Edited(@, Goal(l), IF l.fp.stored THEN urgency ELSE "hold")
                        ELSE Queue!MarkInvalid(@)]

\* envsChanged: a draft that becomes valid or invalid by it is staged.
Notice(l, list) ==
    LET next == [l EXCEPT !.seen = ToSet(NamesOf(list))]
    IN  IF Valid(next) # Valid(l) THEN Stage(next, "debounce") ELSE next

Flushed(l) == [l EXCEPT !.queue = Queue!Flush(@)]

\* openEnv and initEditor.
OpenLane(to, list) ==
    LET stored == to.to = "stored"
        known == stored /\ Has(list, to.name)
        goal == [name |-> to.name, val |-> IF known THEN Content(list, to.name) ELSE 0]
    IN  [used |-> TRUE,
         fp |-> IF stored THEN StoredFootprint(to.name, IF known THEN PlaceOf(NamesOf(list), to.name) - 1 ELSE Len(list))
                ELSE NewFootprint,
         draft |-> [name |-> goal.name, val |-> goal.val, bad |-> FALSE],
         queue |-> Queue!CreateQueue(IF stored THEN goal ELSE NoGoal),
         seen |-> ToSet(NamesOf(list))]

\* salvage: an invalid draft is put back to what is acknowledged where it is wrong, and
\* staged when anything is left of it.
Salvaged(l) ==
    LET acked == l.queue.acked.goal
        wrong == l.draft.name = NoName \/ l.draft.name \in l.seen \ Ours(l.fp)
        next == [l EXCEPT !.draft = [name |-> IF wrong THEN acked.name ELSE @.name, val |-> @.val, bad |-> FALSE]]
    IN  IF Goal(next) = acked THEN next ELSE Stage(next, "now")

------------------------------------------------------------------------------------
\* JavaScript runs to its next await, through lane, session and list: an action is a chain
\* of the operators below over all they share, and Become makes its end the next state.

Ui == [lanes |-> lanes, byName |-> byName, tail |-> tail, pane |-> pane, envs |-> envs]

\* A lane's step: its name in the Map follows it, and what it sends queues on the tail.
Rekeyed(map, i, was, now) ==
    IF was = now THEN map
    ELSE [n \in Names |-> IF now.stored /\ n = now.name THEN i
                          ELSE IF was.stored /\ n = was.name /\ map[n] = i THEN NoLane
                          ELSE map[n]]

Job(kind, i, goal, fp) ==
    [kind |-> kind, lane |-> i, goal |-> goal, fp |-> fp,
     state |-> "queued", steps |-> <<>>, index |-> 0, activated |-> NoName]

Put(u, i, l) ==
    LET before == u.lanes[i]
        sends == l.queue.flight \notin {before.queue.flight, Queue!NoFlight}
        armed == IF i = u.pane.lane THEN l.queue.timer /\ (u.pane.armed \/ l.queue.head # before.queue.head)
                 ELSE u.pane.armed
    IN  [u EXCEPT
           !.lanes[i] = l,
           !.byName = Rekeyed(@, i, [stored |-> before.fp.stored, name |-> before.fp.name],
                                    [stored |-> l.fp.stored, name |-> l.fp.name]),
           !.tail = IF sends THEN Append(@, Job("sync", i, l.queue.flight.goal, l.fp)) ELSE @,
           !.pane.armed = armed]

\* The list is replaced, and the lane shown sees it.
SetEnvs(u, list) ==
    LET next == [u EXCEPT !.envs = list]
    IN  IF u.pane.lane = NoLane THEN next
        ELSE Put(next, u.pane.lane, Notice(u.lanes[u.pane.lane], list))

\* Lanes that nothing refers to are garbage.
Reached(u) ==
    {u.byName[n] : n \in Names} \cup {u.pane.lane} \cup {u.tail[k].lane : k \in DOMAIN u.tail}

Swept(u) == [u EXCEPT !.lanes = [i \in Lanes |-> IF i \in Reached(u) THEN @[i] ELSE Unused]]

\* The pane is left: it shows nothing, its timer is off.
Unshown(u) == Swept([u EXCEPT !.pane.lane = NoLane, !.pane.armed = FALSE])

Showing(i) == [NoPane EXCEPT !.phase = "open", !.lane = i]

\* laneFor, then envsChanged for a lane that was already there.
Attach(u, to) ==
    LET out == Unshown(u)
        hit == to.to = "stored" /\ out.byName[to.name] # NoLane
        i == IF hit THEN out.byName[to.name] ELSE CHOOSE j \in Lanes : ~out.lanes[j].used
    IN  IF to.to = "empty" THEN [out EXCEPT !.pane = Showing(NoLane)]
        ELSE IF hit THEN SetEnvs([out EXCEPT !.pane = Showing(i)], u.envs)
        ELSE [out EXCEPT !.pane = Showing(i),
                         !.lanes = [@ EXCEPT ![i] = OpenLane(to, u.envs)],
                         !.byName = IF to.to = "stored" THEN [@ EXCEPT ![to.name] = i] ELSE @]

\* Bound: there is a lane left to open.
CanOpen(u, to) ==
    \/ to.to \in {"empty", "closed"}
    \/ to.to = "stored" /\ u.byName[to.name] # NoLane
    \/ \E j \in Lanes : ~Unshown(u).lanes[j].used

\* afterLeave: the pane is gone, for another or for good.
Left(u, to) == IF to.to = "closed" THEN [u EXCEPT !.pane = NoPane] ELSE Attach(u, to)

\* retire: without a session a lane stays in the Map only while it writes.
Retired(u) ==
    IF u.pane.phase # "closed" THEN u
    ELSE [u EXCEPT !.byName = [n \in Names |->
             IF @[n] # NoLane /\ LET q == u.lanes[@[n]].queue IN q.flight = Queue!NoFlight /\ ~q.sendOnSettle
             THEN NoLane ELSE @[n]]]

Become(u) ==
    LET next == Swept(Retired(u))
    IN  /\ lanes' = next.lanes
        /\ byName' = next.byName
        /\ tail' = next.tail
        /\ pane' = next.pane
        /\ envs' = next.envs

------------------------------------------------------------------------------------
\* What the user does.

Shown == lanes[pane.lane]
IsShown == pane.phase = "open" /\ pane.lane # NoLane
Editable == IsShown /\ pane.confirm = "none"

\* The lane shown takes a step of its own.
LaneSteps(l) ==
    /\ Become(Put(Ui, pane.lane, l))
    /\ UNCHANGED <<core, refreshes, selects>>

Spend(what) == left[what] > 0 /\ left' = [left EXCEPT ![what] = @ - 1]
Free == UNCHANGED left

\* commitName: a stored environment refuses a name with an issue.
Rename(name) ==
    /\ Editable /\ Spend("edits")
    /\ name # Shown.draft.name
    /\ Shown.fp.stored => name # NoName /\ name \notin Shown.seen \ Ours(Shown.fp)
    /\ LaneSteps(Stage([Shown EXCEPT !.draft.name = name], "now"))

\* commitCell, commitAdding, deleteRow, undoDelete, pickColor.
EditContent(val, bad) ==
    /\ Editable /\ Spend("edits")
    /\ <<val, bad>> # <<Shown.draft.val, Shown.draft.bad>>
    /\ LaneSteps(Stage([Shown EXCEPT !.draft.val = val, !.draft.bad = bad], "now"))

TimerFires ==
    /\ Free
    /\ IsShown \/ pane.phase = "closing"
    /\ pane.armed
    /\ LaneSteps(Flushed(Shown))

Retry ==
    /\ Free
    /\ Editable
    /\ Queue!QueueStatus(Shown.queue) = "failed"
    /\ LaneSteps(Flushed(Shown))

Create ==
    /\ Free
    /\ Editable
    /\ ~Shown.fp.stored /\ Shown.queue.flight = Queue!NoFlight /\ Valid(Shown)
    /\ LaneSteps(Flushed(Shown))

\* What a pane can be left for: the names listed, a new environment, nothing.
Targets == {Stored(n) : n \in {n \in Names : Has(envs, n)}} \cup {New, Closed}

OpenEditor(to) ==
    /\ Spend("openings")
    /\ pane.phase = "closed" /\ to # Closed
    /\ CanOpen(Ui, to)
    /\ Become(Attach(Ui, to))
    /\ UNCHANGED <<core, refreshes, selects>>

\* The pane shows nothing after the last environment was deleted.
LeaveEmpty(to) ==
    /\ IF to = Closed THEN Free ELSE Spend("openings")
    /\ pane.phase = "open" /\ pane.lane = NoLane
    /\ CanOpen(Ui, to)
    /\ Become(Left(Ui, to))
    /\ UNCHANGED <<core, refreshes, selects>>

ReplaceEnv(list, name, env) ==
    IF Has(list, name) THEN [list EXCEPT ![PlaceOf(NamesOf(list), name)] = env] ELSE Append(list, env)

\* leaveNow: strays are cleaned up first, behind whatever the lane has just sent.
LeaveNow(u, goal, fp, to) ==
    IF fp.strays = <<>> THEN Left(u, to)
    ELSE [u EXCEPT !.tail = Append(@, Job("cleanup", u.pane.lane, goal, fp)),
                   !.pane.phase = "closing", !.pane.leaving = to]

\* requestLeave of a stored environment: what is unsaved is sent and shown as if it were.
LeaveStored(to) ==
    /\ IF to = Closed THEN Free ELSE Spend("openings")
    /\ Editable /\ Shown.fp.stored /\ to # Stored(Shown.fp.name)
    /\ LET l == Flushed(IF Valid(Shown) THEN Shown ELSE Salvaged(Shown))
           gone == LeaveNow(Put(Ui, pane.lane, l), l.queue.acked.goal, l.fp, to)
       IN  /\ CanOpen(Put(Ui, pane.lane, l), to)
           /\ Become(IF Queue!Owed(l.queue) THEN SetEnvs(gone, ReplaceEnv(envs, l.fp.name, l.queue.head.goal)) ELSE gone)
    /\ UNCHANGED <<core, refreshes, selects>>

\* requestLeave and discard of a new one; while it is being created there is no leaving it.
LeaveNew(to) ==
    /\ IF to = Closed THEN Free ELSE Spend("openings")
    /\ Editable /\ ~Shown.fp.stored /\ to # New
    /\ Shown.queue.flight = Queue!NoFlight
    /\ CanOpen(Ui, to)
    /\ Become(LeaveNow(Ui, NoGoal, Shown.fp, to))
    /\ UNCHANGED <<core, refreshes, selects>>

\* requestDelete: prepareDelete sends what is unsaved.
RequestDelete ==
    /\ Free
    /\ Editable /\ Shown.fp.stored
    /\ Become([Put(Ui, pane.lane, Flushed(Shown)) EXCEPT !.pane.confirm = "asking"])
    /\ UNCHANGED <<core, refreshes, selects>>

CancelDelete ==
    /\ Free
    /\ pane.confirm = "asking"
    /\ Become([Ui EXCEPT !.pane.confirm = "none"])
    /\ UNCHANGED <<core, refreshes, selects>>

\* Mutant: a write still on its way does not keep the delete waiting.
BugConfirmDelete ==
    /\ Spend("deletes")
    /\ pane.confirm = "asking"
    /\ Become([Ui EXCEPT !.pane.confirm = "deleting",
                         !.tail = Append(@, Job("delete", pane.lane, NoGoal, Shown.fp))])
    /\ UNCHANGED <<core, refreshes, selects>>

ConfirmDelete ==
    /\ Spend("deletes")
    /\ pane.confirm = "asking"
    /\ Queue!IsIdle(Shown.queue)
    /\ Become([Ui EXCEPT !.pane.confirm = "deleting",
                         !.tail = Append(@, Job("delete", pane.lane, NoGoal, Shown.fp))])
    /\ UNCHANGED <<core, refreshes, selects>>

\* The titlebar's switcher and Ctrl+E; the call is not awaited.
SelectEnv(name) ==
    /\ Spend("selections")
    /\ pane.phase # "closed" \/ tail # <<>>
    /\ name = NoName \/ Has(envs, name)
    /\ selects' = selects \cup {[name |-> name, checked |-> FALSE]}
    /\ UNCHANGED <<core, tail, lanes, byName, pane, envs, refreshes>>

------------------------------------------------------------------------------------
\* The tail: one job at a time, each a few commands of core.

Running == tail # <<>> /\ Head(tail).state = "running"

\* The plan is made from the store as it is when the job's turn comes.
JobStarts ==
    /\ Free
    /\ tail # <<>> /\ Head(tail).state = "queued"
    /\ LET job == Head(tail)
           plan == IF job.kind = "delete" THEN PlanDelete(job.fp, NamesOf(store), active)
                   ELSE PlanSync(job.goal, job.fp, NamesOf(store), active)
       IN  tail' = [tail EXCEPT ![1] = [@ EXCEPT !.state = "running", !.steps = plan.steps,
                                                 !.index = plan.index, !.activated = plan.activated]]
    /\ UNCHANGED <<core, lanes, byName, pane, envs, refreshes, selects>>

JobStep ==
    /\ Free
    /\ Running /\ Head(tail).steps # <<>>
    /\ LET step == Head(Head(tail).steps)
       IN  /\ ~Refused(store, active, step)
           /\ store' = StoreAfter(store, step)
           /\ active' = ActiveAfter(active, step)
    /\ tail' = [tail EXCEPT ![1].steps = Tail(@)]
    /\ UNCHANGED <<lanes, byName, pane, envs, refreshes, selects>>

\* A command is refused by core, or cannot write its file: the rest of the plan is dropped.
JobFails ==
    /\ Running /\ Head(tail).steps # <<>>
    /\ IF Refused(store, active, Head(Head(tail).steps)) THEN Free ELSE Spend("faults")
    /\ tail' = [tail EXCEPT ![1].state = "failed"]
    /\ UNCHANGED <<core, lanes, byName, pane, envs, refreshes, selects>>

\* MaxLists bounds the calls of envList on their way.
JobEnded ==
    /\ tail # <<>>
    /\ Head(tail).state = "failed" \/ (Running /\ Head(tail).steps = <<>>)
    /\ Cardinality(refreshes) < MaxLists

Rest == [Ui EXCEPT !.tail = Tail(tail)]

\* refreshEnvs, and what the caller then selects ("keep": nothing).
Refresh(bump, select) == [read |-> FALSE, list |-> <<>>, bump |-> bump, select |-> select]
Activating(name) == IF name = NoName THEN "keep" ELSE name

\* settle of a write that succeeded; one that created its environment moves on to it.
WriteSettles ==
    /\ Free
    /\ JobEnded /\ Head(tail).kind = "sync" /\ Head(tail).state = "running"
    /\ LET job == Head(tail)
           l == lanes[job.lane]
           next == [l EXCEPT !.fp = AfterSync(@, job.goal, TRUE, job.index), !.queue = Queue!Settled(@, TRUE)]
           created == ~l.fp.stored
           put == Put(Rest, job.lane, IF created THEN Flushed(next) ELSE next)
       IN  /\ Become(IF created /\ job.lane = pane.lane THEN Attach(put, Stored(job.goal.name)) ELSE put)
           /\ refreshes' = refreshes \cup {Refresh(TRUE, Activating(job.activated))}
    /\ UNCHANGED <<core, selects>>

\* settle of one that failed; off screen the list goes back to what was acknowledged.
WriteFails ==
    /\ Free
    /\ JobEnded /\ Head(tail).kind = "sync" /\ Head(tail).state = "failed"
    /\ LET job == Head(tail)
           l == lanes[job.lane]
           next == [l EXCEPT !.fp = AfterSync(@, job.goal, FALSE, 0), !.queue = Queue!Settled(@, FALSE)]
           put == Put(Rest, job.lane, next)
           acked == next.queue.acked.goal
           head == next.queue.head.goal
           reverts == job.lane # pane.lane /\ next.queue.flight = Queue!NoFlight /\ acked # NoGoal
       IN  Become(IF reverts THEN SetEnvs(put, ReplaceEnv(envs, IF head = NoGoal THEN acked.name ELSE head.name, acked))
                  ELSE put)
    /\ UNCHANGED <<core, refreshes, selects>>

\* left: the pane goes when its clean-up is over, however that went.
CleanupSettles ==
    /\ Free
    /\ JobEnded /\ Head(tail).kind = "cleanup"
    /\ CanOpen(Rest, pane.leaving)
    /\ Become(Left(Rest, pane.leaving))
    /\ refreshes' = IF Head(tail).state = "failed" THEN refreshes
                    ELSE refreshes \cup {Refresh(TRUE, Activating(Head(tail).activated))}
    /\ UNCHANGED <<core, selects>>

\* neighborIn: the next in the list, else the one before.
Neighbor(list, name) ==
    LET names == NamesOf(list)
        i == IF name \in ToSet(names) THEN PlaceOf(names, name) ELSE 0
    IN  IF i = 0 \/ Len(names) = 1 THEN Empty
        ELSE Stored(names[IF i < Len(names) THEN i + 1 ELSE i - 1])

DeleteSettles ==
    /\ Free
    /\ JobEnded /\ Head(tail).kind = "delete" /\ Head(tail).state = "running"
    /\ LET job == Head(tail)
           to == Neighbor(envs, job.fp.name)
           forgot == [Rest EXCEPT !.byName = [n \in Names |-> IF n = job.fp.name /\ @[n] = job.lane THEN NoLane ELSE @[n]]]
       IN  /\ CanOpen(forgot, to)
           /\ Become(Attach(forgot, to))
           /\ \E select \in {NoName, "keep"} : refreshes' = refreshes \cup {Refresh(TRUE, select)}
    /\ UNCHANGED <<core, selects>>

DeleteFails ==
    /\ Free
    /\ JobEnded /\ Head(tail).kind = "delete" /\ Head(tail).state = "failed"
    /\ Become([Rest EXCEPT !.pane.confirm = "asking"])
    /\ UNCHANGED <<core, refreshes, selects>>

------------------------------------------------------------------------------------
\* The calls nobody waits for.

ReadList(r) ==
    /\ Free
    /\ ~r.read
    /\ refreshes' = (refreshes \ {r}) \cup {[r EXCEPT !.read = TRUE, !.list = store]}
    /\ UNCHANGED <<core, tail, lanes, byName, pane, envs, selects>>

\* A store bumps the revision of the environments, at which the list is read once more.
ShowList(r) ==
    /\ Free
    /\ r.read
    /\ Become(SetEnvs(Ui, r.list))
    /\ refreshes' = (refreshes \ {r}) \cup (IF r.bump THEN {Refresh(FALSE, "keep")} ELSE {})
    /\ selects' = selects \cup (IF r.select = "keep" THEN {} ELSE {[name |-> r.select, checked |-> FALSE]})
    /\ UNCHANGED core

\* env_active_set checks the name and writes it in two steps.
CheckSelect(s) ==
    /\ Free
    /\ ~s.checked
    /\ selects' = (selects \ {s}) \cup (IF s.name = NoName \/ Has(store, s.name) THEN {[s EXCEPT !.checked = TRUE]} ELSE {})
    /\ UNCHANGED <<core, tail, lanes, byName, pane, envs, refreshes>>

WriteSelect(s) ==
    /\ Free
    /\ s.checked
    /\ active' = s.name
    /\ selects' = selects \ {s}
    /\ UNCHANGED <<store, tail, lanes, byName, pane, envs, refreshes>>

UserNext ==
    \/ \E n \in Names \cup {NoName} : Rename(n) \/ SelectEnv(n)
    \/ \E v \in Vals, bad \in BOOLEAN : EditContent(v, bad)
    \/ Retry \/ Create
    \/ \E to \in Targets : OpenEditor(to) \/ LeaveEmpty(to) \/ LeaveStored(to) \/ LeaveNew(to)
    \/ RequestDelete \/ CancelDelete \/ ConfirmDelete

TailNext ==
    \/ JobStarts \/ JobStep \/ JobFails
    \/ WriteSettles \/ WriteFails \/ CleanupSettles \/ DeleteSettles \/ DeleteFails

ListNext == \E r \in refreshes : ReadList(r) \/ ShowList(r)
SelectNext == \E s \in selects : CheckSelect(s) \/ WriteSelect(s)

Next == UserNext \/ TimerFires \/ TailNext \/ ListNext \/ SelectNext

Spec == Init /\ [][Next]_vars

------------------------------------------------------------------------------------
\* Properties.

GoalType == EnvType \cup {NoGoal}
RevType == [rev : Nat, goal : GoalType]
FootprintType == [stored : BOOLEAN, name : Names \cup {NoName}, index : Nat, strays : Seq(Names)]

LaneType ==
    [used : {TRUE}, fp : FootprintType,
     draft : [name : Names \cup {NoName}, val : Vals, bad : BOOLEAN],
     queue : [head : RevType, acked : RevType, flight : RevType,
              timer : BOOLEAN, sendOnSettle : BOOLEAN, failed : BOOLEAN],
     seen : SUBSET Names]

\* Every variable keeps its type; nothing without a valid name is ever to be written.
TypeOK ==
    /\ store \in Seq(EnvType) /\ IsInjective(NamesOf(store)) /\ active \in Names \cup {NoName}
    /\ lanes \in [Lanes -> LaneType \cup {Unused}]
    /\ byName \in [Names -> Lanes \cup {NoLane}]
    /\ \A n \in Names : byName[n] # NoLane => lanes[byName[n]].used
    /\ pane.phase \in {"closed", "open", "closing"} /\ pane.lane \in Lanes \cup {NoLane}
    /\ pane.confirm \in {"none", "asking", "deleting"} /\ pane.armed \in BOOLEAN
    /\ \A k \in DOMAIN tail : tail[k].kind \in {"sync", "cleanup", "delete"} /\ tail[k].goal \in GoalType
    /\ envs \in Seq(EnvType)

SyncJobs(i) == {k \in DOMAIN tail : tail[k].kind = "sync" /\ tail[k].lane = i}
SyncDone == JobEnded /\ Head(tail).kind = "sync" /\ Head(tail).state = "running"

\* A lane has a write under way exactly when one job of its is on the tail, and that job
\* has the footprint the lane still has (saveQueue.ts:trySend, envSync.ts:syncEnv): however
\* long it queues, it never plans from what the lane has since learnt to be wrong.
FlightIsQueued ==
    \A i \in Lanes : lanes[i].used =>
        IF lanes[i].queue.flight = Queue!NoFlight THEN SyncJobs(i) = {}
        ELSE \E k \in DOMAIN tail :
               SyncJobs(i) = {k} /\ tail[k].goal = lanes[i].queue.flight.goal /\ tail[k].fp = lanes[i].fp

\* A delete belongs to the pane that waits for it and is the only one; no write of its lane is
\* before it, so that it deletes what the lane is stored under when its turn comes
\* (envSession.ts: confirmDelete waits for an idle lane; the dialog keeps edits out).
DeleteKnowsItsNames ==
    \A k \in DOMAIN tail : tail[k].kind = "delete" =>
        /\ pane.phase = "open" /\ pane.confirm = "deleting"
        /\ tail[k].lane = pane.lane /\ tail[k].fp = Shown.fp
        /\ \A m \in SyncJobs(pane.lane) : k < m
        /\ \A m \in DOMAIN tail : tail[m].kind = "delete" => m = k

\* What is acknowledged as the last edit is the last edit: one made while a write is under
\* way is never acknowledged with it (saveQueue.ts: stepQueue, queueStatus).
SavedIsLastEdit ==
    \A i \in Lanes : lanes[i].used /\ Queue!QueueStatus(lanes[i].queue) = "saved" =>
        lanes[i].queue.acked = lanes[i].queue.head

\* These together: what a lane believes of its writes is what the tail will do.
LanesMatchTail == TypeOK /\ FlightIsQueued /\ DeleteKnowsItsNames /\ SavedIsLastEdit

\* A rename leaves the environment where the list had it, or last if the list has become
\* shorter, also when an earlier try had put the new name at the end (envSync.ts:planSync);
\* and the place the lane goes on with is the one it has.
KeepsPlace ==
    SyncDone /\ ~IsPlain(Head(tail).goal, Head(tail).fp) =>
        LET job == Head(tail)
        IN  /\ PlaceOf(NamesOf(store), job.goal.name) = job.index + 1
            /\ job.fp.stored => job.index = IF job.fp.index < Len(store) THEN job.fp.index ELSE Len(store) - 1

\* When a write is acknowledged the store holds it, and none of the names that the lane's
\* earlier writes may have left there, whichever of their commands failed (envSync.ts:
\* planSync, afterSync) and whatever other lanes wrote in between; and the
\* environment is at its place.
WriteTookEffect ==
    SyncDone =>
        LET job == Head(tail)
        IN  /\ KeepsPlace
            /\ Has(store, job.goal.name) /\ Content(store, job.goal.name) = job.goal.val
            /\ \A n \in Ours(job.fp) \ {job.goal.name} : ~Has(store, n)

\* A write, a clean-up or a delete touches no environment but its own: the others keep
\* their contents and their order, also when it fails half-way.
OthersUntouched ==
    [][tail # <<>> /\
         LET mine == Ours(Head(tail).fp) \cup {Head(tail).goal.name}
             Others(list) == Kept(list, {env \in ToSet(list) : env.name \notin mine})
         IN  Others(store') = Others(store)]_store

\* Violated, when a list is slow: no write is queued behind the delete of its environment,
\* which would bring it back.  The draft has become sound again, but its name is taken in the
\* list as it was before the last rename; so the lane is idle, and the delete is confirmed.
\* Then the list arrives, the draft is valid, and the timer sends it.
NothingBehindDelete ==
    \A k, m \in DOMAIN tail :
        tail[k].kind = "delete" /\ tail[m].kind = "sync" => tail[m].lane # tail[k].lane

\* Expected by environments.md ("Changes save on their own") and violated: the clean-up
\* that leaving queues deletes no name that a lane has had acknowledged.
CleanupSparesSaved ==
    [][tail # <<>> /\ Head(tail).kind = "cleanup" =>
         \A i \in Lanes : LET acked == lanes[i].queue.acked
                          IN  lanes[i].used /\ acked.rev > 0 /\ Has(store, acked.goal.name) => Has(store', acked.goal.name)]_store
====
