----------------------------------- MODULE EnvSync -----------------------------------
(***************************************************************************)
(* How one environment reaches core's store: the plan of commands that     *)
(* writes it (src/features/envs/envSync.ts) and what each command does     *)
(* (crates/handshaker-core/src/env, src-tauri/src/commands/env.rs).        *)
(*                                                                         *)
(* A footprint is what the editor knows to be its own in the store: the    *)
(* name and place it is stored under, and the strays, names that failed    *)
(* writes may have left behind.                                            *)
(***************************************************************************)
EXTENDS Integers, FiniteSets, Sequences, SequencesExt

CONSTANTS Names,   \* names an environment can have
          NoName  \* the empty one; also: no environment is active

NoGoal == [name |-> NoName, val |-> 0]

NamesOf(envs) == [i \in DOMAIN envs |-> envs[i].name]
Has(envs, name) == \E i \in DOMAIN envs : envs[i].name = name
PlaceOf(seq, e) == CHOOSE i \in DOMAIN seq : seq[i] = e

\* The elements of seq that are in S, in their order (a SelectSeq that can be proved about).
Kept(seq, S) ==
    LET places == {i \in DOMAIN seq : seq[i] \in S}
        Ascending(f) == \A j, k \in DOMAIN f : j < k => f[j] < f[k]
        order == CHOOSE f \in [1 .. Cardinality(places) -> places] : Ascending(f)
    IN  [k \in DOMAIN order |-> seq[order[k]]]

Without(seq, gone) == Kept(seq, ToSet(seq) \ gone)

FootprintNames(fp) == (IF fp.stored THEN <<fp.name>> ELSE <<>>) \o fp.strays
Ours(fp) == ToSet(FootprintNames(fp))

NewFootprint == [stored |-> FALSE, name |-> NoName, index |-> 0, strays |-> <<>>]
StoredFootprint(name, index) == [stored |-> TRUE, name |-> name, index |-> index, strays |-> <<>>]

\* plainWrite: content only, nothing to look up in the store.
IsPlain(goal, fp) == goal # NoGoal /\ fp.stored /\ goal.name = fp.name /\ fp.strays = <<>>

\* Where the goal goes among the names that stay: back to the footprint's place.
Placed(others, fp, name) ==
    InsertAt(others, 1 + (IF fp.index < Len(others) THEN fp.index ELSE Len(others)), name)

\* Mutant: the names failed writes may have left are not deleted.
BugGone(fp, target, names) ==
    IF fp.stored /\ fp.name # target /\ fp.name \in ToSet(names) THEN <<fp.name>> ELSE <<>>

Gone(fp, target, names) == Kept(FootprintNames(fp), ToSet(names) \ {target})

PlanWrite(goal, fp, names, active) ==
    LET target == goal.name
        base == IF target \in ToSet(names) THEN names ELSE Append(names, target)
        isOurs == active = target \/ active \in Ours(fp)
        activated == IF ~fp.stored \/ isOurs THEN target ELSE NoName
        gone == Gone(fp, target, base)
        left == Without(base, ToSet(gone))
        want == IF fp.stored THEN Placed(Without(left, {target}), fp, target) ELSE left
    IN  [steps |-> <<[op |-> "upsert", goal |-> goal]>>
                   \o (IF activated \notin {NoName, active} THEN <<[op |-> "activate", name |-> activated]>> ELSE <<>>)
                   \o [i \in DOMAIN gone |-> [op |-> "delete", name |-> gone[i]]]
                   \o (IF want # left THEN <<[op |-> "reorder", names |-> want]>> ELSE <<>>),
         index |-> PlaceOf(want, target) - 1,
         activated |-> activated]

\* A new environment given up: its strays go, except an active one.
PlanSweep(fp, names, active) ==
    LET gone == Gone(fp, active, names)
    IN  [steps |-> [i \in DOMAIN gone |-> [op |-> "delete", name |-> gone[i]]],
         index |-> -1, activated |-> NoName]

PlanSync(goal, fp, names, active) ==
    IF IsPlain(goal, fp) THEN [steps |-> <<[op |-> "upsert", goal |-> goal]>>, index |-> fp.index, activated |-> NoName]
    ELSE IF goal = NoGoal THEN PlanSweep(fp, names, active)
    ELSE PlanWrite(goal, fp, names, active)

PlanDelete(fp, names, active) ==
    LET gone == Gone(fp, NoName, names)
    IN  [steps |-> (IF active \in Ours(fp) THEN <<[op |-> "deactivate"]>> ELSE <<>>)
                   \o [i \in DOMAIN gone |-> [op |-> "delete", name |-> gone[i]]],
         index |-> -1, activated |-> NoName]

\* After a failure the goal's name may or may not be in the store: a stray.
AfterSync(fp, goal, ok, index) ==
    IF ok THEN StoredFootprint(goal.name, index)
    ELSE IF goal.name \in Ours(fp) THEN fp
    ELSE [fp EXCEPT !.strays = Append(@, goal.name)]

------------------------------------------------------------------------------------
\* Core's commands: whether one is refused, and what it does otherwise.

Refused(store, active, step) ==
    CASE step.op = "activate" -> ~Has(store, step.name)
      [] step.op = "delete" -> active = step.name
      [] step.op = "reorder" -> \/ Len(step.names) # Len(store)
                                \/ ToSet(step.names) # ToSet(NamesOf(store))
      [] OTHER -> FALSE

Upsert(store, env) ==
    IF Has(store, env.name) THEN [i \in DOMAIN store |-> IF store[i].name = env.name THEN env ELSE store[i]]
    ELSE Append(store, env)

Content(store, name) == store[PlaceOf(NamesOf(store), name)].val

\* Mutant: the names move and their contents stay where they were.
BugReordered(store, names) == [i \in DOMAIN store |-> [name |-> names[i], val |-> store[i].val]]

Reordered(store, names) == [i \in DOMAIN store |-> [name |-> names[i], val |-> Content(store, names[i])]]

StoreAfter(store, step) ==
    CASE step.op = "upsert" -> Upsert(store, step.goal)
      [] step.op = "delete" /\ Has(store, step.name) -> RemoveAt(store, PlaceOf(NamesOf(store), step.name))
      [] step.op = "reorder" -> Reordered(store, step.names)
      [] OTHER -> store

ActiveAfter(active, step) ==
    CASE step.op = "activate" -> step.name
      [] step.op = "deactivate" -> NoName
      [] OTHER -> active
====
