---------------------------------- MODULE VarTable ----------------------------------
(***************************************************************************)
(* The variables of one stored environment in the editor's pane            *)
(* (src/features/envs/envEditor.ts, varView.ts, VariablesTable.tsx): its   *)
(* rows, the open cell, the row being added, what is filtered and sorted,  *)
(* the layout that is held while somebody works in it, the undo of a       *)
(* delete, and what is made of an unsound draft when the pane is left.     *)
(*                                                                         *)
(* Keys are numbers in the collator's order; a query is the set of keys it *)
(* matches.  The environment's name and colour, and what its writes do in  *)
(* the store, are EnvEditor's.                                             *)
(***************************************************************************)
EXTENDS Integers, Sequences, FiniteSets, SequencesExt

CONSTANTS Keys,        \* names of variables
          Values,      \* values of variables
          InitialRows, \* the stored variables, a sequence of <<key, value>>
          Queries,     \* what is searched for, sets of keys
          SortModes,   \* a subset of "oldest", "newest", "name-asc", "name-desc"
          Turns        \* bounds: how often the user begins something, a set of numbers

Blank == 0
Everything == Keys \cup {Blank}  \* the blank query; no other matches the blank key

\* Two variables of one name are not stored by this editor, and left out here.
ASSUME TableAssumption ==
    /\ Keys \subseteq Nat \ {Blank} /\ Blank \in Values
    /\ InitialRows \in Seq(Keys \X Values)
    /\ \A i, j \in DOMAIN InitialRows : InitialRows[i][1] = InitialRows[j][1] => i = j
    /\ \A q \in Queries : q \subseteq Keys
    /\ SortModes \subseteq {"oldest", "newest", "name-asc", "name-desc"} /\ "oldest" \in SortModes
    /\ Turns \subseteq Nat

\* A goal is what is written; no environment has a blank key.
VariablesOf(rows) == [variables |-> [i \in DOMAIN rows |-> <<rows[i].key, rows[i].val>>]]
NoVariables == [variables |-> <<<<Blank, Blank>>>>]
Writes == INSTANCE SaveQueue WITH NoGoal <- NoVariables

NoField == [kind |-> "none", id |-> -1, text |-> Blank]
NoRow == [id |-> -1, key |-> Blank, val |-> Blank]
NoUndo == [row |-> NoRow, index |-> 0]
NoHold == [sort |-> "none", shown |-> <<>>, hidden |-> {}]

VARIABLES
    table,  \* the lane's EditorState
    sort,   \* the session's sort mode
    inside, \* whether the focus is in the table's region
    fresh,  \* history: rows added or brought back since a search began or ended
    turns   \* what remains of the bound

tvars == <<table, sort, inside, fresh, turns>>

StoredTable ==
    [rows |-> [i \in DOMAIN InitialRows |-> [id |-> i - 1, key |-> InitialRows[i][1], val |-> InitialRows[i][2]]],
     seq |-> Len(InitialRows), field |-> NoField, adding |-> NoRow, undo |-> NoUndo,
     query |-> Everything, hold |-> NoHold, anyway |-> {},
     save |-> Writes!CreateQueue([variables |-> InitialRows])]

TableInit ==
    /\ table = StoredTable
    /\ sort = "oldest" /\ inside = FALSE /\ fresh = {} /\ turns \in Turns

------------------------------------------------------------------------------------
\* What is wrong with a draft (parseDraft).

BlankRows(rows) == {r.id : r \in {r \in ToSet(rows) : r.key = Blank}}
TwinRows(rows) == {r.id : r \in {r \in ToSet(rows) : r.key # Blank /\ \E o \in ToSet(rows) : o.id # r.id /\ o.key = r.key}}
IssuesOf(rows) == BlankRows(rows) \cup TwinRows(rows)
IsSound(rows) == IssuesOf(rows) = {}

Ids(rows) == {r.id : r \in ToSet(rows)}
RowWith(rows, id) == CHOOSE r \in ToSet(rows) : r.id = id
Adding(t) == t.adding # NoRow

\* What a cell holds, and a row with something else in it.
PartOf(r, kind) == IF kind = "key" THEN r.key ELSE r.val
WithPart(r, kind, text) == IF kind = "key" THEN [r EXCEPT !.key = text] ELSE [r EXCEPT !.val = text]

\* A finite set by a strict order of it, a set of pairs.
InOrder(S, order) ==
    [n \in 1 .. Cardinality(S) |-> CHOOSE x \in S : Cardinality({y \in S : <<y, x>> \in order}) = n - 1]

\* The elements of seq that are in S, in their order.
Filtered(seq, S) ==
    LET places == {i \in DOMAIN seq : seq[i] \in S}
        listed == InOrder(places, {p \in places \X places : p[1] < p[2]})
    IN  [n \in DOMAIN listed |-> seq[listed[n]]]

------------------------------------------------------------------------------------
\* What is on the screen (project, viewRows).

\* Rows with the key being typed, and what is wrong with them; nobody is told off for a
\* key that is still blank while it is typed.
Projected(t) ==
    [i \in DOMAIN t.rows |-> IF t.field.kind = "key" /\ t.field.id = t.rows[i].id
                             THEN [t.rows[i] EXCEPT !.key = t.field.text] ELSE t.rows[i]]

MustShow(t) ==
    LET rows == Projected(t) \o (IF Adding(t) THEN <<t.adding>> ELSE <<>>)
        typing == {t.adding.id} \cup (IF t.field.kind = "key" THEN {t.field.id} ELSE {})
    IN  TwinRows(rows) \cup (BlankRows(rows) \ typing)

Matches(t) == {i \in DOMAIN t.rows : Projected(t)[i].key \in t.query \/ t.rows[i].id \in t.anyway \cup MustShow(t)}

\* Rows of one name stay in the order of the draft.
Precedes(t, mode) ==
    LET key(i) == Projected(t)[i].key
        Before(i, j) == CASE mode = "name-asc" -> key(i) < key(j) \/ (key(i) = key(j) /\ i < j)
                          [] mode = "name-desc" -> key(i) > key(j) \/ (key(i) = key(j) /\ i < j)
                          [] mode = "oldest" -> i < j
                          [] mode = "newest" -> i > j
    IN  {p \in Matches(t) \X Matches(t) : Before(p[1], p[2])}

Arranged(t, mode) ==
    LET order == InOrder(Matches(t), Precedes(t, mode))
    IN  [n \in DOMAIN order |-> t.rows[order[n]].id]

\* A held layout keeps its rows where they are; what it has not seen comes last.
HeldRows(t) ==
    LET held == ToSet(t.hold.shown) \cup t.hold.hidden
    IN  Filtered(t.hold.shown, Ids(t.rows)) \o Filtered([i \in DOMAIN t.rows |-> t.rows[i].id], Ids(t.rows) \ held)

OnScreen(t, mode) == IF t.hold.sort = mode THEN HeldRows(t) ELSE Arranged(t, mode)
Visible == ToSet(OnScreen(table, sort))

HoldLayout(t) ==
    IF t.hold.sort = sort THEN t
    ELSE LET shown == Arranged(t, sort)
         IN  [t EXCEPT !.hold = [sort |-> sort, shown |-> shown, hidden |-> Ids(t.rows) \ ToSet(shown)]]
ReleaseLayout(t) == [t EXCEPT !.hold = NoHold]
ShowAnyway(t, id) == IF t.query = Everything THEN t ELSE [t EXCEPT !.anyway = @ \cup {id}]

------------------------------------------------------------------------------------
\* What the handlers are made of.

StageRows(t) ==
    [t EXCEPT !.save = IF IsSound(t.rows) THEN Writes!Edited(@, VariablesOf(t.rows), "now") ELSE Writes!MarkInvalid(@)]

\* commitOpenField and commitCell.
CommitField(t) ==
    LET f == t.field
        next == [t EXCEPT !.field = NoField]
        Patched(r) == IF r.id # f.id THEN r ELSE WithPart(r, f.kind, f.text)
        rows == [i \in DOMAIN t.rows |-> Patched(t.rows[i])]
    IN  IF f = NoField \/ rows = t.rows THEN next ELSE StageRows([next EXCEPT !.rows = rows])

CommitAdding(t) ==
    IF ~Adding(t) THEN t
    ELSE IF t.adding.key = Blank THEN [t EXCEPT !.adding = NoRow]
    ELSE StageRows(ShowAnyway([t EXCEPT !.rows = Append(@, t.adding), !.adding = NoRow], t.adding.id))

CommitPending(t) == CommitAdding(CommitField(t))

\* Mutant: only the rows that are stored are looked for among the good ones.
BugSalvagedRows(rows, acked, seq) ==
    LET good == {r \in ToSet(rows) : r.id \notin IssuesOf(rows)}
        With(key) == {r \in good : r.key = key}
        missing == {i \in DOMAIN acked : With(acked[i][1]) = {}}
        Minted(i) == [id |-> seq + Cardinality({j \in missing : j < i}), key |-> acked[i][1], val |-> acked[i][2]]
    IN  [rows |-> [i \in DOMAIN acked |-> IF i \in missing THEN Minted(i) ELSE CHOOSE r \in With(acked[i][1]) : TRUE],
         seq |-> seq + Cardinality(missing)]

\* salvage: what is acknowledged, in its order, each variable by its good row if it has
\* one; then the good rows that are new.
SalvagedRows(rows, acked, seq) ==
    LET good == {r \in ToSet(rows) : r.id \notin IssuesOf(rows)}
        With(key) == {r \in good : r.key = key}
        missing == {i \in DOMAIN acked : With(acked[i][1]) = {}}
        Minted(i) == [id |-> seq + Cardinality({j \in missing : j < i}), key |-> acked[i][1], val |-> acked[i][2]]
        known == {acked[i][1] : i \in DOMAIN acked}
    IN  [rows |-> [i \in DOMAIN acked |-> IF i \in missing THEN Minted(i) ELSE CHOOSE r \in With(acked[i][1]) : TRUE]
                  \o Filtered(rows, {r \in good : r.key \notin known}),
         seq |-> seq + Cardinality(missing)]

SalvagedTable(t) ==
    IF IsSound(t.rows) THEN t
    ELSE LET made == SalvagedRows(t.rows, t.save.acked.goal.variables, t.seq)
             next == [t EXCEPT !.rows = made.rows, !.seq = made.seq, !.field = NoField, !.adding = NoRow, !.undo = NoUndo]
         IN  IF VariablesOf(made.rows) = t.save.acked.goal THEN next ELSE StageRows(next)

\* soundDraft: everything pending is committed if that is sound; else a value is, and a
\* key or a row being added is given up.
SoundTable(t) ==
    LET committed == CommitPending(t)
        kept == IF t.field.kind = "val" THEN CommitField(t) ELSE [t EXCEPT !.field = NoField]
    IN  IF IsSound(committed.rows) THEN committed ELSE SalvagedTable([kept EXCEPT !.adding = NoRow])

\* neighborIn: the row after, else the one before.
RowBeside(ids, id) ==
    LET at == CHOOSE i \in DOMAIN ids : ids[i] = id
    IN  IF at < Len(ids) THEN ids[at + 1] ELSE IF at > 1 THEN ids[at - 1] ELSE -1

------------------------------------------------------------------------------------
\* Where the focus goes.

FocusInside(t) == table' = HoldLayout(t) /\ inside' = TRUE

\* An open cell is committed by its blur, before the region hears of it; the region is not
\* told when what had the focus is taken off the page.
Blurred(t) == ReleaseLayout(CommitField(t))
FocusLost(t) == inside' = FALSE /\ (table' = Blurred(t) \/ (t.field = NoField /\ table' = t))

Begin == turns > 0 /\ turns' = turns - 1

------------------------------------------------------------------------------------
\* What the user does.

\* Mutant: the layout is not held, so that what is typed may filter its row away.
BugOpenCell(id, kind) ==
    /\ Begin
    /\ id \in Visible /\ <<kind, id>> # <<table.field.kind, table.field.id>>
    /\ LET next == CommitField(table)
       IN  table' = [next EXCEPT !.field = [kind |-> kind, id |-> id, text |-> PartOf(RowWith(next.rows, id), kind)]] /\ inside' = TRUE
    /\ UNCHANGED <<sort, fresh>>

OpenCell(id, kind) ==
    /\ Begin
    /\ id \in Visible /\ <<kind, id>> # <<table.field.kind, table.field.id>>
    /\ LET next == HoldLayout(CommitField(table))
       IN  FocusInside([next EXCEPT !.field = [kind |-> kind, id |-> id, text |-> PartOf(RowWith(next.rows, id), kind)]])
    /\ UNCHANGED <<sort, fresh>>

TypeCell(text) ==
    /\ table.field.kind # "none" /\ text # table.field.text
    /\ text \in IF table.field.kind = "key" THEN Everything ELSE Values
    /\ table' = [table EXCEPT !.field.text = text]
    /\ UNCHANGED <<sort, inside, fresh, turns>>

\* Enter.
CommitCell ==
    /\ table.field # NoField
    /\ FocusInside(CommitField(table))
    /\ UNCHANGED <<sort, fresh, turns>>

\* Escape.
CancelField ==
    /\ table.field # NoField
    /\ FocusInside([table EXCEPT !.field = NoField])
    /\ UNCHANGED <<sort, fresh, turns>>

\* A button outside the table; a second press goes back to the row being added.
AddRow ==
    /\ Begin
    /\ ~inside
    /\ LET next == CommitField(table)
       IN  FocusInside(IF Adding(next) THEN next
                       ELSE [HoldLayout(next) EXCEPT !.adding = [NoRow EXCEPT !.id = next.seq], !.seq = @ + 1])
    /\ UNCHANGED <<sort, fresh>>

TypeDraft(part, text) ==
    /\ Adding(table) /\ text # PartOf(table.adding, part)
    /\ text \in IF part = "key" THEN Everything ELSE Values
    /\ table' = [table EXCEPT !.adding = WithPart(@, part, text)]
    /\ UNCHANGED <<sort, inside, fresh, turns>>

\* A name that is taken is not accepted.
CommitDraft ==
    /\ Adding(table)
    /\ \A r \in ToSet(table.rows) : r.key # table.adding.key
    /\ FocusLost(CommitAdding(table))
    /\ fresh' = IF table.adding.key = Blank THEN fresh ELSE fresh \cup {table.adding.id}
    /\ UNCHANGED <<sort, turns>>

CancelDraft ==
    /\ Adding(table)
    /\ FocusLost([table EXCEPT !.adding = NoRow])
    /\ UNCHANGED <<sort, fresh, turns>>

\* The press takes the focus: what is open is committed, and the region hears of it first.
DeleteRow(id) ==
    /\ Begin
    /\ id \in Visible
    /\ LET t == HoldLayout(CommitField(table))
           at == CHOOSE i \in DOMAIN t.rows : t.rows[i].id = id
           others == Filtered(t.rows, {r \in ToSet(t.rows) : r.id # id})
           next == StageRows([t EXCEPT !.rows = others, !.undo = [row |-> t.rows[at], index |-> at]])
       IN  IF RowBeside(OnScreen(t, sort), id) = -1 THEN FocusLost(next) ELSE FocusInside(next)
    /\ UNCHANGED <<sort, fresh>>

UndoDelete ==
    /\ table.undo # NoUndo
    /\ LET u == table.undo
           at == IF u.index <= Len(table.rows) THEN u.index ELSE Len(table.rows) + 1
       IN  /\ FocusInside(StageRows(ShowAnyway([table EXCEPT !.rows = InsertAt(@, at, u.row), !.undo = NoUndo], u.row.id)))
           /\ fresh' = fresh \cup {u.row.id}
    /\ UNCHANGED <<sort, turns>>

DismissUndo ==
    /\ table.undo # NoUndo
    /\ table' = [table EXCEPT !.undo = NoUndo]
    /\ UNCHANGED <<sort, inside, fresh, turns>>

LeaveRegion ==
    /\ inside
    /\ table' = Blurred(table) /\ inside' = FALSE
    /\ UNCHANGED <<sort, fresh, turns>>

EnterRegion ==
    /\ Begin
    /\ ~inside
    /\ FocusInside(table)
    /\ UNCHANGED <<sort, fresh>>

\* In the search field.
SetQuery(q) ==
    /\ Begin
    /\ ~inside /\ q # table.query
    /\ table' = ReleaseLayout([table EXCEPT !.query = q, !.anyway = IF q = Everything THEN {} ELSE @])
    /\ fresh' = IF Everything \in {q, table.query} THEN {} ELSE fresh
    /\ UNCHANGED <<sort, inside>>

\* The menu, or the head of the column, which is in the region.
SetSort(mode) ==
    /\ Begin
    /\ mode # sort /\ table.field = NoField
    /\ sort' = mode
    /\ UNCHANGED <<table, inside, fresh>>

Flushing(t) == [t EXCEPT !.save = Writes!Flush(@)]

\* The pane goes to another environment (requestLeave) and comes back (resumeEditor).
LeavePane ==
    /\ Begin
    /\ table' = [Flushing(SoundTable(table)) EXCEPT !.field = NoField, !.adding = NoRow, !.undo = NoUndo,
                                                    !.query = Everything, !.hold = NoHold, !.anyway = {}]
    /\ inside' = FALSE /\ fresh' = {}
    /\ UNCHANGED sort

\* prepareDelete, at a button outside the table; the delete is then given up, or fails.
AskDelete ==
    /\ Begin
    /\ ~inside
    /\ table' = Flushing(CommitPending(table))
    /\ fresh' = IF Adding(table) /\ table.adding.key # Blank THEN fresh \cup {table.adding.id} ELSE fresh
    /\ UNCHANGED <<sort, inside>>

RetryWrite ==
    /\ Writes!QueueStatus(table.save) = "failed"
    /\ table' = Flushing(table)
    /\ UNCHANGED <<sort, inside, fresh, turns>>

\* The store answers a write.
WriteAnswered(ok) ==
    /\ table.save.flight # Writes!NoFlight
    /\ table' = [table EXCEPT !.save = Writes!Settled(@, ok)]
    /\ UNCHANGED <<sort, inside, fresh, turns>>

CellNext ==
    \/ \E id \in Ids(table.rows) : DeleteRow(id) \/ \E kind \in {"key", "val"} : OpenCell(id, kind)
    \/ \E text \in Everything \cup Values : TypeCell(text) \/ TypeDraft("key", text) \/ TypeDraft("val", text)
    \/ CommitCell \/ CancelField \/ AddRow \/ CommitDraft \/ CancelDraft \/ UndoDelete \/ DismissUndo

ViewNext ==
    \/ LeaveRegion \/ EnterRegion
    \/ \E q \in Queries \cup {Everything} : SetQuery(q)
    \/ \E mode \in SortModes : SetSort(mode)

TableNext ==
    \/ CellNext \/ ViewNext
    \/ LeavePane \/ AskDelete \/ RetryWrite \/ \E ok \in BOOLEAN : WriteAnswered(ok)

TableSpec == TableInit /\ [][TableNext]_tvars

------------------------------------------------------------------------------------
\* Properties.

RowType == [id : Nat, key : Everything, val : Values]
VariablesType == [variables : Seq(Everything \X Values)]
WriteType == [rev : Nat, goal : VariablesType]
TableType ==
    [rows : Seq(RowType), seq : Nat, field : [kind : {"none", "key", "val"}, id : Int, text : Everything \cup Values],
     adding : [id : Int, key : Everything, val : Values],
     undo : [row : [id : Int, key : Everything, val : Values], index : Nat],
     query : SUBSET Everything, anyway : SUBSET Nat,
     hold : [sort : SortModes \cup {"none"}, shown : Seq(Nat), hidden : SUBSET Nat],
     save : [head : WriteType, acked : WriteType, flight : WriteType, timer : BOOLEAN, sendOnSettle : BOOLEAN, failed : BOOLEAN]]

TableTypeOK == table \in TableType /\ sort \in SortModes /\ inside \in BOOLEAN /\ fresh \subseteq Nat /\ turns \in Nat

\* A row has an id of its own, which it was given from the counter.
RowsAreApart(t) ==
    /\ \A i \in DOMAIN t.rows : t.rows[i].id < t.seq
    /\ \A i, j \in DOMAIN t.rows : t.rows[i].id = t.rows[j].id => i = j

\* What the store has or is being sent is sound.
IsStorable(goal) ==
    /\ goal.variables \in Seq(Keys \X Values)
    /\ \A i, j \in DOMAIN goal.variables : goal.variables[i][1] = goal.variables[j][1] => i = j
GoalsAreSound(q) ==
    /\ IsStorable(q.acked.goal)
    /\ q.head.goal = NoVariables \/ IsStorable(q.head.goal)
    /\ q.flight = Writes!NoFlight \/ IsStorable(q.flight.goal)

\* The row being added and the one that can be brought back are not in the draft, and no
\* layout that is held, be it one of another sort, has them hidden.
OthersAreApart(t) ==
    /\ t.hold.hidden \subseteq 0 .. t.seq - 1 /\ t.hold.hidden \cap ToSet(t.hold.shown) = {}
    /\ Adding(t) => t.adding.id \in (0 .. t.seq - 1) \ (Ids(t.rows) \cup t.hold.hidden)
    /\ t.undo # NoUndo => /\ t.undo.row.id \in (0 .. t.seq - 1) \ (Ids(t.rows) \cup t.hold.hidden \cup {t.adding.id})
                          /\ t.undo.index > 0

\* The text of an open cell fits it.
FieldFits(t) ==
    t.field # NoField => /\ t.field.kind \in {"key", "val"}
                         /\ t.field.text \in IF t.field.kind = "key" THEN Everything ELSE Values

TableOK(t) == t \in TableType /\ RowsAreApart(t) /\ GoalsAreSound(t.save) /\ OthersAreApart(t) /\ FieldFits(t)

\* While a cell is open its layout is held, with its row not hidden; a row that was added or
\* brought back is not hidden, nor filtered when nothing is held.
WorkIsHeld == table.field # NoField => inside /\ table.hold.sort = sort /\ table.field.id \in Ids(table.rows) \ table.hold.hidden
FreshIsShown ==
    \A id \in fresh \cap Ids(table.rows) : id \notin table.hold.hidden /\ (table.query = Everything \/ id \in table.anyway)

\* The inductive invariant.
TableInv == TableTypeOK /\ TableOK(table) /\ WorkIsHeld /\ FreshIsShown

\* Whoever works in the table sees what they work on, whatever is searched for, sorted by
\* and held (varView.ts: viewRows, holdLayout, showAnyway): the row of the open cell stays
\* on the screen while its key is typed, and a row that was added or brought back is there.
WorkIsOnScreen ==
    /\ TableTypeOK
    /\ table.field # NoField => inside /\ table.field.id \in Visible
    /\ fresh \cap Ids(table.rows) \subseteq Visible

\* Leaving a pane gives up nothing but what is wrong (envEditor.ts: soundDraft, salvage):
\* the draft is sound; each row without an issue is kept as it was; a stored variable is
\* gone only if the user has made a sound draft without it; and what salvage has
\* made differ from the store is to be written.  (With a write under way it may differ from
\* what that is about to store: DraftIsStored.)
LeaveKeepsVariables ==
    [][LeavePane =>
         LET opened == table.field
             kept == IF opened.kind = "val" THEN CommitField(table).rows ELSE table.rows
             after == table'.rows
         IN  /\ IsSound(after)
             /\ \A r \in ToSet(kept) : r.id \notin IssuesOf(kept) /\ ~(opened.kind = "key" /\ opened.id = r.id) => r \in ToSet(after)
             /\ ~IsSound(CommitPending(table).rows) /\ ~IsSound(kept) =>
                  \A i \in DOMAIN table.save.acked.goal.variables :
                      \E r \in ToSet(after) : r.key = table.save.acked.goal.variables[i][1]
             /\ ~IsSound(kept) =>
                  VariablesOf(after) \in {table'.save.head.goal, table.save.acked.goal}]_tvars

\* Expected and violated (README, known disagreements): when nobody works in the table, no
\* row that is wrong is hidden.
IssuesAreShown == ~inside => IssuesOf(table.rows) \subseteq Visible

\* Expected and violated (README, known disagreements): with nothing on its way and nothing
\* failed, a sound draft is what the store holds.
DraftIsStored ==
    LET q == table.save
    IN  q.flight = Writes!NoFlight /\ ~q.failed /\ IsSound(table.rows) => VariablesOf(table.rows) = q.acked.goal
====
