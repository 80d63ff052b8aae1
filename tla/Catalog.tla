------------------------------- MODULE Catalog -------------------------------
(***************************************************************************)
(* The catalog: the collections core stores, the picture of them the       *)
(* webview draws, and the operations between the two.                      *)
(*                                                                         *)
(* useCatalogTree.ts makes every edit on its picture first, then calls     *)
(* core, and puts its snapshot of the whole picture back when the call     *)
(* fails.  A command of commands/collection.rs reads the collection, edits *)
(* the copy and upserts it; only a single upsert or delete is atomic       *)
(* (collections/file_store.rs), commands run concurrently, and any write   *)
(* may fail on the disk.                                                   *)
(***************************************************************************)
EXTENDS ItemTree

CONSTANTS Collections,   \* ids a collection can get
          Slots,         \* operations that can be under way at once
          Trees,         \* what may be stored at launch: [Collections -> collection or None]
          Bundles,       \* the import files: each some collections' contents
          Queries,       \* the filters: sets of matching ids; ItemIds is no filter
          Opened,        \* [c, i]: the request open in the editor since before, whatever became of it
          MaxOps,        \* bound: operations begun
          MaxBeside      \* bound: only so many first operations can begin beside others

Idle == [do |-> "idle"]

VARIABLES store,    \* what core serves, and its files hold: [Collections -> [mark, items] or None]
          view,     \* treeRef.current, in the same form
          ops,      \* the operation in each slot
          born,     \* ids handed out so far, of items and of collections
          torn,     \* history: collections whose picture an overlap, a rollback or half a command spoiled
          clean,    \* history: no operations overlapped on a collection, no command stopped half
                    \* way, no upsert carried a spoiled picture, no import brought back an item
                    \* that has moved to another collection
          doubled,  \* history: collections in which an import may have left an id twice
          begun     \* operations begun

vars == <<store, view, ops, born, torn, clean, doubled, begun>>

Busy == {s \in Slots : ops[s] # Idle}
Exists(tree) == {c \in Collections : tree[c] # None}
NewItem(id) == [id |-> id, folder |-> id \in Folders, mark |-> 0, uses |-> 0, kids |-> <<>>]
Blank(mark) == [mark |-> mark, items |-> <<>>]
UnbornOf(ids) == ids \ born

CatalogInit ==
  /\ store \in Trees
  /\ view = store
  /\ ops = [s \in Slots |-> Idle]
  /\ born = Exists(store) \union
              UNION {DOMAIN b \union UNION {IdsOf(b[c].items) : c \in DOMAIN b} : b \in Bundles} \union
              UNION {IdsOf(store[c].items) : c \in Exists(store)}
  /\ torn = {} /\ clean = TRUE /\ doubled = {} /\ begun = 0

-----------------------------------------------------------------------------
(* The operations of useCatalogTree.  One is a record of its arguments;    *)
(* `todo` are the collections its command reads and writes, one after the  *)
(* other, except a move across, which reads both first.                    *)

Op(do, c, i, arg) == [do |-> do, c |-> c, i |-> i, arg |-> arg, todo |-> <<c>>]

Touches(op) ==
  CASE op.do \in {"reload", "import"} -> Collections
    [] op.do = "move_across"          -> {op.c, op.arg.to}
    [] OTHER                          -> {op.c}

\* The picture right after the local edit.
Picture(op) ==
  LET c == op.c
      With(items) == IF view[c] = None THEN view ELSE [view EXCEPT ![c].items = items]
      items == IF view[c] = None THEN <<>> ELSE view[c].items
  IN  CASE op.do \in {"create", "pin"} -> [view EXCEPT ![c] =
                                 IF op.do = "create" THEN Blank(op.arg) ELSE [@ EXCEPT !.mark = op.arg]]
        [] op.do = "delete_coll"       -> [view EXCEPT ![c] = None]
        [] op.do \in {"edit", "save"}  -> With(MapDeep(items, op.i, op.arg))
        [] op.do = "add"               -> With(InsertDeep(items, op.arg, Len(Nodes(items)), NewItem(op.i)))
        [] op.do = "delete"            -> With(RemoveDeep(items, op.i))
        [] op.do = "move"              ->
             With(InsertDeep(RemoveDeep(items, op.i), op.arg.parent, op.arg.at, Detached(items, op.i)))
        [] op.do = "move_across"       ->
             [view EXCEPT ![c].items = RemoveDeep(@, op.i),
                          ![op.arg.to].items = InsertDeep(@, op.arg.parent, op.arg.at, Detached(items, op.i))]
        [] OTHER                       -> view

\* Begins `op` in slot s: snapshot, local edit, call.  An upsert carries the collection as
\* the picture now has it; `new` are the ids it hands out.
Begin(s, op, new) ==
  LET touched == Touches(op)
      clash   == UNION {touched \union ops[p].touches :
                          p \in {q \in Busy : touched \intersect ops[q].touches # {}}}
      shown   == Picture(op)
      upsert  == op.do \in {"create", "pin", "save"}
  IN  /\ begun' = begun + 1
      /\ born' = born \union new
      /\ view' = shown
      /\ torn' = torn \union clash \union (IF touched \intersect torn = {} THEN {} ELSE touched)
      /\ clean' = (clean /\ clash = {} /\ (upsert => op.c \notin torn \union doubled))
      /\ doubled' = doubled \union
           (IF op.do = "move_across" /\ touched \intersect doubled # {} THEN touched ELSE {})
      /\ ops' = [p \in Slots |->
           IF p = s
           THEN [do |-> op.do, op |-> op, touches |-> touched, alone |-> clash = {}, stale |-> {},
                 snapshot |-> view, todo |-> IF upsert THEN <<>> ELSE op.todo, wrote |-> {}, got |-> <<>>, want |-> {},
                 stage |-> IF ~upsert THEN "load" ELSE IF shown[op.c] = None THEN "failed" ELSE "write",
                 writes |-> IF upsert THEN <<[c |-> op.c, to |-> shown[op.c]]>> ELSE <<>>]
           ELSE IF ops[p] = Idle THEN Idle
           ELSE [ops[p] EXCEPT !.stale = @ \union touched,
                               !.alone = @ /\ touched \intersect ops[p].touches = {}]]
      /\ UNCHANGED store

-----------------------------------------------------------------------------
(* The user, and the timers and calls that act for them.                   *)

Free(s) == ops[s] = Idle /\ begun < MaxOps /\ (begun < MaxBeside \/ Busy = {})

CreateCollection(s) ==
  /\ Free(s)
  /\ \E c \in UnbornOf(Collections) : Begin(s, Op("create", c, None, begun + 1), {c})

DeleteCollection(s) ==
  /\ Free(s)
  /\ \E c \in Exists(view) : Begin(s, Op("delete_coll", c, None, None), {})

\* renameCollection, setPinned: the whole collection is upserted.
RenameCollection(s) ==
  /\ Free(s)
  /\ \E c \in Exists(view) : Begin(s, Op("pin", c, None, begun + 1), {})

\* renameItem and setExpanded: one field of one item.
RenameItem(s) ==
  /\ Free(s)
  /\ \E c \in Exists(view) : \E i \in IdsOf(view[c].items) : 
       \E what \in {"name", "expanded"} :
         /\ Takes(Find(view[c].items, i), [what |-> what])
         /\ Begin(s, Op("edit", c, i, [what |-> what, to |-> begun + 1]), {})

FoldersOf(items) == {n.id : n \in {m \in ToSet(Nodes(items)) : m.folder}}

\* The requests that are drawn, and the open one even when it is drawn no more.
Editable ==
  {<<Opened.c, Opened.i>>} \union
  UNION {{c} \X (IdsOf(view[c].items) \ FoldersOf(view[c].items)) : c \in Exists(view)}

\* updateItemContent, from the autosave of an open draft: the whole collection is upserted.
UpdateItemContent(s) ==
  /\ Free(s)
  /\ \E e \in Editable : Begin(s, Op("save", e[1], e[2], [what |-> "content", to |-> begun + 1]), {})

\* bumpUsage, after a send.
BumpUsage(s) ==
  /\ Free(s)
  /\ \E e \in Editable : Begin(s, Op("edit", e[1], e[2], [what |-> "use"]), {})

AddNewItem(s) ==
  /\ Free(s)
  /\ \E c \in Exists(view), i \in UnbornOf(ItemIds) :
       \E parent \in {Root} \union FoldersOf(view[c].items) :
         Begin(s, Op("add", c, i, parent), {i})

DeleteOne(s) ==
  /\ Free(s)
  /\ \E c \in Exists(view) : \E i \in IdsOf(view[c].items) : Begin(s, Op("delete", c, i, None), {})

\* duplicateItem edits nothing before core has answered.
DuplicateOne(s) ==
  /\ Free(s)
  /\ \E c \in Exists(view) : \E i \in IdsOf(view[c].items) : Begin(s, Op("duplicate", c, i, None), {})

\* What the sidebar draws of a collection under the filter, and the rows it draws.
Shown(c, query) ==
  IF query = ItemIds THEN view[c].items ELSE FilterItems(view[c].items, query)

Zones(items, target) ==
  IF target = Root THEN {"inside"}
  ELSE IF IsContainer(items, target) THEN {"before", "inside", "after"} ELSE {"before", "after"}

\* onDropRow: the plan is made on the trees as drawn.
Drop(s) ==
  /\ Free(s)
  /\ \E query \in Queries, c, d \in Exists(view) :
       \E i \in IdsOf(Shown(c, query)), target \in {Root} \union IdsOf(Shown(d, query)) :
         \E zone \in Zones(Shown(d, query), target) :
           LET plan == PlanDrop(Shown(c, query), i, Shown(d, query), target, zone, c = d)
           IN  /\ plan # None
               /\ Begin(s, Op(IF c = d THEN "move" ELSE "move_across", c, i,
                              [parent |-> plan.parent, at |-> plan.at, to |-> d, query |-> query]), {})

Reload(s) == Free(s) /\ Begin(s, [Op("reload", None, None, None) EXCEPT !.todo = <<>>], {})

Import(s) ==
  /\ Free(s)
  /\ \E b \in Bundles : Begin(s, [Op("import", None, None, b) EXCEPT !.todo = SetToSeq(DOMAIN b)], {})

-----------------------------------------------------------------------------
(* The commands (commands/collection.rs, commands/bundle.rs).              *)

One(c, items) == IF items = None THEN None ELSE <<[c |-> c, to |-> [store[c] EXCEPT !.items = items]]>>

\* Mutant: the source is written first.
BugAcross(out, in) == <<out, in>>

\* The target, with the item in it, is written before the source, without it.
Across(out, in) == <<in, out>>

MoveAcross(op) ==
  LET source == store[op.c].items
      moved  == RestoreItem(store[op.arg.to].items, Located(source, op.i), op.arg.parent, op.arg.at)
  IN  IF store[op.arg.to] = None \/ ~Has(source, op.i) \/ moved = None THEN None
      ELSE Across(One(op.c, DeleteItem(source, op.i))[1], One(op.arg.to, moved)[1])

\* New ids for a copy of everything in an item.
FreshIds(op) ==
  IF op.do # "duplicate" \/ store[op.c] = None THEN {}
  ELSE IF ~Has(store[op.c].items, op.i) THEN {}
  ELSE LET copied == Nodes(<<Find(store[op.c].items, op.i)>>)
       IN  {fresh \in [DOMAIN copied -> UnbornOf(ItemIds)] :
              /\ IsInjective(fresh)
              /\ \A k \in DOMAIN copied : copied[k].folder <=> fresh[k] \in Folders}

\* The upserts a command makes of what it read, None when it refuses.
Writes(op, c, fresh) ==
  CASE op.do = "import"      -> <<[c |-> c, to |-> IF store[c] = None THEN op.arg[c]
                                   ELSE [op.arg[c] EXCEPT !.items = MergeItems(store[c].items, @)]]>>
    [] op.do = "delete_coll" -> <<[c |-> c, to |-> None]>>
    [] store[c] = None       -> None
    [] op.do = "edit"        -> One(c, EditItem(store[c].items, op.i, op.arg))
    [] op.do = "add"         -> One(c, AddItem(store[c].items, op.arg, NewItem(op.i)))
    [] op.do = "delete"      ->
         IF Has(store[c].items, op.i) THEN One(c, DeleteItem(store[c].items, op.i)) ELSE <<>>
    [] op.do = "duplicate"   -> 
         IF fresh = None THEN None ELSE One(c, DuplicateItem(store[c].items, op.i, fresh))
    [] op.do = "move"        -> One(c, MoveItem(store[c].items, op.i, op.arg.parent, op.arg.at))
    [] op.do = "move_across" -> MoveAcross(op)

\* After its last write a command answers; then a duplicate fetches its collection, an
\* import reloads, and the others are over.
After(o) ==
  IF o.todo # <<>> THEN [o EXCEPT !.stage = "load"]
  ELSE IF o.do = "duplicate" THEN [o EXCEPT !.stage = "fetch", !.want = {o.op.c}]
  ELSE IF o.do = "import" THEN [o EXCEPT !.stage = "list"]
  ELSE IF o.do = "reload" THEN [o EXCEPT !.stage = "fetch"]
  ELSE Idle

\* The items of a collection that an import finds in the other kind, with the file's.
Recast(local, imported) ==
  {pair \in ToSet(Nodes(local)) \X ToSet(Nodes(imported)) :
     pair[1].id = pair[2].id /\ pair[1].folder # pair[2].folder}

\* A folder of the file that takes the place of a request brings items that are there already.
Doubles(local, imported) ==
  \E pair \in Recast(local, imported) : IdsOf(pair[2].kids) \intersect IdsOf(local) # {}

\* A copy that finds no ids left (a bound) is refused.
Load(s) ==
  LET o == ops[s]
  IN  /\ o # Idle /\ o.stage = "load" /\ o.todo # <<>>
      /\ \E fresh \in IF FreshIds(o.op) = {} THEN {None} ELSE FreshIds(o.op) :
           LET writes == Writes(o.op, Head(o.todo), fresh)
           IN  /\ born' = born \union (IF fresh = None THEN {} ELSE Range(fresh))
               /\ ops' = [ops EXCEPT ![s] =
                    IF writes = None THEN [o EXCEPT !.stage = "failed"]
                    ELSE IF writes = <<>> THEN After([o EXCEPT !.todo = Tail(@)])
                    ELSE [o EXCEPT !.stage = "write", !.writes = writes, !.todo = Tail(@)]]
      /\ LET c == Head(o.todo)
         IN  doubled' = IF o.do = "import" /\ store[c] # None
                        THEN IF Doubles(store[c].items, o.op.arg[c].items) THEN doubled \union {c} ELSE doubled
                        ELSE doubled
      /\ UNCHANGED <<store, view, torn, clean, begun>>

\* FileCollectionStore::upsert and delete.
Write(s) ==
  LET o == ops[s]
      w == Head(o.writes)
      left == [o EXCEPT !.writes = Tail(@), !.wrote = @ \union {w.c}]
  IN  /\ o # Idle /\ o.stage = "write"
      /\ store' = [store EXCEPT ![w.c] = w.to]
      /\ ops' = [ops EXCEPT ![s] =
           IF left.writes # <<>> THEN left
           ELSE After(left)]
      /\ clean' = (clean /\ (o.do = "import" => \A c \in Exists(store) \ {w.c} :
                             IdsOf(store[c].items) \intersect IdsOf(w.to.items) = {}))
      /\ UNCHANGED <<view, born, torn, doubled, begun>>

DiskFails(s) ==
  /\ ops[s] # Idle /\ ops[s].stage = "write"
  /\ ops' = [ops EXCEPT ![s].stage = "failed"]
  /\ UNCHANGED <<store, view, born, torn, clean, doubled, begun>>

\* collectionList: an empty store is given a default collection, which is not read back.
List(s) ==
  LET o == ops[s]
  IN  /\ o # Idle
      /\ o.stage = "list" \/ (o.do = "reload" /\ o.stage = "load")
      /\ IF Exists(store) # {}
         THEN /\ ops' = [ops EXCEPT ![s].stage = "fetch", ![s].want = Exists(store), ![s].do = "reload"]
              /\ UNCHANGED born
         ELSE \E c \in UnbornOf(Collections) :
              /\ born' = born \union {c}
              /\ ops' = [ops EXCEPT ![s].stage = "write", ![s].writes = <<[c |-> c, to |-> Blank(0)]>>,
                                    ![s].got = c :> Blank(0), ![s].do = "reload"]
      /\ UNCHANGED <<store, view, torn, clean, doubled, begun>>

\* collectionGet: the answers of one Promise.all are read one by one.
Get(s) ==
  LET o == ops[s]
  IN  /\ o # Idle /\ o.stage = "fetch"
      /\ \E c \in o.want :
           ops' = [ops EXCEPT ![s] =
             IF store[c] = None THEN [o EXCEPT !.stage = "failed"]
             ELSE [o EXCEPT !.want = @ \ {c}, !.got = (c :> store[c]) @@ @]]
      /\ UNCHANGED <<store, view, born, torn, clean, doubled, begun>>

-----------------------------------------------------------------------------
(* The webview takes the answers.                                          *)

\* The operation ends by changing the picture, which the other snapshots do not have.
Over(s) ==
  [p \in Slots |-> IF p = s \/ ops[p] = Idle THEN Idle
                  ELSE [ops[p] EXCEPT !.stale = @ \union ops[s].touches]]

\* A reload replaces the picture, a duplicate the one collection it fetched.
Apply(s) ==
  LET o == ops[s]
      Fetched(c) == IF c \in DOMAIN o.got THEN o.got[c] ELSE None
  IN  /\ o # Idle /\ o.stage = "fetch" /\ o.want = {}
      /\ view' = [c \in Collections |->
                    IF o.do = "reload" THEN Fetched(c)
                    ELSE IF view[c] = None \/ Fetched(c) = None THEN view[c] ELSE Fetched(c)]
      /\ torn' = IF o.alone /\ (o.do = "reload" \/ view[o.op.c] # None) THEN torn \ o.touches ELSE torn
      /\ ops' = Over(s)
      /\ UNCHANGED <<store, born, clean, doubled, begun>>

\* Mutant: a failed operation keeps its local edit.
BugRestored(o) == view

\* optimistic's catch: the whole picture goes back to the snapshot.
Restored(o) == IF o.do \in {"duplicate", "import", "reload"} THEN view ELSE o.snapshot

Reject(s) ==
  LET o == ops[s]
  IN  /\ o # Idle /\ o.stage = "failed"
      /\ view' = Restored(o)
      /\ torn' = torn \union o.wrote \union (IF Restored(o) = view THEN {} ELSE o.stale)
      /\ clean' = (clean /\ o.wrote = {})
      /\ ops' = Over(s)
      /\ UNCHANGED <<store, born, doubled, begun>>

User(s) ==
  \/ CreateCollection(s) \/ DeleteCollection(s) \/ RenameCollection(s)
  \/ RenameItem(s) \/ UpdateItemContent(s) \/ BumpUsage(s)
  \/ AddNewItem(s) \/ DeleteOne(s) \/ DuplicateOne(s) \/ Drop(s)
  \/ Reload(s) \/ Import(s)

\* The bound is reached and every operation is over.
Quiet == begun = MaxOps /\ Busy = {} /\ UNCHANGED vars

CatalogNext ==
  \/ \E s \in Slots : \/ User(s) \/ Load(s) \/ Write(s) \/ DiskFails(s)
                     \/ List(s) \/ Get(s) \/ Apply(s) \/ Reject(s)
  \/ Quiet

CatalogSpec == CatalogInit /\ [][CatalogNext]_vars

-----------------------------------------------------------------------------
(* What the catalog promises.                                              *)

\* When no operation on a collection is under way, the sidebar draws exactly what is
\* stored: the two tree editors agree on every edit and every refusal, a rollback undoes
\* what failed, and a quiet reload heals what overlapping operations spoiled
\* (useCatalogTree.ts:105-147, treeEdit.ts, tree.rs).  They differ on an id that is there
\* twice: one edits all of them, the other the first.
CatalogMatchesStore ==
  \A c \in Collections \ (torn \union doubled) :
    (\A s \in Busy : c \notin ops[s].touches) => view[c] = store[c]

AllIds(tree) == UNION {IdsOf(tree[c].items) : c \in Exists(tree)}

\* What an operation takes out of the store: an item with all in it, a collection, what is in
\* the folders that an import file has as requests.
Removes(op) ==
  CASE op.do = "delete" -> IdsOf(<<Find(store[op.c].items, op.i)>>)
    [] op.do = "delete_coll" /\ store[op.c] # None -> IdsOf(store[op.c].items)
    [] op.do = "import" ->
         UNION {IdsOf(pair[1].kids) :
                  pair \in UNION {Recast(store[c].items, op.arg[c].items) :
                                    c \in Exists(store) \intersect DOMAIN op.arg}}
    [] OTHER -> {}

\* No write loses an item the operation does not take out, whatever fails after it: a move
\* writes its target first, an import keeps what it does not replace by an item of the other
\* kind (commands/collection.rs:118-124, tree.rs:179-213).
StoreKeepsItems ==
  [][\A s \in Busy : (store' # store /\ clean /\ Len(ops[s].writes) > 0 /\ ops'[s] # ops[s])
        => AllIds(store) \ AllIds(store)' \subseteq Removes(ops[s].op)]_vars

\* "Nothing is ever deleted" by an import (commands/bundle.rs:43).
ImportDeletesNothing ==
  [][\A s \in Busy : (store' # store /\ ops[s].do = "import" /\ clean /\ ops'[s] # ops[s])
        => AllIds(store) \subseteq AllIds(store)']_vars

OnceEach(items) == Len(Nodes(items)) = Cardinality(IdsOf(items))

\* An id names one item of its collection, in the store and on screen, through moves,
\* duplicates and imports (tree.rs:146-243), but for an import that puts a folder of the file
\* in the place of a request while what is in it is also elsewhere (tree.rs:193).
IdsAreUnique ==
  clean => \A c \in Collections \ doubled :
             /\ store[c] # None => OnceEach(store[c].items)
             /\ view[c] # None /\ c \notin torn => OnceEach(view[c].items)

\* An import leaves no id twice (what find_item, tree.rs:21, and every edit by id rest on).
ImportKeepsIdsUnique ==
  clean => \A c \in Exists(store) : OnceEach(store[c].items)

\* Both: what is drawn is what is stored, each item once.
CatalogIsSound == CatalogMatchesStore /\ IdsAreUnique

\* A drop that finds the folders of its container above the requests leaves them there;
\* `queries` are the filters under which it is planned.
DropsLeadFolders(queries) ==
  \A s \in Slots :
    (ops[s] = Idle /\ ops'[s] # Idle /\ ops'[s].do \in {"move", "move_across"}) =>
      LET arg == ops'[s].op.arg
      IN  (arg.query \in queries /\ FoldersLead(Container(view[arg.to].items, arg.parent)))
            => FoldersLead(Container(view'[arg.to].items, arg.parent))

\* With no filter, a drop keeps folders on top (dnd.ts:103-106).
DropKeepsFolders == [][DropsLeadFolders({ItemIds})]_vars

\* "Enforces folders-on-top" (dnd.ts:105), whatever the sidebar is filtered by.
FoldersOnTop == [][DropsLeadFolders(Queries)]_vars
=============================================================================
