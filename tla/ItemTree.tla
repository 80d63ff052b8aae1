------------------------------ MODULE ItemTree ------------------------------
(***************************************************************************)
(* The items of a collection, and the two pieces of code that edit them:   *)
(* crates/handshaker-core/src/collections/tree.rs, which edits what is     *)
(* stored, and src/features/catalog/treeEdit.ts, which makes the same edit *)
(* on the tree on screen before core answers.  dnd.ts turns a drop into    *)
(* the position both are given.                                            *)
(*                                                                         *)
(* An item is [id, folder, mark, uses, kids]: `folder` tells a folder from *)
(* a saved request, `mark` stands for its name, template and expanded      *)
(* flag, `uses` for its usage, and `kids` is empty for a request.  An id   *)
(* names no kind: an import may turn one into the other.  Positions count  *)
(* from 0, as in the code.                                                 *)
(***************************************************************************)
EXTENDS Naturals, Sequences, FiniteSets, SequencesExt

CONSTANTS Folders,     \* ids that a new folder can get (a bound)
          Requests,    \* ids that a new saved request can get (a bound)
          Root,        \* the collection itself as a container (`None`, `null`)
          None         \* no answer: InvalidTarget in core, null in the webview

ItemIds == Folders \union Requests

-----------------------------------------------------------------------------
(* Looking up, in either tree.                                             *)

\* An item and everything under it, the item first.
RECURSIVE Nodes(_)
Nodes(items) ==
  FlattenSeq([k \in DOMAIN items |-> <<items[k]>> \o Nodes(items[k].kids)])

RECURSIVE IdsOf(_)
IdsOf(items) == UNION {{items[k].id} \union IdsOf(items[k].kids) : k \in DOMAIN items}

Has(items, id) == id \in IdsOf(items)

Find(items, id) == SelectSeq(Nodes(items), LAMBDA n : n.id = id)[1]

\* Where an item lives, [parent, at]: this container is searched before those below.
RECURSIVE Locate(_, _, _)
Locate(items, id, parent) ==
  LET here  == {k \in DOMAIN items : items[k].id = id}
      below == {k \in DOMAIN items : Has(items[k].kids, id)}
  IN  IF here # {} THEN [parent |-> parent, at |-> Min(here) - 1]
      ELSE IF below # {} THEN Locate(items[Min(below)].kids, id, items[Min(below)].id)
      ELSE None

IsContainer(items, parent) == parent = Root \/ (Has(items, parent) /\ Find(items, parent).folder)

Container(items, parent) == IF parent = Root THEN items ELSE Find(items, parent).kids

Clamped(at, seq) == IF at < Len(seq) THEN at ELSE Len(seq)

Placed(seq, at, node) == InsertAt(seq, Clamped(at, seq) + 1, node)

\* An edit of one item, [what, to]: a name, which any item has, the expanded flag of a
\* folder, the content of a request, or one more use of it.
Takes(node, edit) ==
  CASE edit.what = "name" -> TRUE [] edit.what = "expanded" -> node.folder [] OTHER -> ~node.folder
Edited(node, edit) ==
  IF edit.what = "use" THEN [node EXCEPT !.uses = @ + 1] ELSE [node EXCEPT !.mark = edit.to]

-----------------------------------------------------------------------------
(* Core's edits (tree.rs).  The result is the new items, or None.          *)

RECURSIVE ReplaceFirst(_, _, _)
ReplaceFirst(items, id, node) ==
  LET k == Min({j \in DOMAIN items : items[j].id = id \/ Has(items[j].kids, id)})
  IN  [items EXCEPT ![k] = IF @.id = id THEN node
                           ELSE [@ EXCEPT !.kids = ReplaceFirst(@, id, node)]]

WithContainer(items, parent, kids) ==
  IF parent = Root THEN kids
  ELSE ReplaceFirst(items, parent, [Find(items, parent) EXCEPT !.kids = kids])

AddItem(items, parent, node) ==
  IF Has(items, node.id) THEN items
  ELSE IF ~IsContainer(items, parent) THEN None
  ELSE WithContainer(items, parent, Append(Container(items, parent), node))

\* rename_item, set_expanded and the command for usage: refused where the item has no such
\* field.  (set_expanded passes over requests; no id of the runs names one of each at once.)
EditItem(items, id, edit) ==
  IF Has(items, id) /\ Takes(Find(items, id), edit)
  THEN ReplaceFirst(items, id, Edited(Find(items, id), edit)) ELSE None

\* The item that locate points at.
Located(items, id) ==
  LET loc == Locate(items, id, Root) IN Container(items, loc.parent)[loc.at + 1]

DeleteItem(items, id) ==
  LET loc == Locate(items, id, Root)
  IN  IF loc = None THEN None
      ELSE WithContainer(items, loc.parent, RemoveAt(Container(items, loc.parent), loc.at + 1))

RestoreItem(items, node, parent, at) ==
  IF ~IsContainer(items, parent) THEN None
  ELSE WithContainer(items, parent, Placed(Container(items, parent), at, node))

MoveItem(items, id, parent, at) ==
  IF \/ ~Has(items, id)
     \/ parent = id
     \/ ~IsContainer(items, parent)
     \/ Has(Find(items, id).kids, parent)
  THEN None
  ELSE RestoreItem(DeleteItem(items, id), Located(items, id), parent, at)

\* reassign_ids: the copy and everything in it get the ids of `fresh`, in their order.
RECURSIVE Fresh(_, _)
Fresh(node, fresh) ==
  [node EXCEPT !.id = Head(fresh),
               !.kids = [k \in DOMAIN @ |->
                  Fresh(@[k], SubSeq(fresh, 2 + Len(Nodes(SubSeq(@, 1, k - 1))), Len(fresh)))]]

DuplicateItem(items, id, fresh) ==
  LET loc == Locate(items, id, Root)
  IN  IF loc = None THEN None
      ELSE WithContainer(items, loc.parent,
             Placed(Container(items, loc.parent), loc.at + 1, Fresh(Find(items, id), fresh)))

\* merge_items: imported fields win and imported items that are missing are added under the
\* folder they have in the bundle.  A folder keeps what is in it if the bundle has a folder
\* too; a request, or an item of the other kind, gives way to the bundle's with all in it.
Imported(items, incoming) ==
  LET old == Find(items, incoming.id)
  IN  ReplaceFirst(items, incoming.id,
        IF old.folder /\ incoming.folder THEN [old EXCEPT !.mark = incoming.mark] ELSE incoming)

ApplyImported(local, imported) ==
  FoldLeft(LAMBDA items, n : IF Has(items, n.id) THEN Imported(items, n) ELSE items,
           local, Nodes(imported))

RECURSIVE AppendMissing(_, _, _)
AppendMissing(local, imported, parent) ==
  FoldLeft(LAMBDA items, n :
             LET added == AddItem(items, parent, [n EXCEPT !.kids = <<>>])
             IN  IF n.folder /\ Find(added, n.id).folder THEN AppendMissing(added, n.kids, n.id) ELSE added,
           local, imported)

MergeItems(local, imported) == AppendMissing(ApplyImported(local, imported), imported, Root)

-----------------------------------------------------------------------------
(* The webview's edits (treeEdit.ts).  They never fail: an item or a       *)
(* folder that is not there leaves the tree as it was.                     *)

RECURSIVE MapDeep(_, _, _)
MapDeep(items, id, edit) ==
  [k \in DOMAIN items |->
     IF items[k].id = id THEN IF Takes(items[k], edit) THEN Edited(items[k], edit) ELSE items[k]
     ELSE [items[k] EXCEPT !.kids = MapDeep(@, id, edit)]]

RECURSIVE RemoveDeep(_, _)
RemoveDeep(items, id) ==
  LET kept == SelectSeq(items, LAMBDA n : n.id # id)
  IN  [k \in DOMAIN kept |-> [kept[k] EXCEPT !.kids = RemoveDeep(@, id)]]

\* What detachDeep hands on: the last of the items it takes out.
Detached(items, id) == Last(SelectSeq(Nodes(items), LAMBDA n : n.id = id))

RECURSIVE InsertDeep(_, _, _, _)
InsertDeep(items, parent, at, node) ==
  IF parent = Root THEN Placed(items, at, node)
  ELSE [k \in DOMAIN items |->
          IF items[k].id = parent /\ items[k].folder THEN [items[k] EXCEPT !.kids = Placed(@, at, node)]
          ELSE [items[k] EXCEPT !.kids = InsertDeep(@, parent, at, node)]]

-----------------------------------------------------------------------------
(* What the sidebar shows, and where a drop lands (sort.ts, dnd.ts).       *)

\* The items that match the filter, with the folders above them.
RECURSIVE FilterItems(_, _)
FilterItems(items, matches) ==
  LET pruned == [k \in DOMAIN items |->
                   IF items[k].folder /\ items[k].id \notin matches
                   THEN [items[k] EXCEPT !.kids = FilterItems(@, matches)] ELSE items[k]]
  IN  SelectSeq(pruned, LAMBDA n : n.id \in matches \/ n.kids # <<>>)

FolderCount(items) == Len(SelectSeq(items, LAMBDA n : n.folder))

FoldersLead(items) == \A k \in DOMAIN items : items[k].folder <=> k <= FolderCount(items)

\* Mutant: the position under the pointer, folders or not.
BugPosition(folder, rest, raw) == Clamped(raw, rest)

\* Folders go among the folders, requests after them.
Position(folder, rest, raw) ==
  IF folder THEN IF raw < FolderCount(rest) THEN raw ELSE FolderCount(rest)
  ELSE IF raw < FolderCount(rest) THEN FolderCount(rest) ELSE Clamped(raw, rest)

\* The move a drop of `id`, shown in `source`, stands for: on `target` in `dest`, in
\* `zone`; `same` when both are one collection.  None when the drop is refused or moves nothing.
PlanDrop(source, id, dest, target, zone, same) ==
  LET from   == Locate(source, id, Root)
      folder == Find(source, id).folder
      anchor == IF target = Root THEN None ELSE Locate(dest, target, Root)
      parent == IF zone = "inside" THEN target ELSE anchor.parent
      shares == same /\ from.parent = parent
      rest   == SelectSeq(Container(dest, parent), LAMBDA n : ~shares \/ n.id # id)
      before == anchor.at + (IF zone = "after" THEN 1 ELSE 0)
      raw    == IF zone = "inside" THEN IF folder THEN FolderCount(rest) ELSE Len(rest)
                ELSE IF shares /\ from.at < before THEN before - 1 ELSE before
      at     == Position(folder, rest, raw)
  IN  IF \/ from = None
         \/ zone = "inside" /\ ~IsContainer(dest, target)
         \/ zone # "inside" /\ target = Root
         \/ same /\ folder /\ (parent = id \/ Has(Find(source, id).kids, parent))
         \/ shares /\ at = from.at
      THEN None
      ELSE [parent |-> parent, at |-> at]
=============================================================================
