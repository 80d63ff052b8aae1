----------------------------- MODULE MCCatalog -----------------------------
EXTENDS Catalog

CONSTANTS c1, c2, c3, f, g, h, r, s, t

Node(id, kids) == [id |-> id, folder |-> FALSE, mark |-> 0, uses |-> 0, kids |-> kids]
Folder(id, kids) == [Node(id, kids) EXCEPT !.folder = TRUE]
Newer(node) == [node EXCEPT !.mark = 9]
Stored(items) == [mark |-> 0, items |-> items]

\* Nested folders with a request in the outer one, and an empty collection; ids stay free
\* for what is created, added, duplicated and imported.  Or a request beside the folder of
\* another one.
Nested == <<Folder(f, <<Folder(g, <<>>), Node(r, <<>>)>>)>>
Beside == <<Folder(f, <<Node(r, <<>>)>>), Node(s, <<>>)>>
MCTrees == {(c1 :> Stored(items)) @@ (c2 :> Stored(<<>>)) @@ (c3 :> None) : items \in {Nested, Beside}}

\* The export holds r in folder g, where the store may hold them elsewhere; or it has the
\* folder f as a request, or the request r as a folder with s in it.
File(items) == c1 :> [mark |-> 9, items |-> items]
MCBundles ==
  { File(<<Folder(g, <<Newer(Node(r, <<>>))>>)>>),
    File(<<Newer(Node(f, <<>>))>>),
    File(<<Folder(r, <<Newer(Node(s, <<>>))>>)>>) }

MCOpened == [c |-> c1, i |-> r]

MCQueries == {ItemIds, {r}}

\* Bound: only the first operation is a drop under the filter; the second tree is only there
\* for the import that leaves an id twice.
Scenario ==
  /\ \A o \in Slots :
       ops[o] = Idle /\ ops'[o] # Idle /\ ops'[o].do \in {"move", "move_across"} /\ begun > 0 =>
         ops'[o].op.arg.query = ItemIds
  /\ (begun = 0 /\ begun' = 1 /\ store[c1].items = Beside) =>
       \E o \in Slots : ops'[o] # Idle /\ ops'[o].do = "import" /\ r \in FoldersOf(ops'[o].op.arg[c1].items)

Interchangeable == Permutations(Slots)
=============================================================================
