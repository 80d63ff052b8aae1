--------------------------- MODULE MCDescriptors ---------------------------
(* Descriptors with three file names, each absent or one of the contents, *)
(* importing any of the other names.                                       *)
EXTENDS Descriptors

CONSTANTS T, U, R, S

Contents == {
  T :> {}, S :> {T},
  (S :> {T}) @@ (T :> {U}) @@ (U :> {T}), (R :> {U}) @@ (S :> {U}) @@ (U :> {}) }

Versions(n) ==
  {{}} \cup {{[name |-> n, deps |-> d, refs |-> c]} : d \in SUBSET (Names \ {n}), c \in Contents}

MCNames == 1 .. 3
MCTypes == {T, U}
MCServices == {R, S}
MCCorpora == {a \cup b \cup c : a \in Versions(1), b \in Versions(2), c \in Versions(3)}

\* Bound: the servers that answer v1alpha alone have two files at most.
OlderServers == version = "v1alpha" => Cardinality(corpus) <= 2
=============================================================================
