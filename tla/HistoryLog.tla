--------------------------------- MODULE HistoryLog ---------------------------------
(***************************************************************************)
(* FileHistoryStore of crates/handshaker-core/src/history/file_store.rs:   *)
(* one file per call (its body), an index file, and the page in memory.    *)
(*                                                                         *)
(* A writer holds the write lock, so at most one append or clear is in     *)
(* progress; `pc` is the file step it has come to, and the process can     *)
(* die between any two.  Each file is replaced by a rename, so a reader    *)
(* sees the old or the new content and never half of it.  What is only     *)
(* best effort in the code (writing the index, removing evicted bodies,    *)
(* moving a corrupt body aside) may here take effect or not.  A step that  *)
(* fails without an effect is no step: the command answers an error and    *)
(* nothing changes.  `.tmp` files and the `.clearing` directory are never  *)
(* read, so they are not kept.                                             *)
(***************************************************************************)
EXTENDS Integers, FiniteSets

CONSTANTS HISTORY_CAP,  \* rows and bodies kept
          MaxCalls      \* calls there are to record

ASSUME CapAssumption == HISTORY_CAP \in Nat \ {0}
ASSUME CallsAssumption == MaxCalls \in Nat

\* A call is its rank in retain_newest's order (start time, then id): larger is newer.
Calls == 1 .. MaxCalls

VARIABLES
    bodies,    \* calls with a body file
    damaged,   \* those of them whose body cannot be read
    index,     \* calls the index file lists, {} when it is missing or corrupt
    rows,      \* HistoryPage.rows, as a set: the order is that of Calls
    revision,  \* HistoryPage.revision
    pc,        \* how far the one writer is
    adding     \* the call being appended, 0 when none is

disk == <<bodies, damaged, index>>
page == <<rows, revision>>
vars == <<bodies, damaged, index, rows, revision, pc, adding>>

\* retain_newest: what remains of S, at most HISTORY_CAP calls.
Newest(S) == {c \in S : Cardinality({d \in S : d > c}) < HISTORY_CAP}

\* What a load would list: a body in the index is trusted, any other has to be read.
Readable == {c \in bodies : c \in index \/ c \notin damaged}

Evicted == Readable \ Newest(Readable)

\* Files left by earlier runs of the program.
Init ==
    /\ bodies = {} /\ damaged = {} /\ index = {}
    /\ rows = {} /\ revision = 0
    /\ pc = "down" /\ adding = 0

\* Body files go, and what was damaged in them.
Remove(gone) ==
    /\ bodies' = bodies \ gone
    /\ damaged' = damaged \ gone

\* Mutant: a body the index does not list is taken for a left-over.
BugLoadRows ==
    /\ pc = "down"
    /\ rows' = Newest(Readable \cap index)
    /\ \E gone \in SUBSET (bodies \ rows') : Remove(gone)
    /\ pc' = "loaded"
    /\ UNCHANGED <<index, revision, adding>>

\* load up to its two best-effort clean-ups: an unreadable body is moved aside, an evicted
\* one removed.
LoadRows ==
    /\ pc = "down"
    /\ rows' = Newest(Readable)
    /\ \E gone \in SUBSET (Evicted \cup (bodies \ Readable)) : Remove(gone)
    /\ pc' = "loaded"
    /\ UNCHANGED <<index, revision, adding>>

\* The index is rewritten where it differs, and the store is open.
LoadIndex ==
    /\ pc = "loaded"
    /\ index' \in {rows, index}
    /\ revision' = 1
    /\ pc' = "idle"
    /\ UNCHANGED <<bodies, damaged, rows, adding>>

\* Mutant: the index first, the body after it.
BugAppendBody(c) ==
    /\ pc = "idle"
    /\ c \notin rows
    /\ adding' = c
    /\ pc' = "body"
    /\ UNCHANGED <<bodies, damaged, index, rows, revision>>

\* append of a call not in the log: its body is on disk.
AppendBody(c) ==
    /\ pc = "idle"
    /\ c \notin rows
    /\ bodies' = bodies \cup {c}
    /\ damaged' = damaged \ {c}
    /\ adding' = c
    /\ pc' = "body"
    /\ UNCHANGED <<index, rows, revision>>

\* The index is best effort: an unindexed body is found again by the next load.
AppendIndex ==
    /\ pc = "body"
    /\ index' \in {Newest(rows \cup {adding}), index}
    /\ pc' = "indexed"
    /\ UNCHANGED <<bodies, damaged, rows, revision, adding>>

\* The page is replaced, the bodies it evicted are removed, the lock is released.
AppendFinish ==
    /\ pc = "indexed"
    /\ rows' = Newest(rows \cup {adding})
    /\ revision' = revision + 1
    /\ \E gone \in SUBSET ((rows \cup {adding}) \ rows') : Remove(gone)
    /\ adding' = 0
    /\ pc' = "idle"
    /\ UNCHANGED index

\* Mutant: the files are removed one by one, as far as that goes.
BugClearDetach ==
    /\ pc = "idle"
    /\ \E gone \in SUBSET bodies : Remove(gone)
    /\ index' = {}
    /\ pc' = "detached"
    /\ UNCHANGED <<rows, revision, adding>>

\* clear: one rename takes the directory away with everything in it.
ClearDetach ==
    /\ pc = "idle"
    /\ bodies' = {} /\ damaged' = {} /\ index' = {}
    /\ pc' = "detached"
    /\ UNCHANGED <<rows, revision, adding>>

ClearFinish ==
    /\ pc = "detached"
    /\ rows' = {}
    /\ revision' = IF rows = {} THEN revision ELSE revision + 1
    /\ pc' = "idle"
    /\ UNCHANGED <<bodies, damaged, index, adding>>

\* The process ends, between any two file steps.
Crash ==
    /\ pc # "down"
    /\ rows' = {} /\ revision' = 0 /\ adding' = 0
    /\ pc' = "down"
    /\ UNCHANGED disk

\* What can become of the files of a program that is not running.
DamageBody(c) ==
    /\ pc = "down"
    /\ c \in bodies \ damaged
    /\ damaged' = damaged \cup {c}
    /\ UNCHANGED <<bodies, index, rows, revision, pc, adding>>

LoseBody(c) ==
    /\ pc = "down"
    /\ c \in bodies
    /\ Remove({c})
    /\ UNCHANGED <<index, rows, revision, pc, adding>>

LoseIndex ==
    /\ pc = "down"
    /\ index # {}
    /\ index' = {}
    /\ UNCHANGED <<bodies, damaged, rows, revision, pc, adding>>

Next ==
    \/ LoadRows \/ LoadIndex
    \/ \E c \in Calls : AppendBody(c)
    \/ AppendIndex \/ AppendFinish
    \/ ClearDetach \/ ClearFinish
    \/ Crash
    \/ \E c \in Calls : DamageBody(c) \/ LoseBody(c)
    \/ LoseIndex

Spec == Init /\ [][Next]_vars

------------------------------------------------------------------------------------
\* The type invariant of the store.
TypeOK ==
    /\ bodies \subseteq Calls /\ damaged \subseteq bodies /\ index \subseteq Calls
    /\ rows \subseteq Calls /\ Cardinality(rows) <= HISTORY_CAP
    /\ revision \in Nat
    /\ pc \in {"down", "loaded", "idle", "body", "indexed", "detached"}
    /\ adding \in Calls \cup {0}
    /\ (adding # 0) <=> (pc \in {"body", "indexed"})

\* A page that no writer is changing is what a restart at this instant would list, whatever
\* best-effort step failed before: nothing that was shown is lost by a crash, and nothing
\* evicted or cleared comes back.
PageSurvivesRestart == pc = "idle" => rows = Newest(Readable)

\* ... and from the rename of its body on, a crash in the middle of an append leaves the page
\* after it: the index and the clean-up add nothing a restart needs.
AppendIsAtomic == pc \in {"body", "indexed"} => Newest(Readable) = Newest(rows \cup {adding})

\* The inductive invariant: what a restart would list, at every step a writer can be at.
IInv ==
    /\ TypeOK
    /\ pc = "loaded" => rows = Newest(Readable)
    /\ PageSurvivesRestart
    /\ AppendIsAtomic
    /\ pc = "detached" => bodies = {}

\* The store implements the log a user is promised (CallLog).
Log == INSTANCE CallLog WITH kept <- Readable, running <- pc # "down"
ImplementsLog == Log!Spec
====
