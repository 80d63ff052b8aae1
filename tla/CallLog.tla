---------------------------------- MODULE CallLog ----------------------------------
(***************************************************************************)
(* What the history promises of the calls a user has made, whatever its    *)
(* files go through: a finished call stays in the log until HISTORY_CAP    *)
(* newer ones are there or the user clears everything; only while the      *)
(* program is not running can anything else take a call away.              *)
(* HistoryLog implements it.                                               *)
(***************************************************************************)
EXTENDS Integers, FiniteSets

CONSTANTS HISTORY_CAP, MaxCalls

\* A call is the rank of its start time: the larger, the newer.
Calls == 1 .. MaxCalls

\* The calls of S with fewer than HISTORY_CAP newer ones in S.
Newest(S) == {c \in S : Cardinality({d \in S : d > c}) < HISTORY_CAP}

VARIABLES kept, running

logVars == <<kept, running>>

Init == kept \in SUBSET Calls /\ ~running

Stop == running /\ ~running' /\ UNCHANGED kept

Record(c) == running /\ kept' = kept \cup {c} /\ UNCHANGED running

\* Old calls go one by one or together, also at the start, and a newest one never.
Trim ==
    /\ running'
    /\ Newest(kept) \subseteq kept'
    /\ kept' \subseteq kept

Clear == running /\ kept' = {} /\ UNCHANGED running

\* Someone damages or removes files of a program that is not running.
Lose == ~running /\ kept' \subseteq kept /\ UNCHANGED running

Next ==
    \/ Stop \/ Trim \/ Clear \/ Lose
    \/ \E c \in Calls : Record(c)

Spec == Init /\ [][Next]_logVars
====
