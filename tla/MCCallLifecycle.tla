--------------------------- MODULE MCCallLifecycle ---------------------------
(* CallLifecycle, bounded to two scenarios in one run; in both the last of  *)
(* the drafts only takes the place of the other, and is not sent.           *)
EXTENDS CallLifecycle

\* Either one call of any kind with all its messages, or calls that need a
\* re-route or replace each other, with none.
Scenario ==
  /\ \A c \in Calls : owner[c] # MaxDrafts
  /\ \/ kind[MaxCalls] = "none"
     \/ \A c \in Calls : kind[c] # "bidi" /\ produced[c] = 0
=============================================================================
