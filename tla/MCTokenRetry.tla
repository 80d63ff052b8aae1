---------------------------- MODULE MCTokenRetry ----------------------------
(* TokenRetry for TLC: the calls are interchangeable.  What each attempt      *)
(* carries is in Outbound.                                                    *)
EXTENDS TokenRetry, Outbound, TLC

CallSymmetry == Permutations(Calls)

\* Whenever a call is on the wire, its first attempt or its second, it carries the credential
\* it has just materialized, once and as issued, and everything else as the user wrote it, with
\* the built-ins generated (http::request::prepare and with_auth, Sender::prepare).
SentIsAsMeant ==
  (\E c \in Calls : pc[c] = "sent") => RequestsAreSigned /\ DatesAreRight
=============================================================================
