--------------------------- MODULE StreamProtocol ---------------------------
(***************************************************************************)
(* What a stream call promises to whoever listens to its event channel:    *)
(* Opened, then Headers, then Messages, then exactly one End or Fault, and *)
(* near-silence once the call is cancelled.  Nothing here says how the     *)
(* call body, the senders and the canceller get there; StreamCall does,    *)
(* and is shown to implement this specification.                           *)
(***************************************************************************)
EXTENDS Naturals, Sequences

VARIABLES
  log,      \* the events delivered to the listener, oldest first
  mode      \* "live", "muting": cancelled with one delivery under way, "muted"

pvars == <<log, mode>>

Opened       == [type |-> "opened"]
Headers      == [type |-> "headers"]
Message(i)   == [type |-> "message", index |-> i]
End(n)       == [type |-> "end", count |-> n]
Fault        == [type |-> "fault"]

Messages == [type : {"message"}, index : Nat \ {0}]

Events == {Opened, Headers, Fault} \cup Messages \cup [type : {"end"}, count : Nat]

Terminal(e) == e.type \in {"end", "fault"}

(***************************************************************************)
(* The grammar of the log.  Indices are shared with outbound rows, so they *)
(* grow but may skip; End counts exactly the Messages delivered before it. *)
(***************************************************************************)
CanFollow(l, e) ==
  LET last == l[Len(l)]
  IN  \/ last.type = "opened" /\ e \in {Headers, Fault}
      \/ /\ last.type \in {"headers", "message"}
         /\ \/ e = Fault
            \/ e = End(Len(l) - 2)
            \/ /\ e \in Messages
               /\ last.type = "message" => e.index > last.index

PInit == log = <<Opened>> /\ mode = "live"

Deliver ==
  /\ mode # "muted"
  /\ Len(log') = Len(log) + 1
  /\ LET e == log'[Len(log')]
     IN  CanFollow(log, e) /\ log' = Append(log, e)
  /\ mode' = IF mode = "muting" THEN "muted" ELSE mode

\* A cancel silences the channel; a delivery already past its check still lands.
Mute ==
  /\ mode = "live"
  /\ mode' \in {"muting", "muted"}
  /\ UNCHANGED log

PNext == Deliver \/ Mute

PSpec == PInit /\ [][PNext]_pvars
=============================================================================
