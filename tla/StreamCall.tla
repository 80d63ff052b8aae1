----------------------------- MODULE StreamCall -----------------------------
(***************************************************************************)
(* One streaming gRPC call of crates/handshaker-core/src/stream.rs: the    *)
(* spawned call body (`run`), and the operations other threads run on its  *)
(* handle while it lives - Send message, Half-close, Cancel, release.      *)
(*                                                                         *)
(* The runtime is multi-threaded, so every load, store, lock section and   *)
(* await another thread can observe is a step of its own.  tonic and the   *)
(* server are the environment: they poll the outbound channel, answer,     *)
(* deliver items and drop the channel's receiver when they like.           *)
(*                                                                         *)
(* A message is identified by the row it got in the Stream store, so       *)
(* `chan` and `wire` are sequences of row numbers.                         *)
(***************************************************************************)
EXTENDS Naturals, Sequences, FiniteSets

CONSTANTS
  Senders,     \* the Send message invocations that may ever be made
  MaxInbound   \* bound: messages the server sends

ASSUME MaxInboundAssumption == MaxInbound \in Nat

VARIABLES
  kind,        \* "server", or "bidi" (a client-streaming call runs the same code)
  timed,       \* a phase timeout is configured
  bpc,         \* where the call body is
  item,        \* the inbound item the body holds
  pending,     \* the event the body is about to emit
  count,       \* the body's message_count
  deadline,    \* the phase-2 timer: "waitHalf", "sleeping", "elapsed"
  events,      \* what the event callback was called with
  store,       \* the Stream store: rows of both directions
  cancelled,   \* the cancelled flag
  cancelPermit,\* the `cancel` Notify holds a permit
  halfPermit,  \* the `half_closed` Notify holds a permit
  aborted,     \* task.abort() was called
  tx,          \* Outbound.tx is Some
  terminated,  \* Outbound.terminated
  free,        \* free slots of the outbound channel's semaphore
  chan,        \* accepted, not yet polled by the transport
  rxOpen,      \* the channel's receiver still exists
  wire,        \* what the transport took, in order
  spc,         \* where each sender is
  ack,         \* the index a sender's row got (0: none)
  woken,       \* senders the `terminal` Notify has woken
  cpc,         \* the canceller: "idle", "flagged", "returned"
  hpc,         \* the half-closer: "idle", "taken", "returned"
  registered,  \* the stream registry still holds the handle
  late,        \* history: senders that called after half_close or cancel returned
  lateRows     \* history: inbound rows stored after cancel returned

bodyVars   == <<bpc, item, pending, count, deadline, events>>
flagVars   == <<cancelled, cancelPermit, aborted>>
chanVars   == <<free, chan, rxOpen, wire>>
senderVars == <<spc, ack, woken, late>>
callerVars == <<cpc, hpc, registered>>
vars == <<kind, timed, bodyVars, store, flagVars, halfPermit, tx, terminated,
          chanVars, senderVars, callerVars, lateRows>>

\* Mutant: a channel of two slots.
BugCapacity == 2

OUTBOUND_CAPACITY == 1

NoItem == "none"
Items  == {"ok", "bad", "end", "eof"}   \* "bad" does not decode, "eof" is None

None       == [type |-> "none"]
Opened     == [type |-> "opened"]
Headers    == [type |-> "headers"]
Fault      == [type |-> "fault"]
Message(i) == [type |-> "message", index |-> i]
End(n)     == [type |-> "end", count |-> n]

In     == [dir |-> "in"]
Out(s) == [dir |-> "out", by |-> s]

Terminal(e) == e.type \in {"end", "fault"}

-----------------------------------------------------------------------------
(* The event channel's promise, StreamProtocol, seen from here. *)
Mode == IF ~cancelled THEN "live" ELSE IF bpc = "deliver" THEN "muting" ELSE "muted"
Protocol == INSTANCE StreamProtocol WITH log <- events, mode <- Mode

-----------------------------------------------------------------------------
(* spawn_stream_call: Opened is emitted before the handle exists; a server-*)
(* streaming call has no outbound side and is half-closed at once.         *)
Init ==
  /\ kind \in {"server", "bidi"}
  /\ timed \in BOOLEAN
  /\ bpc = "start" /\ item = NoItem /\ pending = None /\ count = 0
  /\ deadline = "waitHalf"
  /\ events = <<Opened>>
  /\ store = <<>>
  /\ cancelled = FALSE /\ cancelPermit = FALSE /\ aborted = FALSE
  /\ halfPermit = (kind = "server")
  /\ tx = (kind # "server")
  /\ terminated = FALSE
  /\ free = OUTBOUND_CAPACITY /\ chan = <<>> /\ rxOpen = (kind # "server") /\ wire = <<>>
  /\ spc = [s \in Senders |-> "idle"]
  /\ ack = [s \in Senders |-> 0]
  /\ woken = {} /\ late = {}
  /\ cpc = "idle" /\ hpc = "idle" /\ registered = TRUE
  /\ lateRows = 0

-----------------------------------------------------------------------------
(* The call body.  Both of its selects are biased: the cancel Notify is    *)
(* polled first, what it races against one step later.                     *)

\* The body leaves `run`: TerminateOnExit is dropped next.
Exit == bpc' = "dropTx"

\* The body holds event e and is about to emit it.
Emit(e) == pending' = e /\ bpc' = "emit"

SeeCancel ==
  /\ bpc \in {"start", "pump"}
  /\ cancelPermit
  /\ cancelPermit' = FALSE
  /\ Exit
  /\ UNCHANGED <<kind, timed, item, pending, count, deadline, events, store, cancelled,
                 aborted, halfPermit, tx, terminated, chanVars, senderVars, callerVars, lateRows>>

PollOn ==
  /\ ~cancelPermit
  /\ \/ bpc = "start" /\ ~aborted /\ bpc' = "startPoll"
     \/ bpc = "pump" /\ bpc' = "pumpPoll"
  /\ UNCHANGED <<kind, timed, item, pending, count, deadline, events, store, flagVars,
                 halfPermit, tx, terminated, chanVars, senderVars, callerVars, lateRows>>

\* stream_dynamic resolved: headers, or a transport refusal.
Start ==
  /\ bpc = "startPoll"
  /\ \E e \in {Headers, Fault} : Emit(e)
  /\ UNCHANGED <<kind, timed, item, count, deadline, events, store, flagVars,
                 halfPermit, tx, terminated, chanVars, senderVars, callerVars, lateRows>>

\* Not resolved: poll the deadline, which starts to count at half-close.
PollDeadline ==
  /\ bpc = "startPoll"
  /\ IF deadline = "elapsed"
       THEN Emit(Fault) /\ UNCHANGED <<deadline, halfPermit>>
       ELSE /\ bpc' = "start"
            /\ pending' = pending
            /\ IF halfPermit /\ deadline = "waitHalf"
                 THEN deadline' = "sleeping" /\ halfPermit' = FALSE
                 ELSE UNCHANGED <<deadline, halfPermit>>
  /\ UNCHANGED <<kind, timed, item, count, events, store, flagVars,
                 tx, terminated, chanVars, senderVars, callerVars, lateRows>>

\* The sleep of the phase-2 deadline runs out (never, without a phase timeout).
Timer ==
  /\ timed /\ deadline = "sleeping"
  /\ deadline' = "elapsed"
  /\ UNCHANGED <<kind, timed, bpc, item, pending, count, events, store, flagVars,
                 halfPermit, tx, terminated, chanVars, senderVars, callerVars, lateRows>>

\* inbound.next() is ready.
Take ==
  /\ bpc = "pumpPoll"
  /\ item' \in {i \in Items : i \in {"ok", "bad"} => count < MaxInbound}
  /\ bpc' = "taken"
  /\ UNCHANGED <<kind, timed, pending, count, deadline, events, store, flagVars,
                 halfPermit, tx, terminated, chanVars, senderVars, callerVars, lateRows>>

\* Nothing there yet: the body parks, and is polled again from the top.
Park ==
  /\ \/ bpc = "pumpPoll" /\ bpc' = "parked"
     \/ bpc = "parked" /\ ~aborted /\ bpc' = "pump"
  /\ UNCHANGED <<kind, timed, item, pending, count, deadline, events, store, flagVars,
                 halfPermit, tx, terminated, chanVars, senderVars, callerVars, lateRows>>

\* A message is stored before it is described, and described before it is emitted.
StoreInbound ==
  /\ bpc = "taken" /\ item \in {"ok", "bad"}
  /\ count' = count + 1
  /\ store' = Append(store, In)
  /\ Emit(IF item = "ok" THEN Message(Len(store')) ELSE Fault)
  /\ item' = NoItem
  /\ lateRows' = IF cpc = "returned" THEN lateRows + 1 ELSE lateRows
  /\ UNCHANGED <<kind, timed, deadline, events, flagVars,
                 halfPermit, tx, terminated, chanVars, senderVars, callerVars>>

\* Mutant: End counts the rows of both directions.
BugTakeEnd ==
  /\ bpc = "taken" /\ item \in {"end", "eof"}
  /\ Emit(End(Len(store)))
  /\ item' = NoItem
  /\ UNCHANGED <<kind, timed, count, deadline, events, store, flagVars,
                 halfPermit, tx, terminated, chanVars, senderVars, callerVars, lateRows>>

\* A status, or a stream that ends without one.
TakeEnd ==
  /\ bpc = "taken" /\ item \in {"end", "eof"}
  /\ Emit(End(count))
  /\ item' = NoItem
  /\ UNCHANGED <<kind, timed, count, deadline, events, store, flagVars,
                 halfPermit, tx, terminated, chanVars, senderVars, callerVars, lateRows>>

\* Mutant: a Fault does not end the pump.
BugAfterEmit(e) == IF e.type = "end" THEN "dropTx" ELSE "pump"

\* Where the body goes once it has emitted e, delivered or not.
AfterEmit(e) == IF Terminal(e) THEN "dropTx" ELSE "pump"

\* Emitter::emit loads the flag ...
EmitCheck ==
  /\ bpc = "emit"
  /\ bpc' = IF cancelled THEN AfterEmit(pending) ELSE "deliver"
  /\ UNCHANGED <<kind, timed, item, pending, count, deadline, events, store, flagVars,
                 halfPermit, tx, terminated, chanVars, senderVars, callerVars, lateRows>>

\* ... and then calls the sink.
Deliver ==
  /\ bpc = "deliver"
  /\ events' = Append(events, pending)
  /\ bpc' = AfterEmit(pending)
  /\ UNCHANGED <<kind, timed, item, pending, count, deadline, store, flagVars,
                 halfPermit, tx, terminated, chanVars, senderVars, callerVars, lateRows>>

\* An aborted task is dropped where it awaits instead of being polled again.
AbortTaken ==
  /\ aborted /\ bpc \in {"start", "parked"}
  /\ Exit
  /\ UNCHANGED <<kind, timed, item, pending, count, deadline, events, store, flagVars,
                 halfPermit, tx, terminated, chanVars, senderVars, callerVars, lateRows>>

\* Outbound::terminate in its order: drop the sender, set the flag, wake.
TerminateDropTx ==
  /\ bpc = "dropTx"
  /\ tx' = FALSE
  /\ bpc' = "setFlag"
  /\ UNCHANGED <<kind, timed, item, pending, count, deadline, events, store, flagVars,
                 halfPermit, terminated, chanVars, senderVars, callerVars, lateRows>>

TerminateFlag ==
  /\ bpc = "setFlag"
  /\ terminated' = TRUE
  /\ bpc' = "wake"
  /\ UNCHANGED <<kind, timed, item, pending, count, deadline, events, store, flagVars,
                 halfPermit, tx, chanVars, senderVars, callerVars, lateRows>>

Waiting(s) == spc[s] \in {"armed", "parked"}   \* its Notified exists

\* Mutant: nobody is woken.
BugTerminateWake ==
  /\ bpc = "wake"
  /\ bpc' = "done"
  /\ UNCHANGED <<kind, timed, item, pending, count, deadline, events, store, flagVars,
                 halfPermit, tx, terminated, chanVars, senderVars, callerVars, lateRows>>

TerminateWake ==
  /\ bpc = "wake"
  /\ woken' = woken \cup {s \in Senders : Waiting(s)}
  /\ bpc' = "done"
  /\ UNCHANGED <<kind, timed, item, pending, count, deadline, events, store, flagVars,
                 halfPermit, tx, terminated, chanVars, spc, ack, late, callerVars, lateRows>>

Terminate == TerminateDropTx \/ TerminateFlag \/ TerminateWake

Body == \/ SeeCancel \/ PollOn \/ Start \/ PollDeadline \/ Take \/ Park
        \/ StoreInbound \/ TakeEnd \/ EmitCheck \/ Deliver \/ AbortTaken \/ Terminate

-----------------------------------------------------------------------------
(* Send message.  A sender keeps its clone of the channel's Sender and its *)
(* Arc of the handle until it returns.                                     *)

HoldsTx(s) == spc[s] \in {"open", "armed", "parked", "permit", "push", "stored"}
Active(s)  == spc[s] = "called" \/ HoldsTx(s)
Goto(s, pc) == spc' = [spc EXCEPT ![s] = pc]

sendFrame == <<kind, timed, bodyVars, flagVars, halfPermit, tx, terminated, woken,
               callerVars, lateRows>>

\* StreamRegistry::send_message finds the handle.
SendCall(s) ==
  /\ spc[s] = "idle" /\ registered
  /\ Goto(s, "called")
  /\ late' = IF "returned" \in {hpc, cpc} THEN late \cup {s} ELSE late
  /\ UNCHANGED <<sendFrame, store, chanVars, ack>>

\* open_outbound: both flags, then a clone of tx under its lock.  tx only ever
\* goes from Some to None, so the two loads and the lock may be one step.
SendOpen(s) ==
  /\ spc[s] = "called"
  /\ Goto(s, IF cancelled \/ terminated \/ ~tx THEN "refused" ELSE "open")
  /\ UNCHANGED <<sendFrame, store, chanVars, ack, late>>

\* The template resolves and encodes - and the Notified is armed - or it does
\* not, which fails this send only.
SendEncode(s) ==
  /\ spc[s] = "open"
  /\ \E pc \in {"armed", "failed"} : Goto(s, pc)
  /\ UNCHANGED <<sendFrame, store, chanVars, ack, late>>

SendCheck(s) ==
  /\ spc[s] = "armed"
  /\ Goto(s, IF terminated THEN "refused" ELSE "parked")
  /\ UNCHANGED <<sendFrame, store, chanVars, ack, late>>

\* The select: the call's end wins, then a slot, then a receiver that is gone.
SendWoken(s) ==
  /\ spc[s] = "parked" /\ s \in woken
  /\ Goto(s, "refused")
  /\ UNCHANGED <<sendFrame, store, chanVars, ack, late>>

SendReserve(s) ==
  /\ spc[s] = "parked" /\ s \notin woken
  /\ rxOpen /\ free > 0
  /\ free' = free - 1
  /\ Goto(s, "permit")
  /\ UNCHANGED <<sendFrame, store, chan, rxOpen, wire, ack, late>>

SendNoReceiver(s) ==
  /\ spc[s] = "parked" /\ s \notin woken
  /\ ~rxOpen
  /\ Goto(s, "refused")
  /\ UNCHANGED <<sendFrame, store, chanVars, ack, late>>

\* The second look at both flags; a refusal gives the permit back.
SendRecheck(s) ==
  /\ spc[s] = "permit"
  /\ IF cancelled \/ terminated
       THEN Goto(s, "refused") /\ free' = free + 1
       ELSE Goto(s, "push") /\ UNCHANGED free
  /\ UNCHANGED <<sendFrame, store, chan, rxOpen, wire, ack, late>>

SendStore(s) ==
  /\ spc[s] = "push"
  /\ store' = Append(store, Out(s))
  /\ ack' = [ack EXCEPT ![s] = Len(store')]
  /\ Goto(s, "stored")
  /\ UNCHANGED <<sendFrame, chanVars, late>>

\* permit.send: a message put into a channel without a receiver is lost.
SendCommit(s) ==
  /\ spc[s] = "stored"
  /\ chan' = IF rxOpen THEN Append(chan, ack[s]) ELSE chan
  /\ Goto(s, "acked")
  /\ UNCHANGED <<sendFrame, store, free, rxOpen, wire, ack, late>>

SendStep(s) == \/ SendOpen(s) \/ SendEncode(s) \/ SendCheck(s) \/ SendWoken(s)
               \/ SendReserve(s) \/ SendNoReceiver(s) \/ SendRecheck(s)
               \/ SendStore(s) \/ SendCommit(s)

-----------------------------------------------------------------------------
(* Half-close, Cancel and release, each through the stream registry. *)

\* Mutant: the sender is left in place.
BugHalfCloseTake ==
  /\ hpc = "idle" /\ registered
  /\ hpc' = "taken"
  /\ UNCHANGED <<kind, timed, bodyVars, store, flagVars, halfPermit, tx, terminated,
                 chanVars, senderVars, cpc, registered, lateRows>>

\* Repeating a half-close or a cancel changes nothing: once each is enough.
HalfCloseTake ==
  /\ hpc = "idle" /\ registered
  /\ tx' = FALSE
  /\ hpc' = "taken"
  /\ UNCHANGED <<kind, timed, bodyVars, store, flagVars, halfPermit, terminated,
                 chanVars, senderVars, cpc, registered, lateRows>>

\* Mutant: the phase-2 deadline is not armed.
BugHalfCloseNotify ==
  /\ hpc = "taken"
  /\ hpc' = "returned"
  /\ UNCHANGED <<kind, timed, bodyVars, store, flagVars, halfPermit, tx, terminated,
                 chanVars, senderVars, cpc, registered, lateRows>>

HalfCloseNotify ==
  /\ hpc = "taken"
  /\ halfPermit' = TRUE
  /\ hpc' = "returned"
  /\ UNCHANGED <<kind, timed, bodyVars, store, flagVars, tx, terminated,
                 chanVars, senderVars, cpc, registered, lateRows>>

CancelFlag ==
  /\ cpc = "idle" /\ registered
  /\ cancelled' = TRUE
  /\ cpc' = "flagged"
  /\ UNCHANGED <<kind, timed, bodyVars, store, cancelPermit, aborted, halfPermit, tx,
                 terminated, chanVars, senderVars, hpc, registered, lateRows>>

\* Mutant: only the flag is set.
BugCancelNotify ==
  /\ cpc = "flagged"
  /\ cpc' = "returned"
  /\ UNCHANGED <<kind, timed, bodyVars, store, flagVars, halfPermit, tx,
                 terminated, chanVars, senderVars, hpc, registered, lateRows>>

CancelNotify ==
  /\ cpc = "flagged"
  /\ cancelPermit' = TRUE
  /\ cpc' = "returned"
  /\ UNCHANGED <<kind, timed, bodyVars, store, cancelled, aborted, halfPermit, tx,
                 terminated, chanVars, senderVars, hpc, registered, lateRows>>

\* release, release_call, or an insert that takes the id: the registry's Arc goes.
Release ==
  /\ registered
  /\ registered' = FALSE
  /\ UNCHANGED <<kind, timed, bodyVars, store, flagVars, halfPermit, tx, terminated,
                 chanVars, senderVars, cpc, hpc, lateRows>>

\* Somebody still holds an Arc of the handle.
Referenced ==
  registered \/ cpc = "flagged" \/ hpc = "taken" \/ \E s \in Senders : Active(s)

\* Drop for StreamCall: the last Arc is gone.
DropCall ==
  /\ ~Referenced /\ ~aborted
  /\ cancelled' = TRUE
  /\ aborted' = TRUE
  /\ UNCHANGED <<kind, timed, bodyVars, store, cancelPermit, halfPermit, tx, terminated,
                 chanVars, senderVars, callerVars, lateRows>>

-----------------------------------------------------------------------------
(* tonic's side of the outbound channel (external). *)

TransportPoll ==
  /\ rxOpen /\ chan # <<>>
  /\ wire' = Append(wire, Head(chan))
  /\ chan' = Tail(chan)
  /\ free' = free + 1
  /\ UNCHANGED <<kind, timed, bodyVars, store, flagVars, halfPermit, tx, terminated, rxOpen,
                 senderVars, callerVars, lateRows>>

\* The stream is reset, or over: what was accepted and not polled is lost.  The
\* receiver also goes when it has seen the end of the request stream.
ReceiverDrop ==
  /\ rxOpen
  /\ rxOpen' = FALSE
  /\ chan' = <<>>
  /\ UNCHANGED <<kind, timed, bodyVars, store, flagVars, halfPermit, tx, terminated,
                 free, wire, senderVars, callerVars, lateRows>>

-----------------------------------------------------------------------------
Finished == /\ bpc = "done" /\ aborted /\ ~rxOpen /\ UNCHANGED vars

Next == \/ Body \/ Timer
        \/ \E s \in Senders : SendCall(s) \/ SendStep(s)
        \/ HalfCloseTake \/ HalfCloseNotify \/ CancelFlag \/ CancelNotify
        \/ Release \/ DropCall
        \/ TransportPoll \/ ReceiverDrop
        \/ Finished

Spec == Init /\ [][Next]_vars

(***************************************************************************)
(* Fairness: tokio polls a woken task and a caller that has begun a        *)
(* synchronous call finishes it.  Nothing is assumed of the server, of     *)
(* tonic, or of the user ever calling anything.                            *)
(***************************************************************************)
Fairness ==
  /\ WF_vars(Body) /\ WF_vars(Timer)
  /\ \A s \in Senders : WF_vars(SendStep(s))
  /\ WF_vars(HalfCloseNotify) /\ WF_vars(CancelNotify) /\ WF_vars(DropCall)

FairSpec == Spec /\ Fairness

-----------------------------------------------------------------------------
SenderPCs == {"idle", "called", "open", "armed", "parked", "permit", "push", "stored",
              "acked", "refused", "failed"}
BodyPCs == {"start", "startPoll", "pump", "pumpPoll", "parked", "taken", "emit", "deliver",
            "dropTx", "setFlag", "wake", "done"}
Rows == {In} \cup {Out(s) : s \in Senders}
StreamEvents == {Opened, Headers, Fault}
                  \cup [type : {"message"}, index : Nat] \cup [type : {"end"}, count : Nat]

FlagsOK ==
  /\ timed \in BOOLEAN /\ cancelled \in BOOLEAN /\ cancelPermit \in BOOLEAN
  /\ aborted \in BOOLEAN /\ halfPermit \in BOOLEAN /\ tx \in BOOLEAN
  /\ terminated \in BOOLEAN /\ rxOpen \in BOOLEAN /\ registered \in BOOLEAN

TypeOK ==
  /\ FlagsOK
  /\ kind \in {"server", "bidi"}
  /\ bpc \in BodyPCs /\ item \in Items \cup {NoItem}
  /\ pending \in StreamEvents \cup {None} /\ count \in 0..MaxInbound
  /\ deadline \in {"waitHalf", "sleeping", "elapsed"}
  /\ events \in Seq(StreamEvents) /\ store \in Seq(Rows)
  /\ free \in 0..OUTBOUND_CAPACITY /\ chan \in Seq(Nat) /\ wire \in Seq(Nat)
  /\ spc \in [Senders -> SenderPCs] /\ ack \in [Senders -> Nat]
  /\ woken \subseteq Senders /\ late \subseteq Senders
  /\ cpc \in {"idle", "flagged", "returned"} /\ hpc \in {"idle", "taken", "returned"}
  /\ lateRows \in Nat

Accepted == wire \o chan     \* what the channel took, in order
InboundRows == {i \in DOMAIN store : store[i] = In}
IsOut(i) == i \in DOMAIN store /\ store[i] # In

\* Outbound rows reach the wire in the order of their indices, each at most
\* once, although store_push and permit.send are two steps that concurrent
\* senders may interleave (send_message; it rests on OUTBOUND_CAPACITY).
WireInStoreOrder ==
  /\ \A i \in DOMAIN Accepted : IsOut(Accepted[i])
  /\ \A i, j \in DOMAIN Accepted : i < j => Accepted[i] < Accepted[j]

\* While the channel's receiver lives no stored outbound row is missing from
\* the channel, except that of the one sender between its two steps.
NothingLostWhileOpen ==
  rxOpen => \A i \in DOMAIN store :
              IsOut(i) => \/ \E k \in DOMAIN Accepted : Accepted[k] = i
                         \/ \E s \in Senders : spc[s] = "stored" /\ ack[s] = i

\* A send that is acknowledged has exactly one row, at the index of its ack;
\* one that is refused or fails has none (StreamClosed is never a silent drop).
SendIsAllOrNothing ==
  \A s \in Senders :
    {i \in DOMAIN store : store[i] = Out(s)} =
      IF spc[s] \in {"stored", "acked"} THEN {ack[s]} ELSE {}

\* A Message event names an inbound row that is already in the store, so the
\* timeline can fetch its body (run: store_push before emit).
EventsReadable ==
  \A k \in DOMAIN events :
    events[k].type = "message" =>
      events[k].index \in DOMAIN store /\ store[events[k].index] = In

\* End's message_count is the number of inbound rows the store holds, then and
\* for as long as the store lives, with outbound rows interleaved among them.
EndCountsInboundRows ==
  \A k \in DOMAIN events :
    events[k].type = "end" => events[k].count = Cardinality(InboundRows)

\* A Send message called after half_close or cancel has returned never gets a
\* row, wherever the call body is by then.
LateSendRefused == \A s \in late : \A i \in DOMAIN store : store[i] # Out(s)

\* What Send message answers is what happened: a row for an acknowledged
\* message, none for a refused one, and refusal for every late one.
SendIsHonest == SendIsAllOrNothing /\ LateSendRefused

\* After cancel has returned the body stores at most the one message its select
\* had already reached.
AtMostOneRowAfterCancel == lateRows <= 1

\* The store holds what went out and what came in: no outbound row is missing
\* from an open channel, End counts the inbound ones, and a cancel that has
\* returned is followed by at most one (send_message, run, cancel).
StoreAgrees == NothingLostWhileOpen /\ EndCountsInboundRows /\ AtMostOneRowAfterCancel

\* The event channel keeps StreamProtocol's promise, at most one delivery after
\* a cancel included.
ImplementsProtocol == Protocol!PSpec

\* No Send message is left waiting for a slot once the call is over: its wake-up
\* has come, even if it was armed while the call was ending (terminate's order).
NobodyLeftParked == bpc = "done" => \A s \in Senders : spc[s] = "parked" => s \in woken

\* With a phase timeout, a half-closed call does not wait for the stream start
\* for ever (a server-streaming call is half-closed from the beginning).
HalfClosedIsBounded ==
  (timed /\ (kind = "server" \/ hpc = "returned")) ~> bpc \notin {"start", "startPoll"}

\* A call that was cancelled, or whose handle nobody holds any more, ends,
\* whatever the server does (cancel, Drop for StreamCall).
CallStops == (cpc = "returned" \/ ~Referenced) ~> (bpc = "done")

-----------------------------------------------------------------------------
(***************************************************************************)
(* The inductive invariant behind the safety properties.                   *)
(***************************************************************************)
HoldsPermit(s) == spc[s] \in {"permit", "push", "stored"}

\* One slot: it is free, or one sender holds its permit, or one message fills it.
SlotInv ==
  /\ \A s \in Senders : HoldsPermit(s) => free = 0 /\ chan = <<>>
  /\ \A s, t \in Senders : HoldsPermit(s) /\ HoldsPermit(t) => s = t
  /\ Len(chan) <= 1
  /\ chan # <<>> => free = 0 /\ rxOpen

\* What the body holds is within the bound on inbound messages.
ItemInv == bpc = "taken" => item \in Items /\ (item \in {"ok", "bad"} => count < MaxInbound)

\* Rows and acks determine each other.
RowInv ==
  /\ \A s \in Senders :
       spc[s] \in {"stored", "acked"} => ack[s] \in DOMAIN store /\ store[ack[s]] = Out(s)
  /\ \A i \in DOMAIN store, s \in Senders :
       store[i] = Out(s) => spc[s] \in {"stored", "acked"} /\ ack[s] = i

\* The wire, then the channel, then the sender between its two steps.
WireInv ==
  /\ \A i \in DOMAIN wire : IsOut(wire[i])
  /\ \A i \in DOMAIN chan : IsOut(chan[i])
  /\ \A i, j \in DOMAIN wire : i < j => wire[i] < wire[j]
  /\ \A i \in DOMAIN wire, j \in DOMAIN chan : wire[i] < chan[j]
  /\ \A s \in Senders : spc[s] = "stored" => \A i \in DOMAIN wire : wire[i] < ack[s]

\* What has closed the outbound side stays visible to a sender that calls later.
LateInv ==
  /\ cpc # "idle" => cancelled
  /\ hpc # "idle" => ~tx
  /\ \A s \in late : spc[s] \in {"called", "refused"} /\ (cancelled \/ ~tx)

Readable(e) == e.type = "message" => e.index \in DOMAIN store /\ store[e.index] = In

\* The events out and the one on its way name stored inbound rows; their
\* indices grow.
EventInv ==
  /\ \A k \in DOMAIN events : Readable(events[k])
  /\ bpc \in {"emit", "deliver"} => pending # None /\ Readable(pending)

\* Until a cancel the body's place determines how far the log has got.
GrammarInv ==
  (~cancelled \/ bpc = "deliver") =>
    /\ bpc \in {"start", "startPoll"} => events = <<Opened>> /\ count = 0
    /\ bpc \in {"pump", "pumpPoll", "parked", "taken"} =>
         /\ events[Len(events)].type \in {"headers", "message"}
         /\ Len(events) = count + 2
    /\ bpc \in {"emit", "deliver"} =>
         /\ Protocol!CanFollow(events, pending)
         /\ pending = Headers => Len(events) = 1 /\ count = 0
         /\ pending.type = "message" => Len(events) = count + 1

\* Whoever waits after the wake-up was sent has received it.
WakeInv == (bpc \in {"wake", "done"} => terminated) /\ NobodyLeftParked

Over == bpc \in {"dropTx", "setFlag", "wake", "done"}

\* message_count is the number of inbound rows, and with an End out the pump is left.
CountInv ==
  /\ count = Cardinality(InboundRows)
  /\ bpc \in {"emit", "deliver"} /\ pending.type = "end" => pending.count = count
  /\ \A k \in DOMAIN events : events[k].type = "end" => events[k].count = count /\ Over

\* The Notify of a cancel that returned keeps its permit until the body takes it, so
\* the body polls the inbound stream again only if it had begun to.
CancelInv ==
  /\ cpc = "returned" => cancelPermit \/ Over
  /\ cpc # "returned" => lateRows = 0
  /\ lateRows = 0 \/ (lateRows = 1 /\ bpc \notin {"pumpPoll", "taken"})

IInv == /\ TypeOK /\ SlotInv /\ ItemInv /\ RowInv /\ WireInv /\ LateInv /\ WakeInv
        /\ EventInv /\ events # <<>> /\ GrammarInv
        /\ NothingLostWhileOpen /\ CountInv /\ CancelInv

=============================================================================
